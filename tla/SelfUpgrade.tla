---------------------------- MODULE SelfUpgrade ----------------------------
(***************************************************************************)
(* How one host's agent replaces its own binary.  The ingest handler       *)
(* records the version a batch reports (Touch), decides whether the host   *)
(* is stalled and answers with a ControlUpdate; the control loop of main   *)
(* turns an update into upgrade.Run, which downloads, verifies, swaps the  *)
(* resident binary and then writes the attestation next to it; the service *)
(* manager restarts whatever binary is in place.  A privileged job copies  *)
(* an attested resident binary over the root-owned one (SyncPrivileged).   *)
(*                                                                         *)
(* A binary is its version number; Unsigned is one no signature matches,   *)
(* 0 a missing file.  A signature is the version it attests.               *)
(***************************************************************************)
EXTENDS Naturals, FiniteSets

CONSTANTS
    UpMaxVersion,  \* the versions are 1..UpMaxVersion
    UpMinRemote,   \* minRemoteUpgradeVersion
    UpMaxFault,    \* model bound: crashes and damaged files
    UpMaxOperator  \* model bound: server restarts and operator requests

ASSUME UpAssumption ==
    /\ UpMaxVersion \in Nat \ {0} /\ UpMinRemote \in Nat
    /\ UpMaxFault \in Nat /\ UpMaxOperator \in Nat

VARIABLES
    upServer,   \* version.Version of the server process
    upRow,      \* the hosts row: auto, req, stall, disp, ver
    upFile,     \* self, old, sig, pin: files of the resident agent
    upProc,     \* the agent process: run, pc, latest, failed, wait, ctl, pin, bin
    upPriv,     \* the privileged binary and the job that replaces it
    upHost,     \* windows, managed: what the host is
    upGhost,    \* lost, torn, altered: what the faults have left behind
    upFaults, upOperator

upVars == <<upServer, upRow, upFile, upProc, upPriv, upHost, upGhost, upFaults, upOperator>>

UpVersion == 1..UpMaxVersion
Unsigned == UpMaxVersion + 1

NoControl == [latest |-> 0, auto |-> FALSE, now |-> FALSE]

\* The process right after the service manager has started binary v.
UpProcess(v, pin) ==
    [run |-> v, pc |-> "idle", latest |-> 0, failed |-> 0, wait |-> FALSE,
     ctl |-> NoControl, pin |-> pin, bin |-> 0]

\* A host as the installer leaves it: both copies are the same, nothing is attested.
UpInit ==
    /\ upServer = 1
    /\ upRow = [auto |-> TRUE, req |-> FALSE, stall |-> "none", disp |-> FALSE, ver |-> 1]
    /\ \E pin \in BOOLEAN :
         /\ upFile = [self |-> 1, old |-> 0, sig |-> 0, pin |-> pin]
         /\ upProc = UpProcess(1, pin)
    /\ upPriv = [bin |-> 1, old |-> 0, pc |-> "idle", sig |-> 0, new |-> 0]
    /\ upHost \in {h \in [windows : BOOLEAN, managed : BOOLEAN] : ~(h.windows /\ h.managed)}
    /\ upGhost = [lost |-> FALSE, torn |-> FALSE, altered |-> FALSE]
    /\ upFaults = 0 /\ upOperator = 0

UpFault == upFaults < UpMaxFault /\ upFaults' = upFaults + 1
UpOperates == upOperator < UpMaxOperator /\ upOperator' = upOperator + 1

----------------------------------------------------------------------------
(* The server. *)

\* The server is restarted with another version; a roll-back is one too.
UpServerRestart ==
    /\ UpOperates
    /\ upServer' \in UpVersion \ {upServer}
    /\ UNCHANGED <<upRow, upFile, upProc, upPriv, upHost, upGhost, upFaults>>

\* Hosts.Update with an AutoUpgrade
UpSetAuto ==
    /\ UpOperates
    /\ \E auto \in BOOLEAN :
         LET clear == ~auto /\ ~upRow.req
         IN upRow' = [upRow EXCEPT !.auto = auto,
                                   !.stall = IF clear THEN "none" ELSE @,
                                   !.disp = IF clear THEN FALSE ELSE @]
    /\ UNCHANGED <<upServer, upFile, upProc, upPriv, upHost, upGhost, upFaults>>

\* requestHostUpgradeHandler and RequestUpgrade
UpRequest ==
    /\ UpOperates
    /\ ~upHost.managed /\ upRow.ver >= UpMinRemote /\ upServer > upRow.ver
    /\ upRow' = [upRow EXCEPT !.req = TRUE, !.stall = "none", !.disp = FALSE]
    /\ UNCHANGED <<upServer, upFile, upProc, upPriv, upHost, upGhost, upFaults>>

ShouldSelfUpgrade(v) == v >= UpMinRemote /\ upServer > v

\* Mutant: every report starts the stall clock again.
MutTouch(v) ==
    LET waits == /\ ShouldSelfUpgrade(v) /\ ~upHost.managed
                 /\ upRow.disp \/ upRow.auto \/ upRow.req
    IN [upRow EXCEPT !.ver = v, !.disp = waits, !.stall = IF waits THEN "recent" ELSE "none"]

\* Hosts.Touch for a batch of version v: the row after it
Touch(v) ==
    LET waits == /\ ShouldSelfUpgrade(v) /\ ~upHost.managed
                 /\ upRow.disp \/ upRow.auto \/ upRow.req
        stall == IF upRow.ver # v \/ upRow.stall = "none" THEN "recent" ELSE upRow.stall
    IN [upRow EXCEPT !.ver = v, !.disp = waits, !.stall = IF waits THEN stall ELSE "none"]

\* The rest of ingestHandler: the answer, and the request that is done
Answer(v, row) ==
    [row |-> [row EXCEPT !.req = @ /\ upServer > v],
     ctl |-> [latest |-> upServer, auto |-> row.auto /\ row.stall # "old",
              now |-> row.req /\ upServer > v /\ row.stall # "old"]]

\* A batch is ingested.  A spooled one may be of an older version; the answer
\* replaces what the control channel holds, or is lost on the way.
UpReport ==
    /\ upProc.run # 0
    /\ \E v \in {upProc.run} \cup (IF upFaults < UpMaxFault THEN 1..upProc.run ELSE {}), lost \in BOOLEAN :
         LET a == Answer(v, Touch(v))
         IN /\ upRow' = a.row
            /\ upProc' = IF lost THEN upProc ELSE [upProc EXCEPT !.ctl = a.ctl]
            /\ upFaults' = IF lost \/ v # upProc.run THEN upFaults + 1 ELSE upFaults
            /\ upFaults' <= UpMaxFault
    /\ UNCHANGED <<upServer, upFile, upPriv, upHost, upGhost, upOperator>>

\* upgradeStallWindow passes.
UpStallAges ==
    /\ upRow.stall = "recent"
    /\ upRow' = [upRow EXCEPT !.stall = "old"]
    /\ UNCHANGED <<upServer, upFile, upProc, upPriv, upHost, upGhost, upFaults, upOperator>>

----------------------------------------------------------------------------
(* The control loop of main and upgrade.Run. *)

\* The update names a newer version this agent may take.
Eligible(u) == u.latest > upProc.run /\ ~upHost.managed /\ (u.auto \/ u.now)

\* The update leads to an attempt.
Wants(u) ==
    /\ Eligible(u)
    /\ u.now \/ u.latest # upProc.failed \/ ~upProc.wait

\* setIfEmpty and persistServerPubkey: the key of the first answer is kept in
\* memory; saving it in agent.toml may fail.
PinnedFiles(pin) ==
    IF pin /\ ~upProc.pin THEN {upFile, [upFile EXCEPT !.pin = TRUE]} ELSE {upFile}

\* ControlUpdates delivers an update.
UpControl ==
    /\ upProc.pc = "idle" /\ upProc.ctl # NoControl
    /\ LET u == upProc.ctl
           pin == upProc.pin \/ ~upHost.managed
           go == Wants(u)
           other == Eligible(u)
       IN /\ upProc' = [upProc EXCEPT
                          !.ctl = NoControl, !.pin = pin,
                          !.failed = IF other /\ @ # u.latest THEN 0 ELSE @,
                          !.wait = IF other /\ upProc.failed # u.latest THEN FALSE ELSE @,
                          !.pc = IF go THEN "download" ELSE "idle",
                          !.latest = IF go THEN u.latest ELSE 0]
          /\ upFile' \in PinnedFiles(pin)
    /\ UNCHANGED <<upServer, upRow, upPriv, upHost, upGhost, upFaults, upOperator>>

\* Run returns an error: back off.
Failed == [upProc EXCEPT !.pc = "idle", !.failed = upProc.latest, !.wait = TRUE,
                         !.latest = 0, !.bin = 0]

\* downloadAgentHandler refuses, the connection breaks, there is no key to
\* verify with, or the resident path no longer resolves.
UpDownloadFails ==
    /\ upProc.pc = "download"
    /\ upProc' = Failed
    /\ UNCHANGED <<upServer, upRow, upFile, upPriv, upHost, upGhost, upFaults, upOperator>>

\* agentsig.Verify over the digest of the staged bytes
Verified(bin, sig) == bin = sig

\* What downloadAgentHandler serves: the embedded binary and its signature.
\* The bytes may arrive damaged.
Served == {[bytes |-> b, sig |-> upServer] : b \in {upServer, Unsigned}}

\* The answer of the server as it is now is staged and verified.
UpDownload ==
    /\ upProc.pc = "download" /\ upProc.pin /\ upFile.self # 0
    /\ \E resp \in Served :
         upProc' = IF Verified(resp.bytes, resp.sig)
                   THEN [upProc EXCEPT !.pc = "swap", !.bin = resp.bytes] ELSE Failed
    /\ UNCHANGED <<upServer, upRow, upFile, upPriv, upHost, upGhost, upFaults, upOperator>>

\* swap on Unix: one rename
UpSwap ==
    /\ upProc.pc = "swap" /\ ~upHost.windows
    /\ upFile' = [upFile EXCEPT !.self = upProc.bin]
    /\ upProc' = [upProc EXCEPT !.pc = "attest"]
    /\ upGhost' = [upGhost EXCEPT !.torn = TRUE]
    /\ UNCHANGED <<upServer, upRow, upPriv, upHost, upFaults, upOperator>>

\* swap on Windows: the running binary is moved out of the way ...
UpMoveAway ==
    /\ upProc.pc = "swap" /\ upHost.windows
    /\ upFile' = [upFile EXCEPT !.self = 0, !.old = upFile.self]
    /\ upProc' = [upProc EXCEPT !.pc = "moved"]
    /\ UNCHANGED <<upServer, upRow, upPriv, upHost, upGhost, upFaults, upOperator>>

\* ... and the new one takes its place,
UpMoveIn ==
    /\ upProc.pc = "moved"
    /\ upFile' = [upFile EXCEPT !.self = upProc.bin]
    /\ upProc' = [upProc EXCEPT !.pc = "attest"]
    /\ upGhost' = [upGhost EXCEPT !.torn = TRUE]
    /\ UNCHANGED <<upServer, upRow, upPriv, upHost, upFaults, upOperator>>

\* or it does not: the old one is moved back, which may fail too.
UpMoveInFails ==
    /\ upProc.pc = "moved" /\ UpFault
    /\ upProc' = Failed
    /\ \/ /\ upFile' = [upFile EXCEPT !.self = upFile.old, !.old = 0]
          /\ UNCHANGED upGhost
       \/ /\ upGhost' = [upGhost EXCEPT !.lost = TRUE]
          /\ UNCHANGED upFile
    /\ UNCHANGED <<upServer, upRow, upPriv, upHost, upOperator>>

\* writeSignatureAtomic; Run returns nil
UpAttest ==
    /\ upProc.pc = "attest"
    /\ upFile' = [upFile EXCEPT !.sig = upProc.bin]
    /\ upGhost' = [upGhost EXCEPT !.torn = FALSE, !.altered = FALSE]
    /\ upProc' = [upProc EXCEPT !.pc = "exit"]
    /\ UNCHANGED <<upServer, upRow, upPriv, upHost, upFaults, upOperator>>

\* writeSignatureAtomic fails, which is only logged.
UpAttestFails ==
    /\ upProc.pc = "attest" /\ UpFault
    /\ upProc' = [upProc EXCEPT !.pc = "exit"]
    /\ UNCHANGED <<upServer, upRow, upFile, upPriv, upHost, upGhost, upOperator>>

\* cancel() and os.Exit(exitCodeUpgrade)
UpExit ==
    /\ upProc.pc = "exit"
    /\ upProc' = UpProcess(0, FALSE)
    /\ UNCHANGED <<upServer, upRow, upFile, upPriv, upHost, upGhost, upFaults, upOperator>>

\* nextAttempt passes (upgradeBackoff).
UpBackoffEnds ==
    /\ upProc.run # 0 /\ upProc.wait
    /\ upProc' = [upProc EXCEPT !.wait = FALSE]
    /\ UNCHANGED <<upServer, upRow, upFile, upPriv, upHost, upGhost, upFaults, upOperator>>

\* The process or the machine dies.
UpCrash ==
    /\ upProc.run # 0 /\ UpFault
    /\ upProc' = UpProcess(0, FALSE)
    /\ upGhost' = [upGhost EXCEPT !.lost = @ \/ upProc.pc = "moved"]
    /\ UNCHANGED <<upServer, upRow, upFile, upPriv, upHost, upOperator>>

\* The service manager starts the binary that is in place; a damaged one does not run.
UpStart ==
    /\ upProc.run = 0 /\ upFile.self \in UpVersion
    /\ upProc' = UpProcess(upFile.self, upFile.pin)
    /\ UNCHANGED <<upServer, upRow, upFile, upPriv, upHost, upGhost, upFaults, upOperator>>

----------------------------------------------------------------------------
(* The privileged job. *)

\* The resident directory belongs to the agent's user: SyncPrivileged treats
\* the binary and the attestation there as if anybody had written them.
UpResidentAltered ==
    /\ UpFault /\ upProc.pc \in {"idle", "download"}
    /\ \E bin \in UpVersion \cup {Unsigned}, sig \in {0} \cup UpVersion :
         /\ upFile.self # 0
         /\ upFile' = [upFile EXCEPT !.self = bin, !.sig = sig]
         /\ upGhost' = [upGhost EXCEPT !.altered = TRUE]
    /\ UNCHANGED <<upServer, upRow, upProc, upPriv, upHost, upOperator>>

\* syncPrivilegedTarget reads the attestation; without one it is done.
SyncRead ==
    /\ upPriv.pc = "idle" /\ upPriv.bin # 0 /\ upFile.sig # 0
    /\ upPriv' = [upPriv EXCEPT !.pc = "copy", !.sig = upFile.sig]
    /\ UNCHANGED <<upServer, upRow, upFile, upProc, upHost, upGhost, upFaults, upOperator>>

\* Mutant: any signed binary is good enough.
MutPromotes(bin, sig) == Verified(bin, sig)

\* The private copy matches the attestation and is newer than this program.
Promotes(bin, sig) == Verified(bin, sig) /\ bin > upPriv.bin

\* copyStagedBinary and the checks of the copy
SyncCopy ==
    /\ upPriv.pc = "copy"
    /\ upPriv' = IF Promotes(upFile.self, upPriv.sig)
                 THEN [upPriv EXCEPT !.pc = "swap", !.new = upFile.self]
                 ELSE [upPriv EXCEPT !.pc = "idle", !.sig = 0]
    /\ UNCHANGED <<upServer, upRow, upFile, upProc, upHost, upGhost, upFaults, upOperator>>

SyncEnd(bin) == [bin |-> bin, old |-> 0, pc |-> "idle", sig |-> 0, new |-> 0]

\* swap of the privileged binary, by one rename or by two
SyncSwap ==
    /\ upPriv.pc = "swap"
    /\ upPriv' = IF upHost.windows
                 THEN [upPriv EXCEPT !.pc = "moved", !.old = upPriv.bin, !.bin = 0]
                 ELSE SyncEnd(upPriv.new)
    /\ UNCHANGED <<upServer, upRow, upFile, upProc, upHost, upGhost, upFaults, upOperator>>

SyncMoveIn ==
    /\ upPriv.pc = "moved"
    /\ upPriv' = SyncEnd(upPriv.new)
    /\ UNCHANGED <<upServer, upRow, upFile, upProc, upHost, upGhost, upFaults, upOperator>>

\* An error or a crash of the job: before the swap it leaves nothing behind,
\* inside it the roll-back may be missing.
SyncFails ==
    /\ upPriv.pc # "idle" /\ UpFault
    /\ \/ /\ upPriv' = SyncEnd(IF upPriv.pc = "moved" THEN upPriv.old ELSE upPriv.bin)
          /\ UNCHANGED upGhost
       \/ /\ upPriv.pc = "moved" /\ upPriv' = SyncEnd(0)
          /\ upGhost' = [upGhost EXCEPT !.lost = TRUE]
    /\ UNCHANGED <<upServer, upRow, upFile, upProc, upHost, upOperator>>

UpNext ==
    \/ UpServerRestart \/ UpSetAuto \/ UpRequest \/ UpReport \/ UpStallAges
    \/ UpControl \/ UpDownload \/ UpDownloadFails \/ UpSwap \/ UpMoveAway \/ UpMoveIn
    \/ UpMoveInFails \/ UpAttest \/ UpAttestFails \/ UpExit \/ UpBackoffEnds \/ UpCrash
    \/ UpStart \/ UpResidentAltered \/ SyncRead \/ SyncCopy \/ SyncSwap \/ SyncMoveIn \/ SyncFails

(***************************************************************************)
(* The runner posts every interval, the service manager restarts, timers   *)
(* fire, and a step of Run that can be taken is taken.  Nothing is assumed *)
(* of the outcome of a download.                                           *)
(***************************************************************************)
UpFairness ==
    /\ WF_upVars(UpReport) /\ WF_upVars(UpControl) /\ WF_upVars(UpDownload \/ UpDownloadFails)
    /\ WF_upVars(UpSwap \/ UpMoveAway) /\ WF_upVars(UpMoveIn) /\ WF_upVars(UpAttest)
    /\ WF_upVars(UpExit) /\ WF_upVars(UpStart) /\ WF_upVars(UpBackoffEnds) /\ WF_upVars(UpStallAges)
    /\ WF_upVars(SyncRead) /\ WF_upVars(SyncCopy) /\ WF_upVars(SyncSwap) /\ WF_upVars(SyncMoveIn)

UpSpec == UpInit /\ [][UpNext]_upVars
UpFairSpec == UpSpec /\ UpFairness
----------------------------------------------------------------------------
\* Rows, files and processes are well formed.
UpTypeOK ==
    /\ upServer \in UpVersion
    /\ upRow \in [auto : BOOLEAN, req : BOOLEAN, stall : {"none", "recent", "old"},
                  disp : BOOLEAN, ver : UpVersion]
    /\ upFile \in [self : 0..Unsigned, old : 0..Unsigned, sig : 0..UpMaxVersion, pin : BOOLEAN]
    /\ upProc \in [run : 0..UpMaxVersion, latest : 0..UpMaxVersion, failed : 0..UpMaxVersion,
                   pc : {"idle", "download", "swap", "moved", "attest", "exit"},
                   wait : BOOLEAN, pin : BOOLEAN, bin : 0..Unsigned,
                   ctl : [latest : 0..UpMaxVersion, auto : BOOLEAN, now : BOOLEAN]]
    /\ upPriv \in [bin : 0..Unsigned, old : 0..Unsigned, pc : {"idle", "copy", "swap", "moved"},
                   sig : 0..UpMaxVersion, new : 0..Unsigned]

(***************************************************************************)
(* swap leaves a binary to start: the resident path is empty only between  *)
(* the two renames of the Windows swap, or after a crash or a failed       *)
(* roll-back there; a failed download or a failed rename never ends so.    *)
(***************************************************************************)
ResidentCanStart ==
    upFile.self = 0 => upHost.windows /\ (upProc.pc = "moved" \/ upGhost.lost)

(***************************************************************************)
(* SyncPrivileged replaces the privileged binary only by a newer one that  *)
(* carries the server's signature, whatever the resident directory held    *)
(* when the attestation was read and whatever it held when the binary was  *)
(* copied: no replayed release and no unsigned bytes.                      *)
(***************************************************************************)
PrivilegedOnlyAdvances ==
    LET had == IF upPriv.pc = "moved" THEN upPriv.old ELSE upPriv.bin
    IN upPriv'.bin # 0 => upPriv'.bin \in UpVersion /\ upPriv'.bin >= had

\* The server has told the host to upgrade and still waits (hostDTO.Upgrading).
Waiting == upServer > upRow.ver /\ upRow.stall # "old" /\ (upRow.auto \/ upRow.req)

(***************************************************************************)
(* No host waits for ever: after the last change of an operator, an agent  *)
(* that should upgrade by itself runs the server's version or a newer one, *)
(* or the host is shown as stalled, or its binary was lost or damaged.     *)
(***************************************************************************)
UpgradeArrivesOrStalls ==
    <>[](~Waiting \/ upHost.managed \/ upGhost.lost \/ upGhost.altered)

(***************************************************************************)
(* The privileged copy follows the resident one, unless the attestation of *)
(* the resident binary was never written (a crash or an error between swap *)
(* and writeSignatureAtomic) or somebody replaced the files.               *)
(***************************************************************************)
PrivilegedFollows ==
    <>[](\/ upPriv.bin >= upFile.self
         \/ upGhost.torn \/ upGhost.lost \/ upGhost.altered)

\* At every moment there is a binary to start, and the privileged one never goes back.
UpgradeIsSafe == [][UpTypeOK /\ ResidentCanStart /\ PrivilegedOnlyAdvances]_upVars

\* Both copies of the agent end at the version the server serves, or somebody is told.
UpgradesConverge == UpgradeArrivesOrStalls /\ PrivilegedFollows
=============================================================================
