---------------------------- MODULE BackupReport ----------------------------
(***************************************************************************)
(* What the agent's backup collector makes of the two files the backup     *)
(* jobs leave behind, and what the server then shows: the running gauge of *)
(* each repository, the state of the collector and the inventory.  The     *)
(* jobs are another process; here they only write their files, end and     *)
(* die (BackupJobs says how).  A batch reaches the server or, when the     *)
(* spool overflows, does not.                                              *)
(*                                                                         *)
(* The content of a status file is the number of the run that wrote it,    *)
(* and so is its fingerprint (mtime and size).  Times are kept as ages,    *)
(* which stop at the limit the code compares them with.                    *)
(***************************************************************************)
EXTENDS Naturals, FiniteSets

CONSTANTS
    BrRepos,
    BrLive,      \* backupProgressLiveWindow, in ticks
    BrResend,    \* backupInventoryInterval, in ticks
    BrStale,     \* backupStatusStaleAfter, in ticks
    BrMaxRuns,   \* model bound: the backup runs
    BrMaxFault,  \* model bound: agent restarts and lost batches
    BrNone, BrBad \* no repository, no file; a file that does not parse

ASSUME BrAssumption ==
    /\ BrNone \notin BrRepos \cup {BrBad}
    /\ BrLive \in Nat \ {0} /\ BrResend \in Nat \ {0} /\ BrStale \in Nat \ {0}
    /\ BrMaxRuns \in Nat /\ BrMaxFault \in Nat

VARIABLES
    brRun,    \* the repository a run is at, BrNone
    brRuns,   \* how many runs there were
    brProg,   \* the progress file: repo and age
    brFile,   \* the status file: data and age; data is BrNone when there is none
    brMem,    \* the collector: cached data, inventory sent and its age, repository running, state
    brHas,    \* what this tick is about to send: gauges and inventory
    brServer, \* the server: gauge per repository, inventory
    brPc,     \* the tick of the runner: "idle", "status", "send"
    brForgot, \* history: the agent restarted while a gauge was up
    brFaults

brVars == <<brRun, brRuns, brProg, brFile, brMem, brHas, brServer, brPc, brForgot, brFaults>>

BrNoProg == [repo |-> BrNone, age |-> 0]
BrOlder(age, limit) == IF age < limit THEN age + 1 ELSE age
\* newBackupCollector
BrFresh == [data |-> BrNone, sent |-> BrNone, age |-> 0, running |-> BrNone, state |-> "unknown"]
BrNothing == [down |-> BrNone, up |-> BrNone, inventory |-> BrNone]

BrInit ==
    /\ brRun = BrNone /\ brRuns = 0 /\ brProg = BrNoProg
    /\ brFile = [data |-> BrNone, age |-> 0]
    /\ brMem = BrFresh /\ brHas = BrNothing
    /\ brServer = [gauge |-> [r \in BrRepos |-> 0], inventory |-> BrNone]
    /\ brPc = "idle" /\ brForgot = FALSE /\ brFaults = 0

BrFault == brFaults < BrMaxFault /\ brFaults' = brFaults + 1
----------------------------------------------------------------------------
(* The jobs, as the collector sees them. *)

BrRunStarts ==
    /\ brRun = BrNone /\ brRuns < BrMaxRuns
    /\ brRuns' = brRuns + 1
    /\ \E r \in BrRepos : brRun' = r /\ brProg' = [repo |-> r, age |-> 0]
    /\ UNCHANGED <<brFile, brMem, brHas, brServer, brPc, brForgot, brFaults>>

\* startRepo of the next repository
BrNextRepo ==
    /\ brRun # BrNone
    /\ \E r \in BrRepos \ {brRun} : brRun' = r /\ brProg' = [repo |-> r, age |-> 0]
    /\ UNCHANGED <<brRuns, brFile, brMem, brHas, brServer, brPc, brForgot, brFaults>>

\* The status file is replaced, then the progress file removed.
BrRunEnds ==
    /\ brRun # BrNone
    /\ brRun' = BrNone /\ brProg' = BrNoProg
    /\ brFile' = [data |-> brRuns, age |-> 0]
    /\ UNCHANGED <<brRuns, brMem, brHas, brServer, brPc, brForgot, brFaults>>

\* The run is killed; its progress file stays.
BrRunDies ==
    /\ brRun # BrNone /\ BrFault
    /\ brRun' = BrNone
    /\ UNCHANGED <<brRuns, brProg, brFile, brMem, brHas, brServer, brPc, brForgot>>

\* Something else damages the status file, or an operator removes it.
BrDamage ==
    /\ brFile.data # BrNone /\ BrFault
    /\ brFile' \in {[data |-> BrBad, age |-> 0], [data |-> BrNone, age |-> 0]}
    /\ UNCHANGED <<brRun, brRuns, brProg, brMem, brHas, brServer, brPc, brForgot>>
----------------------------------------------------------------------------
(* The collector: Collect, then CollectBackups, then the batch is sent. *)

\* A file counts as live for ever.
MutLive == brProg.repo # BrNone

\* backupProgressPoints: the file is there and young
Live == brProg.repo # BrNone /\ brProg.age < BrLive

\* backupProgressPoints and swapRunningRepo: the previous repository's gauge goes down
ProgressPoints ==
    /\ brHas' = [brHas EXCEPT !.up = IF Live THEN brProg.repo ELSE BrNone,
                              !.down = IF brMem.running # BrNone /\ (~Live \/ brMem.running # brProg.repo)
                                       THEN brMem.running ELSE BrNone]
    /\ brMem' = [brMem EXCEPT !.running = IF Live THEN brProg.repo ELSE BrNone]

BrCollect ==
    /\ brPc = "idle" /\ ProgressPoints
    /\ brPc' = "status"
    /\ UNCHANGED <<brRun, brRuns, brProg, brFile, brServer, brForgot, brFaults>>

\* readBackupStatus: what the collector holds after it
ReadStatus ==
    IF brFile.data \in {BrNone, BrBad}
    THEN [brMem EXCEPT !.data = BrNone,
                       !.state = IF brFile.data = BrNone THEN "not_configured" ELSE "error"]
    ELSE [brMem EXCEPT !.data = brFile.data, !.state = IF brFile.age > BrStale THEN "stale" ELSE "ok"]

\* shouldAttachInventory
Attach(m) == m.data # BrNone /\ (m.sent # m.data \/ m.age >= BrResend)

\* The rest of Collect, and CollectBackups
BrCollectBackups ==
    /\ brPc = "status"
    /\ LET m == ReadStatus
       IN IF Attach(m)
          THEN /\ brMem' = [m EXCEPT !.sent = m.data, !.age = 0]
               /\ brHas' = [brHas EXCEPT !.inventory = m.data]
          ELSE brMem' = m /\ UNCHANGED brHas
    /\ brPc' = "send"
    /\ UNCHANGED <<brRun, brRuns, brProg, brFile, brServer, brForgot, brFaults>>

BrSend ==
    /\ brPc = "send"
    /\ brServer' = [gauge |-> [r \in BrRepos |-> IF r = brHas.up THEN 1 ELSE IF r = brHas.down THEN 0
                                                ELSE brServer.gauge[r]],
                    inventory |-> IF brHas.inventory = BrNone THEN brServer.inventory ELSE brHas.inventory]
    /\ brHas' = BrNothing /\ brPc' = "idle"
    /\ UNCHANGED <<brRun, brRuns, brProg, brFile, brMem, brForgot, brFaults>>

\* The batch is pushed out of the spool; a gauge that should have gone down is not repeated.
BrLose ==
    /\ brPc = "send" /\ BrFault
    /\ brHas' = BrNothing /\ brPc' = "idle"
    /\ brForgot' = (brForgot \/ brHas.down # BrNone)
    /\ UNCHANGED <<brRun, brRuns, brProg, brFile, brMem, brServer>>

\* The agent restarts; a gauge that is up is forgotten.
BrRestart ==
    /\ BrFault
    /\ brMem' = BrFresh /\ brHas' = BrNothing /\ brPc' = "idle"
    /\ brForgot' = (brForgot \/ \E r \in BrRepos : brServer.gauge[r] = 1)
    /\ UNCHANGED <<brRun, brRuns, brProg, brFile, brServer>>

\* Time passes; a run that is under way writes its progress within the tick.
BrTick ==
    /\ brProg' = IF brRun # BrNone THEN [brProg EXCEPT !.age = 0] ELSE [brProg EXCEPT !.age = BrOlder(@, BrLive)]
    /\ brFile' = [brFile EXCEPT !.age = BrOlder(@, BrStale + 1)]
    /\ brMem' = [brMem EXCEPT !.age = BrOlder(@, BrResend)]
    /\ UNCHANGED <<brRun, brRuns, brHas, brServer, brPc, brForgot, brFaults>>

BrNext ==
    \/ BrRunStarts \/ BrNextRepo \/ BrRunEnds \/ BrRunDies \/ BrDamage
    \/ BrCollect \/ BrCollectBackups \/ BrSend \/ BrLose \/ BrRestart \/ BrTick

\* The runner ticks for ever, time passes, a restic command ends.
BrFairness ==
    /\ WF_brVars(BrCollect) /\ WF_brVars(BrCollectBackups) /\ WF_brVars(BrSend)
    /\ WF_brVars(BrTick) /\ WF_brVars(BrRunEnds)

BrSpec == BrInit /\ [][BrNext]_brVars
BrFairSpec == BrSpec /\ BrFairness
----------------------------------------------------------------------------
\* The collector's memory and its batch are well formed; it caches no unreadable file.
BrTypeOK ==
    /\ brMem.data # BrBad /\ brMem.age \in 0..BrResend /\ brProg.age \in 0..BrLive
    /\ brMem.state \in {"unknown", "not_configured", "error", "stale", "ok"}
    /\ brPc \in {"idle", "status", "send"}
    /\ brServer.gauge \in [BrRepos -> 0..1]

(***************************************************************************)
(* When no backup runs any more, no repository is shown as running: each   *)
(* gauge that went up is taken down again, also after a run that was       *)
(* killed and left its progress file.  The collector remembers only in     *)
(* memory what it has up, and says so once: a restart of the agent or a    *)
(* lost batch at that moment leaves the gauge up.                          *)
(***************************************************************************)
GaugesComeDown == <>[](brForgot \/ \A r \in BrRepos : brServer.gauge[r] = 0)

(***************************************************************************)
(* The server ends up with the inventory of the last readable status file, *)
(* although an inventory is marked as attached before its batch is sent    *)
(* and the batch may be lost.                                              *)
(***************************************************************************)
InventoryArrives == <>[](brFile.data \in {BrNone, BrBad} \/ brServer.inventory = brFile.data)

(***************************************************************************)
(* Two repositories are shown as running together only when the gauge of   *)
(* one was forgotten.                                                      *)
(***************************************************************************)
OneGaugeUp == brForgot \/ Cardinality({r \in BrRepos : brServer.gauge[r] = 1}) <= 1

\* The server's picture of the backups becomes the host's, and never shows two runs at a time.
ReportConverges == [](BrTypeOK /\ OneGaugeUp) /\ GaugesComeDown /\ InventoryArrives
=============================================================================
