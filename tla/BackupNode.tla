---------------------------- MODULE BackupNode ----------------------------
(***************************************************************************)
(* A host promoted to a storage node: the server's rows (the role, one     *)
(* repository, the peer allowed to reach it), the manager that polls them  *)
(* and runs the endpoint, its registry of targets, the bindings it keeps   *)
(* on disk to notice a name that is given to new data, uploads, and the    *)
(* reports of usage and health.  reconcile and reportUsage follow each     *)
(* other in one goroutine; uploads run beside them.                        *)
(***************************************************************************)
EXTENDS Naturals, FiniteSets

CONSTANTS
    NdUploads,    \* uploads served at a time
    NdQuota,      \* quota of the repository, 0 for none
    NdMaxSecret,  \* model bound: credentials ever made
    NdMaxOps,     \* model bound: operations of the operator
    NdMaxPosts,   \* model bound: uploads
    NdMaxFault    \* model bound: lost messages, failed writes, crashes

\* The repository has a credential from the start.
ASSUME NdAssumption ==
    /\ {NdQuota, NdMaxSecret, NdMaxOps, NdMaxPosts, NdMaxFault} \subseteq Nat
    /\ NdMaxSecret # 0

VARIABLES
    ndRole,     \* backup_nodes: 0, or the number of its settings
    ndRow,      \* the repository's row of backup_targets
    ndPeer,     \* the enrolled key of the host that backs up, 0 when there is none
    ndSecret,   \* the last credential made
    ndHealth,   \* NodeHealthCache
    ndPc,       \* where the manager is
    ndCfg,      \* the configuration it has fetched
    ndRt,       \* nodeRuntime: settings, the registry's target, the device's peers; roleActive
    ndBind,     \* repositoryBindings in memory: credential bound, warning pending
    ndFile,     \* repository-bindings.json: the credential bound to the name, NoEntry, 0 when there is no file
    ndError,    \* lastStartError
    ndMeasured, \* what RepoUsage returned
    ndSent,     \* the report under way
    ndStore,    \* bytes under the repository's name
    ndUp,       \* the uploads: the credential of each, and whether its target is still registered
    ndDemoting, \* Demote has found no repository in use
    ndOps, ndPosts, ndFaults,
    ndWrote,    \* history: the credentials under which the bytes were written
    ndTold,     \* history: credentials for which the server was shown a warning
    ndLost,     \* history: credentials whose warning was forgotten
    ndSkew      \* history: a measurement met an upload

ndVars == <<ndRole, ndRow, ndPeer, ndSecret, ndHealth, ndPc, ndCfg, ndRt, ndBind, ndFile, ndError, ndMeasured, ndSent,
            ndStore, ndUp, ndDemoting, ndOps, ndPosts, ndFaults, ndWrote, ndTold, ndLost, ndSkew>>
ndServer == <<ndRole, ndRow, ndPeer, ndSecret, ndHealth, ndDemoting>>
ndManager == <<ndPc, ndCfg, ndMeasured, ndSent>>
ndRunning == <<ndRt, ndBind, ndFile, ndError>>
ndDisk == <<ndStore, ndUp>>
ndBounds == <<ndOps, ndPosts, ndFaults>>
ndHistory == <<ndWrote, ndTold, ndLost, ndSkew>>

NoTarget == [secret |-> 0, revoked |-> FALSE, used |-> 0]
NoCfg == [role |-> 0, secret |-> 0, revoked |-> FALSE, peer |-> 0]
NoLocal == [secret |-> 0, revoked |-> FALSE, used |-> 0, ready |-> FALSE, dirty |-> FALSE]
Stopped == [spec |-> 0, target |-> NoLocal, peer |-> 0, active |-> FALSE]
NoUpload == [secret |-> 0, live |-> FALSE]
NoEntry == NdMaxSecret + 1
NoBind == [bound |-> 0, warn |-> FALSE]
NoReport == [active |-> FALSE, running |-> FALSE, used |-> 0, dirty |-> FALSE, complaint |-> FALSE]

\* A node that was promoted and given its repository, or one demoted after it was in use
NdInit ==
    /\ \/ /\ ndRole = 1 /\ ndRow = [NoTarget EXCEPT !.secret = 1]
          /\ ndStore = 0 /\ ndFile = 0 /\ ndWrote = {}
       \/ /\ ndRole = 0 /\ ndRow = [secret |-> 1, revoked |-> TRUE, used |-> 1]
          /\ ndStore = 1 /\ ndFile = 1 /\ ndWrote = {1}
    /\ ndPeer = 1 /\ ndSecret = 1 /\ ndHealth = "unknown" /\ ndDemoting = FALSE
    /\ ndPc = "idle" /\ ndCfg = NoCfg /\ ndMeasured = 0 /\ ndSent = NoReport
    /\ ndRt = Stopped /\ ndBind = NoBind /\ ndError = FALSE
    /\ ndUp = [u \in NdUploads |-> NoUpload]
    /\ ndOps = 0 /\ ndPosts = 0 /\ ndFaults = 0
    /\ ndTold = {} /\ ndLost = {} /\ ndSkew = FALSE

NdFault == ndFaults < NdMaxFault /\ ndFaults' = ndFaults + 1
----------------------------------------------------------------------------
(* reconcile *)

\* Every live peer of the host is let in, whatever became of the repository.
MutAllowed == ndPeer

\* The third query of ConfigForHost: peers of hosts with a repository here that is not revoked
Allowed == IF ndRow.secret # 0 /\ ~ndRow.revoked THEN ndPeer ELSE 0

\* fetchConfig: the role, which alone says that a host is no node, ...
NdFetch ==
    /\ ndPc = "idle"
    /\ \/ /\ ndCfg' = [NoCfg EXCEPT !.role = ndRole]
          /\ ndPc' = IF ndRole = 0 THEN "disable" ELSE "targets"
          /\ UNCHANGED ndFaults
       \/ NdFault /\ ndPc' = "report" /\ UNCHANGED ndCfg
    /\ UNCHANGED <<ndServer, ndMeasured, ndSent, ndRunning, ndDisk, ndOps, ndPosts, ndHistory>>

\* ... the targets, a query later ...
NdFetchTargets ==
    /\ ndPc = "targets"
    /\ \/ /\ ndCfg' = [ndCfg EXCEPT !.secret = ndRow.secret, !.revoked = ndRow.revoked]
          /\ ndPc' = "peers" /\ UNCHANGED ndFaults
       \/ NdFault /\ ndCfg' = NoCfg /\ ndPc' = "report"
    /\ UNCHANGED <<ndServer, ndMeasured, ndSent, ndRunning, ndDisk, ndOps, ndPosts, ndHistory>>

\* ... and then the peers; an answer that is lost, or enroll failing, ends the round.
NdFetchPeers ==
    /\ ndPc = "peers"
    /\ \/ /\ ndCfg' = [ndCfg EXCEPT !.peer = Allowed] /\ ndPc' = "apply"
          /\ ndRt' = [ndRt EXCEPT !.active = TRUE]
          /\ UNCHANGED ndFaults
       \/ /\ NdFault
          /\ ndCfg' = NoCfg /\ ndPc' = "report"
          /\ ndRt' \in {ndRt, [ndRt EXCEPT !.active = TRUE]}
    /\ UNCHANGED <<ndServer, ndMeasured, ndSent, ndBind, ndFile, ndError, ndDisk, ndOps, ndPosts, ndHistory>>

\* The usage ticker
NdUsageTick ==
    /\ ndPc = "idle"
    /\ ndPc' = "report"
    /\ UNCHANGED <<ndServer, ndCfg, ndMeasured, ndSent, ndRunning, ndDisk, ndBounds, ndHistory>>

Orphans == [u \in NdUploads |-> [ndUp[u] EXCEPT !.live = FALSE]]
Busy == \E u \in NdUploads : ndUp[u] # NoUpload

\* A pending warning whose binding is on disk is not raised again by the next runtime.
Forgotten == IF ndBind.warn /\ ndFile = ndBind.bound THEN {ndBind.bound} ELSE {}

\* stopLocked closes the connections; a handler past its body goes on, on a registry nobody reads.
NdDisable ==
    /\ ndPc = "disable"
    /\ ndUp' = IF ndRt.spec # 0 THEN Orphans ELSE ndUp
    /\ ndLost' = ndLost \cup Forgotten
    /\ ndRt' = Stopped /\ ndBind' = NoBind /\ ndError' = FALSE
    /\ ndPc' = "report" /\ ndCfg' = NoCfg
    /\ UNCHANGED <<ndServer, ndMeasured, ndSent, ndFile, ndStore, ndBounds, ndWrote, ndTold, ndSkew>>

\* loadRepositoryBindings: without a file the repositories configured now are adopted.
Bound(secret) ==
    CASE ndFile # 0 -> ndFile
      [] ndFile = 0 /\ secret # 0 -> secret
      [] OTHER -> NoEntry

\* observe: data under the name, and a credential that is not the one bound to it
Warns(bound, secret, bytes) == bytes > 0 /\ bound # secret

\* setUsed
Measured(used) == [ndRt.target EXCEPT !.used = used, !.ready = TRUE, !.dirty = TRUE]

\* RepoUsage of a runtime that starts
StartUsage == ndStore

\* stopLocked and startRuntime: new settings, or no runtime yet.  The endpoint opens after the measurement.
NdStart ==
    /\ ndPc = "apply" /\ ndRt.spec # ndCfg.role
    /\ ndUp' = Orphans
    /\ LET s == ndCfg.secret
       IN \/ /\ ndRt' = [spec |-> ndCfg.role, peer |-> ndCfg.peer, active |-> TRUE,
                         target |-> IF s = 0 THEN NoLocal
                                    ELSE [secret |-> s, revoked |-> ndCfg.revoked, used |-> StartUsage,
                                          ready |-> TRUE, dirty |-> TRUE]]
             /\ ndBind' = IF s = 0 THEN [bound |-> Bound(s), warn |-> FALSE]
                          ELSE [bound |-> s, warn |-> Warns(Bound(s), s, StartUsage)]
             /\ \/ ndFile' = ndBind'.bound /\ UNCHANGED ndFaults
                \/ NdFault /\ UNCHANGED ndFile
             /\ ndLost' = ndLost \cup Forgotten \cup (IF ndFile = 0 THEN {s} ELSE {})
             /\ ndError' = FALSE
          \/ /\ NdFault
             /\ ndRt' = [Stopped EXCEPT !.active = TRUE] /\ ndBind' = NoBind /\ ndError' = TRUE
             /\ \/ ndLost' = ndLost \cup Forgotten /\ UNCHANGED ndFile
                \/ /\ ndFile' = IF s = 0 THEN Bound(s) ELSE s   \* saved before the device listens
                   /\ ndLost' = ndLost \cup Forgotten \cup (IF ndFile = 0 \/ Warns(Bound(s), s, StartUsage) THEN {s} ELSE {})
    /\ ndSkew' = (ndSkew \/ Busy)
    /\ ndPc' = "report" /\ ndCfg' = NoCfg
    /\ UNCHANGED <<ndServer, ndMeasured, ndSent, ndStore, ndOps, ndPosts, ndWrote, ndTold>>

\* A credential that has changed is only noted.
MutNdReplace ==
    /\ ndPc = "apply" /\ ndRt.spec = ndCfg.role
    /\ LET t == ndRt.target
           known == t.secret # 0
       IN /\ ndRt' = [ndRt EXCEPT !.target =
                        IF ndCfg.secret = 0 THEN NoLocal
                        ELSE [t EXCEPT !.secret = ndCfg.secret, !.revoked = ndCfg.revoked]]
          /\ ndPc' = IF ndCfg.secret # 0 /\ (~known \/ ~t.ready) THEN "measure" ELSE "applyPeers"
          /\ ndBind' = IF ndCfg.secret = 0 THEN [ndBind EXCEPT !.warn = FALSE] ELSE ndBind
          /\ ndUp' = IF ndCfg.secret = 0 THEN Orphans ELSE ndUp
    /\ UNCHANGED <<ndServer, ndCfg, ndMeasured, ndSent, ndFile, ndError, ndStore, ndBounds, ndHistory>>

\* forgetUnconfigured and replaceTargets: a target that is new, not ready or bound anew is measured.
NdReplace ==
    /\ ndPc = "apply" /\ ndRt.spec = ndCfg.role
    /\ LET t == ndRt.target
           known == t.secret # 0
       IN /\ ndRt' = [ndRt EXCEPT !.target =
                        IF ndCfg.secret = 0 THEN NoLocal
                        ELSE [t EXCEPT !.secret = ndCfg.secret, !.revoked = ndCfg.revoked]]
          /\ ndPc' = IF ndCfg.secret # 0 /\ (~known \/ ~t.ready \/ t.secret # ndCfg.secret) THEN "measure" ELSE "applyPeers"
          /\ ndBind' = IF ndCfg.secret = 0 THEN [ndBind EXCEPT !.warn = FALSE] ELSE ndBind
          /\ ndUp' = IF ndCfg.secret = 0 THEN Orphans ELSE ndUp
    /\ UNCHANGED <<ndServer, ndCfg, ndMeasured, ndSent, ndFile, ndError, ndStore, ndBounds, ndHistory>>

\* RepoUsage; a failure leaves the peers to the next round, and the measurement too when the target is
\* not ready.  A ready one that was bound anew has its new credential by now and is not measured again.
NdMeasure ==
    /\ ndPc = "measure"
    /\ \/ ndMeasured' = ndStore /\ ndPc' = "observe" /\ UNCHANGED <<ndError, ndCfg, ndFaults, ndLost>>
       \/ /\ NdFault
          /\ ndError' = TRUE /\ ndPc' = "report" /\ ndCfg' = NoCfg
          /\ ndLost' = IF ndRt.target.ready THEN ndLost \cup {ndCfg.secret} ELSE ndLost
          /\ UNCHANGED ndMeasured
    /\ ndSkew' = (ndSkew \/ Busy)
    /\ UNCHANGED <<ndServer, ndSent, ndRt, ndBind, ndFile, ndDisk, ndOps, ndPosts, ndWrote, ndTold>>

\* observe, setUsed and save
NdObserve ==
    /\ ndPc = "observe"
    /\ ndBind' = [bound |-> ndCfg.secret, warn |-> Warns(ndBind.bound, ndCfg.secret, ndMeasured)]
    /\ ndRt' = [ndRt EXCEPT !.target = Measured(ndMeasured)]
    /\ \/ ndFile' = ndCfg.secret /\ UNCHANGED ndFaults
       \/ NdFault /\ UNCHANGED ndFile
    /\ ndError' = FALSE
    /\ ndPc' = "applyPeers" /\ ndMeasured' = 0
    /\ UNCHANGED <<ndServer, ndCfg, ndSent, ndDisk, ndOps, ndPosts, ndHistory>>

\* reconcilePeersLocked
NdApplyPeers ==
    /\ ndPc = "applyPeers"
    /\ ndRt' = [ndRt EXCEPT !.peer = ndCfg.peer]
    /\ ndPc' = "report" /\ ndCfg' = NoCfg
    /\ UNCHANGED <<ndServer, ndMeasured, ndSent, ndBind, ndFile, ndError, ndDisk, ndBounds, ndHistory>>
----------------------------------------------------------------------------
(* reportUsage *)

\* pendingWarnings and usageSnapshot: what is reported is no longer dirty.
NdSnapshot ==
    /\ ndPc = "report"
    /\ ndSent' = [active |-> ndRt.active, running |-> ndRt.spec # 0, used |-> ndRt.target.used, dirty |-> ndRt.target.dirty, complaint |-> ndBind.warn \/ ndError]
    /\ ndRt' = [ndRt EXCEPT !.target.dirty = FALSE]
    /\ ndPc' = "post"
    /\ UNCHANGED <<ndServer, ndCfg, ndMeasured, ndBind, ndFile, ndError, ndDisk, ndBounds, ndHistory>>

\* agentBackupNodeUsageHandler
Reported ==
    /\ ndHealth' = IF ndSent.complaint THEN "complains" ELSE IF ndSent.running THEN "runs" ELSE "stopped"
    /\ ndRow' = IF ndSent.dirty /\ ndRow.secret # 0 THEN [ndRow EXCEPT !.used = ndSent.used] ELSE ndRow
    /\ ndTold' = IF ndSent.complaint /\ ndBind.warn THEN ndTold \cup {ndBind.bound} ELSE ndTold
    /\ UNCHANGED <<ndRole, ndPeer, ndSecret, ndDemoting>>

\* A report that failed is forgotten.
MutRestored == FALSE

\* restoreDirty
Restored == ndRt.target.dirty \/ (ndSent.dirty /\ ndRt.target # NoLocal)

\* The answer is lost before or after the server acts, or the host is no node any more.
NdPost ==
    /\ ndPc = "post" /\ ndSent.active
    /\ \/ ndRole # 0 /\ Reported /\ UNCHANGED <<ndRt, ndFaults>>
       \/ /\ (ndRole = 0 /\ UNCHANGED <<ndServer, ndFaults, ndTold>>)
             \/ (NdFault /\ UNCHANGED <<ndServer, ndTold>>)
             \/ (NdFault /\ ndRole # 0 /\ Reported)
          /\ ndRt' = [ndRt EXCEPT !.target.dirty = Restored]
    /\ ndPc' = "idle" /\ ndSent' = NoReport
    /\ UNCHANGED <<ndCfg, ndMeasured, ndBind, ndFile, ndError, ndDisk, ndOps, ndPosts, ndWrote, ndLost, ndSkew>>

\* Without the role nothing is running, and nothing is sent.
NdNoReport ==
    /\ ndPc = "post" /\ ~ndSent.active
    /\ ndPc' = "idle" /\ ndSent' = NoReport
    /\ UNCHANGED <<ndServer, ndCfg, ndMeasured, ndRunning, ndDisk, ndBounds, ndHistory>>
----------------------------------------------------------------------------
(* Uploads to the node's endpoint, one byte each *)

\* ResolveTarget and ReserveUsage of the local registry
NdReserve(u) ==
    /\ ndUp[u] = NoUpload /\ ndPosts < NdMaxPosts
    /\ LET t == ndRt.target
       IN /\ ndRt.spec # 0 /\ t.ready /\ ~t.revoked /\ (NdQuota = 0 \/ t.used < NdQuota)
          /\ ndRt' = [ndRt EXCEPT !.target = [t EXCEPT !.used = @ + 1, !.dirty = TRUE]]
          /\ ndUp' = [ndUp EXCEPT ![u] = [secret |-> t.secret, live |-> TRUE]]
    /\ ndPosts' = ndPosts + 1
    /\ ndSkew' = (ndSkew \/ ndPc = "observe")
    /\ UNCHANGED <<ndServer, ndManager, ndBind, ndFile, ndError, ndStore, ndOps, ndFaults, ndWrote, ndTold, ndLost>>

\* ReleaseUsage
Freed(n) == IF n = 0 THEN 0 ELSE n - 1

\* Create and, when nothing was stored, ReleaseUsage of a target that is still registered
NdStoreEnds(u) ==
    /\ ndUp[u] # NoUpload
    /\ ndUp' = [ndUp EXCEPT ![u] = NoUpload]
    /\ \/ ndStore' = ndStore + 1 /\ ndWrote' = ndWrote \cup {ndUp[u].secret} /\ UNCHANGED ndRt
       \/ /\ ndRt' = IF ndUp[u].live THEN [ndRt EXCEPT !.target.used = Freed(@), !.target.dirty = TRUE] ELSE ndRt
          /\ UNCHANGED <<ndStore, ndWrote>>
    /\ UNCHANGED <<ndServer, ndManager, ndBind, ndFile, ndError, ndBounds, ndTold, ndLost, ndSkew>>
----------------------------------------------------------------------------
(* The operator, and the host that backs up *)

NdOperates == ndOps < NdMaxOps /\ ndOps' = ndOps + 1

NdPromote ==
    /\ NdOperates
    /\ ndRole' = IF ndRole = 1 THEN 2 ELSE 1
    /\ UNCHANGED <<ndRow, ndPeer, ndSecret, ndHealth, ndDemoting, ndManager, ndRunning, ndDisk, ndPosts, ndFaults, ndHistory>>

\* Demote: HasActiveTargets ...
NdDemoteCheck ==
    /\ NdOperates /\ ndRole # 0 /\ ~ndDemoting /\ (ndRow.secret = 0 \/ ndRow.revoked)
    /\ ndDemoting' = TRUE
    /\ UNCHANGED <<ndRole, ndRow, ndPeer, ndSecret, ndHealth, ndManager, ndRunning, ndDisk, ndPosts, ndFaults, ndHistory>>

\* ... then the row; a repository may have been created or revived in between.
NdDemote ==
    /\ ndDemoting
    /\ ndDemoting' = FALSE /\ ndRole' = 0
    /\ UNCHANGED <<ndRow, ndPeer, ndSecret, ndHealth, ndManager, ndRunning, ndDisk, ndBounds, ndHistory>>

NdRevoke ==
    /\ NdOperates /\ ndRow.secret # 0 /\ ~ndRow.revoked
    /\ ndRow' = [ndRow EXCEPT !.revoked = TRUE]
    /\ UNCHANGED <<ndRole, ndPeer, ndSecret, ndHealth, ndDemoting, ndManager, ndRunning, ndDisk, ndPosts, ndFaults, ndHistory>>

NdRotate ==
    /\ NdOperates /\ ndRow.secret # 0 /\ ndSecret < NdMaxSecret
    /\ ndSecret' = ndSecret + 1
    /\ ndRow' = [ndRow EXCEPT !.secret = ndSecret', !.revoked = FALSE]
    /\ UNCHANGED <<ndRole, ndPeer, ndHealth, ndDemoting, ndManager, ndRunning, ndDisk, ndPosts, ndFaults, ndHistory>>

\* A repository on a node is deleted once the node is demoted, and its name is free on another promotion.
NdDeleteTarget ==
    /\ NdOperates /\ ndRow.secret # 0 /\ ndRole = 0
    /\ ndRow' = NoTarget
    /\ UNCHANGED <<ndRole, ndPeer, ndSecret, ndHealth, ndDemoting, ndManager, ndRunning, ndDisk, ndPosts, ndFaults, ndHistory>>

NdCreateTarget ==
    /\ NdOperates /\ ndRow.secret = 0 /\ ndRole # 0 /\ ndSecret < NdMaxSecret
    /\ ndSecret' = ndSecret + 1
    /\ ndRow' = [secret |-> ndSecret', revoked |-> FALSE, used |-> 0]
    /\ UNCHANGED <<ndRole, ndPeer, ndHealth, ndDemoting, ndManager, ndRunning, ndDisk, ndPosts, ndFaults, ndHistory>>

\* The backing-up host enrols with another key, or its peer is revoked.
NdPeerChanges ==
    /\ NdOperates
    /\ ndPeer' = IF ndPeer = 0 THEN 1 ELSE 0
    /\ UNCHANGED <<ndRole, ndRow, ndSecret, ndHealth, ndDemoting, ndManager, ndRunning, ndDisk, ndPosts, ndFaults, ndHistory>>

\* The agent dies and starts again.
NdCrash ==
    /\ NdFault
    /\ ndUp' = [u \in NdUploads |-> NoUpload]
    /\ ndLost' = ndLost \cup Forgotten
    /\ ndRt' = Stopped /\ ndBind' = NoBind /\ ndError' = FALSE
    /\ ndPc' = "idle" /\ ndCfg' = NoCfg /\ ndMeasured' = 0 /\ ndSent' = NoReport
    /\ UNCHANGED <<ndServer, ndFile, ndStore, ndOps, ndPosts, ndWrote, ndTold, ndSkew>>

NdRound ==
    \/ NdFetch \/ NdFetchTargets \/ NdFetchPeers \/ NdDisable \/ NdStart \/ NdReplace \/ NdMeasure \/ NdObserve \/ NdApplyPeers
    \/ NdSnapshot \/ NdPost \/ NdNoReport \/ NdUsageTick

NdOperator == NdPromote \/ NdDemoteCheck \/ NdDemote \/ NdRevoke \/ NdRotate \/ NdDeleteTarget \/ NdCreateTarget \/ NdPeerChanges

NdNext ==
    \/ NdRound \/ NdOperator \/ NdCrash
    \/ \E u \in NdUploads : NdReserve(u) \/ NdStoreEnds(u)

\* Both tickers of the manager fire for ever, and select takes neither of two ready ones for ever; a
\* round and an upload end, by timeouts if need be.
NdFairness == WF_ndVars(NdRound) /\ SF_ndVars(NdFetch) /\ \A u \in NdUploads : WF_ndVars(NdStoreEnds(u))

NdSpec == NdInit /\ [][NdNext]_ndVars
NdFairSpec == NdSpec /\ NdFairness
----------------------------------------------------------------------------
NdPcs == {"idle", "targets", "peers", "disable", "apply", "measure", "observe", "applyPeers", "report", "post"}

\* The manager is at one of its steps, and a target that is served has a credential.
NdTypeOK ==
    /\ ndPc \in NdPcs
    /\ ndRow.secret \in 0..ndSecret /\ ndRow.used \in 0..(NdMaxPosts + 1)
    /\ ndRt.spec \in 0..2 /\ ndRt.target.used \in 0..(NdMaxPosts + 1) /\ (ndRt.target.ready => ndRt.target.secret # 0)
    /\ ndHealth \in {"unknown", "runs", "stopped", "complains"}
    /\ {ndFile, ndBind.bound} \subseteq 0..NoEntry

(***************************************************************************)
(* The node's own count never falls short of its store and of what uploads *)
(* have reserved, through restarts, revocations and new bindings; only a   *)
(* measurement of a repository that is in use (after its credential was    *)
(* rotated) may forget the uploads it meets.                               *)
(***************************************************************************)
NodeUsageCovers ==
    ndRt.target.ready /\ ~ndSkew =>
        ndRt.target.used >= ndStore + Cardinality({u \in NdUploads : ndUp[u].live})

(***************************************************************************)
(* Nobody is given another's data in silence: whenever the endpoint serves *)
(* a repository under a credential it has measured, and bytes under its    *)
(* name were written under an earlier one, a warning is pending or has     *)
(* reached the server.  It is lost when the runtime stops between saving   *)
(* the binding and reporting, or when the measurement after a rotation     *)
(* fails, and never raised when there was no file of bindings or the bytes *)
(* arrived after the measurement.                                          *)
(***************************************************************************)
RebindingIsTold ==
    LET s == ndRt.target.secret
    IN ndRt.target.ready /\ ~ndSkew /\ ndPc \notin {"measure", "observe"} /\ ndWrote \ {s} # {} =>
           ndBind.warn \/ s \in ndTold \cup ndLost

(***************************************************************************)
(* The server learns what the node has stored: again and again the row's   *)
(* usage is the node's, through lost reports, restarts and uploads that    *)
(* go on during a report, unless the node has an error to report (a failed *)
(* measurement of a repository bound anew is not repeated).                *)
(***************************************************************************)
UsageArrives ==
    []<>(ndRt.target.ready /\ ndRow.secret = ndRt.target.secret /\ ndRole # 0 /\ ~ndError => ndRow.used = ndRt.target.used)

(***************************************************************************)
(* What the operator decides reaches the node: a revoked or deleted        *)
(* repository is no longer served, a peer that lost its enrolment or its   *)
(* last repository is no longer let in, and a demoted node stops.          *)
(***************************************************************************)
NodeFollowsServer ==
    []<>(/\ ndRole = 0 => ndRt.spec = 0
         /\ ndRole # 0 /\ ndRt.spec # 0 =>
              /\ ndRt.peer = (IF ndRow.secret # 0 /\ ~ndRow.revoked THEN ndPeer ELSE 0)
              /\ ndRt.target.secret = ndRow.secret /\ ndRt.target.revoked = ndRow.revoked)

\* The node counts what it holds, and does not serve another's data in silence.
NodeInv == NdTypeOK /\ NodeUsageCovers /\ RebindingIsTold
=============================================================================
