---------------------------- MODULE ManagedRepos ----------------------------
(***************************************************************************)
(* Repositories a host writes to S3 directly and the server manages: the   *)
(* destination and the repositories' rows with their credentials, the      *)
(* agent's sync loop that turns the server's list into files (one file of  *)
(* credentials per repository, repositories.json, the status file) one     *)
(* system call at a time, and the daily run that reads them.  A            *)
(* credential is the number of its version, 0 for none.                    *)
(***************************************************************************)
EXTENDS Naturals

CONSTANTS
    MgNames,     \* names of repositories
    MgMaxRow,    \* model bound: rows ever inserted
    MgMaxCred,   \* model bound: credentials ever made
    MgMaxOps,    \* model bound: operations of the operator
    MgMaxFault   \* model bound: lost messages, failed writes, crashes

ASSUME MgAssumption ==
    /\ MgNames # {}
    /\ MgMaxRow \in Nat /\ MgMaxCred \in Nat /\ MgMaxOps \in Nat /\ MgMaxFault \in Nat

VARIABLES
    mgDest,      \* the row of backup_destinations
    mgRows,      \* the rows of backup_targets with that destination, by id
    mgSerial,    \* ids given out
    mgCred,      \* credentials made
    mgPc,        \* where the sync loop is
    mgRemote,    \* the configuration it has fetched
    mgSeen,      \* managedBackupSyncState: the configuration applied last
    mgEnv,       \* repository-<id>.env: the credential in each file
    mgList,      \* repositories.json
    mgStatus,    \* names in the status file
    mgRead,      \* names the sync loop has read from it
    mgJob,       \* the repositories of the run under way
    mgOps, mgFaults,
    mgTorn       \* history: a round failed after it had begun to write, and none has ended since

mgVars == <<mgDest, mgRows, mgSerial, mgCred, mgPc, mgRemote, mgSeen, mgEnv, mgList, mgStatus, mgRead, mgJob, mgOps, mgFaults, mgTorn>>
mgServer == <<mgDest, mgRows, mgSerial, mgCred>>
mgFiles == <<mgEnv, mgList, mgStatus>>

MgIds == 1..MgMaxRow
NoDest == [there |-> FALSE, cred |-> 0]
NoRepo == [there |-> FALSE, name |-> CHOOSE n \in MgNames : TRUE, cred |-> 0, revoked |-> FALSE]
Never == [known |-> FALSE, repos |-> {}]
NoRun == [on |-> FALSE, repos |-> {}]

NamesOf(repos) == {r.name : r \in repos}
IdsOf(repos) == {r.id : r \in repos}

MgInit ==
    /\ mgDest = NoDest /\ mgRows = [i \in MgIds |-> NoRepo] /\ mgSerial = 0 /\ mgCred = 0
    /\ mgPc = "idle" /\ mgRemote = {} /\ mgSeen = Never
    /\ mgEnv = [i \in MgIds |-> 0] /\ mgList = {} /\ mgStatus = {} /\ mgRead = {} /\ mgJob = NoRun
    /\ mgOps = 0 /\ mgFaults = 0 /\ mgTorn = FALSE

MgFault == mgFaults < MgMaxFault /\ mgFaults' = mgFaults + 1
----------------------------------------------------------------------------
(* The server *)

Live == {i \in MgIds : mgRows[i].there /\ ~mgRows[i].revoked}

\* A repository's own credentials go before the destination's.
Effective(i) == IF mgRows[i].cred # 0 THEN mgRows[i].cred ELSE mgDest.cred

\* ManagedRepositoriesForHost
Managed == {[id |-> i, name |-> mgRows[i].name, cred |-> Effective(i)] : i \in Live}

MgOperates ==
    /\ mgOps < MgMaxOps /\ mgOps' = mgOps + 1
    /\ UNCHANGED <<mgPc, mgRemote, mgSeen, mgFiles, mgRead, mgJob, mgFaults, mgTorn>>

\* Credentials that are given, or none
Given(cred) == cred \in {0} \cup (IF mgCred < MgMaxCred THEN {mgCred + 1} ELSE {})
Fresh(cred) == cred # 0 /\ Given(cred)
Made(cred) == IF cred = 0 THEN mgCred ELSE cred

MgCreateDestination(cred) ==
    /\ MgOperates /\ ~mgDest.there /\ Given(cred)
    /\ mgDest' = [there |-> TRUE, cred |-> cred] /\ mgCred' = Made(cred)
    /\ UNCHANGED <<mgRows, mgSerial>>

MgSetDestinationCredentials(cred) ==
    /\ MgOperates /\ mgDest.there /\ Fresh(cred)
    /\ mgDest' = [mgDest EXCEPT !.cred = cred] /\ mgCred' = cred
    /\ UNCHANGED <<mgRows, mgSerial>>

\* destination_id REFERENCES backup_destinations ON DELETE RESTRICT
Unused == \A i \in MgIds : ~mgRows[i].there

MgDeleteDestination ==
    /\ MgOperates /\ mgDest.there /\ Unused
    /\ mgDest' = NoDest
    /\ UNCHANGED <<mgRows, mgSerial, mgCred>>

\* CreateDirectRepository wants credentials from somewhere.
Provided(cred) == mgDest.there /\ (cred # 0 \/ mgDest.cred # 0)

MgCreate(name, cred) ==
    /\ MgOperates /\ mgSerial < MgMaxRow /\ Given(cred) /\ Provided(cred)
    /\ \A i \in MgIds : mgRows[i].there => mgRows[i].name # name
    /\ mgSerial' = mgSerial + 1
    /\ mgRows' = [mgRows EXCEPT ![mgSerial'] = [there |-> TRUE, name |-> name, cred |-> cred, revoked |-> FALSE]]
    /\ mgCred' = Made(cred)
    /\ UNCHANGED mgDest

MgSetCredentials(i, cred) ==
    /\ MgOperates /\ mgRows[i].there /\ Fresh(cred)
    /\ mgRows' = [mgRows EXCEPT ![i].cred = cred] /\ mgCred' = cred
    /\ UNCHANGED <<mgDest, mgSerial>>

MgRevoke(i) ==
    /\ MgOperates /\ i \in Live
    /\ mgRows' = [mgRows EXCEPT ![i].revoked = TRUE]
    /\ UNCHANGED <<mgDest, mgSerial, mgCred>>

\* A direct repository is deleted once it is revoked.
MgDelete(i) ==
    /\ MgOperates /\ mgRows[i].there /\ mgRows[i].revoked
    /\ mgRows' = [mgRows EXCEPT ![i] = NoRepo]
    /\ UNCHANGED <<mgDest, mgSerial, mgCred>>
----------------------------------------------------------------------------
(* syncManagedBackups and ApplyManagedBackupConfig *)

\* The signature leaves the credentials out.
MutSignature(repos) == {[id |-> r.id, name |-> r.name] : r \in repos}

\* managedBackupConfigSignature covers the whole answer.
Signature(repos) == repos

MgSync == UNCHANGED <<mgServer, mgJob, mgOps>>

\* repositories.json is written first.
MutMgFetch ==
    /\ mgPc = "idle"
    /\ \A i \in Live : Effective(i) # 0
    /\ mgRemote' = Managed
    /\ mgPc' = IF mgSeen.known /\ Signature(mgSeen.repos) = Signature(Managed) THEN "idle" ELSE "list"
    /\ MgSync /\ UNCHANGED <<mgSeen, mgFiles, mgRead, mgFaults, mgTorn>>

\* FetchManagedBackupConfig; one repository without credentials fails the answer for all.
MgFetch ==
    /\ mgPc = "idle"
    /\ \A i \in Live : Effective(i) # 0
    /\ mgRemote' = Managed
    /\ mgPc' = IF mgSeen.known /\ Signature(mgSeen.repos) = Signature(Managed) THEN "idle" ELSE "creds"
    /\ MgSync /\ UNCHANGED <<mgSeen, mgFiles, mgRead, mgFaults, mgTorn>>

\* writeFileAtomic of one file of credentials
MgWriteCredential(r) ==
    /\ mgPc = "creds" /\ r \in mgRemote /\ mgEnv[r.id] # r.cred
    /\ mgEnv' = [mgEnv EXCEPT ![r.id] = r.cred]
    /\ MgSync /\ UNCHANGED <<mgPc, mgRemote, mgSeen, mgList, mgStatus, mgRead, mgFaults, mgTorn>>

Retired == NamesOf(mgList) \ NamesOf(mgRemote)

\* removeManagedRepoStatuses: the status file is read ...
MgReadStatus ==
    /\ mgPc = "creds" /\ \A r \in mgRemote : mgEnv[r.id] = r.cred
    /\ mgRead' = mgStatus
    /\ mgPc' = IF mgStatus \cap Retired = {} THEN "list" ELSE "status"
    /\ MgSync /\ UNCHANGED <<mgRemote, mgSeen, mgFiles, mgFaults, mgTorn>>

\* ... and written back without the names that are retired, whatever a run has recorded meanwhile.
MgWriteStatus ==
    /\ mgPc = "status"
    /\ mgStatus' = mgRead \ Retired
    /\ mgPc' = "list"
    /\ MgSync /\ UNCHANGED <<mgRemote, mgSeen, mgEnv, mgList, mgRead, mgFaults, mgTorn>>

MgWriteList ==
    /\ mgPc = "list"
    /\ mgList' = {[id |-> r.id, name |-> r.name] : r \in mgRemote}
    /\ mgPc' = "stale"
    /\ MgSync /\ UNCHANGED <<mgRemote, mgSeen, mgEnv, mgStatus, mgRead, mgFaults, mgTorn>>

Stale == {i \in MgIds : mgEnv[i] # 0 /\ i \notin IdsOf(mgRemote)}

\* removeStaleManagedCredentials
MgRemoveStale(i) ==
    /\ mgPc = "stale" /\ i \in Stale
    /\ mgEnv' = [mgEnv EXCEPT ![i] = 0]
    /\ MgSync /\ UNCHANGED <<mgPc, mgRemote, mgSeen, mgList, mgStatus, mgRead, mgFaults, mgTorn>>

MgApplied ==
    /\ mgPc = "stale" /\ Stale = {}
    /\ mgSeen' = [known |-> TRUE, repos |-> mgRemote]
    /\ mgPc' = "idle" /\ mgRead' = {} /\ mgTorn' = FALSE
    /\ MgSync /\ UNCHANGED <<mgRemote, mgFiles, mgFaults>>

\* A step fails and the round ends with the signature of the last that succeeded, or the agent dies and
\* starts again.
MgBreaks ==
    /\ MgFault
    /\ mgSeen' \in (IF mgPc = "idle" THEN {Never} ELSE {mgSeen, Never})
    /\ mgPc' = "idle" /\ mgRead' = {} /\ mgRemote' = {}
    /\ mgTorn' = (mgTorn \/ mgSeen'.known)
    /\ MgSync /\ UNCHANGED mgFiles
----------------------------------------------------------------------------
(* The daily run of another process *)

\* loadManagedRepos
MgRunBegins ==
    /\ ~mgJob.on
    /\ mgJob' = [on |-> TRUE, repos |-> mgList]
    /\ UNCHANGED <<mgServer, mgPc, mgRemote, mgSeen, mgFiles, mgRead, mgOps, mgFaults, mgTorn>>

\* mergeStatus and withoutUnconfiguredRepos, by the configuration the run began with; a run of no
\* repositories writes nothing.
Recorded(repos) == IF repos = {} THEN mgStatus ELSE NamesOf(repos)

MgRunEnds ==
    /\ mgJob.on
    /\ mgStatus' = Recorded(mgJob.repos)
    /\ mgJob' = NoRun
    /\ UNCHANGED <<mgServer, mgPc, mgRemote, mgSeen, mgEnv, mgList, mgRead, mgOps, mgFaults, mgTorn>>

MgRound ==
    \/ MgFetch \/ MgReadStatus \/ MgWriteStatus \/ MgWriteList \/ MgApplied
    \/ \E r \in mgRemote : MgWriteCredential(r)
    \/ \E i \in MgIds : MgRemoveStale(i)

MgOperator ==
    \/ MgDeleteDestination
    \/ \E c \in 0..MgMaxCred : MgCreateDestination(c) \/ MgSetDestinationCredentials(c)
    \/ \E n \in MgNames, c \in 0..MgMaxCred : MgCreate(n, c)
    \/ \E i \in MgIds : MgRevoke(i) \/ MgDelete(i) \/ \E c \in 0..MgMaxCred : MgSetCredentials(i, c)

MgNext == MgRound \/ MgBreaks \/ MgOperator \/ MgRunBegins \/ MgRunEnds

\* The sync loop ticks every minute, and a run is started every day and ends.
MgFairness == WF_mgVars(MgRound) /\ WF_mgVars(MgRunBegins) /\ WF_mgVars(MgRunEnds)

MgSpec == MgInit /\ [][MgNext]_mgVars
MgFairSpec == MgSpec /\ MgFairness
----------------------------------------------------------------------------
\* Rows and files are what their names say, and a row's destination exists.
MgTypeOK ==
    /\ mgPc \in {"idle", "creds", "status", "list", "stale"}
    /\ mgRows \in [MgIds -> [there : BOOLEAN, name : MgNames, cred : 0..MgMaxCred, revoked : BOOLEAN]]
    /\ mgEnv \in [MgIds -> 0..MgMaxCred]
    /\ mgList \subseteq [id : MgIds, name : MgNames]
    /\ mgStatus \cup mgRead \subseteq MgNames
    /\ \A i \in MgIds : mgRows[i].there => mgDest.there

\* A repository's credentials come from somewhere, else the host would be sent no list at all.
EveryRowDeliverable == \A i \in Live : Effective(i) # 0

(***************************************************************************)
(* Whatever a run reads, at any moment and after any crash: a repository   *)
(* of repositories.json has its file of credentials, and no two            *)
(* repositories of it share a name.                                        *)
(***************************************************************************)
ListedHaveCredentials ==
    \A r \in mgList : mgEnv[r.id] # 0 /\ \A q \in mgList : q.name = r.name => q = r

(***************************************************************************)
(* What the operator decides reaches the host's disk: its list is the      *)
(* server's, every repository has its current credentials, and credentials *)
(* of a repository that was revoked or deleted are gone, through lost      *)
(* answers, failed writes and restarts.  The exception: when a round fails *)
(* halfway and the server's list then returns to the one applied before,   *)
(* the signature matches and what was half written stays.                  *)
(***************************************************************************)
ManagedFollowsServer ==
    []<>(\/ mgTorn /\ mgSeen.repos = Managed
         \/ /\ mgList = {[id |-> r.id, name |-> r.name] : r \in Managed}
            /\ mgEnv = [i \in MgIds |-> IF i \in Live THEN Effective(i) ELSE 0])

(***************************************************************************)
(* A retired name leaves the status file for good, although a run that     *)
(* began before the retirement records it once more, as long as the host   *)
(* has a repository left to back up to.                                    *)
(***************************************************************************)
RetiredNamesGo == []<>(mgList # {} => mgStatus \subseteq NamesOf(mgList))

\* Every repository can be handed to its host, and the host's list can be used at any moment.
ManagedInv == MgTypeOK /\ EveryRowDeliverable /\ ListedHaveCredentials

\* The host's files become what the server manages, the status of retired names included.
ManagedConverges == ManagedFollowsServer /\ RetiredNamesGo
=============================================================================
