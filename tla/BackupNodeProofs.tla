-------------------------- MODULE BackupNodeProofs --------------------------
(*****************************************************************************)
(* Proofs about the managed repositories of a host and about the storage     *)
(* node that serves one.                                                     *)
(*****************************************************************************)
EXTENDS ManagedRepos, BackupNode, FiniteSetTheorems, TLAPS

-----------------------------------------------------------------------------
(*****************************************************************************)
(* Managed repositories, for any names, any number of repositories,          *)
(* credentials, operations of the operator, failures and restarts.           *)
(*                                                                           *)
(* ListedHaveCredentials is about the agent's files at every moment of a     *)
(* round that writes them one at a time.  What makes it inductive is how far *)
(* the round has come (RoundInv: credentials are on disk before anything     *)
(* later is begun, and stale ones are removed only once repositories.json is *)
(* the list they are stale for), and that the answer a round works from is fit*)
(* for use (RemoteInv), which rests on the server's rows (RowsInv,           *)
(* EveryRowDeliverable).                                                     *)
(*****************************************************************************)
Repo == [there : BOOLEAN, name : MgNames, cred : 0..MgMaxCred, revoked : BOOLEAN]
Listed == [id : MgIds, name : MgNames]
Answered == [id : MgIds, name : MgNames, cred : 1..MgMaxCred]

MgRest ==
    /\ mgDest \in [there : BOOLEAN, cred : 0..MgMaxCred]
    /\ mgCred \in 0..MgMaxCred /\ mgSerial \in 0..MgMaxRow
    /\ mgJob.repos \subseteq Listed

\* Two repositories of a host never have one name.
RowsInv ==
    \A i, j \in MgIds : mgRows[i].there /\ mgRows[j].there /\ mgRows[i].name = mgRows[j].name => i = j

\* What was fetched has credentials for every repository, and one entry for each.
RemoteInv ==
    /\ mgRemote \subseteq Answered
    /\ \A q, r \in mgRemote : q.name = r.name \/ q.id = r.id => q = r

\* How far the round has come.
RoundInv ==
    /\ mgPc \in {"status", "list", "stale"} => \A r \in mgRemote : mgEnv[r.id] = r.cred
    /\ mgPc = "stale" => mgList = {[id |-> r.id, name |-> r.name] : r \in mgRemote}

MgIInv ==
    /\ MgTypeOK /\ MgRest /\ RowsInv /\ EveryRowDeliverable
    /\ RemoteInv /\ RoundInv /\ ListedHaveCredentials

-----------------------------------------------------------------------------
\* The managed repositories start in the invariant.
LEMMA MgInitIInv == MgInit => MgIInv
<1> SUFFICES ASSUME MgInit PROVE MgIInv
  OBVIOUS
<1>1. NoRepo \in Repo /\ ~NoRepo.there /\ 0 \in 0..MgMaxCred /\ 0 \in 0..MgMaxRow
  BY MgAssumption DEF NoRepo, Repo
<1>2. MgTypeOK
  BY <1>1 DEF MgInit, MgTypeOK, Repo
<1>3. MgRest
  BY <1>1 DEF MgInit, MgRest, NoDest, NoRun
<1>4. RowsInv /\ EveryRowDeliverable
  BY <1>1 DEF MgInit, RowsInv, EveryRowDeliverable, Live
<1>5. RemoteInv /\ RoundInv /\ ListedHaveCredentials
  BY DEF MgInit, RemoteInv, RoundInv, ListedHaveCredentials
<1> QED
  BY <1>2, <1>3, <1>4, <1>5 DEF MgIInv

\* An operation of the operator changes the server's rows only.
LEMMA ServerStep ==
  ASSUME MgIInv, UNCHANGED <<mgPc, mgRemote, mgSeen, mgFiles, mgRead, mgJob>>,
         mgRows' \in [MgIds -> Repo], mgDest' \in [there : BOOLEAN, cred : 0..MgMaxCred],
         mgCred' \in 0..MgMaxCred, mgSerial' \in 0..MgMaxRow,
         \A i \in MgIds : mgRows'[i].there => mgDest'.there,
         RowsInv', EveryRowDeliverable'
  PROVE  MgIInv'
<1>1. MgTypeOK'
  BY DEF MgIInv, MgTypeOK, mgFiles, Repo
<1>2. MgRest' /\ RemoteInv' /\ RoundInv' /\ ListedHaveCredentials'
  BY DEF MgIInv, MgRest, RemoteInv, RoundInv, ListedHaveCredentials, mgFiles
<1> QED
  BY <1>1, <1>2 DEF MgIInv

\* Credentials that are given to an operation.
LEMMA GivenCred ==
  ASSUME MgIInv, NEW c \in 0..MgMaxCred
  PROVE  Made(c) \in 0..MgMaxCred
BY DEF Made, MgIInv, MgRest

\* What the operator does to the rows keeps the invariant.
LEMMA OperatorIInv ==
  ASSUME MgIInv, MgOperator
  PROVE  MgIInv'
<1>0. /\ UNCHANGED <<mgPc, mgRemote, mgSeen, mgFiles, mgRead, mgJob>>
      /\ mgRows \in [MgIds -> Repo] /\ mgDest \in [there : BOOLEAN, cred : 0..MgMaxCred]
      /\ mgCred \in 0..MgMaxCred /\ mgSerial \in 0..MgMaxRow
      /\ \A i \in MgIds : mgRows[i].there => mgDest.there
      /\ RowsInv /\ \A i \in MgIds : mgRows[i].there /\ ~mgRows[i].revoked => Effective(i) # 0
  BY DEF MgOperator, MgOperates, MgDeleteDestination, MgCreateDestination, MgSetDestinationCredentials,
     MgCreate, MgRevoke, MgDelete, MgSetCredentials, MgIInv, MgTypeOK, MgRest, Repo,
     EveryRowDeliverable, Live
<1>1. NoRepo \in Repo /\ ~NoRepo.there /\ 0 \in 0..MgMaxCred
  BY MgAssumption DEF NoRepo, Repo
<1>2. CASE MgDeleteDestination
  <2>1. /\ mgDest' = NoDest /\ UNCHANGED <<mgRows, mgSerial, mgCred>>
        /\ \A i \in MgIds : ~mgRows[i].there
    BY <1>2 DEF MgDeleteDestination, Unused
  <2>2. RowsInv' /\ EveryRowDeliverable' /\ mgDest' \in [there : BOOLEAN, cred : 0..MgMaxCred]
    BY <1>1, <2>1 DEF RowsInv, EveryRowDeliverable, Live, NoDest
  <2> QED
    BY <1>0, <2>1, <2>2, ServerStep
<1>3. ASSUME NEW c \in 0..MgMaxCred, MgCreateDestination(c)
      PROVE  MgIInv'
  <2>1. /\ ~mgDest.there /\ mgDest' = [there |-> TRUE, cred |-> c] /\ mgCred' = Made(c)
        /\ UNCHANGED <<mgRows, mgSerial>>
    BY <1>3 DEF MgCreateDestination
  <2>2. \A i \in MgIds : ~mgRows[i].there
    BY <1>0, <2>1
  <2>3. RowsInv' /\ EveryRowDeliverable' /\ mgDest' \in [there : BOOLEAN, cred : 0..MgMaxCred]
    BY <2>1, <2>2 DEF RowsInv, EveryRowDeliverable, Live
  <2> QED
    BY <1>0, <2>1, <2>2, <2>3, GivenCred, ServerStep
<1>4. ASSUME NEW c \in 0..MgMaxCred, MgSetDestinationCredentials(c)
      PROVE  MgIInv'
  <2>1. /\ mgDest.there /\ c # 0 /\ mgDest' = [mgDest EXCEPT !.cred = c] /\ mgCred' = c
        /\ UNCHANGED <<mgRows, mgSerial>>
    BY <1>4 DEF MgSetDestinationCredentials, Fresh
  <2>2. mgDest' \in [there : BOOLEAN, cred : 0..MgMaxCred] /\ mgDest'.there = mgDest.there /\ mgDest'.cred = c
    BY <1>0, <2>1
  <2>3. RowsInv' /\ EveryRowDeliverable'
    BY <1>0, <2>1, <2>2 DEF RowsInv, EveryRowDeliverable, Live, Effective
  <2> QED
    BY <1>0, <2>1, <2>2, <2>3, ServerStep
<1>5. ASSUME NEW n \in MgNames, NEW c \in 0..MgMaxCred, MgCreate(n, c)
      PROVE  MgIInv'
  <2> DEFINE new == [there |-> TRUE, name |-> n, cred |-> c, revoked |-> FALSE]
  <2>1. /\ mgSerial < MgMaxRow /\ mgSerial' = mgSerial + 1 /\ mgRows' = [mgRows EXCEPT ![mgSerial'] = new]
        /\ mgCred' = Made(c) /\ UNCHANGED mgDest
        /\ mgDest.there /\ (c # 0 \/ mgDest.cred # 0)
        /\ \A i \in MgIds : mgRows[i].there => mgRows[i].name # n
    BY <1>5 DEF MgCreate, Provided
  <2>2. mgSerial' \in MgIds /\ mgSerial' \in 0..MgMaxRow
    BY <1>0, <2>1, MgAssumption DEF MgIds
  <2>3. new \in Repo /\ new.name = n /\ new.cred = c
    BY DEF Repo
  <2> HIDE DEF new
  <2>4. mgRows' \in [MgIds -> Repo] /\ \A i \in MgIds : mgRows'[i] = IF i = mgSerial' THEN new ELSE mgRows[i]
    BY <1>0, <2>1, <2>2, <2>3
  <2>5. RowsInv'
    BY <1>0, <2>1, <2>3, <2>4 DEF RowsInv
  <2>6. EveryRowDeliverable'
    BY <1>0, <2>1, <2>3, <2>4 DEF EveryRowDeliverable, Live, Effective
  <2> QED
    BY <1>0, <2>1, <2>2, <2>4, <2>5, <2>6, GivenCred, ServerStep
<1>6. ASSUME NEW i \in MgIds, NEW new \in Repo, mgRows' = [mgRows EXCEPT ![i] = new],
             new.there => mgRows[i].there /\ new.name = mgRows[i].name,
             (new.there /\ ~new.revoked) => ~mgRows[i].revoked /\ (new.cred = mgRows[i].cred \/ new.cred # 0),
             UNCHANGED <<mgDest, mgSerial>>, mgCred' \in 0..MgMaxCred
      PROVE  MgIInv'
  <2>1. mgRows' \in [MgIds -> Repo] /\ \A j \in MgIds : mgRows'[j] = IF j = i THEN new ELSE mgRows[j]
    BY <1>0, <1>6
  <2>2. \A j \in MgIds : mgRows'[j].there => mgDest'.there
    BY <1>0, <1>6, <2>1
  <2>3. RowsInv'
    BY <1>0, <1>6, <2>1 DEF RowsInv
  <2>4. EveryRowDeliverable'
    BY <1>0, <1>6, <2>1 DEF EveryRowDeliverable, Live, Effective
  <2> QED
    BY <1>0, <1>6, <2>1, <2>2, <2>3, <2>4, ServerStep
<1>7. ASSUME NEW i \in MgIds, NEW c \in 0..MgMaxCred, MgSetCredentials(i, c)
      PROVE  MgIInv'
  <2> DEFINE new == [mgRows[i] EXCEPT !.cred = c]
  <2>1. mgRows' = [mgRows EXCEPT ![i] = new] /\ c # 0 /\ mgCred' = c /\ UNCHANGED <<mgDest, mgSerial>>
    BY <1>7 DEF MgSetCredentials, Fresh
  <2>2. /\ new \in Repo /\ new.there = mgRows[i].there /\ new.name = mgRows[i].name
        /\ new.revoked = mgRows[i].revoked /\ new.cred = c
    BY <1>0 DEF Repo
  <2> HIDE DEF new
  <2> QED
    BY <1>6, <2>1, <2>2
<1>8. ASSUME NEW i \in MgIds, MgRevoke(i)
      PROVE  MgIInv'
  <2> DEFINE new == [mgRows[i] EXCEPT !.revoked = TRUE]
  <2>1. mgRows' = [mgRows EXCEPT ![i] = new] /\ UNCHANGED <<mgDest, mgSerial, mgCred>>
    BY <1>8 DEF MgRevoke
  <2>2. new \in Repo /\ new.there = mgRows[i].there /\ new.name = mgRows[i].name /\ new.revoked
    BY <1>0 DEF Repo
  <2> HIDE DEF new
  <2> QED
    BY <1>0, <1>6, <2>1, <2>2
<1>9. ASSUME NEW i \in MgIds, MgDelete(i)
      PROVE  MgIInv'
  BY <1>0, <1>1, <1>6, <1>9 DEF MgDelete
<1> QED
  BY <1>2, <1>3, <1>4, <1>5, <1>7, <1>8, <1>9 DEF MgOperator

-----------------------------------------------------------------------------
\* The sync loop's steps and the runs leave the server alone.
LEMMA AgentStep ==
  ASSUME MgIInv, UNCHANGED mgServer,
         mgPc' \in {"idle", "creds", "status", "list", "stale"},
         mgEnv' \in [MgIds -> 0..MgMaxCred], mgList' \subseteq Listed, mgStatus' \subseteq MgNames,
         mgRead' \subseteq MgNames, mgJob'.repos \subseteq Listed,
         RemoteInv', RoundInv', ListedHaveCredentials'
  PROVE  MgIInv'
<1>1. MgTypeOK'
  BY DEF MgIInv, MgTypeOK, mgServer, Listed
<1>2. MgRest' /\ RowsInv' /\ EveryRowDeliverable'
  BY DEF MgIInv, MgRest, RowsInv, EveryRowDeliverable, Live, Effective, mgServer
<1> QED
  BY <1>1, <1>2 DEF MgIInv

\* The answer of the server: every repository with its credentials, once.
LEMMA ManagedAnswer ==
  ASSUME MgIInv, \A i \in Live : Effective(i) # 0
  PROVE  /\ Managed \subseteq Answered
         /\ \A q, r \in Managed : q.name = r.name \/ q.id = r.id => q = r
<1>1. \A i \in Live : Effective(i) \in 1..MgMaxCred
  BY MgAssumption DEF MgIInv, MgTypeOK, MgRest, Live, Effective
<1>2. \A i \in Live : i \in MgIds /\ mgRows[i].name \in MgNames /\ mgRows[i].there
  BY DEF Live, MgIInv, MgTypeOK
<1>3. Managed \subseteq Answered
  BY <1>1, <1>2 DEF Managed, Answered
<1>4. \A i, j \in Live : mgRows[i].name = mgRows[j].name => i = j
  BY <1>2 DEF MgIInv, RowsInv
<1> QED
  BY <1>3, <1>4 DEF Managed

\* Every step of the round of the agent keeps the invariant.
LEMMA RoundIInv ==
  ASSUME MgIInv, MgRound
  PROVE  MgIInv'
<1>0. /\ mgEnv \in [MgIds -> 0..MgMaxCred] /\ mgList \subseteq Listed /\ mgStatus \subseteq MgNames
      /\ mgRead \subseteq MgNames /\ mgJob.repos \subseteq Listed
      /\ mgRemote \subseteq Answered
      /\ \A r \in mgRemote : r.id \in MgIds /\ r.name \in MgNames /\ r.cred \in 0..MgMaxCred /\ r.cred # 0
      /\ \A r \in mgList : r.id \in MgIds
  BY MgAssumption DEF MgIInv, MgTypeOK, MgRest, RemoteInv, Listed, Answered
<1>1. CASE MgFetch
  <2>1. /\ (\A i \in Live : Effective(i) # 0) /\ mgRemote' = Managed /\ mgPc' \in {"idle", "creds"}
        /\ UNCHANGED <<mgServer, mgJob, mgEnv, mgList, mgStatus, mgRead>>
    BY <1>1 DEF MgFetch, MgSync, mgFiles
  <2>2. RemoteInv'
    BY <2>1, ManagedAnswer DEF RemoteInv
  <2>3. RoundInv' /\ ListedHaveCredentials'
    BY <2>1 DEF MgIInv, RoundInv, ListedHaveCredentials
  <2> QED
    BY <1>0, <2>1, <2>2, <2>3, AgentStep
<1>2. ASSUME NEW r \in mgRemote, MgWriteCredential(r)
      PROVE  MgIInv'
  <2>1. /\ mgPc = "creds" /\ mgEnv' = [mgEnv EXCEPT ![r.id] = r.cred]
        /\ UNCHANGED <<mgServer, mgJob, mgPc, mgRemote, mgList, mgStatus, mgRead>>
    BY <1>2 DEF MgWriteCredential, MgSync
  <2>2. /\ mgEnv' \in [MgIds -> 0..MgMaxCred]
        /\ \A i \in MgIds : mgEnv[i] # 0 => mgEnv'[i] # 0
    BY <1>0, <2>1
  <2>3. RemoteInv' /\ RoundInv'
    BY <2>1 DEF MgIInv, RemoteInv, RoundInv
  <2>4. ListedHaveCredentials'
    BY <1>0, <2>1, <2>2 DEF MgIInv, ListedHaveCredentials
  <2> QED
    BY <1>0, <2>1, <2>2, <2>3, <2>4, AgentStep DEF MgIInv, MgTypeOK
<1>3. CASE MgReadStatus
  <2>1. /\ \A r \in mgRemote : mgEnv[r.id] = r.cred
        /\ mgRead' = mgStatus /\ mgPc' \in {"list", "status"}
        /\ UNCHANGED <<mgServer, mgJob, mgRemote, mgEnv, mgList, mgStatus>>
    BY <1>3 DEF MgReadStatus, MgSync, mgFiles
  <2>2. RemoteInv' /\ RoundInv' /\ ListedHaveCredentials'
    BY <2>1 DEF MgIInv, RemoteInv, RoundInv, ListedHaveCredentials
  <2> QED
    BY <1>0, <2>1, <2>2, AgentStep
<1>4. CASE MgWriteStatus
  <2>1. /\ mgPc = "status" /\ mgPc' = "list" /\ mgStatus' \subseteq mgRead
        /\ UNCHANGED <<mgServer, mgJob, mgRemote, mgEnv, mgList, mgRead>>
    BY <1>4 DEF MgWriteStatus, MgSync
  <2>2. RemoteInv' /\ RoundInv' /\ ListedHaveCredentials'
    BY <2>1 DEF MgIInv, RemoteInv, RoundInv, ListedHaveCredentials
  <2> QED
    BY <1>0, <2>1, <2>2, AgentStep
<1>5. CASE MgWriteList
  <2>1. /\ mgPc = "list" /\ mgPc' = "stale"
        /\ mgList' = {[id |-> r.id, name |-> r.name] : r \in mgRemote}
        /\ UNCHANGED <<mgServer, mgJob, mgRemote, mgEnv, mgStatus, mgRead>>
    BY <1>5 DEF MgWriteList, MgSync
  <2>2. mgList' \subseteq Listed
    BY <1>0, <2>1 DEF Listed
  <2>3. RemoteInv' /\ RoundInv'
    BY <2>1 DEF MgIInv, RemoteInv, RoundInv
  <2>4. ListedHaveCredentials'
    <3> SUFFICES ASSUME NEW p \in mgList'
                 PROVE  mgEnv'[p.id] # 0 /\ \A q \in mgList' : q.name = p.name => q = p
      BY DEF ListedHaveCredentials
    <3>1. PICK r \in mgRemote : p = [id |-> r.id, name |-> r.name]
      BY <2>1
    <3>2. mgEnv[r.id] # 0
      BY <1>0, <2>1 DEF MgIInv, RoundInv
    <3>3. ASSUME NEW q \in mgList', q.name = p.name PROVE q = p
      <4>1. PICK s \in mgRemote : q = [id |-> s.id, name |-> s.name]
        BY <2>1
      <4> QED
        BY <3>1, <3>3, <4>1 DEF MgIInv, RemoteInv
    <3> QED
      BY <2>1, <3>1, <3>2, <3>3
  <2> QED
    BY <1>0, <2>1, <2>2, <2>3, <2>4, AgentStep
<1>6. ASSUME NEW i \in MgIds, MgRemoveStale(i)
      PROVE  MgIInv'
  <2>1. /\ mgPc = "stale" /\ i \notin IdsOf(mgRemote) /\ mgEnv' = [mgEnv EXCEPT ![i] = 0]
        /\ UNCHANGED <<mgServer, mgJob, mgPc, mgRemote, mgList, mgStatus, mgRead>>
    BY <1>6 DEF MgRemoveStale, MgSync, Stale
  <2>2. mgEnv' \in [MgIds -> 0..MgMaxCred] /\ \A j \in MgIds : j # i => mgEnv'[j] = mgEnv[j]
    BY <1>0, <2>1, MgAssumption
  <2>3. (\A r \in mgRemote : r.id # i) /\ \A r \in mgList : r.id # i
    BY <2>1 DEF IdsOf, MgIInv, RoundInv
  <2>4. RemoteInv' /\ RoundInv'
    BY <1>0, <2>1, <2>2, <2>3 DEF MgIInv, RemoteInv, RoundInv
  <2>5. ListedHaveCredentials'
    BY <1>0, <2>1, <2>2, <2>3 DEF MgIInv, ListedHaveCredentials
  <2> QED
    BY <1>0, <2>1, <2>2, <2>4, <2>5, AgentStep DEF MgIInv, MgTypeOK
<1>7. CASE MgApplied
  <2>1. /\ mgPc' = "idle" /\ mgRead' = {}
        /\ UNCHANGED <<mgServer, mgJob, mgRemote, mgEnv, mgList, mgStatus>>
    BY <1>7 DEF MgApplied, MgSync, mgFiles
  <2>2. RemoteInv' /\ RoundInv' /\ ListedHaveCredentials'
    BY <2>1 DEF MgIInv, RemoteInv, RoundInv, ListedHaveCredentials
  <2> QED
    BY <1>0, <2>1, <2>2, AgentStep
<1> QED
  BY <1>1, <1>2, <1>3, <1>4, <1>5, <1>6, <1>7 DEF MgRound

\* A round breaks off, or the agent dies; a run reads the list and records names.
LEMMA BreaksAndRunsIInv ==
  ASSUME MgIInv, MgBreaks \/ MgRunBegins \/ MgRunEnds
  PROVE  MgIInv'
<1>0. /\ mgEnv \in [MgIds -> 0..MgMaxCred] /\ mgList \subseteq Listed /\ mgStatus \subseteq MgNames
      /\ mgRead \subseteq MgNames /\ mgJob.repos \subseteq Listed
      /\ mgPc \in {"idle", "creds", "status", "list", "stale"}
  BY DEF MgIInv, MgTypeOK, MgRest, Listed
<1>1. CASE MgBreaks
  <2>1. /\ mgPc' = "idle" /\ mgRead' = {} /\ mgRemote' = {}
        /\ UNCHANGED <<mgServer, mgJob, mgEnv, mgList, mgStatus>>
    BY <1>1 DEF MgBreaks, MgSync, mgFiles
  <2>2. RemoteInv' /\ RoundInv' /\ ListedHaveCredentials'
    BY <2>1 DEF MgIInv, RemoteInv, RoundInv, ListedHaveCredentials
  <2> QED
    BY <1>0, <2>1, <2>2, AgentStep
<1>2. CASE MgRunBegins \/ MgRunEnds
  <2>1. UNCHANGED <<mgServer, mgPc, mgRemote, mgEnv, mgList, mgRead>>
    BY <1>2 DEF MgRunBegins, MgRunEnds, mgFiles
  <2>2. mgJob'.repos \subseteq Listed
    BY <1>0, <1>2 DEF MgRunBegins, MgRunEnds, NoRun
  <2>3. mgStatus' \subseteq MgNames
    BY <1>0, <1>2 DEF MgRunBegins, MgRunEnds, mgFiles, Recorded, NamesOf, Listed
  <2>4. RemoteInv' /\ RoundInv' /\ ListedHaveCredentials'
    BY <2>1 DEF MgIInv, RemoteInv, RoundInv, ListedHaveCredentials
  <2> QED
    BY <1>0, <2>1, <2>2, <2>3, <2>4, AgentStep
<1> QED
  BY <1>1, <1>2

\* MgIInv is an invariant of the server's rows and of the agent's files.
THEOREM MgIInvHolds == MgSpec => []MgIInv
<1>1. ASSUME MgIInv, [MgNext]_mgVars
      PROVE  MgIInv'
  <2>1. CASE UNCHANGED mgVars
    BY <1>1, <2>1 DEF mgVars, MgIInv, MgTypeOK, MgRest, RowsInv, EveryRowDeliverable, Live, Effective,
       RemoteInv, RoundInv, ListedHaveCredentials
  <2>2. CASE MgNext
    BY <1>1, <2>2, OperatorIInv, RoundIInv, BreaksAndRunsIInv DEF MgNext
  <2> QED
    BY <1>1, <2>1, <2>2
<1> QED
  BY <1>1, MgInitIInv, PTL DEF MgSpec

(***************************************************************************)
(* Whenever a run reads the agent's files, between any two writes of the   *)
(* sync loop and after any failure: a listed repository has credentials,   *)
(* no name is listed twice, and the server can hand out every repository.  *)
(***************************************************************************)
THEOREM ManagedCorrect == MgSpec => []ManagedInv
<1>1. MgIInv => ManagedInv
  BY DEF MgIInv, ManagedInv
<1> QED
  BY <1>1, MgIInvHolds, PTL

-----------------------------------------------------------------------------
(*****************************************************************************)
(* The storage node, for any number of uploads, credentials, peers, restarts *)
(* and lost reports.                                                         *)
(*                                                                           *)
(* The count the node enforces a quota with is kept by uploads that reserve  *)
(* and release it while a measurement may replace it (FlightInv, CountsInv). *)
(* That objects of an earlier repository are never served unnoticed under its*)
(* name rests on credentials that never come back (SecretsInv) and on the    *)
(* binding file that outlives the process (BindingInv).                      *)
(*****************************************************************************)

\* The uploads under way.
BusyUps == {u \in NdUploads : ndUp[u] # NoUpload}

\* The records of the node: the server's row, a configuration, a report, a target of the runtime,
\* the runtime, the binding on the disk, an upload.
NdTarget == [secret : Nat, revoked : BOOLEAN, used : Nat]
NdConfig == [role : 0..2, secret : Nat, revoked : BOOLEAN, peer : Nat]
NdReport == [active : BOOLEAN, running : BOOLEAN, used : Nat, dirty : BOOLEAN, complaint : BOOLEAN]
NdLocal == [secret : Nat, revoked : BOOLEAN, used : Nat, ready : BOOLEAN, dirty : BOOLEAN]
NdRuntime == [spec : 0..2, target : NdLocal, peer : Nat, active : BOOLEAN]
NdBound == [bound : Nat, warn : BOOLEAN]
NdUpload == [secret : Nat, live : BOOLEAN]

\* The types of the node's variables, by where they live.
ServerTypes ==
    /\ ndRole \in 0..2 /\ ndSecret \in 1..NdMaxSecret /\ ndRow \in NdTarget /\ ndPeer \in Nat
    /\ ndHealth \in {"unknown", "runs", "stopped", "complains"}
ManagerTypes == ndPc \in NdPcs /\ ndCfg \in NdConfig /\ ndMeasured \in Nat /\ ndSent \in NdReport
RunningTypes ==
    /\ ndRt \in NdRuntime /\ (ndRt.target.ready => ndRt.target.secret # 0)
    /\ ndBind \in NdBound /\ ndFile \in Nat /\ ndError \in BOOLEAN
DiskTypes == ndStore \in Nat /\ ndUp \in [NdUploads -> NdUpload] /\ ndPosts \in 0..NdMaxPosts /\ ndSkew \in BOOLEAN

NodeTypes == ServerTypes /\ ManagerTypes /\ RunningTypes /\ DiskTypes

\* Every byte, stored, counted or on its way, came with an upload.
CountsInv ==
    /\ IsFiniteSet(BusyUps) /\ ndStore + Cardinality(BusyUps) <= ndPosts + 1
    /\ ndRow.used <= ndPosts + 1 /\ ndRt.target.used <= ndPosts + 1
    /\ ndMeasured <= ndPosts + 1 /\ ndSent.used <= ndPosts + 1
    /\ ndWrote # {} => ndStore >= 1

\* Credentials are never used again: what the node knows is not newer than what the
\* server gave it, and a repository it has forgotten comes back under another one.
KnownBy(s) ==
    /\ ndRt.target.secret <= s
    /\ ndBind.bound # NoEntry => ndBind.bound <= s
    /\ ndFile # NoEntry => ndFile <= s
    /\ \A u \in BusyUps : ndUp[u].secret <= s

SecretsInv ==
    /\ ndRow.secret \in {0, ndSecret} /\ KnownBy(ndSecret)
    /\ ndCfg.secret <= ndSecret /\ (ndCfg.secret # 0 => KnownBy(ndCfg.secret))
    /\ ndRt.target.secret # 0 => /\ ndFile # NoEntry => ndFile <= ndRt.target.secret
                                 /\ ndBind.bound # NoEntry => ndBind.bound <= ndRt.target.secret
    /\ ndRt.target.secret # 0 /\ ~ndRt.target.ready => ndBind.bound # ndRt.target.secret
    /\ ndPc \in {"measure", "observe"} =>
           ndCfg.secret # 0 /\ ndRt.target.secret = ndCfg.secret /\ ndBind.bound # ndCfg.secret
    /\ ndRt.spec # 0 /\ ndRt.target.secret = 0 =>
           \A s \in {ndRow.secret, ndCfg.secret} \ {0} : s \notin {ndBind.bound, ndFile}
    /\ ndPc \in {"peers", "apply"} =>
           /\ ndCfg.role # 0
           /\ ndCfg.secret = 0 => ndRow.secret = 0 \/ ndRow.secret \notin {ndBind.bound, ndFile}
    /\ ndPc = "targets" => ndCfg.role # 0

\* While no measurement has met an upload: nothing is in flight that the node does not
\* count under the credential it serves.
FlightInv ==
    ~ndSkew =>
        /\ ndPc = "observe" => BusyUps = {} /\ ndMeasured = ndStore
        /\ ndRt.target.ready => /\ \A u \in BusyUps : ndUp[u].live
                                /\ ndRt.target.used >= ndStore + Cardinality(BusyUps)
        /\ ndRt.target.ready /\ ndPc # "measure" => \A u \in BusyUps : ndUp[u].secret = ndRt.target.secret
        /\ ndFile # NoEntry => \A u \in BusyUps : ndFile <= ndUp[u].secret

\* Nothing under the name belongs to another credential, or that was told or forgotten.
NdCleared(s) == ndWrote \subseteq {s} \/ s \in ndTold \cup ndLost

\* What is bound to the name on the disk is what the node serves, or somebody was told.
BindingInv ==
    ~ndSkew =>
        /\ ndRt.target.ready /\ ndPc \notin {"measure", "observe"} => ndBind.warn \/ NdCleared(ndRt.target.secret)
        /\ \A s \in {ndRow.secret, ndCfg.secret} \ {0} :
              s = ndFile => (ndBind.warn /\ ndBind.bound = s) \/ NdCleared(s)

\* The inductive invariant of the storage node.
NdIInv == NodeTypes /\ CountsInv /\ SecretsInv /\ FlightInv /\ BindingInv

\* The busy uploads of a smaller set are fewer.
LEMMA NdFewer ==
  ASSUME NEW S, IsFiniteSet(S), NEW T, T \subseteq S
  PROVE  IsFiniteSet(T) /\ Cardinality(T) \in Nat /\ Cardinality(S) \in Nat /\ Cardinality(T) <= Cardinality(S)
  BY FS_Subset, FS_CardinalityType

\* An upload that starts or ends changes their number by one.
LEMMA NdOneMore ==
  ASSUME NEW S, IsFiniteSet(S), NEW u, u \notin S
  PROVE  IsFiniteSet(S \cup {u}) /\ Cardinality(S \cup {u}) = Cardinality(S) + 1 /\ Cardinality(S) \in Nat
  BY FS_AddElement, FS_CardinalityType

\* A finite set without one of its members is smaller by one.
LEMMA NdOneLess ==
  ASSUME NEW S, IsFiniteSet(S), NEW u, u \in S
  PROVE  IsFiniteSet(S \ {u}) /\ Cardinality(S) = Cardinality(S \ {u}) + 1 /\ Cardinality(S \ {u}) \in Nat
<1>1. IsFiniteSet(S \ {u}) /\ Cardinality(S \ {u}) = Cardinality(S) - 1
  BY FS_RemoveElement
<1>2. Cardinality(S \ {u}) \in Nat /\ Cardinality(S) \in Nat
  BY <1>1, FS_CardinalityType
<1> QED
  BY <1>1, <1>2

\* What each action does to the set of busy uploads.
LEMMA NdBusyReserve ==
  ASSUME NodeTypes, IsFiniteSet(BusyUps), NEW u \in NdUploads, NdReserve(u)
  PROVE  /\ BusyUps' = BusyUps \cup {u} /\ IsFiniteSet(BusyUps') /\ Cardinality(BusyUps') = Cardinality(BusyUps) + 1
         /\ Cardinality(BusyUps) \in Nat
<1>1. u \notin BusyUps /\ BusyUps' = BusyUps \cup {u}
  <2>1. /\ ndRt.target.secret # 0 /\ ndUp[u] = NoUpload
        /\ ndUp' = [ndUp EXCEPT ![u] = [secret |-> ndRt.target.secret, live |-> TRUE]]
    BY DEF NdReserve, NodeTypes, RunningTypes
  <2>2. ndUp \in [NdUploads -> NdUpload]
    BY DEF NodeTypes, DiskTypes
  <2>3. \A v \in NdUploads : ndUp'[v] = IF v = u THEN [secret |-> ndRt.target.secret, live |-> TRUE] ELSE ndUp[v]
    BY <2>1, <2>2
  <2>4. [secret |-> ndRt.target.secret, live |-> TRUE] # NoUpload
    BY DEF NoUpload
  <2> QED
    BY <2>1, <2>3, <2>4 DEF BusyUps
<1> QED
  BY <1>1, NdOneMore

\* The end of an upload takes it from the busy ones, and no other.
LEMMA NdBusyEnds ==
  ASSUME NodeTypes, IsFiniteSet(BusyUps), NEW u \in NdUploads, NdStoreEnds(u)
  PROVE  /\ BusyUps' = BusyUps \ {u} /\ u \in BusyUps
         /\ IsFiniteSet(BusyUps') /\ Cardinality(BusyUps) = Cardinality(BusyUps') + 1 /\ Cardinality(BusyUps') \in Nat
<1>1. u \in BusyUps /\ BusyUps' = BusyUps \ {u}
  <2>1. ndUp[u] # NoUpload /\ ndUp' = [ndUp EXCEPT ![u] = NoUpload]
    BY DEF NdStoreEnds
  <2>2. ndUp \in [NdUploads -> NdUpload]
    BY DEF NodeTypes, DiskTypes
  <2>3. \A v \in NdUploads : ndUp'[v] = IF v = u THEN NoUpload ELSE ndUp[v]
    BY <2>1, <2>2
  <2> QED
    BY <2>1, <2>3 DEF BusyUps
<1> QED
  BY <1>1, NdOneLess

\* The end of a runtime leaves no upload busy that was not, and none with another credential.
LEMMA NdBusyOrphans ==
  ASSUME NodeTypes, IsFiniteSet(BusyUps), ndUp' \in {ndUp, Orphans, [u \in NdUploads |-> NoUpload]}
  PROVE  /\ BusyUps' \subseteq BusyUps /\ IsFiniteSet(BusyUps')
         /\ Cardinality(BusyUps') \in Nat /\ Cardinality(BusyUps) \in Nat /\ Cardinality(BusyUps') <= Cardinality(BusyUps)
         /\ \A u \in NdUploads : ndUp'[u].secret \in {ndUp[u].secret, 0}
         /\ \A u \in BusyUps' : ndUp'[u].secret = ndUp[u].secret
         /\ ndUp' \in [NdUploads -> NdUpload]
<1>1. ndUp \in [NdUploads -> NdUpload]
  BY DEF NodeTypes, DiskTypes
<1>2. ndUp = [u \in NdUploads |-> ndUp[u]] /\ \A u \in NdUploads : ndUp[u] = [secret |-> ndUp[u].secret, live |-> ndUp[u].live]
  BY <1>1 DEF NdUpload
<1>3. \A u \in NdUploads : /\ ndUp'[u] \in {ndUp[u], [secret |-> ndUp[u].secret, live |-> FALSE], NoUpload}
                           /\ ndUp[u] \in NdUpload
  BY <1>1 DEF Orphans, NdUpload
<1>4. ASSUME NEW u \in NdUploads
      PROVE  /\ ndUp[u] = NoUpload => ndUp'[u] = NoUpload
             /\ ndUp'[u].secret \in {ndUp[u].secret, 0} /\ ndUp'[u] \in NdUpload
             /\ ndUp'[u] # NoUpload => ndUp'[u].secret = ndUp[u].secret
  <2> DEFINE x == ndUp[u]
             y == ndUp'[u]
  <2>0. x \in NdUpload
    BY <1>3
  <2>1. y = x \/ y = [secret |-> x.secret, live |-> FALSE] \/ y = NoUpload
    BY <1>3
  <2> HIDE DEF x, y
  <2>2. (x = NoUpload => y = NoUpload) /\ y.secret \in {x.secret, 0}
    BY <2>1 DEF NoUpload
  <2>3. y \in NdUpload
    <3>1. NoUpload \in NdUpload
      BY DEF NoUpload, NdUpload
    <3>2. [secret |-> x.secret, live |-> FALSE] \in NdUpload
      BY <2>0 DEF NdUpload
    <3> QED
      BY <2>0, <2>1, <3>1, <3>2, Zenon
  <2>4. y # NoUpload => y.secret = x.secret
    BY <2>1
  <2> QED
    BY <2>2, <2>3, <2>4 DEF x, y
<1>5. BusyUps' \subseteq BusyUps
  BY <1>4 DEF BusyUps
<1>6. \A u \in NdUploads : ndUp'[u].secret \in {ndUp[u].secret, 0} /\ ndUp'[u] \in NdUpload
  BY <1>4
<1>7. \A u \in BusyUps' : ndUp'[u].secret = ndUp[u].secret
  BY <1>4 DEF BusyUps
<1>8. ndUp' \in [NdUploads -> NdUpload]
  BY <1>1, <1>6 DEF Orphans
<1> QED
  BY <1>5, <1>6, <1>7, <1>8, NdFewer

\* The node starts in the invariant.
LEMMA NdInitHolds == NdInit => NdIInv
<1> SUFFICES ASSUME NdInit
             PROVE  NdIInv
  OBVIOUS
<1> USE NdAssumption DEF NoTarget, NoCfg, NoLocal, Stopped, NoUpload, NoEntry, NoBind, NoReport
<1>1. BusyUps = {} /\ IsFiniteSet({}) /\ Cardinality({}) = 0
  BY FS_EmptySet DEF NdInit, BusyUps
<1>2. /\ NdMaxSecret \in Nat \ {0} /\ NdMaxPosts \in Nat
      /\ ndRow \in {[secret |-> 1, revoked |-> FALSE, used |-> 0], [secret |-> 1, revoked |-> TRUE, used |-> 1]}
      /\ ndRow.used \in {0, 1} /\ ndRow.secret = 1 /\ ndStore \in {0, 1} /\ ndFile \in {0, 1} /\ ndWrote \subseteq {1}
      /\ ndWrote # {} => ndStore = 1
      /\ ndRole \in {0, 1} /\ ndSecret = 1 /\ ndPeer = 1
  BY DEF NdInit
<1>3. NodeTypes
  <2>1. ndUp \in [NdUploads -> NdUpload] /\ ndCfg \in NdConfig /\ ndBind \in NdBound /\ ndSent \in NdReport
    BY DEF NdInit, NdUpload, NdConfig, NdBound, NdReport
  <2>2. ndRow \in NdTarget
    <3>1. CASE ndRow = [secret |-> 1, revoked |-> FALSE, used |-> 0]
      BY <3>1 DEF NdTarget
    <3>2. CASE ndRow = [secret |-> 1, revoked |-> TRUE, used |-> 1]
      BY <3>2 DEF NdTarget
    <3> QED
      BY <1>2, <3>1, <3>2
  <2>3. ndRt \in NdRuntime /\ ~ndRt.target.ready
    BY DEF NdInit, NdRuntime, NdLocal
  <2>4. ndError \in BOOLEAN /\ ndSkew \in BOOLEAN
    BY DEF NdInit
  <2>5. ndMeasured \in Nat /\ ndPosts \in 0..NdMaxPosts
    BY <1>2 DEF NdInit
  <2>6. ndRole \in 0..2 /\ ndSecret \in 1..NdMaxSecret /\ ndPeer \in Nat /\ ndFile \in Nat /\ ndStore \in Nat
    BY <1>2
  <2>7. ndPc \in NdPcs /\ ndHealth \in {"unknown", "runs", "stopped", "complains"}
    BY DEF NdInit, NdPcs
  <2> QED
    BY <2>1, <2>2, <2>3, <2>4, <2>5, <2>6, <2>7 DEF NodeTypes, ServerTypes, ManagerTypes, RunningTypes, DiskTypes
<1>4. CountsInv
  BY <1>1, <1>2 DEF NdInit, CountsInv
<1>5. SecretsInv
  BY <1>1, <1>2 DEF NdInit, SecretsInv, KnownBy
<1>6. FlightInv
  BY <1>1, <1>2 DEF NdInit, FlightInv
<1>7. BindingInv
  BY <1>2 DEF NdInit, BindingInv, NdCleared
<1> QED
  BY <1>3, <1>4, <1>5, <1>6, <1>7 DEF NdIInv

\* The runtime's target has the secret s, is ready or not, and counts n bytes.
Serves(rt, spec, s, ready, n) ==
    rt \in NdRuntime /\ rt.spec = spec /\ rt.target.secret = s /\ rt.target.ready = ready /\ rt.target.used = n

\* What the steps that only touch flags and peers leave of the runtime: all that matters here.
LEMMA NdRtKept ==
  ASSUME NodeTypes,
         \/ NdFetchPeers \/ NdApplyPeers \/ NdSnapshot \/ NdPost \/ ndRt' = ndRt
  PROVE  Serves(ndRt', ndRt.spec, ndRt.target.secret, ndRt.target.ready, ndRt.target.used)
<1>1. ndRt \in NdRuntime /\ ndRt.target \in NdLocal
  BY DEF NodeTypes, RunningTypes, NdRuntime
<1>2. CASE ndRt' = ndRt
  BY <1>1, <1>2 DEF Serves
<1>3. CASE ndRt' = [ndRt EXCEPT !.active = TRUE]
  <2>1. ndRt' \in NdRuntime
    BY <1>1, <1>3 DEF NdRuntime
  <2> QED
    BY <1>1, <1>3, <2>1 DEF Serves, NdRuntime
<1>4. ASSUME NEW q \in Nat, ndRt' = [ndRt EXCEPT !.peer = q]
      PROVE  Serves(ndRt', ndRt.spec, ndRt.target.secret, ndRt.target.ready, ndRt.target.used)
  <2>1. ndRt' \in NdRuntime
    BY <1>1, <1>4 DEF NdRuntime
  <2> QED
    BY <1>1, <1>4, <2>1 DEF Serves, NdRuntime
<1>5. ASSUME NEW d \in BOOLEAN, ndRt' = [ndRt EXCEPT !.target.dirty = d]
      PROVE  Serves(ndRt', ndRt.spec, ndRt.target.secret, ndRt.target.ready, ndRt.target.used)
  <2>1. PICK t \in NdLocal : t = [ndRt.target EXCEPT !.dirty = d]
    <3> SUFFICES ASSUME NEW t, t = [ndRt.target EXCEPT !.dirty = d]
                 PROVE  t \in NdLocal
      OBVIOUS
    <3> QED
      BY <1>1 DEF NdLocal
  <2>2. t.secret = ndRt.target.secret /\ t.used = ndRt.target.used /\ t.ready = ndRt.target.ready
    BY <1>1, <2>1 DEF NdLocal
  <2>3. ndRt' = [ndRt EXCEPT !.target = t]
    BY <1>1, <1>5, <2>1 DEF NdRuntime
  <2>4. ndRt' \in NdRuntime /\ ndRt'.target = t /\ ndRt'.spec = ndRt.spec
    BY <1>1, <2>3 DEF NdRuntime
  <2> QED
    BY <2>2, <2>4 DEF Serves
<1>6. \/ ndRt' = ndRt \/ ndRt' = [ndRt EXCEPT !.active = TRUE]
      \/ \E q \in Nat : ndRt' = [ndRt EXCEPT !.peer = q]
      \/ \E d \in BOOLEAN : ndRt' = [ndRt EXCEPT !.target.dirty = d]
  <2>1. ndCfg.peer \in Nat
    BY DEF NodeTypes, ManagerTypes, NdConfig
  <2>2. Restored \in BOOLEAN /\ FALSE \in BOOLEAN
    BY DEF Restored, NodeTypes, RunningTypes, ManagerTypes, NdReport, NdRuntime, NdLocal
  <2>3. NdFetchPeers => ndRt' \in {ndRt, [ndRt EXCEPT !.active = TRUE]}
    BY DEF NdFetchPeers
  <2>4. NdApplyPeers => ndRt' = [ndRt EXCEPT !.peer = ndCfg.peer]
    BY DEF NdApplyPeers
  <2>5. NdSnapshot => ndRt' = [ndRt EXCEPT !.target.dirty = FALSE]
    BY DEF NdSnapshot
  <2>6. NdPost => ndRt' = ndRt \/ ndRt' = [ndRt EXCEPT !.target.dirty = Restored]
    BY DEF NdPost
  <2> QED
    BY <2>1, <2>2, <2>3, <2>4, <2>5, <2>6
<1> QED
  BY <1>2, <1>3, <1>4, <1>5, <1>6

\* A runtime that is stopped, or not started, serves nothing.
LEMMA NdRtStopped == Serves(Stopped, 0, 0, FALSE, 0) /\ Serves([Stopped EXCEPT !.active = TRUE], 0, 0, FALSE, 0)
<1>1. NoLocal \in NdLocal
  BY DEF NdLocal, NoLocal
<1>2. Stopped \in NdRuntime
  BY <1>1 DEF NdRuntime, Stopped
<1>3. [Stopped EXCEPT !.active = TRUE] \in NdRuntime
  BY <1>2 DEF NdRuntime
<1>4. Stopped.spec = 0 /\ Stopped.target = NoLocal /\ [Stopped EXCEPT !.active = TRUE].spec = 0
      /\ [Stopped EXCEPT !.active = TRUE].target = NoLocal
  BY DEF Stopped
<1> QED
  BY <1>2, <1>3, <1>4 DEF Serves, NoLocal

\* replaceTargets keeps the count of a target it has, and forgets one that is gone.
LEMMA NdRtReplaced ==
  ASSUME NodeTypes, NdReplace
  PROVE  /\ ndCfg.secret = 0 => Serves(ndRt', ndRt.spec, 0, FALSE, 0)
         /\ ndCfg.secret # 0 => Serves(ndRt', ndRt.spec, ndCfg.secret, ndRt.target.ready, ndRt.target.used)
<1>1. ndRt \in NdRuntime /\ ndRt.target \in NdLocal /\ ndCfg.secret \in Nat /\ ndCfg.revoked \in BOOLEAN
  BY DEF NodeTypes, RunningTypes, ManagerTypes, NdRuntime, NdConfig
<1>2. PICK t \in NdLocal :
         /\ ndRt' = [ndRt EXCEPT !.target = t]
         /\ ndCfg.secret = 0 => t = NoLocal
         /\ ndCfg.secret # 0 => t.secret = ndCfg.secret /\ t.used = ndRt.target.used /\ t.ready = ndRt.target.ready
  <2>1. CASE ndCfg.secret = 0
    <3>1. NoLocal \in NdLocal
      BY DEF NdLocal, NoLocal
    <3> QED
      BY <2>1, <3>1 DEF NdReplace
  <2>2. CASE ndCfg.secret # 0
    <3>1. SUFFICES ASSUME NEW t, t = [ndRt.target EXCEPT !.secret = ndCfg.secret, !.revoked = ndCfg.revoked],
                          ndRt' = [ndRt EXCEPT !.target = t]
                   PROVE  t \in NdLocal /\ t.secret = ndCfg.secret /\ t.used = ndRt.target.used /\ t.ready = ndRt.target.ready
      BY <2>2 DEF NdReplace
    <3>2. t \in NdLocal
      BY <1>1, <3>1 DEF NdLocal
    <3> QED
      BY <1>1, <3>1, <3>2 DEF NdLocal
  <2> QED
    BY <2>1, <2>2
<1>3. ndRt' \in NdRuntime /\ ndRt'.target = t /\ ndRt'.spec = ndRt.spec
  BY <1>1, <1>2 DEF NdRuntime
<1> QED
  BY <1>2, <1>3 DEF Serves, NoLocal

\* A runtime that starts with a repository has measured it.
LEMMA NdRtStarted ==
  ASSUME NodeTypes, NdStart
  PROVE  \/ ndCfg.secret = 0 /\ Serves(ndRt', ndCfg.role, 0, FALSE, 0)
         \/ ndCfg.secret # 0 /\ Serves(ndRt', ndCfg.role, ndCfg.secret, TRUE, ndStore)
         \/ Serves(ndRt', 0, 0, FALSE, 0) /\ ndBind' = NoBind
<1>1. ndCfg.secret \in Nat /\ ndCfg.revoked \in BOOLEAN /\ ndCfg.role \in 0..2 /\ ndCfg.peer \in Nat /\ ndStore \in Nat
  BY DEF NodeTypes, ManagerTypes, DiskTypes, NdConfig
<1>2. NoLocal \in NdLocal
  BY DEF NdLocal, NoLocal
<1>3. CASE ndRt' = [Stopped EXCEPT !.active = TRUE] /\ ndBind' = NoBind
  BY <1>3, NdRtStopped
<1>4. CASE ndCfg.secret = 0 /\ ndRt' = [spec |-> ndCfg.role, peer |-> ndCfg.peer, active |-> TRUE, target |-> NoLocal]
  <2>1. ndRt' \in NdRuntime
    BY <1>1, <1>2, <1>4 DEF NdRuntime
  <2> QED
    BY <1>4, <2>1 DEF Serves, NoLocal
<1>5. CASE /\ ndCfg.secret # 0
           /\ ndRt' = [spec |-> ndCfg.role, peer |-> ndCfg.peer, active |-> TRUE,
                       target |-> [secret |-> ndCfg.secret, revoked |-> ndCfg.revoked, used |-> ndStore, ready |-> TRUE, dirty |-> TRUE]]
  <2>1. [secret |-> ndCfg.secret, revoked |-> ndCfg.revoked, used |-> ndStore, ready |-> TRUE, dirty |-> TRUE] \in NdLocal
    BY <1>1 DEF NdLocal
  <2>2. ndRt' \in NdRuntime
    BY <1>1, <1>5, <2>1 DEF NdRuntime
  <2> QED
    BY <1>5, <2>2 DEF Serves
<1> QED
  BY <1>3, <1>4, <1>5 DEF NdStart, StartUsage

\* The steps that give a target a new count.
LEMMA NdRtCounted ==
  ASSUME NodeTypes, NEW n \in Nat, NEW y \in BOOLEAN,
         ndRt' = [ndRt EXCEPT !.target = [ndRt.target EXCEPT !.used = n, !.ready = y, !.dirty = TRUE]]
  PROVE  Serves(ndRt', ndRt.spec, ndRt.target.secret, y, n)
<1>1. ndRt \in NdRuntime /\ ndRt.target \in NdLocal
  BY DEF NodeTypes, RunningTypes, NdRuntime
<1>2. SUFFICES ASSUME NEW t, t = [ndRt.target EXCEPT !.used = n, !.ready = y, !.dirty = TRUE],
                      ndRt' = [ndRt EXCEPT !.target = t]
               PROVE  Serves(ndRt', ndRt.spec, ndRt.target.secret, y, n)
  OBVIOUS
<1>3. t \in NdLocal
  BY <1>1, <1>2 DEF NdLocal
<1>4. t.secret = ndRt.target.secret /\ t.used = n /\ t.ready = y
  BY <1>1, <1>2 DEF NdLocal
<1>5. ndRt' \in NdRuntime /\ ndRt'.target = t /\ ndRt'.spec = ndRt.spec
  BY <1>1, <1>2, <1>3 DEF NdRuntime
<1> QED
  BY <1>4, <1>5 DEF Serves

\* A measurement leaves the target its credential and makes it ready.
LEMMA NdRtObserved ==
  ASSUME NodeTypes, NdObserve
  PROVE  Serves(ndRt', ndRt.spec, ndRt.target.secret, TRUE, ndMeasured)
<1>1. ndMeasured \in Nat
  BY DEF NodeTypes, ManagerTypes
<1>2. ndRt' = [ndRt EXCEPT !.target = [ndRt.target EXCEPT !.used = ndMeasured, !.ready = TRUE, !.dirty = TRUE]]
  BY DEF NdObserve, Measured
<1> QED
  BY <1>1, <1>2, NdRtCounted

\* A reservation adds a byte to the count of a target that is ready.
LEMMA NdRtReserved ==
  ASSUME NodeTypes, NEW u \in NdUploads, NdReserve(u)
  PROVE  Serves(ndRt', ndRt.spec, ndRt.target.secret, TRUE, ndRt.target.used + 1) /\ ndRt.target.ready
<1>1. ndRt \in NdRuntime /\ ndRt.target \in NdLocal /\ ndRt.target.used + 1 \in Nat
  BY DEF NodeTypes, RunningTypes, NdRuntime, NdLocal
<1>2. ndRt.target.ready = TRUE
  BY <1>1 DEF NdReserve, NdLocal
<1>3. ndRt' = [ndRt EXCEPT !.target = [ndRt.target EXCEPT !.used = @ + 1, !.dirty = TRUE]]
  BY DEF NdReserve
<1>4. [ndRt.target EXCEPT !.used = @ + 1, !.dirty = TRUE]
         = [ndRt.target EXCEPT !.used = ndRt.target.used + 1, !.ready = TRUE, !.dirty = TRUE]
  BY <1>1, <1>2 DEF NdLocal
<1> QED
  BY <1>1, <1>2, <1>3, <1>4, NdRtCounted

\* An upload that ends is stored and stays counted, or is not stored and may be taken off the count.
LEMMA NdRtReleased ==
  ASSUME NodeTypes, NEW u \in NdUploads, NdStoreEnds(u)
  PROVE  \E n \in {ndRt.target.used, Freed(ndRt.target.used)} :
            /\ Serves(ndRt', ndRt.spec, ndRt.target.secret, ndRt.target.ready, n)
            /\ \/ ndStore' = ndStore + 1 /\ ndWrote' = ndWrote \cup {ndUp[u].secret} /\ n = ndRt.target.used
               \/ /\ ndStore' = ndStore /\ ndWrote' = ndWrote
                  /\ ~ndUp[u].live => n = ndRt.target.used
<1>1. ndRt \in NdRuntime /\ ndRt.target \in NdLocal /\ ndRt.target.ready \in BOOLEAN /\ Freed(ndRt.target.used) \in Nat
  BY DEF NodeTypes, RunningTypes, NdRuntime, NdLocal, Freed
<1>2. Serves(ndRt, ndRt.spec, ndRt.target.secret, ndRt.target.ready, ndRt.target.used)
  BY <1>1 DEF Serves
<1>3. CASE ndStore' = ndStore + 1 /\ ndWrote' = ndWrote \cup {ndUp[u].secret} /\ ndRt' = ndRt
  BY <1>2, <1>3
<1>4. CASE ndStore' = ndStore /\ ndWrote' = ndWrote /\ ndRt' = ndRt /\ ~ndUp[u].live
  BY <1>2, <1>4
<1>5. CASE /\ ndStore' = ndStore /\ ndWrote' = ndWrote /\ ndUp[u].live
           /\ ndRt' = [ndRt EXCEPT !.target.used = Freed(@), !.target.dirty = TRUE]
  <2>1. ndRt' = [ndRt EXCEPT !.target = [ndRt.target EXCEPT !.used = Freed(ndRt.target.used), !.dirty = TRUE]]
    BY <1>1, <1>5 DEF NdRuntime
  <2>2. [ndRt.target EXCEPT !.used = Freed(ndRt.target.used), !.dirty = TRUE]
           = [ndRt.target EXCEPT !.used = Freed(ndRt.target.used), !.ready = ndRt.target.ready, !.dirty = TRUE]
    BY <1>1 DEF NdLocal
  <2>3. Serves(ndRt', ndRt.spec, ndRt.target.secret, ndRt.target.ready, Freed(ndRt.target.used))
    BY <1>1, <2>1, <2>2, NdRtCounted
  <2> QED
    BY <1>5, <2>3
<1> QED
  BY <1>3, <1>4, <1>5 DEF NdStoreEnds

\* The rows of the server keep their types.
LEMMA NdServerTypesHold == NodeTypes /\ NdNext => ServerTypes'
<1> SUFFICES ASSUME NodeTypes, NdNext
             PROVE  ServerTypes'
  OBVIOUS
<1> USE NdAssumption
<1>1. /\ ndRole \in 0..2 /\ ndSecret \in 1..NdMaxSecret /\ ndRow \in NdTarget /\ ndPeer \in Nat
      /\ ndHealth \in {"unknown", "runs", "stopped", "complains"} /\ ndSent.used \in Nat
  BY DEF NodeTypes, ServerTypes, ManagerTypes, NdReport
<1>2. CASE ndServer' = ndServer
  BY <1>1, <1>2 DEF ndServer, ServerTypes
<1>3. CASE NdPost /\ Reported
  <2>1. ndRow' \in NdTarget
    <3>1. CASE ndRow' = ndRow
      BY <1>1, <3>1
    <3>2. CASE ndRow' = [ndRow EXCEPT !.used = ndSent.used]
      BY <1>1, <3>2 DEF NdTarget
    <3> QED
      BY <1>3, <3>1, <3>2 DEF Reported
  <2>2. ndHealth' \in {"unknown", "runs", "stopped", "complains"}
    BY <1>3 DEF Reported
  <2>3. ndRole' = ndRole /\ ndPeer' = ndPeer /\ ndSecret' = ndSecret
    BY <1>3 DEF Reported
  <2> QED
    BY <1>1, <2>1, <2>2, <2>3 DEF ServerTypes
<1>4. CASE NdPromote \/ NdDemoteCheck \/ NdDemote
  BY <1>1, <1>4 DEF NdPromote, NdDemoteCheck, NdDemote, ServerTypes
<1>5. CASE NdPeerChanges
  BY <1>1, <1>5 DEF NdPeerChanges, ServerTypes
<1>6. CASE NdRevoke
  <2>1. ndRow' \in NdTarget
    BY <1>1, <1>6 DEF NdRevoke, NdTarget
  <2> QED
    BY <1>1, <1>6, <2>1 DEF NdRevoke, ServerTypes
<1>7. CASE NdRotate
  <2>1. ndSecret' \in 1..NdMaxSecret
    BY <1>1, <1>7 DEF NdRotate
  <2>2. ndRow' \in NdTarget
    <3>1. ndSecret' \in Nat
      BY <2>1
    <3>2. ndRow' = [ndRow EXCEPT !.secret = ndSecret', !.revoked = FALSE]
      BY <1>7 DEF NdRotate
    <3> QED
      BY <1>1, <3>1, <3>2 DEF NdTarget
  <2> QED
    BY <1>1, <1>7, <2>1, <2>2 DEF NdRotate, ServerTypes
<1>8. CASE NdCreateTarget
  <2>1. ndSecret' \in 1..NdMaxSecret
    BY <1>1, <1>8 DEF NdCreateTarget
  <2>2. ndRow' \in NdTarget
    BY <1>8, <2>1 DEF NdCreateTarget, NdTarget
  <2> QED
    BY <1>1, <1>8, <2>1, <2>2 DEF NdCreateTarget, ServerTypes
<1>9. CASE NdDeleteTarget
  <2>1. ndRow' \in NdTarget
    BY <1>9 DEF NdDeleteTarget, NdTarget, NoTarget
  <2> QED
    BY <1>1, <1>9, <2>1 DEF NdDeleteTarget, ServerTypes
<1>10. NdOperator \/ (NdPost /\ Reported) \/ ndServer' = ndServer
  BY DEF NdNext, NdRound, NdFetch, NdFetchTargets, NdFetchPeers, NdDisable, NdStart, NdReplace, NdMeasure, NdObserve, NdApplyPeers,
         NdSnapshot, NdPost, NdNoReport, NdUsageTick, NdCrash, NdReserve, NdStoreEnds, ndServer
<1> QED
  BY <1>2, <1>3, <1>4, <1>5, <1>6, <1>7, <1>8, <1>9, <1>10 DEF NdOperator

\* The state of the manager keeps its types.
LEMMA NdManagerTypesHold == NodeTypes /\ NdNext => ManagerTypes'
<1> SUFFICES ASSUME NodeTypes, NdNext
             PROVE  ManagerTypes'
  OBVIOUS
<1>1. /\ ndRole \in 0..2 /\ ndRow \in NdTarget /\ ndRow.secret \in Nat /\ ndRow.revoked \in BOOLEAN /\ ndPeer \in Nat
      /\ ndPc \in NdPcs /\ ndCfg \in NdConfig /\ ndMeasured \in Nat /\ ndSent \in NdReport /\ ndStore \in Nat
      /\ ndRt.active \in BOOLEAN /\ ndRt.target.used \in Nat /\ ndRt.target.dirty \in BOOLEAN
      /\ ndBind.warn \in BOOLEAN /\ ndError \in BOOLEAN
  BY DEF NodeTypes, ServerTypes, ManagerTypes, RunningTypes, DiskTypes, NdTarget, NdRuntime, NdLocal, NdBound
<1>2. NoCfg \in NdConfig /\ NoReport \in NdReport
  BY DEF NoCfg, NoReport, NdConfig, NdReport
<1>3. CASE ndManager' = ndManager
  BY <1>1, <1>3 DEF ndManager, ManagerTypes
<1>4. CASE NdFetch
  <2>1. ndCfg' \in NdConfig
    <3>1. CASE ndCfg' = ndCfg
      BY <1>1, <3>1
    <3>2. CASE ndCfg' = [NoCfg EXCEPT !.role = ndRole]
      BY <1>1, <1>2, <3>2 DEF NdConfig
    <3> QED
      BY <1>4, <3>1, <3>2 DEF NdFetch
  <2> QED
    BY <1>1, <1>4, <2>1 DEF NdFetch, ManagerTypes, NdPcs
<1>17. CASE NdFetchTargets
  <2>1. ndCfg' \in NdConfig
    <3>1. [ndCfg EXCEPT !.secret = ndRow.secret, !.revoked = ndRow.revoked] \in NdConfig
      BY <1>1 DEF NdConfig
    <3> QED
      BY <1>2, <1>17, <3>1 DEF NdFetchTargets
  <2> QED
    BY <1>1, <1>17, <2>1 DEF NdFetchTargets, ManagerTypes, NdPcs
<1>5. CASE NdFetchPeers
  <2>1. ndCfg' \in NdConfig
    <3>1. PICK q \in Nat : q = Allowed
      BY <1>1 DEF Allowed
    <3>2. [ndCfg EXCEPT !.peer = q] \in NdConfig
      BY <1>1 DEF NdConfig
    <3> QED
      BY <1>2, <1>5, <3>1, <3>2 DEF NdFetchPeers
  <2> QED
    BY <1>1, <1>5, <2>1 DEF NdFetchPeers, ManagerTypes, NdPcs
<1>6. CASE NdDisable \/ NdStart \/ NdReplace \/ NdApplyPeers
  <2>1. ndCfg' \in {ndCfg, NoCfg} /\ ndPc' \in NdPcs /\ ndMeasured' = ndMeasured /\ ndSent' = ndSent
    BY <1>6 DEF NdDisable, NdStart, NdReplace, NdApplyPeers, NdPcs
  <2> QED
    BY <1>1, <1>2, <2>1 DEF ManagerTypes
<1>7. CASE NdMeasure \/ NdObserve
  <2>1. ndCfg' \in {ndCfg, NoCfg} /\ ndPc' \in NdPcs /\ ndMeasured' \in {ndMeasured, ndStore, 0} /\ ndSent' = ndSent
    BY <1>7 DEF NdMeasure, NdObserve, NdPcs
  <2> QED
    BY <1>1, <1>2, <2>1 DEF ManagerTypes
<1>8. CASE NdSnapshot
  <2>1. ndSent' \in NdReport
    <3>1. PICK c \in BOOLEAN : c = (ndBind.warn \/ ndError)
      OBVIOUS
    <3>2. PICK r \in BOOLEAN : r = (ndRt.spec # 0)
      OBVIOUS
    <3>3. ndSent' = [active |-> ndRt.active, running |-> r, used |-> ndRt.target.used, dirty |-> ndRt.target.dirty, complaint |-> c]
      BY <1>8, <3>1, <3>2, Zenon DEF NdSnapshot
    <3> QED
      BY <1>1, <3>3 DEF NdReport
  <2>2. ndPc' = "post" /\ ndCfg' = ndCfg /\ ndMeasured' = ndMeasured
    BY <1>8 DEF NdSnapshot
  <2> QED
    BY <1>1, <2>1, <2>2 DEF ManagerTypes, NdPcs
<1>9. CASE NdPost \/ NdNoReport \/ NdUsageTick \/ NdCrash
  <2>1. ndCfg' \in {ndCfg, NoCfg} /\ ndPc' \in NdPcs /\ ndMeasured' \in {ndMeasured, 0} /\ ndSent' \in {ndSent, NoReport}
    BY <1>9 DEF NdPost, NdNoReport, NdUsageTick, NdCrash, NdPcs
  <2> QED
    BY <1>1, <1>2, <2>1 DEF ManagerTypes
<1>10. NdRound \/ NdCrash \/ ndManager' = ndManager
  BY DEF NdNext, NdOperator, NdPromote, NdDemoteCheck, NdDemote, NdRevoke, NdRotate, NdDeleteTarget, NdCreateTarget,
         NdPeerChanges, NdReserve, NdStoreEnds, ndManager
<1> QED
  BY <1>3, <1>4, <1>5, <1>6, <1>7, <1>8, <1>9, <1>10, <1>17 DEF NdRound

\* The runtime keeps its types, and a target that is ready has a credential.
LEMMA NdRunningTypesHold == NodeTypes /\ SecretsInv /\ NdNext => RunningTypes'
<1> SUFFICES ASSUME NodeTypes, SecretsInv, NdNext
             PROVE  RunningTypes'
  OBVIOUS
<1> USE NdAssumption
<1>1. /\ ndRt \in NdRuntime /\ ndRt.target.secret \in Nat /\ (ndRt.target.ready => ndRt.target.secret # 0)
      /\ ndBind \in NdBound /\ ndFile \in Nat /\ ndError \in BOOLEAN
      /\ ndCfg.secret \in Nat /\ ndMeasured \in Nat /\ ndStore \in Nat /\ ndBind.bound \in Nat /\ NoEntry \in Nat
  BY DEF NodeTypes, ManagerTypes, RunningTypes, DiskTypes, NdRuntime, NdLocal, NdConfig, NdBound, NoEntry
<1>2. NoBind \in NdBound /\ [ndBind EXCEPT !.warn = FALSE] \in NdBound
  BY <1>1 DEF NdBound, NoBind
<1>3. ASSUME NEW s, NEW y \in BOOLEAN, NEW k, NEW n, Serves(ndRt', k, s, y, n), y => s # 0
      PROVE  ndRt' \in NdRuntime /\ (ndRt'.target.ready => ndRt'.target.secret # 0)
  BY <1>3 DEF Serves
<1>4. ndRt.target.ready \in BOOLEAN
  BY <1>1 DEF NdRuntime, NdLocal
<1>5. CASE ndRunning' = ndRunning
  BY <1>1, <1>5 DEF ndRunning, RunningTypes
<1>6. CASE NdFetchPeers \/ NdApplyPeers \/ NdSnapshot \/ NdPost
  <2>1. ndRt' \in NdRuntime /\ (ndRt'.target.ready => ndRt'.target.secret # 0)
    BY <1>1, <1>3, <1>4, <1>6, NdRtKept
  <2>2. ndBind' = ndBind /\ ndFile' = ndFile /\ ndError' = ndError
    BY <1>6 DEF NdFetchPeers, NdApplyPeers, NdSnapshot, NdPost
  <2> QED
    BY <1>1, <2>1, <2>2 DEF RunningTypes
<1>7. CASE NdDisable \/ NdCrash
  <2>1. ndRt' = Stopped /\ ndBind' = NoBind /\ ndError' = FALSE /\ ndFile' = ndFile
    BY <1>7 DEF NdDisable, NdCrash
  <2>2. ndRt' \in NdRuntime /\ (ndRt'.target.ready => ndRt'.target.secret # 0)
    BY <1>3, <2>1, NdRtStopped
  <2> QED
    BY <1>1, <1>2, <2>1, <2>2 DEF RunningTypes
<1>8. CASE NdStart
  <2>1. ndRt' \in NdRuntime /\ (ndRt'.target.ready => ndRt'.target.secret # 0)
    BY <1>1, <1>3, <1>8, NdRtStarted
  <2>2. ndBind' \in NdBound
    <3>1. PICK b \in Nat : b = Bound(ndCfg.secret)
      BY <1>1 DEF Bound
    <3>2. CASE ndBind' = NoBind
      BY <1>2, <3>2
    <3>3. CASE ndBind' = [bound |-> b, warn |-> FALSE]
      BY <3>3 DEF NdBound
    <3>4. CASE ndBind' = [bound |-> ndCfg.secret, warn |-> Warns(b, ndCfg.secret, StartUsage)]
      <4>1. PICK w \in BOOLEAN : w = Warns(b, ndCfg.secret, StartUsage)
        BY DEF Warns
      <4> HIDE DEF Warns
      <4>2. ndBind' = [bound |-> ndCfg.secret, warn |-> w]
        BY <3>4, <4>1, Zenon
      <4> QED
        BY <1>1, <4>2 DEF NdBound
    <3> QED
      BY <1>8, <3>1, <3>2, <3>3, <3>4 DEF NdStart
  <2>3. ndFile' \in Nat /\ ndError' \in BOOLEAN
    <3>1. ndBind'.bound \in Nat
      BY <2>2 DEF NdBound
    <3>2. ndCfg.secret \in Nat /\ Bound(ndCfg.secret) \in Nat
      BY <1>1 DEF Bound
    <3> QED
      BY <1>1, <1>8, <3>1, <3>2 DEF NdStart
  <2> QED
    BY <2>1, <2>2, <2>3 DEF RunningTypes
<1>9. CASE NdReplace
  <2>1. ndRt' \in NdRuntime /\ (ndRt'.target.ready => ndRt'.target.secret # 0)
    <3>1. CASE ndCfg.secret = 0
      BY <1>3, <1>9, <3>1, NdRtReplaced
    <3>2. CASE ndCfg.secret # 0
      BY <1>3, <1>4, <1>9, <3>2, NdRtReplaced
    <3> QED
      BY <3>1, <3>2
  <2>2. ndBind' \in {ndBind, [ndBind EXCEPT !.warn = FALSE]} /\ ndFile' = ndFile /\ ndError' = ndError
    BY <1>9 DEF NdReplace
  <2> QED
    BY <1>1, <1>2, <2>1, <2>2 DEF RunningTypes
<1>10. CASE NdMeasure
  BY <1>1, <1>10 DEF NdMeasure, RunningTypes
<1>11. CASE NdObserve
  <2>1. ndRt' \in NdRuntime /\ ndRt'.target.secret = ndRt.target.secret
    BY <1>11, NdRtObserved DEF Serves
  <2>2. ndRt.target.secret # 0
    BY <1>11 DEF NdObserve, SecretsInv
  <2>3. ndBind' \in NdBound
    <3>1. PICK w \in BOOLEAN : w = Warns(ndBind.bound, ndCfg.secret, ndMeasured)
      BY DEF Warns
    <3>2. ndBind' = [bound |-> ndCfg.secret, warn |-> w]
      BY <1>11, <3>1, Zenon DEF NdObserve
    <3> QED
      BY <1>1, <3>2 DEF NdBound
  <2>4. ndFile' \in Nat /\ ndError' \in BOOLEAN
    BY <1>1, <1>11 DEF NdObserve
  <2> QED
    BY <2>1, <2>2, <2>3, <2>4 DEF RunningTypes
<1>12. ASSUME NEW u \in NdUploads, NdReserve(u)
       PROVE  RunningTypes'
  <2>1. ndRt' \in NdRuntime /\ ndRt'.target.secret = ndRt.target.secret /\ ndRt.target.ready
    BY <1>12, NdRtReserved DEF Serves
  <2>2. ndBind' = ndBind /\ ndFile' = ndFile /\ ndError' = ndError
    BY <1>12 DEF NdReserve
  <2> QED
    BY <1>1, <2>1, <2>2 DEF RunningTypes
<1>13. ASSUME NEW u \in NdUploads, NdStoreEnds(u)
       PROVE  RunningTypes'
  <2>1. ndRt' \in NdRuntime /\ (ndRt'.target.ready => ndRt'.target.secret # 0)
    BY <1>1, <1>3, <1>4, <1>13, NdRtReleased
  <2>2. ndBind' = ndBind /\ ndFile' = ndFile /\ ndError' = ndError
    BY <1>13 DEF NdStoreEnds
  <2> QED
    BY <1>1, <2>1, <2>2 DEF RunningTypes
<1>14. \/ NdRound \/ NdCrash \/ ndRunning' = ndRunning
       \/ \E u \in NdUploads : NdReserve(u) \/ NdStoreEnds(u)
  BY DEF NdNext, NdOperator, NdPromote, NdDemoteCheck, NdDemote, NdRevoke, NdRotate, NdDeleteTarget, NdCreateTarget,
         NdPeerChanges, ndRunning
<1>15. NdFetch \/ NdFetchTargets \/ NdNoReport \/ NdUsageTick => ndRunning' = ndRunning
  BY DEF NdFetch, NdFetchTargets, NdNoReport, NdUsageTick, ndRunning
<1> QED
  BY <1>5, <1>6, <1>7, <1>8, <1>9, <1>10, <1>11, <1>12, <1>13, <1>14, <1>15 DEF NdRound

\* What is on the disk keeps its types.
LEMMA NdDiskTypesHold == NodeTypes /\ NdNext => DiskTypes'
<1> SUFFICES ASSUME NodeTypes, NdNext
             PROVE  DiskTypes'
  OBVIOUS
<1> USE NdAssumption
<1>1. /\ ndStore \in Nat /\ ndUp \in [NdUploads -> NdUpload] /\ ndPosts \in 0..NdMaxPosts /\ ndSkew \in BOOLEAN
      /\ NdMaxPosts \in Nat /\ ndRt.target.secret \in Nat
  BY DEF NodeTypes, RunningTypes, DiskTypes, NdRuntime, NdLocal
<1>2. NoUpload \in NdUpload
  BY DEF NoUpload, NdUpload
<1>3. ndSkew' \in BOOLEAN
  <2>1. ndSkew' = ndSkew \/ ndSkew' = (ndSkew \/ Busy) \/ ndSkew' = (ndSkew \/ ndPc = "observe")
    BY DEF NdNext, NdRound, NdOperator, NdFetch, NdFetchTargets, NdFetchPeers, NdDisable, NdStart, NdReplace, NdMeasure, NdObserve,
           NdApplyPeers, NdSnapshot, NdPost, NdNoReport, NdUsageTick, NdPromote, NdDemoteCheck, NdDemote, NdRevoke,
           NdRotate, NdDeleteTarget, NdCreateTarget, NdPeerChanges, NdCrash, NdReserve, NdStoreEnds, ndHistory
  <2> HIDE DEF Busy
  <2> QED
    BY <1>1, <2>1
<1>4. ndStore' \in Nat /\ ndPosts' \in 0..NdMaxPosts
  <2>1. ndStore' \in {ndStore, ndStore + 1} /\ (ndPosts' = ndPosts \/ (ndPosts < NdMaxPosts /\ ndPosts' = ndPosts + 1))
    BY DEF NdNext, NdRound, NdOperator, NdFetch, NdFetchTargets, NdFetchPeers, NdDisable, NdStart, NdReplace, NdMeasure, NdObserve,
           NdApplyPeers, NdSnapshot, NdPost, NdNoReport, NdUsageTick, NdPromote, NdDemoteCheck, NdDemote, NdRevoke,
           NdRotate, NdDeleteTarget, NdCreateTarget, NdPeerChanges, NdCrash, NdReserve, NdStoreEnds, ndDisk, ndBounds
  <2> QED
    BY <1>1, <2>1
<1>5. ndUp' \in [NdUploads -> NdUpload]
  <2>1. CASE ndUp' \in {ndUp, Orphans, [u \in NdUploads |-> NoUpload]}
    <3>1. Orphans \in [NdUploads -> NdUpload]
      BY <1>1 DEF Orphans, NdUpload
    <3> QED
      BY <1>1, <1>2, <2>1, <3>1
  <2>2. ASSUME NEW u \in NdUploads, NdReserve(u)
        PROVE  ndUp' \in [NdUploads -> NdUpload]
    <3>1. PICK v \in NdUpload : ndUp' = [ndUp EXCEPT ![u] = v]
      BY <1>1, <2>2 DEF NdReserve, NdUpload
    <3> QED
      BY <1>1, <3>1
  <2>3. ASSUME NEW u \in NdUploads, NdStoreEnds(u)
        PROVE  ndUp' \in [NdUploads -> NdUpload]
    BY <1>1, <1>2, <2>3 DEF NdStoreEnds
  <2>4. \/ ndUp' \in {ndUp, Orphans, [u \in NdUploads |-> NoUpload]}
        \/ \E u \in NdUploads : NdReserve(u) \/ NdStoreEnds(u)
    <3> HIDE DEF Orphans
    <3> QED
      BY DEF NdNext, NdRound, NdOperator, NdFetch, NdFetchTargets, NdFetchPeers, NdDisable, NdStart, NdReplace, NdMeasure, NdObserve,
             NdApplyPeers, NdSnapshot, NdPost, NdNoReport, NdUsageTick, NdPromote, NdDemoteCheck, NdDemote, NdRevoke,
             NdRotate, NdDeleteTarget, NdCreateTarget, NdPeerChanges, NdCrash, ndDisk
  <2> QED
    BY <2>1, <2>2, <2>3, <2>4
<1> QED
  BY <1>3, <1>4, <1>5 DEF DiskTypes

\* The steps that leave the disk alone, but for uploads that are cut off.
NdNoUploadStep == NdRound \/ NdOperator \/ NdCrash

\* A step that is no upload's stores nothing.
LEMMA NdDiskKept ==
  ASSUME NodeTypes, NdNoUploadStep
  PROVE  /\ ndUp' \in {ndUp, Orphans, [u \in NdUploads |-> NoUpload]}
         /\ ndStore' = ndStore /\ ndPosts' = ndPosts /\ ndWrote' = ndWrote
<1> HIDE DEF Orphans
<1> QED
  BY DEF NdNoUploadStep, NdRound, NdOperator, NdFetch, NdFetchTargets, NdFetchPeers, NdDisable, NdStart, NdReplace, NdMeasure, NdObserve,
         NdApplyPeers, NdSnapshot, NdPost, NdNoReport, NdUsageTick, NdPromote, NdDemoteCheck, NdDemote, NdRevoke, NdRotate,
         NdDeleteTarget, NdCreateTarget, NdPeerChanges, NdCrash, ndDisk, ndBounds, ndHistory

\* The runtime's count after a step that is no upload's.
LEMMA NdCountAfter ==
  ASSUME NodeTypes, NdNoUploadStep
  PROVE  ndRt'.target.used \in {ndRt.target.used, 0, ndStore, ndMeasured}
<1>1. CASE NdFetchPeers \/ NdApplyPeers \/ NdSnapshot \/ NdPost \/ ndRt' = ndRt
  BY <1>1, NdRtKept DEF Serves
<1>2. CASE NdDisable \/ NdCrash
  BY <1>2, NdRtStopped DEF NdDisable, NdCrash, Serves
<1>3. CASE NdStart
  BY <1>3, NdRtStarted DEF Serves
<1>4. CASE NdReplace
  BY <1>4, NdRtReplaced DEF Serves
<1>5. CASE NdObserve
  BY <1>5, NdRtObserved DEF Serves
<1>6. NdOperator \/ NdFetch \/ NdFetchTargets \/ NdMeasure \/ NdNoReport \/ NdUsageTick => ndRt' = ndRt
  BY DEF NdOperator, NdFetch, NdFetchTargets, NdMeasure, NdNoReport, NdUsageTick, NdPromote, NdDemoteCheck, NdDemote, NdRevoke, NdRotate,
         NdDeleteTarget, NdCreateTarget, NdPeerChanges, ndRunning
<1> QED
  BY <1>1, <1>2, <1>3, <1>4, <1>5, <1>6 DEF NdNoUploadStep, NdRound

\* The usage in the row of the server is the one it had, the one reported, or that of a new row.
LEMMA NdRowUsed ==
  ASSUME NodeTypes, NdNext
  PROVE  ndRow'.used \in {ndRow.used, ndSent.used, 0}
<1>1. ndRow \in NdTarget
  BY DEF NodeTypes, ServerTypes
<1>2. CASE NdPost
  <2>1. ndRow' = ndRow \/ ndRow' = [ndRow EXCEPT !.used = ndSent.used]
    BY <1>2 DEF NdPost, Reported, ndServer
  <2> QED
    BY <1>1, <2>1 DEF NdTarget
<1>3. CASE NdRevoke \/ NdRotate
  BY <1>1, <1>3 DEF NdRevoke, NdRotate, NdTarget
<1>4. CASE NdDeleteTarget \/ NdCreateTarget
  BY <1>4 DEF NdDeleteTarget, NdCreateTarget, NoTarget
<1>5. NdPost \/ NdRevoke \/ NdRotate \/ NdDeleteTarget \/ NdCreateTarget \/ ndRow' = ndRow
  BY DEF NdNext, NdRound, NdOperator, NdFetch, NdFetchTargets, NdFetchPeers, NdDisable, NdStart, NdReplace, NdMeasure, NdObserve,
         NdApplyPeers, NdSnapshot, NdNoReport, NdUsageTick, NdPromote, NdDemoteCheck, NdDemote, NdPeerChanges, NdCrash,
         NdReserve, NdStoreEnds, ndServer
<1> QED
  BY <1>2, <1>3, <1>4, <1>5

\* No step counts a byte that no upload brought.
LEMMA NdCountsHold == NodeTypes /\ CountsInv /\ NdNext => CountsInv'
<1> SUFFICES ASSUME NodeTypes, CountsInv, NdNext
             PROVE  CountsInv'
  OBVIOUS
<1>1. /\ ndPosts \in Nat /\ ndStore \in Nat /\ ndMeasured \in Nat /\ ndSent.used \in Nat
      /\ ndRt.target.used \in Nat /\ ndRow.used \in Nat
  BY NdAssumption DEF NodeTypes, ServerTypes, ManagerTypes, RunningTypes, DiskTypes, NdTarget, NdReport, NdRuntime, NdLocal
<1>2. /\ IsFiniteSet(BusyUps) /\ ndStore + Cardinality(BusyUps) <= ndPosts + 1
      /\ ndRow.used <= ndPosts + 1 /\ ndRt.target.used <= ndPosts + 1
      /\ ndMeasured <= ndPosts + 1 /\ ndSent.used <= ndPosts + 1
      /\ ndWrote # {} => ndStore >= 1
  BY DEF CountsInv
<1>3. Cardinality(BusyUps) \in Nat
  BY <1>2, FS_CardinalityType
<1>4. ndRow'.used <= ndPosts + 1
  BY <1>1, <1>2, NdRowUsed
<1>5. CASE NdNoUploadStep
  <2>1. ndStore' = ndStore /\ ndPosts' = ndPosts /\ ndWrote' = ndWrote
    BY <1>5, NdDiskKept
  <2>2. IsFiniteSet(BusyUps') /\ Cardinality(BusyUps') \in Nat /\ Cardinality(BusyUps') <= Cardinality(BusyUps)
    BY <1>2, <1>5, NdDiskKept, NdBusyOrphans
  <2>3. ndRt'.target.used <= ndPosts + 1
    BY <1>1, <1>2, <1>3, <1>5, NdCountAfter
  <2>4. ndMeasured' \in {ndMeasured, ndStore, 0}
    BY <1>5 DEF NdNoUploadStep, NdRound, NdOperator, NdFetch, NdFetchTargets, NdFetchPeers, NdDisable, NdStart, NdReplace, NdMeasure,
         NdObserve, NdApplyPeers, NdSnapshot, NdPost, NdNoReport, NdUsageTick, NdPromote, NdDemoteCheck, NdDemote, NdRevoke,
         NdRotate, NdDeleteTarget, NdCreateTarget, NdPeerChanges, NdCrash, ndManager
  <2>5. ndSent'.used \in {ndSent.used, ndRt.target.used, 0}
    <3>1. CASE NdSnapshot
      BY <3>1 DEF NdSnapshot
    <3>2. CASE ~NdSnapshot
      <4>1. ndSent' = ndSent \/ ndSent' = NoReport
        BY <1>5, <3>2 DEF NdNoUploadStep, NdRound, NdOperator, NdFetch, NdFetchTargets, NdFetchPeers, NdDisable, NdStart, NdReplace,
           NdMeasure, NdObserve, NdApplyPeers, NdPost, NdNoReport, NdUsageTick, NdPromote, NdDemoteCheck, NdDemote,
           NdRevoke, NdRotate, NdDeleteTarget, NdCreateTarget, NdPeerChanges, NdCrash, ndManager
      <4> QED
        BY <4>1 DEF NoReport
    <3> QED
      BY <3>1, <3>2
  <2>6. ndMeasured' <= ndPosts + 1 /\ ndSent'.used <= ndPosts + 1
    BY <1>1, <1>2, <1>3, <2>4, <2>5
  <2>7. ndStore + Cardinality(BusyUps') <= ndPosts + 1
    BY <1>1, <1>2, <1>3, <2>2
  <2> QED
    BY <1>2, <1>4, <2>1, <2>2, <2>3, <2>6, <2>7 DEF CountsInv
<1>6. ASSUME NEW u \in NdUploads, NdReserve(u)
      PROVE  CountsInv'
  <2>1. ndPosts' = ndPosts + 1 /\ ndStore' = ndStore /\ ndMeasured' = ndMeasured /\ ndSent' = ndSent /\ ndWrote' = ndWrote
    BY <1>6 DEF NdReserve, ndManager
  <2>2. IsFiniteSet(BusyUps') /\ Cardinality(BusyUps') = Cardinality(BusyUps) + 1
    BY <1>2, <1>6, NdBusyReserve
  <2>3. ndRt'.target.used = ndRt.target.used + 1
    BY <1>6, NdRtReserved DEF Serves
  <2>4. ndRow' = ndRow
    BY <1>6 DEF NdReserve, ndServer
  <2>5. ndStore + Cardinality(BusyUps') <= ndPosts + 1 + 1 /\ ndRt'.target.used <= ndPosts + 1 + 1
        /\ ndRow.used <= ndPosts + 1 + 1 /\ ndMeasured <= ndPosts + 1 + 1 /\ ndSent.used <= ndPosts + 1 + 1
    BY <1>1, <1>2, <1>3, <2>2, <2>3
  <2> QED
    BY <1>2, <2>1, <2>2, <2>4, <2>5 DEF CountsInv
<1>7. ASSUME NEW u \in NdUploads, NdStoreEnds(u)
      PROVE  CountsInv'
  <2>1. ndPosts' = ndPosts /\ ndMeasured' = ndMeasured /\ ndSent' = ndSent /\ ndRow' = ndRow
    BY <1>7 DEF NdStoreEnds, ndManager, ndServer, ndBounds
  <2>2. IsFiniteSet(BusyUps') /\ Cardinality(BusyUps) = Cardinality(BusyUps') + 1 /\ Cardinality(BusyUps') \in Nat
    BY <1>2, <1>7, NdBusyEnds
  <2>3. /\ ndRt'.target.used \in {ndRt.target.used, Freed(ndRt.target.used)}
        /\ ndStore' = ndStore + 1 \/ (ndStore' = ndStore /\ ndWrote' = ndWrote)
    BY <1>7, NdRtReleased DEF Serves
  <2>4. ndRt'.target.used <= ndPosts + 1
    BY <1>1, <1>2, <2>3 DEF Freed
  <2>5. ndStore' + Cardinality(BusyUps') <= ndPosts + 1 /\ (ndWrote' # {} => ndStore' >= 1)
    BY <1>1, <1>2, <2>2, <2>3
  <2> QED
    BY <1>2, <2>1, <2>2, <2>4, <2>5 DEF CountsInv
<1> QED
  BY <1>5, <1>6, <1>7 DEF NdNext, NdNoUploadStep

\* No step makes a credential come back.
LEMMA NdSecretsHold == NodeTypes /\ CountsInv /\ SecretsInv /\ NdNext => SecretsInv'
<1> SUFFICES ASSUME NodeTypes, CountsInv, SecretsInv, NdNext
             PROVE  SecretsInv'
  OBVIOUS
<1>1. /\ ndSecret \in Nat /\ NdMaxSecret \in Nat /\ ndSecret <= NdMaxSecret /\ ndRow.secret \in Nat /\ ndCfg.secret \in Nat
      /\ ndRt.target.secret \in Nat /\ ndBind.bound \in Nat /\ ndFile \in Nat /\ ndRow \in NdTarget /\ ndRt.spec \in 0..2
      /\ ndRole \in 0..2 /\ ndCfg \in NdConfig /\ ndBind \in NdBound /\ ndRt.target.ready \in BOOLEAN
      /\ ndUp \in [NdUploads -> NdUpload]
  BY NdAssumption DEF NodeTypes, ServerTypes, ManagerTypes, RunningTypes, DiskTypes, NdTarget, NdConfig, NdRuntime, NdLocal, NdBound
<1>2. /\ ndRow.secret \in {0, ndSecret} /\ ndCfg.secret <= ndSecret
      /\ ndRt.target.secret <= ndSecret /\ (ndBind.bound # NoEntry => ndBind.bound <= ndSecret) /\ (ndFile # NoEntry => ndFile <= ndSecret)
      /\ ndCfg.secret # 0 => /\ ndRt.target.secret <= ndCfg.secret
                             /\ ndBind.bound # NoEntry => ndBind.bound <= ndCfg.secret
                             /\ ndFile # NoEntry => ndFile <= ndCfg.secret
      /\ ndRt.target.secret # 0 => /\ ndFile # NoEntry => ndFile <= ndRt.target.secret
                                   /\ ndBind.bound # NoEntry => ndBind.bound <= ndRt.target.secret
      /\ ndRt.target.secret # 0 /\ ~ndRt.target.ready => ndBind.bound # ndRt.target.secret
      /\ ndPc \in {"measure", "observe"} =>
             ndCfg.secret # 0 /\ ndRt.target.secret = ndCfg.secret /\ ndBind.bound # ndCfg.secret
      /\ ndRt.spec # 0 /\ ndRt.target.secret = 0 =>
             \A s \in {ndRow.secret, ndCfg.secret} \ {0} : s \notin {ndBind.bound, ndFile}
      /\ ndPc \in {"peers", "apply"} =>
             /\ ndCfg.role # 0
             /\ ndCfg.secret = 0 => ndRow.secret = 0 \/ ndRow.secret \notin {ndBind.bound, ndFile}
      /\ ndPc = "targets" => ndCfg.role # 0
  BY DEF SecretsInv, KnownBy
<1>3. /\ \A u \in BusyUps : ndUp[u].secret \in Nat /\ ndUp[u].secret <= ndSecret
      /\ ndCfg.secret # 0 => \A u \in BusyUps : ndUp[u].secret <= ndCfg.secret
  BY <1>1 DEF SecretsInv, KnownBy, BusyUps, NdUpload
<1>4. NdNoUploadStep => \A u \in BusyUps' : u \in BusyUps /\ ndUp'[u].secret = ndUp[u].secret
  BY NdDiskKept, NdBusyOrphans DEF CountsInv
<1>5. ndRow.secret # NoEntry /\ ndCfg.secret # NoEntry /\ ndRt.target.secret # NoEntry
  BY <1>1, <1>2 DEF NoEntry
\* It is enough to know what becomes of the credentials.
<1>6. ASSUME NEW R, NEW N, NEW C, NEW T, NEW B, NEW F, NEW K, NEW p,
             ndRow'.secret = R, ndSecret' = N, ndCfg'.secret = C, ndRt'.target.secret = T, ndBind'.bound = B, ndFile' = F,
             ndRt'.spec = K, ndPc' = p,
             /\ R \in {0, N} /\ C <= N /\ T <= N /\ (B # NoEntry => B <= N) /\ (F # NoEntry => F <= N)
             /\ C # 0 => T <= C /\ (B # NoEntry => B <= C) /\ (F # NoEntry => F <= C)
             /\ T # 0 => (F # NoEntry => F <= T) /\ (B # NoEntry => B <= T)
             /\ T # 0 /\ ~ndRt'.target.ready => B # T
             /\ p \in {"measure", "observe"} => C # 0 /\ T = C /\ B # C
             /\ K # 0 /\ T = 0 => \A s \in {R, C} \ {0} : s \notin {B, F},
             p \in {"peers", "apply"} => ndCfg'.role # 0 /\ (C = 0 => R = 0 \/ R \notin {B, F}),
             p = "targets" => ndCfg'.role # 0,
             \A u \in BusyUps' : ndUp'[u].secret <= N /\ (C # 0 => ndUp'[u].secret <= C)
      PROVE  SecretsInv'
  <2>1. NoEntry' = NoEntry
    BY DEF NoEntry
  <2> QED
    BY <1>6, <2>1 DEF SecretsInv, KnownBy
<1>7. CASE NdFetch
  <2>1. ndRow' = ndRow /\ ndSecret' = ndSecret /\ ndRt' = ndRt /\ ndBind' = ndBind /\ ndFile' = ndFile
    BY <1>7 DEF NdFetch, ndServer, ndRunning
  <2>2. \/ /\ ndCfg'.secret = 0 /\ ndCfg'.role = ndRole
           /\ ndPc' \in {"disable", "targets"} /\ (ndPc' = "targets" => ndRole # 0)
        \/ ndCfg' = ndCfg /\ ndPc' = "report"
    BY <1>7 DEF NdFetch, NoCfg
  <2>3. \A u \in BusyUps' : ndUp'[u].secret <= ndSecret /\ (ndCfg'.secret # 0 => ndUp'[u].secret <= ndCfg'.secret)
    BY <1>2, <1>3, <1>4, <1>7, <2>2 DEF NdNoUploadStep, NdRound
  <2>4. CASE ndCfg'.secret = 0 /\ ndPc' \in {"disable", "targets"} /\ (ndPc' = "targets" => ndCfg'.role # 0)
    BY <1>1, <1>2, <1>6, <2>1, <2>3, <2>4
  <2>5. CASE ndCfg' = ndCfg /\ ndPc' = "report"
    BY <1>1, <1>2, <1>6, <2>1, <2>3, <2>5
  <2> QED
    BY <2>2, <2>4, <2>5
<1>17. CASE NdFetchTargets
  <2>1. /\ ndRow' = ndRow /\ ndSecret' = ndSecret /\ ndRt' = ndRt /\ ndBind' = ndBind /\ ndFile' = ndFile
        /\ ndPc = "targets"
    BY <1>17 DEF NdFetchTargets, ndServer, ndRunning
  <2>2. \/ ndCfg'.secret = ndRow.secret /\ ndCfg'.role = ndCfg.role /\ ndPc' = "peers"
        \/ ndCfg'.secret = 0 /\ ndPc' = "report"
    <3> DEFINE given == [ndCfg EXCEPT !.secret = ndRow.secret, !.revoked = ndRow.revoked]
    <3>1. given.secret = ndRow.secret /\ given.role = ndCfg.role
      BY <1>1 DEF NdConfig
    <3>2. (ndCfg' = given /\ ndPc' = "peers") \/ (ndCfg' = NoCfg /\ ndPc' = "report")
      BY <1>17 DEF NdFetchTargets
    <3>3. NoCfg.secret = 0
      BY DEF NoCfg
    <3> HIDE DEF given
    <3> QED
      BY <3>1, <3>2, <3>3
  <2>3. \A u \in BusyUps' : ndUp'[u].secret <= ndSecret /\ (ndCfg'.secret # 0 => ndUp'[u].secret <= ndCfg'.secret)
    BY <1>2, <1>3, <1>4, <1>17, <2>2 DEF NdNoUploadStep, NdRound
  <2>6. ndPc' \notin {"targets", "measure", "observe", "apply"}
    BY <2>2
  <2>4. CASE ndCfg'.secret = ndRow.secret /\ ndCfg'.role = ndCfg.role /\ ndCfg.role # 0
    BY <1>1, <1>2, <1>5, <1>6, <2>1, <2>3, <2>4, <2>6
  <2>5. CASE ndCfg'.secret = 0 /\ ndPc' = "report"
    BY <1>1, <1>2, <1>5, <1>6, <2>1, <2>3, <2>5, <2>6
  <2> QED
    BY <1>2, <2>1, <2>2, <2>4, <2>5
<1>8. CASE NdFetchPeers
  <2>1. ndRow' = ndRow /\ ndSecret' = ndSecret /\ ndBind' = ndBind /\ ndFile' = ndFile
    BY <1>8 DEF NdFetchPeers, ndServer
  <2>2. ndRt'.spec = ndRt.spec /\ ndRt'.target.secret = ndRt.target.secret /\ (ndRt'.target.ready <=> ndRt.target.ready)
    BY <1>8, NdRtKept DEF Serves
  <2>3. \/ ndCfg'.secret = ndCfg.secret /\ ndCfg'.role = ndCfg.role /\ ndPc' = "apply" /\ ndPc = "peers"
        \/ ndCfg'.secret = 0 /\ ndPc' = "report"
    BY <1>1, <1>8 DEF NdFetchPeers, NoCfg, NdConfig
  <2>4. \A u \in BusyUps' : ndUp'[u].secret <= ndSecret /\ (ndCfg'.secret # 0 => ndUp'[u].secret <= ndCfg'.secret)
    BY <1>2, <1>3, <1>4, <1>8, <2>3 DEF NdNoUploadStep, NdRound
  <2> QED
    BY <1>1, <1>2, <1>6, <2>1, <2>2, <2>3, <2>4
<1>9. CASE NdDisable \/ NdCrash
  <2>1. ndRow' = ndRow /\ ndSecret' = ndSecret /\ ndFile' = ndFile /\ ndBind'.bound = 0 /\ ndCfg'.secret = 0 /\ ndPc' \in {"report", "idle"}
    BY <1>9 DEF NdDisable, NdCrash, ndServer, NoBind, NoCfg
  <2>2. ndRt'.spec = 0 /\ ndRt'.target.secret = 0 /\ ~ndRt'.target.ready
    BY <1>9, NdRtStopped DEF NdDisable, NdCrash, Serves
  <2>3. \A u \in BusyUps' : ndUp'[u].secret <= ndSecret
    BY <1>2, <1>3, <1>4, <1>9 DEF NdNoUploadStep, NdRound
  <2> QED
    BY <1>1, <1>2, <1>6, <2>1, <2>2, <2>3
<1>10. CASE NdStart
  <2>1. ndRow' = ndRow /\ ndSecret' = ndSecret /\ ndCfg'.secret = 0 /\ ndPc' = "report" /\ ndPc = "apply"
    BY <1>10 DEF NdStart, ndServer, NoCfg
  <2>2. \A u \in BusyUps' : ndUp'[u].secret <= ndSecret
    BY <1>2, <1>3, <1>4, <1>10 DEF NdNoUploadStep, NdRound
  <2>3. CASE ndBind' = NoBind /\ ndRt' = [Stopped EXCEPT !.active = TRUE] /\ ndFile' = ndFile
    <3>1. ndBind'.bound = 0 /\ ndRt'.spec = 0 /\ ndRt'.target.secret = 0 /\ ~ndRt'.target.ready
      BY <2>3, NdRtStopped DEF Serves, NoBind
    <3> QED
      BY <1>1, <1>2, <1>6, <2>1, <2>2, <2>3, <3>1
  <2>4. CASE /\ ndCfg.secret # 0
             /\ ndBind' = [bound |-> ndCfg.secret, warn |-> Warns(Bound(ndCfg.secret), ndCfg.secret, StartUsage)]
             /\ ndFile' \in {ndFile, ndBind'.bound}
    <3>1. ndBind'.bound = ndCfg.secret
      BY <2>4
    <3>2. ndRt'.target.secret = ndCfg.secret /\ ndRt'.target.ready
      BY <1>10, <2>4, <3>1, NdRtStarted DEF Serves, NoBind
    <3>3. ndFile' \in {ndFile, ndCfg.secret}
      BY <2>4, <3>1
    <3> QED
      BY <1>1, <1>2, <1>5, <1>6, <2>1, <2>2, <2>4, <3>1, <3>2, <3>3
  <2>5. CASE /\ ndCfg.secret = 0
             /\ ndBind' = [bound |-> Bound(ndCfg.secret), warn |-> FALSE]
             /\ ndFile' \in {ndFile, ndBind'.bound}
    <3>1. ndBind'.bound \in {ndFile, NoEntry}
      BY <2>5 DEF Bound
    <3>2. ndRt'.target.secret = 0
      BY <1>10, <2>5, NdRtStarted DEF Serves
    <3>3. ndFile' \in {ndFile, NoEntry}
      BY <2>5, <3>1
    <3> QED
      BY <1>1, <1>2, <1>5, <1>6, <2>1, <2>2, <2>5, <3>1, <3>2, <3>3
  <2>6. CASE /\ ndBind' = NoBind /\ ndRt' = [Stopped EXCEPT !.active = TRUE]
             /\ ndFile' = IF ndCfg.secret = 0 THEN Bound(ndCfg.secret) ELSE ndCfg.secret
    <3>1. ndBind'.bound = 0 /\ ndRt'.spec = 0 /\ ndRt'.target.secret = 0 /\ ~ndRt'.target.ready
      BY <2>6, NdRtStopped DEF Serves, NoBind
    <3>2. CASE ndCfg.secret = 0
      <4>1. ndFile' \in {ndFile, NoEntry}
        BY <2>6, <3>2 DEF Bound
      <4> QED
        BY <1>1, <1>2, <1>5, <1>6, <2>1, <2>2, <3>1, <3>2, <4>1
    <3>3. CASE ndCfg.secret # 0
      <4>1. ndFile' = ndCfg.secret
        BY <2>6, <3>3
      <4> QED
        BY <1>1, <1>2, <1>5, <1>6, <2>1, <2>2, <3>1, <3>3, <4>1
    <3> QED
      BY <3>2, <3>3
  <2> QED
    BY <1>10, <2>3, <2>4, <2>5, <2>6 DEF NdStart
<1>11. CASE NdReplace
  <2>1. /\ ndRow' = ndRow /\ ndSecret' = ndSecret /\ ndCfg' = ndCfg /\ ndFile' = ndFile /\ ndPc = "apply"
        /\ ndRt.spec = ndCfg.role
    BY <1>11 DEF NdReplace, ndServer
  <2>6. /\ ndPc' \in {"measure", "applyPeers"}
        /\ ndPc' = "measure" => ndCfg.secret # 0 /\ (ndRt.target.secret = 0 \/ ~ndRt.target.ready \/ ndRt.target.secret # ndCfg.secret)
    BY <1>11 DEF NdReplace
  <2>2. ndBind'.bound = ndBind.bound
    BY <1>1, <1>11 DEF NdReplace, NdBound
  <2>3. \A u \in BusyUps' : ndUp'[u].secret <= ndSecret /\ (ndCfg.secret # 0 => ndUp'[u].secret <= ndCfg.secret)
    BY <1>3, <1>4, <1>11 DEF NdNoUploadStep, NdRound
  <2>4. CASE ndCfg.secret = 0
    <3>1. ndRt'.spec = ndRt.spec /\ ndRt'.target.secret = 0 /\ ~ndRt'.target.ready
      BY <1>11, <2>4, NdRtReplaced DEF Serves
    <3>2. ndPc' = "applyPeers" /\ (ndRow.secret = 0 \/ ndRow.secret \notin {ndBind.bound, ndFile})
      BY <1>2, <2>1, <2>4, <2>6
    <3> QED
      BY <1>1, <1>2, <1>6, <2>1, <2>2, <2>3, <2>4, <3>1, <3>2
  <2>5. CASE ndCfg.secret # 0
    <3>1. ndRt'.spec = ndRt.spec /\ ndRt'.target.secret = ndCfg.secret /\ (ndRt'.target.ready <=> ndRt.target.ready)
      BY <1>11, <2>5, NdRtReplaced DEF Serves
    <3>2. ndRt.target.secret = 0 => ndBind.bound # ndCfg.secret
      BY <1>2, <2>1, <2>5
    <3>3. ndRt.target.secret # 0 /\ ndRt.target.secret # ndCfg.secret => ndBind.bound # ndCfg.secret
      BY <1>1, <1>2, <1>5, <2>5
    <3>4. ~ndRt.target.ready => ndBind.bound # ndCfg.secret
      BY <1>2, <3>2, <3>3
    <3>5. ndPc' = "measure" => ndBind.bound # ndCfg.secret
      BY <2>6, <3>2, <3>3, <3>4
    <3> QED
      BY <1>1, <1>2, <1>6, <2>1, <2>2, <2>3, <2>5, <2>6, <3>1, <3>4, <3>5
  <2> QED
    BY <2>4, <2>5
<1>12. CASE NdMeasure
  <2>1. /\ ndRow' = ndRow /\ ndSecret' = ndSecret /\ ndFile' = ndFile /\ ndRt' = ndRt /\ ndBind' = ndBind /\ ndPc = "measure"
        /\ \/ ndPc' = "observe" /\ ndCfg' = ndCfg
           \/ ndPc' = "report" /\ ndCfg'.secret = 0
    BY <1>12 DEF NdMeasure, ndServer, NoCfg
  <2>2. \A u \in BusyUps' : ndUp'[u].secret <= ndSecret /\ (ndCfg'.secret # 0 => ndUp'[u].secret <= ndCfg'.secret)
    BY <1>3, <1>4, <1>12, <2>1 DEF NdNoUploadStep, NdRound
  <2> QED
    BY <1>1, <1>2, <1>6, <2>1, <2>2
<1>13. CASE NdObserve
  <2>1. /\ ndRow' = ndRow /\ ndSecret' = ndSecret /\ ndCfg' = ndCfg /\ ndPc = "observe" /\ ndPc' = "applyPeers"
        /\ ndBind'.bound = ndCfg.secret /\ ndFile' \in {ndFile, ndCfg.secret}
    BY <1>13 DEF NdObserve, ndServer
  <2>2. ndRt'.spec = ndRt.spec /\ ndRt'.target.secret = ndRt.target.secret /\ ndRt'.target.ready
    BY <1>13, NdRtObserved DEF Serves
  <2>3. \A u \in BusyUps' : ndUp'[u].secret <= ndSecret /\ ndUp'[u].secret <= ndCfg.secret
    BY <1>2, <1>3, <1>4, <1>13, <2>1 DEF NdNoUploadStep, NdRound
  <2>4. /\ ndRt.target.secret = ndCfg.secret /\ ndCfg.secret # 0 /\ ndCfg.secret <= ndSecret
        /\ ndFile # NoEntry => ndFile <= ndCfg.secret
    BY <1>2, <2>1
  <2>5. ndFile' # NoEntry => ndFile' <= ndCfg.secret /\ ndFile' <= ndSecret
    BY <1>1, <1>2, <2>1, <2>4
  <2> QED
    BY <1>1, <1>2, <1>6, <2>1, <2>2, <2>3, <2>4, <2>5
<1>14. CASE NdApplyPeers \/ NdSnapshot \/ NdPost \/ NdNoReport \/ NdUsageTick
  <2>1. /\ ndSecret' = ndSecret /\ ndFile' = ndFile /\ ndBind' = ndBind /\ ndPc' \in {"report", "post", "idle"}
        /\ ndCfg' \in {ndCfg, NoCfg}
    BY <1>14 DEF NdApplyPeers, NdSnapshot, NdPost, NdNoReport, NdUsageTick, Reported, ndServer, ndRunning
  <2>2. ndRow'.secret = ndRow.secret
    <3>1. ndRow' = ndRow \/ ndRow' = [ndRow EXCEPT !.used = ndSent.used]
      BY <1>14 DEF NdApplyPeers, NdSnapshot, NdPost, NdNoReport, NdUsageTick, Reported, ndServer
    <3> QED
      BY <1>1, <3>1 DEF NdTarget
  <2>3. ndRt'.spec = ndRt.spec /\ ndRt'.target.secret = ndRt.target.secret /\ (ndRt'.target.ready <=> ndRt.target.ready)
    BY <1>14, NdRtKept DEF Serves, NdNoReport, NdUsageTick, ndRunning
  <2>4. ndCfg'.secret \in {ndCfg.secret, 0}
    BY <2>1 DEF NoCfg
  <2>5. \A u \in BusyUps' : ndUp'[u].secret <= ndSecret /\ (ndCfg'.secret # 0 => ndUp'[u].secret <= ndCfg'.secret)
    BY <1>2, <1>3, <1>4, <1>14, <2>4 DEF NdNoUploadStep, NdRound
  <2> QED
    BY <1>1, <1>2, <1>6, <2>1, <2>2, <2>3, <2>4, <2>5
<1>15. CASE NdOperator
  <2>1. ndCfg' = ndCfg /\ ndRt' = ndRt /\ ndBind' = ndBind /\ ndFile' = ndFile /\ ndPc' = ndPc
    BY <1>15 DEF NdOperator, NdPromote, NdDemoteCheck, NdDemote, NdRevoke, NdRotate, NdDeleteTarget, NdCreateTarget,
                 NdPeerChanges, ndManager, ndRunning
  <2>2. \/ ndSecret' = ndSecret /\ ndRow'.secret \in {ndRow.secret, 0}
        \/ ndSecret' = ndSecret + 1 /\ ndRow'.secret = ndSecret + 1 /\ ndSecret < NdMaxSecret
    <3>1. CASE NdPromote \/ NdDemoteCheck \/ NdDemote \/ NdPeerChanges
      BY <3>1 DEF NdPromote, NdDemoteCheck, NdDemote, NdPeerChanges
    <3>2. CASE NdRevoke
      BY <1>1, <3>2 DEF NdRevoke, NdTarget
    <3>3. CASE NdRotate
      <4>1. ndRow' = [ndRow EXCEPT !.secret = ndSecret', !.revoked = FALSE] /\ ndSecret' = ndSecret + 1 /\ ndSecret < NdMaxSecret
        BY <3>3 DEF NdRotate
      <4>2. ndRow'.secret = ndSecret'
        BY <1>1, <4>1 DEF NdTarget
      <4> QED
        BY <4>1, <4>2
    <3>4. CASE NdDeleteTarget
      BY <3>4 DEF NdDeleteTarget, NoTarget
    <3>5. CASE NdCreateTarget
      BY <3>5 DEF NdCreateTarget
    <3> QED
      BY <1>15, <3>1, <3>2, <3>3, <3>4, <3>5 DEF NdOperator
  <2>3. \A u \in BusyUps' : ndUp'[u].secret <= ndSecret /\ ndUp'[u].secret \in Nat /\ (ndCfg.secret # 0 => ndUp'[u].secret <= ndCfg.secret)
    BY <1>3, <1>4, <1>15 DEF NdNoUploadStep
  <2>4. CASE ndSecret' = ndSecret /\ ndRow'.secret \in {ndRow.secret, 0}
    BY <1>1, <1>2, <1>6, <2>1, <2>3, <2>4
  <2>5. CASE ndSecret' = ndSecret + 1 /\ ndRow'.secret = ndSecret + 1 /\ ndSecret < NdMaxSecret
    <3>1. ndSecret + 1 # NoEntry /\ ndSecret + 1 \notin {ndBind.bound, ndFile}
      BY <1>1, <1>2, <2>5 DEF NoEntry
    <3>2. \A u \in BusyUps' : ndUp'[u].secret <= ndSecret + 1
      BY <1>1, <2>3
    <3> QED
      BY <1>1, <1>2, <1>6, <2>1, <2>3, <2>5, <3>1, <3>2
  <2> QED
    BY <2>2, <2>4, <2>5
<1>16. ASSUME NEW u \in NdUploads, NdReserve(u) \/ NdStoreEnds(u)
       PROVE  SecretsInv'
  <2>1. /\ ndRow' = ndRow /\ ndSecret' = ndSecret /\ ndCfg' = ndCfg /\ ndBind' = ndBind /\ ndFile' = ndFile /\ ndPc' = ndPc
    BY <1>16 DEF NdReserve, NdStoreEnds, ndServer, ndManager
  <2>2. CASE NdReserve(u)
    <3>1. /\ ndRt'.spec = ndRt.spec /\ ndRt'.target.secret = ndRt.target.secret /\ ndRt'.target.ready /\ ndRt.target.ready
      BY <2>2, NdRtReserved DEF Serves
    <3>2. BusyUps' = BusyUps \cup {u}
      BY <2>2, NdBusyReserve DEF CountsInv
    <3>3. \A v \in BusyUps' : ndUp'[v].secret = IF v = u THEN ndRt.target.secret ELSE ndUp[v].secret
      BY <1>1, <2>2, <3>2 DEF NdReserve, BusyUps
    <3>4. \A v \in BusyUps' : ndUp'[v].secret <= ndSecret /\ (ndCfg.secret # 0 => ndUp'[v].secret <= ndCfg.secret)
      BY <1>2, <1>3, <3>2, <3>3
    <3> QED
      BY <1>1, <1>2, <1>6, <2>1, <3>1, <3>4
  <2>3. CASE NdStoreEnds(u)
    <3>1. /\ ndRt'.spec = ndRt.spec /\ ndRt'.target.secret = ndRt.target.secret /\ (ndRt'.target.ready <=> ndRt.target.ready)
      BY <2>3, NdRtReleased DEF Serves
    <3>2. BusyUps' = BusyUps \ {u}
      BY <2>3, NdBusyEnds DEF CountsInv
    <3>3. \A v \in BusyUps' : ndUp'[v].secret = ndUp[v].secret
      BY <1>1, <2>3, <3>2 DEF NdStoreEnds, BusyUps
    <3>4. \A v \in BusyUps' : ndUp'[v].secret <= ndSecret /\ (ndCfg.secret # 0 => ndUp'[v].secret <= ndCfg.secret)
      BY <1>3, <3>2, <3>3
    <3> QED
      BY <1>1, <1>2, <1>6, <2>1, <3>1, <3>4
  <2> QED
    BY <1>16, <2>2, <2>3
<1> QED
  BY <1>7, <1>8, <1>9, <1>10, <1>11, <1>12, <1>13, <1>14, <1>15, <1>16, <1>17 DEF NdNext, NdRound

\* Where no upload is under way the set of busy uploads stays empty.
LEMMA NdStillEmpty ==
  ASSUME NodeTypes, CountsInv, NdNoUploadStep, BusyUps = {}
  PROVE  BusyUps' = {}
BY NdDiskKept, NdBusyOrphans DEF CountsInv

\* While no measurement meets an upload, no step leaves an upload in flight uncounted.
LEMMA NdFlightHold == NodeTypes /\ CountsInv /\ SecretsInv /\ FlightInv /\ NdNext => FlightInv'
<1> SUFFICES ASSUME NodeTypes, CountsInv, SecretsInv, FlightInv, NdNext, ~ndSkew'
             PROVE  FlightInv'
  BY DEF FlightInv
<1>1. /\ ndRt.target.secret \in Nat /\ ndFile \in Nat /\ ndRt.target.ready \in BOOLEAN /\ ndRt.target.used \in Nat
      /\ ndStore \in Nat /\ ndMeasured \in Nat /\ ndCfg.secret \in Nat /\ ndUp \in [NdUploads -> NdUpload] /\ NoEntry' = NoEntry
      /\ IsFiniteSet(BusyUps) /\ Cardinality(BusyUps) \in Nat
      /\ ndRt.target.ready => ndRt.target.secret # 0
  BY NdAssumption, FS_CardinalityType DEF NodeTypes, ManagerTypes, RunningTypes, DiskTypes, NdConfig, NdRuntime, NdLocal, NoEntry, CountsInv
<1>2. ~ndSkew
  BY DEF NdNext, NdRound, NdOperator, NdFetch, NdFetchTargets, NdFetchPeers, NdDisable, NdStart, NdReplace, NdMeasure, NdObserve,
         NdApplyPeers, NdSnapshot, NdPost, NdNoReport, NdUsageTick, NdPromote, NdDemoteCheck, NdDemote, NdRevoke,
         NdRotate, NdDeleteTarget, NdCreateTarget, NdPeerChanges, NdCrash, NdReserve, NdStoreEnds, ndHistory
<1>3. /\ ndPc = "observe" => BusyUps = {} /\ ndMeasured = ndStore
      /\ ndRt.target.ready => (\A u \in BusyUps : ndUp[u].live) /\ ndRt.target.used >= ndStore + Cardinality(BusyUps)
      /\ ndRt.target.ready /\ ndPc # "measure" => \A u \in BusyUps : ndUp[u].secret = ndRt.target.secret
      /\ ndFile # NoEntry => \A u \in BusyUps : ndFile <= ndUp[u].secret
  BY <1>2 DEF FlightInv
<1>4. Cardinality({}) = 0
  BY FS_EmptySet
\* Steps that find no upload, and leave none.
<1>5. ASSUME BusyUps' = {},
             ndPc' = "observe" => ndMeasured' = ndStore',
             ndRt'.target.ready => ndRt'.target.used >= ndStore', ndRt'.target.used \in Nat, ndStore' \in Nat
      PROVE  FlightInv'
  BY <1>4, <1>5 DEF FlightInv
\* Steps that keep the uploads, the target and the file.
<1>6. ASSUME ndUp' = ndUp, ndStore' = ndStore, ndFile' = ndFile,
             ndRt'.target.ready => /\ ndRt.target.ready /\ ndRt'.target.used = ndRt.target.used
                                   /\ ndPc' = "measure" \/ (ndPc # "measure" /\ ndRt'.target.secret = ndRt.target.secret),
             ndPc' # "observe"
      PROVE  FlightInv'
  <2>1. BusyUps' = BusyUps
    BY <1>6 DEF BusyUps
  <2> QED
    BY <1>1, <1>3, <1>6, <2>1 DEF FlightInv
<1>7. CASE NdFetch \/ NdFetchTargets \/ NdFetchPeers \/ NdSnapshot \/ NdPost \/ NdNoReport \/ NdUsageTick \/ NdApplyPeers
  <2>1. ndUp' = ndUp /\ ndStore' = ndStore /\ ndFile' = ndFile /\ ndPc' \notin {"observe", "measure"} /\ ndPc # "measure"
    BY <1>7 DEF NdFetch, NdFetchTargets, NdFetchPeers, NdSnapshot, NdPost, NdNoReport, NdUsageTick, NdApplyPeers, ndDisk, ndRunning
  <2>2. Serves(ndRt', ndRt.spec, ndRt.target.secret, ndRt.target.ready, ndRt.target.used)
    BY <1>7, NdRtKept DEF NdFetch, NdFetchTargets, NdNoReport, NdUsageTick, ndRunning
  <2> QED
    BY <1>6, <2>1, <2>2 DEF Serves
<1>8. CASE NdOperator
  <2>1. ndUp' = ndUp /\ ndStore' = ndStore /\ ndFile' = ndFile /\ ndPc' = ndPc /\ ndRt' = ndRt /\ ndMeasured' = ndMeasured
    BY <1>8 DEF NdOperator, NdPromote, NdDemoteCheck, NdDemote, NdRevoke, NdRotate, NdDeleteTarget, NdCreateTarget,
                NdPeerChanges, ndDisk, ndRunning, ndManager
  <2>2. BusyUps' = BusyUps
    BY <2>1 DEF BusyUps
  <2> QED
    BY <1>1, <1>3, <2>1, <2>2 DEF FlightInv
<1>9. CASE NdDisable \/ NdCrash
  <2>1. ~ndRt'.target.ready /\ ndFile' = ndFile /\ ndPc' \notin {"observe", "measure"}
    BY <1>9, NdRtStopped DEF NdDisable, NdCrash, Serves
  <2>2. \A u \in BusyUps' : u \in BusyUps /\ ndUp'[u].secret = ndUp[u].secret
    BY <1>1, <1>9, NdDiskKept, NdBusyOrphans DEF NdNoUploadStep, NdRound
  <2> QED
    BY <1>1, <1>3, <2>1, <2>2 DEF FlightInv
<1>10. CASE NdStart
  <2>1. BusyUps = {}
    BY <1>10 DEF NdStart, Busy, BusyUps
  <2>2. BusyUps' = {}
    BY <1>10, <2>1, NdStillEmpty DEF NdNoUploadStep, NdRound
  <2>3. ndStore' = ndStore /\ ndPc' = "report"
    BY <1>10 DEF NdStart
  <2>4. ndRt'.target.used \in {0, ndStore} /\ (ndRt'.target.ready => ndRt'.target.used = ndStore)
    BY <1>10, NdRtStarted DEF Serves
  <2> QED
    BY <1>1, <1>5, <2>2, <2>3, <2>4
<1>11. CASE NdReplace
  <2>1. CASE ndCfg.secret = 0
    <3>1. ~ndRt'.target.ready /\ ndFile' = ndFile /\ ndPc' # "observe"
      BY <1>11, <2>1, NdRtReplaced DEF NdReplace, Serves
    <3>2. \A u \in BusyUps' : u \in BusyUps /\ ndUp'[u].secret = ndUp[u].secret
      BY <1>1, <1>11, NdDiskKept, NdBusyOrphans DEF NdNoUploadStep, NdRound
    <3> QED
      BY <1>1, <1>3, <3>1, <3>2 DEF FlightInv
  <2>2. CASE ndCfg.secret # 0
    <3>1. ndUp' = ndUp /\ ndStore' = ndStore /\ ndFile' = ndFile /\ ndPc = "apply" /\ ndPc' # "observe"
      BY <1>11, <2>2 DEF NdReplace
    <3>2. Serves(ndRt', ndRt.spec, ndCfg.secret, ndRt.target.ready, ndRt.target.used)
      BY <1>11, <2>2, NdRtReplaced
    <3>3. ndPc' = "measure" \/ ndRt.target.secret = ndCfg.secret
      BY <1>11, <2>2 DEF NdReplace
    <3> QED
      BY <1>6, <3>1, <3>2, <3>3 DEF Serves
  <2> QED
    BY <2>1, <2>2
<1>12. CASE NdMeasure
  <2>1. BusyUps = {}
    BY <1>12 DEF NdMeasure, Busy, BusyUps
  <2>2. BusyUps' = {}
    BY <1>12, <2>1, NdStillEmpty DEF NdNoUploadStep, NdRound
  <2>3. ndStore' = ndStore /\ ndRt' = ndRt /\ (ndPc' = "observe" => ndMeasured' = ndStore)
    BY <1>12 DEF NdMeasure, ndDisk
  <2> QED
    BY <1>1, <1>3, <1>4, <1>5, <2>1, <2>2, <2>3
<1>13. CASE NdObserve
  <2>1. BusyUps = {} /\ ndMeasured = ndStore
    BY <1>3, <1>13 DEF NdObserve
  <2>2. BusyUps' = {}
    BY <1>13, <2>1, NdStillEmpty DEF NdNoUploadStep, NdRound
  <2>3. ndStore' = ndStore /\ ndPc' = "applyPeers"
    BY <1>13 DEF NdObserve, ndDisk
  <2>4. ndRt'.target.used = ndMeasured
    BY <1>13, NdRtObserved DEF Serves
  <2> QED
    BY <1>1, <1>5, <2>1, <2>2, <2>3, <2>4
<1>14. ASSUME NEW u \in NdUploads, NdReserve(u)
       PROVE  FlightInv'
  <2>1. ndPc' = ndPc /\ ndPc # "observe" /\ ndStore' = ndStore /\ ndFile' = ndFile
    BY <1>14 DEF NdReserve, ndManager
  <2>2. Serves(ndRt', ndRt.spec, ndRt.target.secret, TRUE, ndRt.target.used + 1) /\ ndRt.target.ready
    BY <1>14, NdRtReserved
  <2>3. BusyUps' = BusyUps \cup {u} /\ Cardinality(BusyUps') = Cardinality(BusyUps) + 1
    BY <1>1, <1>14, NdBusyReserve
  <2>4. /\ ndUp'[u].secret = ndRt.target.secret /\ ndUp'[u].live
        /\ \A v \in BusyUps' : v # u => v \in BusyUps /\ ndUp'[v] = ndUp[v]
    BY <1>1, <1>14, <2>3 DEF NdReserve, BusyUps
  <2>5. ndFile # NoEntry => ndFile <= ndRt.target.secret
    BY <1>1, <2>2 DEF SecretsInv
  <2>6. ndRt.target.used + 1 >= ndStore + Cardinality(BusyUps')
    BY <1>1, <1>3, <2>2, <2>3
  <2>7. ndRt'.target.used = ndRt.target.used + 1 /\ ndRt'.target.secret = ndRt.target.secret
    BY <2>2 DEF Serves
  <2>8. \A v \in BusyUps' : ndUp'[v].live
    BY <1>3, <2>2, <2>4
  <2>9. ndPc # "measure" => \A v \in BusyUps' : ndUp'[v].secret = ndRt.target.secret
    BY <1>3, <2>2, <2>4
  <2>10. ndFile # NoEntry => \A v \in BusyUps' : ndFile <= ndUp'[v].secret
    BY <1>3, <2>4, <2>5
  <2> QED
    BY <1>1, <2>1, <2>6, <2>7, <2>8, <2>9, <2>10 DEF FlightInv
<1>15. ASSUME NEW u \in NdUploads, NdStoreEnds(u)
       PROVE  FlightInv'
  <2>1. ndPc' = ndPc /\ ndFile' = ndFile
    BY <1>15 DEF NdStoreEnds, ndManager
  <2>2. BusyUps' = BusyUps \ {u} /\ u \in BusyUps /\ Cardinality(BusyUps) = Cardinality(BusyUps') + 1 /\ Cardinality(BusyUps') \in Nat
    BY <1>1, <1>15, NdBusyEnds
  <2>3. \A v \in BusyUps' : v \in BusyUps /\ ndUp'[v] = ndUp[v]
    BY <1>1, <1>15, <2>2 DEF NdStoreEnds, BusyUps
  <2>4. ndPc # "observe"
    BY <1>3, <2>2
  <2>5. PICK n \in {ndRt.target.used, Freed(ndRt.target.used)} :
            /\ Serves(ndRt', ndRt.spec, ndRt.target.secret, ndRt.target.ready, n)
            /\ \/ ndStore' = ndStore + 1 /\ n = ndRt.target.used
               \/ ndStore' = ndStore
    BY <1>15, NdRtReleased
  <2>6. ndRt.target.ready => n >= ndStore' + Cardinality(BusyUps')
    BY <1>1, <1>3, <2>2, <2>5 DEF Freed
  <2>7. ndRt'.target.used = n /\ ndRt'.target.secret = ndRt.target.secret /\ (ndRt'.target.ready <=> ndRt.target.ready)
    BY <2>5 DEF Serves
  <2>8. /\ ndRt.target.ready => \A v \in BusyUps' : ndUp'[v].live
        /\ ndRt.target.ready /\ ndPc # "measure" => \A v \in BusyUps' : ndUp'[v].secret = ndRt.target.secret
        /\ ndFile # NoEntry => \A v \in BusyUps' : ndFile <= ndUp'[v].secret
    BY <1>3, <2>3
  <2> QED
    BY <1>1, <2>1, <2>4, <2>6, <2>7, <2>8 DEF FlightInv
<1> QED
  BY <1>7, <1>8, <1>9, <1>10, <1>11, <1>12, <1>13, <1>14, <1>15 DEF NdNext, NdRound

\* A credential of this state, judged by the history after the step.
NdClearedAfter(s) == ndWrote' \subseteq {s} \/ s \in ndTold' \cup ndLost'

\* A warning that is forgotten is one that the file would have cleared.
LEMMA NdForgotten ==
  ASSUME NEW s, s = ndFile, (ndBind.warn /\ ndBind.bound = s) \/ NdCleared(s),
         ndLost \cup Forgotten \subseteq ndLost', ndTold' = ndTold, ndWrote' = ndWrote
  PROVE  NdClearedAfter(s)
BY DEF Forgotten, NdCleared, NdClearedAfter

\* No step puts objects of another credential under the name the node serves untold.
LEMMA NdBindingHold == NodeTypes /\ CountsInv /\ SecretsInv /\ FlightInv /\ BindingInv /\ NdNext => BindingInv'
<1> SUFFICES ASSUME NodeTypes, CountsInv, SecretsInv, FlightInv, BindingInv, NdNext, ~ndSkew'
             PROVE  BindingInv'
  BY DEF BindingInv
<1>1. /\ ndSecret \in Nat /\ NdMaxSecret \in Nat /\ ndSecret <= NdMaxSecret /\ ndRow.secret \in Nat /\ ndCfg.secret \in Nat
      /\ ndRt.target.secret \in Nat /\ ndBind.bound \in Nat /\ ndFile \in Nat /\ ndRow \in NdTarget /\ ndBind \in NdBound
      /\ ndRt.target.ready \in BOOLEAN /\ ndStore \in Nat /\ ndUp \in [NdUploads -> NdUpload]
      /\ ndRt.target.ready => ndRt.target.secret # 0
  BY NdAssumption DEF NodeTypes, ServerTypes, ManagerTypes, RunningTypes, DiskTypes, NdTarget, NdConfig, NdRuntime, NdLocal, NdBound
<1>2. ~ndSkew
  BY DEF NdNext, NdRound, NdOperator, NdFetch, NdFetchTargets, NdFetchPeers, NdDisable, NdStart, NdReplace, NdMeasure, NdObserve,
         NdApplyPeers, NdSnapshot, NdPost, NdNoReport, NdUsageTick, NdPromote, NdDemoteCheck, NdDemote, NdRevoke,
         NdRotate, NdDeleteTarget, NdCreateTarget, NdPeerChanges, NdCrash, NdReserve, NdStoreEnds, ndHistory
<1>3. /\ ndRt.target.ready /\ ndPc \notin {"measure", "observe"} => ndBind.warn \/ NdCleared(ndRt.target.secret)
      /\ \A s \in {ndRow.secret, ndCfg.secret} \ {0} : s = ndFile => (ndBind.warn /\ ndBind.bound = s) \/ NdCleared(s)
  BY <1>2 DEF BindingInv
<1>4. /\ ndRow.secret \in {0, ndSecret} /\ ndCfg.secret <= ndSecret
      /\ (ndBind.bound # NoEntry => ndBind.bound <= ndSecret) /\ (ndFile # NoEntry => ndFile <= ndSecret)
      /\ ndCfg.secret # 0 => /\ ndBind.bound # NoEntry => ndBind.bound <= ndCfg.secret
                             /\ ndFile # NoEntry => ndFile <= ndCfg.secret
      /\ ndPc \in {"measure", "observe"} =>
             ndCfg.secret # 0 /\ ndRt.target.secret = ndCfg.secret /\ ndBind.bound # ndCfg.secret
      /\ ndPc \in {"peers", "apply"} /\ ndCfg.secret = 0 => ndRow.secret = 0 \/ ndRow.secret \notin {ndBind.bound, ndFile}
  BY DEF SecretsInv, KnownBy
<1>5. ndRow.secret # NoEntry /\ ndCfg.secret # NoEntry
  BY <1>1, <1>4 DEF NoEntry
<1>6. ndWrote # {} => ndStore >= 1
  BY DEF CountsInv
\* What is cleared stays cleared, as long as nobody else writes.
<1>7. ASSUME ndTold \subseteq ndTold', ndLost \subseteq ndLost', ndWrote' = ndWrote
      PROVE  \A s : NdCleared(s) => NdClearedAfter(s)
  BY <1>7 DEF NdCleared, NdClearedAfter
<1>8. CASE NdFetch \/ NdFetchTargets \/ NdFetchPeers \/ NdSnapshot \/ NdPost \/ NdNoReport \/ NdUsageTick \/ NdApplyPeers
  <2>1. /\ ndBind' = ndBind /\ ndFile' = ndFile /\ ndPc \notin {"observe", "measure"} /\ ndWrote' = ndWrote /\ ndLost' = ndLost
    BY <1>8 DEF NdFetch, NdFetchTargets, NdFetchPeers, NdSnapshot, NdPost, NdNoReport, NdUsageTick, NdApplyPeers, ndRunning, ndHistory
  <2>2. Serves(ndRt', ndRt.spec, ndRt.target.secret, ndRt.target.ready, ndRt.target.used)
    BY <1>8, NdRtKept DEF NdFetch, NdFetchTargets, NdNoReport, NdUsageTick, ndRunning
  <2>3. ndTold \subseteq ndTold'
    BY <1>8 DEF NdFetch, NdFetchTargets, NdFetchPeers, NdSnapshot, NdPost, NdNoReport, NdUsageTick, NdApplyPeers, Reported, ndHistory
  <2>4. ndRow'.secret = ndRow.secret
    <3>1. ndRow' = ndRow \/ ndRow' = [ndRow EXCEPT !.used = ndSent.used]
      BY <1>8 DEF NdFetch, NdFetchTargets, NdFetchPeers, NdSnapshot, NdPost, NdNoReport, NdUsageTick, NdApplyPeers, Reported, ndServer
    <3> QED
      BY <1>1, <3>1 DEF NdTarget
  <2>5. ndCfg'.secret \in {ndCfg.secret, ndRow.secret, 0}
    <3>1. NdFetch => ndCfg'.secret \in {ndCfg.secret, 0}
      BY DEF NdFetch, NoCfg
    <3>5. NdFetchTargets => ndCfg'.secret \in {ndRow.secret, 0}
      <4>1. ndCfg \in NdConfig /\ ndRow.secret \in Nat /\ ndRow.revoked \in BOOLEAN
        BY <1>1 DEF NodeTypes, ManagerTypes, NdTarget
      <4> DEFINE given == [ndCfg EXCEPT !.secret = ndRow.secret, !.revoked = ndRow.revoked]
      <4>2. given.secret = ndRow.secret
        BY <4>1 DEF NdConfig
      <4>3. NdFetchTargets => ndCfg' = given \/ ndCfg' = NoCfg
        BY DEF NdFetchTargets
      <4>4. NoCfg.secret = 0
        BY DEF NoCfg
      <4> HIDE DEF given
      <4> QED
        BY <4>2, <4>3, <4>4
    <3>2. NdFetchPeers => ndCfg'.secret \in {ndCfg.secret, 0}
      BY DEF NdFetchPeers, NodeTypes, ManagerTypes, NdConfig, NoCfg
    <3>3. NdSnapshot \/ NdPost \/ NdNoReport \/ NdUsageTick => ndCfg' = ndCfg
      BY DEF NdSnapshot, NdPost, NdNoReport, NdUsageTick
    <3>4. NdApplyPeers => ndCfg'.secret = 0
      BY DEF NdApplyPeers, NoCfg
    <3> QED
      BY <1>8, <3>1, <3>2, <3>3, <3>4, <3>5
  <2>6. \A s : NdCleared(s) => NdClearedAfter(s)
    BY <1>7, <2>1, <2>3
  <2>7. \A s \in {ndRow'.secret, ndCfg'.secret} \ {0} : s \in {ndRow.secret, ndCfg.secret} \ {0}
    BY <2>4, <2>5
  <2>8. \A s \in {ndRow'.secret, ndCfg'.secret} \ {0} : s = ndFile => (ndBind.warn /\ ndBind.bound = s) \/ NdClearedAfter(s)
    BY <1>3, <2>6, <2>7
  <2>9. ndRt.target.ready => ndBind.warn \/ NdClearedAfter(ndRt.target.secret)
    BY <1>3, <2>1, <2>6
  <2>10. (ndRt'.target.ready <=> ndRt.target.ready) /\ ndRt'.target.secret = ndRt.target.secret
    BY <2>2 DEF Serves
  <2> QED
    BY <2>1, <2>8, <2>9, <2>10 DEF BindingInv, NdCleared, NdClearedAfter
<1>9. CASE NdOperator
  <2>1. /\ ndFile' = ndFile /\ ndPc' = ndPc /\ ndRt' = ndRt /\ ndBind' = ndBind /\ ndCfg' = ndCfg
        /\ ndTold' = ndTold /\ ndLost' = ndLost /\ ndWrote' = ndWrote
    BY <1>9 DEF NdOperator, NdPromote, NdDemoteCheck, NdDemote, NdRevoke, NdRotate, NdDeleteTarget, NdCreateTarget,
                NdPeerChanges, ndDisk, ndRunning, ndManager, ndHistory
  <2>2. ndRow'.secret \in {ndRow.secret, 0} \/ (ndRow'.secret = ndSecret + 1 /\ ndSecret < NdMaxSecret)
    <3>1. CASE NdPromote \/ NdDemoteCheck \/ NdDemote \/ NdPeerChanges
      BY <3>1 DEF NdPromote, NdDemoteCheck, NdDemote, NdPeerChanges
    <3>2. CASE NdRevoke
      BY <1>1, <3>2 DEF NdRevoke, NdTarget
    <3>3. CASE NdRotate
      <4>1. ndRow' = [ndRow EXCEPT !.secret = ndSecret', !.revoked = FALSE] /\ ndSecret' = ndSecret + 1 /\ ndSecret < NdMaxSecret
        BY <3>3 DEF NdRotate
      <4>2. ndRow'.secret = ndSecret'
        BY <1>1, <4>1 DEF NdTarget
      <4> QED
        BY <4>1, <4>2
    <3>4. CASE NdDeleteTarget
      BY <3>4 DEF NdDeleteTarget, NoTarget
    <3>5. CASE NdCreateTarget
      BY <3>5 DEF NdCreateTarget
    <3> QED
      BY <1>9, <3>1, <3>2, <3>3, <3>4, <3>5 DEF NdOperator
  <2>3. ndRow'.secret \in {ndRow.secret, 0} \/ ndRow'.secret # ndFile
    BY <1>1, <1>4, <2>2 DEF NoEntry
  <2>4. \A s : NdClearedAfter(s) <=> NdCleared(s)
    BY <2>1 DEF NdCleared, NdClearedAfter
  <2>5. \A s \in {ndRow'.secret, ndCfg.secret} \ {0} : s = ndFile => (ndBind.warn /\ ndBind.bound = s) \/ NdClearedAfter(s)
    BY <1>3, <2>3, <2>4
  <2>6. ndRt.target.ready /\ ndPc \notin {"measure", "observe"} => ndBind.warn \/ NdClearedAfter(ndRt.target.secret)
    BY <1>3, <2>4
  <2> QED
    BY <2>1, <2>5, <2>6 DEF BindingInv, NdCleared, NdClearedAfter
<1>10. CASE NdDisable \/ NdCrash
  <2>1. ~ndRt'.target.ready /\ ndFile' = ndFile /\ ndRow' = ndRow /\ ndCfg'.secret = 0
    BY <1>10, NdRtStopped DEF NdDisable, NdCrash, Serves, NoCfg, ndServer
  <2>2. ndLost' = ndLost \cup Forgotten /\ ndTold' = ndTold /\ ndWrote' = ndWrote
    BY <1>10 DEF NdDisable, NdCrash
  <2>3. \A s \in {ndRow.secret} \ {0} : s = ndFile => NdClearedAfter(s)
    BY <1>3, <2>2, NdForgotten
  <2> QED
    BY <2>1, <2>3 DEF BindingInv, NdCleared, NdClearedAfter
<1>11. CASE NdStart
  <2>1. /\ ndRow' = ndRow /\ ndCfg'.secret = 0 /\ ndTold' = ndTold /\ ndWrote' = ndWrote /\ ndPc = "apply"
        /\ ndLost \cup Forgotten \subseteq ndLost'
    BY <1>11 DEF NdStart, ndServer, NoCfg
  <2>2. \A s \in {ndRow.secret, ndCfg.secret} \ {0} : s = ndFile => NdClearedAfter(s)
    BY <1>3, <2>1, NdForgotten
  <2>3. CASE ndBind' = NoBind /\ ndRt' = [Stopped EXCEPT !.active = TRUE] /\ ndFile' = ndFile
    <3>1. ~ndRt'.target.ready
      BY <2>3, NdRtStopped DEF Serves
    <3> QED
      BY <2>1, <2>2, <2>3, <3>1 DEF BindingInv, NdCleared, NdClearedAfter
  <2>4. CASE /\ ndCfg.secret # 0
             /\ ndBind' = [bound |-> ndCfg.secret, warn |-> Warns(Bound(ndCfg.secret), ndCfg.secret, StartUsage)]
             /\ ndFile' \in {ndFile, ndBind'.bound}
             /\ ndFile = 0 => ndCfg.secret \in ndLost'
    <3>1. ndBind'.bound = ndCfg.secret /\ (ndBind'.warn <=> ndStore > 0 /\ Bound(ndCfg.secret) # ndCfg.secret)
      BY <2>4 DEF Warns, StartUsage
    <3>2. ndRt'.target.secret = ndCfg.secret
      BY <1>11, <2>4, <3>1, NdRtStarted DEF Serves, NoBind
    <3>3. ndBind'.warn \/ NdClearedAfter(ndCfg.secret)
      <4>1. CASE ndFile = 0
        BY <2>4, <4>1 DEF NdCleared, NdClearedAfter
      <4>2. CASE ndFile # 0 /\ ndFile = ndCfg.secret
        BY <2>2, <4>2
      <4>3. CASE ndFile # 0 /\ ndFile # ndCfg.secret
        <5>1. Bound(ndCfg.secret) # ndCfg.secret
          BY <4>3 DEF Bound
        <5>2. CASE ndStore > 0
          BY <3>1, <5>1, <5>2
        <5>3. CASE ~(ndStore > 0)
          <6>1. ndWrote' = {}
            BY <1>1, <1>6, <2>1, <5>3
          <6> QED
            BY <6>1 DEF NdCleared, NdClearedAfter
        <5> QED
          BY <5>2, <5>3
      <4> QED
        BY <4>1, <4>2, <4>3
    <3>4. \A s \in {ndRow.secret} \ {0} : s = ndFile' => (ndBind'.warn /\ ndBind'.bound = s) \/ NdClearedAfter(s)
      BY <2>2, <2>4, <3>1, <3>3
    <3> QED
      BY <2>1, <3>2, <3>3, <3>4 DEF BindingInv, NdCleared, NdClearedAfter
  <2>5. CASE /\ ndCfg.secret = 0
             /\ ndBind' = [bound |-> Bound(ndCfg.secret), warn |-> FALSE]
             /\ ndFile' \in {ndFile, ndBind'.bound}
    <3>1. ndBind'.bound \in {ndFile, NoEntry}
      BY <2>5 DEF Bound
    <3>2. ~ndRt'.target.ready
      BY <1>1, <1>11, <2>5, NdRtStarted DEF Serves
    <3>3. \A s \in {ndRow.secret} \ {0} : s = ndFile' => NdClearedAfter(s)
      BY <1>5, <2>2, <2>5, <3>1
    <3> QED
      BY <2>1, <3>2, <3>3 DEF BindingInv, NdCleared, NdClearedAfter
  <2>6. CASE /\ ndBind' = NoBind /\ ndRt' = [Stopped EXCEPT !.active = TRUE]
             /\ ndFile' = IF ndCfg.secret = 0 THEN Bound(ndCfg.secret) ELSE ndCfg.secret
             /\ ndFile = 0 \/ Warns(Bound(ndCfg.secret), ndCfg.secret, StartUsage) => ndCfg.secret \in ndLost'
    <3>1. ~ndRt'.target.ready
      BY <2>6, NdRtStopped DEF Serves
    <3>2. ASSUME NEW s \in {ndRow.secret} \ {0}, s = ndFile' PROVE NdClearedAfter(s)
      <4>1. CASE ndCfg.secret = 0
        <5>1. ndFile' \in {ndFile, NoEntry}
          BY <2>6, <4>1 DEF Bound
        <5> QED
          BY <1>5, <2>2, <3>2, <5>1
      <4>2. CASE ndCfg.secret # 0
        <5>1. s = ndCfg.secret
          BY <2>6, <3>2, <4>2
        <5>2. CASE ndFile = 0 \/ Warns(Bound(ndCfg.secret), ndCfg.secret, StartUsage)
          BY <2>6, <5>1, <5>2 DEF NdCleared, NdClearedAfter
        <5>3. CASE ndFile # 0 /\ ndFile = ndCfg.secret
          BY <2>2, <4>2, <5>1, <5>3
        <5>4. CASE ndFile # 0 /\ ndFile # ndCfg.secret /\ ~Warns(Bound(ndCfg.secret), ndCfg.secret, StartUsage)
          <6>1. Bound(ndCfg.secret) # ndCfg.secret
            BY <5>4 DEF Bound
          <6>2. ~(ndStore > 0)
            BY <5>4, <6>1 DEF Warns, StartUsage
          <6>3. ndWrote' = {}
            BY <1>1, <1>6, <2>1, <6>2
          <6> QED
            BY <6>3 DEF NdCleared, NdClearedAfter
        <5> QED
          BY <5>2, <5>3, <5>4
      <4> QED
        BY <4>1, <4>2
    <3> QED
      BY <2>1, <3>1, <3>2 DEF BindingInv, NdCleared, NdClearedAfter
  <2> QED
    BY <1>11, <2>3, <2>4, <2>5, <2>6 DEF NdStart
<1>12. CASE NdReplace
  <2>1. /\ ndRow' = ndRow /\ ndCfg' = ndCfg /\ ndFile' = ndFile /\ ndPc = "apply"
        /\ ndTold' = ndTold /\ ndLost' = ndLost /\ ndWrote' = ndWrote
    BY <1>12 DEF NdReplace, ndServer, ndHistory
  <2>2. \A s : NdClearedAfter(s) <=> NdCleared(s)
    BY <2>1 DEF NdCleared, NdClearedAfter
  <2>3. CASE ndCfg.secret = 0
    <3>1. ~ndRt'.target.ready
      BY <1>12, <2>3, NdRtReplaced DEF Serves
    <3>2. ndRow.secret = 0 \/ ndRow.secret \notin {ndBind.bound, ndFile}
      BY <1>4, <2>1, <2>3
    <3> QED
      BY <2>1, <2>3, <3>1, <3>2 DEF BindingInv, NdCleared, NdClearedAfter
  <2>4. CASE ndCfg.secret # 0
    <3>1. ndBind' = ndBind /\ ndRt'.target.secret = ndCfg.secret /\ (ndRt'.target.ready <=> ndRt.target.ready)
      BY <1>12, <2>4, NdRtReplaced DEF NdReplace, Serves
    <3>2. ndPc' = "measure" \/ ndRt.target.secret = ndCfg.secret
      BY <1>12, <2>4 DEF NdReplace
    <3>3. \A s \in {ndRow.secret, ndCfg.secret} \ {0} : s = ndFile => (ndBind.warn /\ ndBind.bound = s) \/ NdClearedAfter(s)
      BY <1>3, <2>2
    <3>4. ndRt.target.ready /\ ndPc' # "measure" => ndBind.warn \/ NdClearedAfter(ndCfg.secret)
      BY <1>3, <2>1, <2>2, <3>2
    <3> QED
      BY <2>1, <3>1, <3>3, <3>4 DEF BindingInv, NdCleared, NdClearedAfter
  <2> QED
    BY <2>3, <2>4
<1>13. CASE NdMeasure
  <2>1. /\ ndRow' = ndRow /\ ndFile' = ndFile /\ ndRt' = ndRt /\ ndBind' = ndBind /\ ndPc = "measure"
        /\ ndTold' = ndTold /\ ndWrote' = ndWrote
        /\ \/ ndPc' = "observe" /\ ndCfg' = ndCfg /\ ndLost' = ndLost
           \/ /\ ndCfg'.secret = 0 /\ ndLost \subseteq ndLost'
              /\ ndRt.target.ready => ndCfg.secret \in ndLost'
    BY <1>13 DEF NdMeasure, ndServer, NoCfg
  <2>2. \A s : NdCleared(s) => NdClearedAfter(s)
    BY <1>7, <2>1
  <2>3. ndRt.target.ready /\ ndPc' # "observe" => NdClearedAfter(ndRt.target.secret)
    BY <1>4, <2>1 DEF NdCleared, NdClearedAfter
  <2>4. \A s \in {ndRow.secret, ndCfg'.secret} \ {0} : s = ndFile => (ndBind.warn /\ ndBind.bound = s) \/ NdClearedAfter(s)
    BY <1>3, <2>1, <2>2
  <2> QED
    BY <2>1, <2>3, <2>4 DEF BindingInv, NdCleared, NdClearedAfter
<1>14. CASE NdObserve
  <2>1. /\ ndRow' = ndRow /\ ndCfg' = ndCfg /\ ndPc = "observe"
        /\ ndTold' = ndTold /\ ndLost' = ndLost /\ ndWrote' = ndWrote
        /\ ndBind' = [bound |-> ndCfg.secret, warn |-> Warns(ndBind.bound, ndCfg.secret, ndMeasured)]
        /\ ndFile' \in {ndFile, ndCfg.secret}
    BY <1>14 DEF NdObserve, ndServer, ndHistory
  <2>2. ndRt'.target.secret = ndRt.target.secret
    BY <1>14, NdRtObserved DEF Serves
  <2>3. ndMeasured = ndStore
    BY <1>2, <2>1 DEF FlightInv
  <2>4. ndCfg.secret # 0 /\ ndRt.target.secret = ndCfg.secret /\ ndBind.bound # ndCfg.secret
    BY <1>4, <2>1
  <2>5. ndBind'.bound = ndCfg.secret /\ (ndBind'.warn <=> ndStore > 0)
    BY <2>1, <2>3, <2>4 DEF Warns
  <2>6. ndBind'.warn \/ ndWrote = {}
    BY <1>1, <1>6, <2>5
  <2>7. \A s : ndWrote = {} \/ NdCleared(s) => NdClearedAfter(s)
    BY <2>1 DEF NdCleared, NdClearedAfter
  <2>8. \A s \in {ndRow.secret, ndCfg.secret} \ {0} : s = ndFile' => (ndBind'.warn /\ ndBind'.bound = s) \/ NdClearedAfter(s)
    <3>1. SUFFICES ASSUME NEW s \in {ndRow.secret, ndCfg.secret} \ {0}, s = ndFile', s # ndCfg.secret
                   PROVE  NdClearedAfter(s)
      BY <2>5, <2>6, <2>7
    <3>2. s = ndRow.secret /\ s = ndSecret /\ s = ndFile
      BY <1>4, <2>1, <3>1
    <3>3. FALSE
      BY <1>1, <1>4, <1>5, <2>4, <3>1, <3>2
    <3> QED
      BY <3>3
  <2>9. ndBind'.warn \/ NdClearedAfter(ndRt.target.secret)
    BY <2>6, <2>7
  <2> QED
    BY <2>1, <2>2, <2>8, <2>9 DEF BindingInv, NdCleared, NdClearedAfter
<1>15. ASSUME NEW u \in NdUploads, NdReserve(u)
       PROVE  BindingInv'
  <2>1. /\ ndRow' = ndRow /\ ndCfg' = ndCfg /\ ndBind' = ndBind /\ ndFile' = ndFile /\ ndPc' = ndPc
        /\ ndTold' = ndTold /\ ndLost' = ndLost /\ ndWrote' = ndWrote
    BY <1>15 DEF NdReserve, ndServer, ndManager
  <2>2. ndRt'.target.secret = ndRt.target.secret /\ ndRt.target.ready
    BY <1>15, NdRtReserved DEF Serves
  <2>3. \A s : NdClearedAfter(s) <=> NdCleared(s)
    BY <2>1 DEF NdCleared, NdClearedAfter
  <2>4. \A s \in {ndRow.secret, ndCfg.secret} \ {0} : s = ndFile => (ndBind.warn /\ ndBind.bound = s) \/ NdClearedAfter(s)
    BY <1>3, <2>3
  <2>5. ndPc \notin {"measure", "observe"} => ndBind.warn \/ NdClearedAfter(ndRt.target.secret)
    BY <1>3, <2>2, <2>3
  <2> QED
    BY <2>1, <2>2, <2>4, <2>5 DEF BindingInv, NdCleared, NdClearedAfter
<1>16. ASSUME NEW u \in NdUploads, NdStoreEnds(u)
       PROVE  BindingInv'
  <2>1. /\ ndRow' = ndRow /\ ndCfg' = ndCfg /\ ndBind' = ndBind /\ ndFile' = ndFile /\ ndPc' = ndPc
        /\ ndTold' = ndTold /\ ndLost' = ndLost /\ ndWrote' \subseteq ndWrote \cup {ndUp[u].secret}
    BY <1>16 DEF NdStoreEnds, ndServer, ndManager
  <2>2. ndRt'.target.secret = ndRt.target.secret /\ (ndRt'.target.ready <=> ndRt.target.ready)
    BY <1>16, NdRtReleased DEF Serves
  <2>3. u \in BusyUps
    BY <1>16 DEF NdStoreEnds, BusyUps
  <2>4. ndUp[u].secret \in Nat
    BY <1>1 DEF NdUpload
  <2>5. \A s : NdCleared(s) /\ ndUp[u].secret = s => NdClearedAfter(s)
    BY <2>1 DEF NdCleared, NdClearedAfter
  <2>6. ndRt.target.ready /\ ndPc \notin {"measure", "observe"} => ndBind.warn \/ NdClearedAfter(ndRt.target.secret)
    <3>1. ndRt.target.ready /\ ndPc # "measure" => ndUp[u].secret = ndRt.target.secret
      BY <1>2, <2>3 DEF FlightInv
    <3> QED
      BY <1>3, <2>5, <3>1
  <2>7. \A s \in {ndRow.secret, ndCfg.secret} \ {0} : s = ndFile => (ndBind.warn /\ ndBind.bound = s) \/ NdClearedAfter(s)
    <3>1. SUFFICES ASSUME NEW s \in {ndRow.secret, ndCfg.secret} \ {0}, s = ndFile
                   PROVE  ndUp[u].secret = s
      BY <1>3, <2>5
    <3>2. s # NoEntry /\ s <= ndUp[u].secret
      BY <1>2, <1>5, <2>3, <3>1 DEF FlightInv
    <3>3. ndUp[u].secret <= ndSecret /\ (ndCfg.secret # 0 => ndUp[u].secret <= ndCfg.secret)
      BY <2>3 DEF SecretsInv, KnownBy
    <3>4. s = ndSecret \/ s = ndCfg.secret
      BY <1>4, <3>1
    <3> QED
      BY <1>1, <2>4, <3>1, <3>2, <3>3, <3>4
  <2> QED
    BY <2>1, <2>2, <2>6, <2>7 DEF BindingInv, NdCleared, NdClearedAfter
<1> QED
  BY <1>8, <1>9, <1>10, <1>11, <1>12, <1>13, <1>14, <1>15, <1>16 DEF NdNext, NdRound

\* A step that changes nothing keeps the invariant.
LEMMA NdStutter == NdIInv /\ UNCHANGED ndVars => NdIInv'
<1> SUFFICES ASSUME NdIInv, UNCHANGED ndVars
             PROVE  NdIInv'
  OBVIOUS
<1> USE DEF ndVars
<1>1. BusyUps' = BusyUps /\ NoEntry' = NoEntry
  BY DEF BusyUps, NoEntry
<1>2. NodeTypes'
  BY DEF NdIInv, NodeTypes, ServerTypes, ManagerTypes, RunningTypes, DiskTypes
<1>3. CountsInv'
  BY <1>1 DEF NdIInv, CountsInv
<1>4. SecretsInv'
  BY <1>1 DEF NdIInv, SecretsInv, KnownBy
<1>5. FlightInv'
  BY <1>1 DEF NdIInv, FlightInv
<1>6. BindingInv'
  BY DEF NdIInv, BindingInv, NdCleared
<1> QED
  BY <1>2, <1>3, <1>4, <1>5, <1>6 DEF NdIInv

\* The inductive invariant of the storage node holds at every moment: types, counts, credentials,
\* the uploads in flight and what is bound to the name.
THEOREM NodeIInvHolds == NdSpec => []NdIInv
<1>1. NdIInv /\ [NdNext]_ndVars => NdIInv'
  <2>1. NdIInv /\ NdNext => NdIInv'
    BY NdServerTypesHold, NdManagerTypesHold, NdRunningTypesHold, NdDiskTypesHold, NdCountsHold, NdSecretsHold,
       NdFlightHold, NdBindingHold DEF NdIInv, NodeTypes
  <2> QED
    BY <2>1, NdStutter
<1> QED
  BY <1>1, NdInitHolds, PTL DEF NdSpec

\* What a storage node promises of quota and of rebinding, for any number of uploads, credentials,
\* restarts and lost reports.
THEOREM NodeCorrect == NdSpec => []NodeInv
<1>1. NdIInv => NodeInv
  <2> SUFFICES ASSUME NdIInv
               PROVE  NodeInv
    OBVIOUS
  <2> USE NdAssumption
  <2>1. NodeTypes /\ CountsInv /\ SecretsInv
    BY DEF NdIInv
  <2>2. NdTypeOK
    <3>1. /\ ndSecret \in Nat /\ ndRow.secret \in Nat /\ ndRow.used \in Nat /\ ndRt.spec \in 0..2 /\ ndRt.target.used \in Nat
          /\ ndPosts \in 0..NdMaxPosts /\ ndBind.bound \in Nat /\ ndFile \in Nat /\ ndSecret <= NdMaxSecret
          /\ NdMaxPosts \in Nat /\ NdMaxSecret \in Nat
      BY <2>1 DEF NodeTypes, ServerTypes, RunningTypes, DiskTypes, NdTarget, NdRuntime, NdLocal, NdBound
    <3>2. ndRow.secret \in 0..ndSecret /\ ndRow.used \in 0..(NdMaxPosts + 1) /\ ndRt.target.used \in 0..(NdMaxPosts + 1)
      BY <2>1, <3>1 DEF CountsInv, SecretsInv
    <3>3. ndBind.bound \in 0..NoEntry /\ ndFile \in 0..NoEntry
      BY <2>1, <3>1 DEF SecretsInv, KnownBy, NoEntry
    <3> QED
      BY <2>1, <3>1, <3>2, <3>3 DEF NdTypeOK, NodeTypes, ServerTypes, ManagerTypes, RunningTypes
  <2>3. NodeUsageCovers
    <3> SUFFICES ASSUME ndRt.target.ready, ~ndSkew
                 PROVE  ndRt.target.used >= ndStore + Cardinality({u \in NdUploads : ndUp[u].live})
      BY DEF NodeUsageCovers
    <3>1. {u \in NdUploads : ndUp[u].live} = BusyUps
      BY DEF NdIInv, FlightInv, BusyUps, NoUpload
    <3> QED
      BY <3>1 DEF NdIInv, FlightInv
  <2>4. RebindingIsTold
    BY DEF RebindingIsTold, NdIInv, BindingInv, NdCleared
  <2> QED
    BY <2>2, <2>3, <2>4 DEF NodeInv
<1> QED
  BY <1>1, NodeIInvHolds, PTL

=============================================================================
