----------------------------- MODULE BackupJobs -----------------------------
(***************************************************************************)
(* The backup jobs of one host: run, check, restore, unlock, init and the  *)
(* record of a failed enrolment, composed with the lock they share.  They  *)
(* meet in three more places: the status file, which each of them reads    *)
(* once and later replaces as a whole; the progress file of a run; and the *)
(* locks restic keeps in a repository, which other hosts use too.          *)
(*                                                                         *)
(* init and the enrolment record are lock-free (init takes the lock only   *)
(* when a repository is reached through the tunnel, and is then a job that *)
(* changes nothing the others do not).  In the status file a result is the *)
(* job that produced it: good the last success, check the last check.      *)
(***************************************************************************)
EXTENDS RunLock, Functions

CONSTANTS
    BjRepos,     \* the configured repositories
    BjOrphan,    \* a repository of the status file that is configured no more
    BjScenarios, \* the jobs of the processes, and whether another host appears
    Nobody, Unreadable, Foreign

BjEntry == [good : LkFiles \cup {Nobody}, check : LkFiles \cup {Nobody}, ok : BOOLEAN]

ASSUME BjAssumption ==
    /\ BjOrphan \notin BjRepos /\ IsFiniteSet(BjRepos)
    /\ \A s \in BjScenarios :
         /\ s.jobs \in [LkProcs -> {"run", "check", "restore", "unlock", "unlockall", "init", "enroll", "none"}]
         /\ s.foreign \in {"absent", "ended"}
    /\ Nobody \notin LkProcs \cup {LkLeft} /\ Foreign \notin LkProcs \cup {LkLeft}
    /\ \A S \in SUBSET (BjRepos \cup {BjOrphan}) : Unreadable \notin [S -> BjEntry]

VARIABLES
    bj,         \* per process: its kind, where it is and what it has read and found
    bjStatus,   \* the status file
    bjProgress, \* the owner of the progress file
    bjLocks,    \* per repository: the owners of its restic locks
    bjOld,      \* the owners whose restic locks are older than abandonedLockMinAge
    bjForeign,  \* the operation of another host
    bjLost      \* history: a lock-free job has written over a file newer than it read

bjVars == <<bj, bjStatus, bjProgress, bjLocks, bjOld, bjForeign, bjLost>>
bjAll == <<lkVars, bjVars>>

LockFree == {"init", "enroll", "none"}
BjBlank == [good |-> Nobody, check |-> Nobody, ok |-> FALSE]
BjEarlier == [good |-> LkLeft, check |-> LkLeft, ok |-> TRUE]
NoEntries == [n \in {} |-> BjBlank]

\* An earlier release of the configuration has left its results, or a damaged file.
BjInit ==
    /\ \E s \in BjScenarios :
         /\ bj = [p \in LkProcs |-> [kind |-> s.jobs[p], pc |-> IF s.jobs[p] = "none" THEN "over" ELSE "begin",
                                     todo |-> BjRepos, seen |-> NoEntries, upd |-> NoEntries, list |-> {}]]
         /\ LkInit({p \in LkProcs : s.jobs[p] \notin LockFree})
         /\ bjForeign = s.foreign
    /\ bjStatus \in {[n \in {BjOrphan} \cup (BjRepos \ {r}) |-> BjEarlier] : r \in BjRepos} \cup {Unreadable}
    /\ bjProgress = Nobody
    /\ bjLocks = [r \in BjRepos |-> {}]
    /\ bjOld = {}
    /\ bjLost = FALSE

BjWorks(p, kinds, pc) ==
    /\ bj[p].kind \in kinds /\ bj[p].pc = pc
    /\ bj[p].kind \in LockFree \/ lkPc[p] = "held"

\* The job returns; its locals are gone.
Over(job) == [job EXCEPT !.pc = "over", !.todo = {}, !.seen = NoEntries, !.upd = NoEntries, !.list = {}]

\* The repository the job takes next; the order is that of the configuration.
NextRepo(p) == CHOOSE r \in bj[p].todo : TRUE
----------------------------------------------------------------------------
(* The status file. *)

\* A merge that takes the new entry as it is.
MutMergeStatus(existing, updates) ==
    [n \in DOMAIN existing \cup DOMAIN updates |->
        IF n \in DOMAIN updates THEN updates[n] ELSE existing[n]]

\* mergeStatus
MergeStatus(existing, updates) ==
    [n \in DOMAIN existing \cup DOMAIN updates |->
        IF n \notin DOMAIN updates THEN existing[n]
        ELSE IF n \notin DOMAIN existing THEN updates[n]
        ELSE [updates[n] EXCEPT !.check = existing[n].check,
                                !.good = IF updates[n].ok THEN @ ELSE existing[n].good]]

\* withoutUnconfiguredRepos and removeRepoStatus
WithoutUnconfigured(status) == Restrict(status, DOMAIN status \cap BjRepos)

\* applyCheckResult
ApplyCheckResult(status, r, p) ==
    [n \in DOMAIN status \cup {r} |->
        IF n # r THEN status[n]
        ELSE [(IF r \in DOMAIN status THEN status[r] ELSE BjBlank) EXCEPT !.check = p]]

\* readStatusFile, as a run and a check use it: a file they cannot read counts as empty.
BjReadStatus(p) ==
    /\ BjWorks(p, {"run", "check"}, "read")
    /\ bj' = [bj EXCEPT ![p].seen = IF bjStatus = Unreadable THEN NoEntries ELSE bjStatus, ![p].pc = "repo"]
    /\ UNCHANGED <<lkVars, bjStatus, bjProgress, bjLocks, bjOld, bjForeign, bjLost>>

\* reconcileStatusWithConfig and RecordTunnelEnrollmentFailure give up on such a file.
BjReadLockFree(p) ==
    /\ BjWorks(p, LockFree, "begin")
    /\ bj' = IF bjStatus = Unreadable
             THEN [bj EXCEPT ![p] = Over(@)]
             ELSE [bj EXCEPT ![p].seen = bjStatus, ![p].pc = "repo"]
    /\ UNCHANGED <<lkVars, bjStatus, bjProgress, bjLocks, bjOld, bjForeign, bjLost>>

\* reconcileStatusWithConfig writes only when the set of repositories changes.
BjReconcile(p) ==
    /\ BjWorks(p, {"init"}, "repo")
    /\ LET scheduled == [n \in BjRepos \ DOMAIN bj[p].seen |-> BjBlank]
           next == WithoutUnconfigured(MergeStatus(bj[p].seen, scheduled))
       IN bjStatus' = IF DOMAIN next = DOMAIN bj[p].seen THEN bjStatus ELSE next
    /\ bjLost' = (bjLost \/ (bjStatus' # bjStatus /\ bj[p].seen # bjStatus))
    /\ bj' = [bj EXCEPT ![p] = Over(@)]
    /\ UNCHANGED <<lkVars, bjProgress, bjLocks, bjOld, bjForeign>>

BjRecordEnrollment(p) ==
    /\ BjWorks(p, {"enroll"}, "repo")
    /\ bjStatus' = MergeStatus(bj[p].seen, [n \in BjRepos |-> BjBlank])
    /\ bjLost' = (bjLost \/ (bjStatus' # bjStatus /\ bj[p].seen # bjStatus))
    /\ bj' = [bj EXCEPT ![p] = Over(@)]
    /\ UNCHANGED <<lkVars, bjProgress, bjLocks, bjOld, bjForeign>>
----------------------------------------------------------------------------
(* backup run *)

\* The first progress file; when it cannot be written, Run returns.
BjRunBegin(p) ==
    /\ BjWorks(p, {"run"}, "begin")
    /\ \/ bjProgress' = p /\ bj' = [bj EXCEPT ![p].pc = "read"] /\ UNCHANGED lkFaults
       \/ LkFault /\ bj' = [bj EXCEPT ![p] = Over(@)] /\ UNCHANGED bjProgress
    /\ UNCHANGED <<lkPc, lkPath, lkWritten, lkOld, lkLegacy, lkSeen, lkAside, lkStolen>>
    /\ UNCHANGED <<bjStatus, bjLocks, bjOld, bjForeign, bjLost>>

\* A heartbeat that is not waited for.
MutHeartbeat(p) ==
    /\ bj[p].kind = "run" /\ lkPc[p] \in {"held", "release"}
    /\ bj[p].pc \in {"read", "repo", "restic", "clear", "over"}
    /\ bjProgress' = p
    /\ UNCHANGED <<lkVars, bj, bjStatus, bjLocks, bjOld, bjForeign, bjLost>>

\* The heartbeat goroutine, until stopHeartbeat
BjHeartbeat(p) ==
    /\ bj[p].kind = "run" /\ lkPc[p] = "held" /\ bj[p].pc \in {"read", "repo", "restic"}
    /\ bjProgress' = p
    /\ UNCHANGED <<lkVars, bj, bjStatus, bjLocks, bjOld, bjForeign, bjLost>>

\* startRepo and the progress file, then restic runs; a cancelled context ends the loop.
BjRepoBegin(p) ==
    /\ BjWorks(p, {"run"}, "repo") /\ bj[p].todo # {}
    /\ \/ /\ bjProgress' = p
          /\ bj' = [bj EXCEPT ![p].pc = "restic"]
          /\ bjLocks' = [bjLocks EXCEPT ![NextRepo(p)] = @ \cup {p}]
          /\ UNCHANGED lkFaults
       \/ /\ LkFault
          /\ \/ bj' = [bj EXCEPT ![p].todo = {}]     \* cancelled
             \/ bj' = [bj EXCEPT ![p].pc = "clear"]  \* no progress file: the results are not written
          /\ UNCHANGED <<bjProgress, bjLocks>>
    /\ UNCHANGED <<lkPc, lkPath, lkWritten, lkOld, lkLegacy, lkSeen, lkAside, lkStolen, bjStatus, bjOld, bjForeign, bjLost>>

\* A repository's result joins those that the run has.
WithUpdate(updates, r, entry) == [n \in DOMAIN updates \cup {r} |-> IF n = r THEN entry ELSE updates[n]]

\* runRepo: backup, forget and snapshots fail or succeed; without its lock restic aborts.
BjRepoEnd(p) ==
    /\ BjWorks(p, {"run"}, "restic")
    /\ \E ok \in {b \in BOOLEAN : b => p \in bjLocks[NextRepo(p)]} :
         bj' = [bj EXCEPT ![p].pc = "repo", ![p].todo = @ \ {NextRepo(p)},
                          ![p].upd = WithUpdate(@, NextRepo(p), [good |-> IF ok THEN p ELSE Nobody, check |-> Nobody, ok |-> ok])]
    /\ bjLocks' = [bjLocks EXCEPT ![NextRepo(p)] = @ \ {p}]
    /\ UNCHANGED <<lkVars, bjStatus, bjProgress, bjOld, bjForeign, bjLost>>

\* The status file, once, after the heartbeat has stopped; the write may fail.
BjRunWrite(p) ==
    /\ BjWorks(p, {"run"}, "repo") /\ bj[p].todo = {}
    /\ \/ /\ bjStatus' = IF DOMAIN bj[p].upd = {} THEN bjStatus
                         ELSE WithoutUnconfigured(MergeStatus(bj[p].seen, bj[p].upd))
          /\ UNCHANGED lkFaults
       \/ LkFault /\ UNCHANGED bjStatus
    /\ bj' = [bj EXCEPT ![p] = [Over(@) EXCEPT !.pc = "clear"]]
    /\ UNCHANGED <<lkPc, lkPath, lkWritten, lkOld, lkLegacy, lkSeen, lkAside, lkStolen>>
    /\ UNCHANGED <<bjProgress, bjLocks, bjOld, bjForeign, bjLost>>

\* The deferred Remove of the progress file
BjClear(p) ==
    /\ BjWorks(p, {"run"}, "clear")
    /\ bjProgress' = Nobody
    /\ bj' = [bj EXCEPT ![p] = Over(@)]
    /\ UNCHANGED <<lkVars, bjStatus, bjLocks, bjOld, bjForeign, bjLost>>
----------------------------------------------------------------------------
(* backup check, unlock and restore *)

BjBegin(p) ==
    /\ BjWorks(p, {"check", "unlock", "unlockall", "restore"}, "begin")
    /\ bj' = [bj EXCEPT ![p].pc = IF bj[p].kind = "check" THEN "read" ELSE "repo"]
    /\ UNCHANGED <<lkVars, bjStatus, bjProgress, bjLocks, bjOld, bjForeign, bjLost>>

\* A sweep that needs only one abandoned lock.
MutAbandoned(locks) == locks \cap bjOld # {}

\* sweepLocks and lockIsHeld: every lock is old enough.
Abandoned(locks) == locks \subseteq bjOld

\* runCheckWithLockRecovery: restic check needs the repository to itself.
BjCheck(p) ==
    /\ BjWorks(p, {"check"}, "repo") /\ bj[p].todo # {}
    /\ LET locks == bjLocks[NextRepo(p)]
       IN bj' = [bj EXCEPT ![p].list = locks,
                           ![p].pc = IF locks # {} /\ Abandoned(locks) THEN "remove" ELSE "apply"]
    /\ UNCHANGED <<lkVars, bjStatus, bjProgress, bjLocks, bjOld, bjForeign, bjLost>>

\* Unlock: list the locks and decide.
BjUnlock(p) ==
    /\ BjWorks(p, {"unlock", "unlockall"}, "repo") /\ bj[p].todo # {}
    /\ LET locks == bjLocks[NextRepo(p)]
       IN bj' = IF locks # {} /\ (bj[p].kind = "unlockall" \/ Abandoned(locks))
                THEN [bj EXCEPT ![p].list = locks, ![p].pc = "remove"]
                ELSE [bj EXCEPT ![p].todo = @ \ {NextRepo(p)}]
    /\ UNCHANGED <<lkVars, bjStatus, bjProgress, bjLocks, bjOld, bjForeign, bjLost>>

\* restic unlock --remove-all takes the locks that are there now.
BjRemoveAll(p) ==
    /\ BjWorks(p, {"check", "unlock", "unlockall"}, "remove")
    /\ bjLocks' = [bjLocks EXCEPT ![NextRepo(p)] = {}]
    /\ bj' = IF bj[p].kind = "check"
             THEN [bj EXCEPT ![p].pc = "apply"]
             ELSE [bj EXCEPT ![p].pc = "repo", ![p].todo = @ \ {NextRepo(p)}]
    /\ UNCHANGED <<lkVars, bjStatus, bjProgress, bjOld, bjForeign, bjLost>>

\* The result goes into the copy read at the start, and the copy to the file; the write may fail.
BjApply(p) ==
    /\ BjWorks(p, {"check"}, "apply")
    /\ LET next == ApplyCheckResult(bj[p].seen, NextRepo(p), p)
       IN \/ /\ bjStatus' = next
             /\ bj' = [bj EXCEPT ![p].seen = next, ![p].pc = "repo", ![p].todo = @ \ {NextRepo(p)}]
             /\ UNCHANGED lkFaults
          \/ LkFault /\ bj' = [bj EXCEPT ![p] = Over(@)] /\ UNCHANGED bjStatus
    /\ UNCHANGED <<lkPc, lkPath, lkWritten, lkOld, lkLegacy, lkSeen, lkAside, lkStolen>>
    /\ UNCHANGED <<bjProgress, bjLocks, bjOld, bjForeign, bjLost>>

\* The target is refused: outside the restore root, or not empty.
BjRestoreRefused(p) ==
    /\ BjWorks(p, {"restore"}, "repo")
    /\ bj' = [bj EXCEPT ![p] = Over(@)]
    /\ UNCHANGED <<lkVars, bjStatus, bjProgress, bjLocks, bjOld, bjForeign, bjLost>>

\* Restore: restic restores from a configured repository, under its own lock.
BjRestore(p) ==
    /\ BjWorks(p, {"restore"}, "repo") /\ bj[p].todo # {}
    /\ bj' = [bj EXCEPT ![p].pc = "restic"]
    /\ bjLocks' = [bjLocks EXCEPT ![NextRepo(p)] = @ \cup {p}]
    /\ UNCHANGED <<lkVars, bjStatus, bjProgress, bjOld, bjForeign, bjLost>>

BjRestored(p) ==
    /\ BjWorks(p, {"restore"}, "restic")
    /\ bj' = [bj EXCEPT ![p] = Over(@)]
    /\ bjLocks' = [bjLocks EXCEPT ![NextRepo(p)] = @ \ {p}]
    /\ UNCHANGED <<lkVars, bjStatus, bjProgress, bjOld, bjForeign, bjLost>>

\* The job returns and its deferred release starts.
BjLetGo(p) ==
    /\ lkPc[p] = "held"
    /\ \/ bj[p].pc = "over"
       \/ bj[p].kind \in {"check", "unlock", "unlockall"} /\ bj[p].pc = "repo" /\ bj[p].todo = {}
    /\ LkLetGo(p)
    /\ bj' = [bj EXCEPT ![p] = Over(@)]
    /\ UNCHANGED <<bjStatus, bjProgress, bjLocks, bjOld, bjForeign, bjLost>>
----------------------------------------------------------------------------
(* The world around the jobs. *)

\* Another host that shares the repository locks it, and ends or dies.
BjForeignLocks ==
    /\ bjForeign = "absent"
    /\ bjForeign' = "works"
    /\ \E r \in BjRepos : bjLocks' = [bjLocks EXCEPT ![r] = @ \cup {Foreign}]
    /\ UNCHANGED <<lkVars, bj, bjStatus, bjProgress, bjOld, bjLost>>

BjForeignEnds ==
    /\ bjForeign = "works"
    /\ \/ bjForeign' = "ended" /\ bjLocks' = [r \in BjRepos |-> bjLocks[r] \ {Foreign}]
       \/ bjForeign' = "died" /\ UNCHANGED bjLocks
    /\ UNCHANGED <<lkVars, bj, bjStatus, bjProgress, bjOld, bjLost>>

\* A day passes; restic refreshes the locks of what is still at work.
BjDay ==
    /\ LkDay
    /\ bjOld' = {o \in UNION Range(bjLocks) : IF o = Foreign THEN bjForeign = "died" ELSE ~LkAlive(o)}
    /\ UNCHANGED <<bj, bjStatus, bjProgress, bjLocks, bjForeign, bjLost>>

BjLockStep(p) == (LkAcquire(p) \/ LkRelease(p)) /\ UNCHANGED bjVars
BjLockFault(p) == (LkWriteFails(p) \/ LkCrash(p)) /\ UNCHANGED bjVars

BjStep(p) ==
    \/ BjLockStep(p) \/ BjReadStatus(p) \/ BjReadLockFree(p) \/ BjReconcile(p) \/ BjRecordEnrollment(p)
    \/ BjRunBegin(p) \/ BjRepoBegin(p) \/ BjRepoEnd(p) \/ BjRunWrite(p) \/ BjClear(p)
    \/ BjBegin(p) \/ BjCheck(p) \/ BjUnlock(p) \/ BjRemoveAll(p) \/ BjApply(p)
    \/ BjRestoreRefused(p) \/ BjRestore(p) \/ BjRestored(p) \/ BjLetGo(p)

BjNext ==
    \/ \E p \in LkProcs : BjStep(p) \/ BjHeartbeat(p) \/ BjLockFault(p)
    \/ BjForeignLocks \/ BjForeignEnds \/ BjDay

\* The operating system runs every process; a restic command ends.
BjFairness == \A p \in LkProcs : WF_bjAll(BjStep(p))

BjSpec == BjInit /\ [][BjNext]_bjAll
BjFairSpec == BjSpec /\ BjFairness
----------------------------------------------------------------------------
\* The jobs' copies and the files are well formed.
BjTypeOK ==
    /\ LkTypeOK
    /\ \A p \in LkProcs :
         /\ bj[p].pc \in {"begin", "read", "repo", "restic", "remove", "apply", "clear", "over"}
         /\ bj[p].todo \subseteq BjRepos
         /\ \A n \in DOMAIN bj[p].seen : bj[p].seen[n] \in BjEntry
         /\ \A n \in DOMAIN bj[p].upd : n \in BjRepos /\ bj[p].upd[n] \in BjEntry
    /\ bjStatus # Unreadable => \A n \in DOMAIN bjStatus : n \in BjRepos \cup {BjOrphan} /\ bjStatus[n] \in BjEntry
    /\ bjProgress \in LkProcs \cup {Nobody}

(***************************************************************************)
(* The progress file belongs to a run that is under way or was killed: the *)
(* heartbeat never writes it back after the run has removed it, also when  *)
(* two runs overlap.                                                       *)
(***************************************************************************)
ProgressIsLive ==
    bjProgress # Nobody =>
        \/ lkPc[bjProgress] = "crashed"
        \/ lkPc[bjProgress] = "held" /\ bj[bjProgress].pc \in {"read", "repo", "restic", "clear"}

\* The job whose success or check the file holds.
Recorded(status, n, f) ==
    IF status = Unreadable \/ n \notin DOMAIN status THEN Nobody ELSE status[n][f]

(***************************************************************************)
(* No job undoes what another has recorded: a configured repository's last *)
(* success and last check are only ever replaced by those of the job that  *)
(* writes.  Jobs that hold the lock see to it among themselves; a          *)
(* lock-free one only when nobody wrote the file since it read it.         *)
(***************************************************************************)
RecordedResultsStay ==
    [][~lkStolen /\ ~bjLost' =>
         \A n \in BjRepos, f \in {"good", "check"} :
             Recorded(bjStatus', n, f) \in {Recorded(bjStatus, n, f)} \cup {p \in LkProcs : bj'[p] # bj[p]}]_bjAll

(***************************************************************************)
(* A lock in a repository is taken away only from an owner that has been   *)
(* dead for a day, unless the operator asked for all of them, or the lock  *)
(* came after the sweep had looked (BACKUPS.md says younger ones are left  *)
(* alone; unlock --remove-all does not know which ones were looked at).    *)
(***************************************************************************)
YoungLocksStay ==
    [][\A r \in BjRepos : \A o \in bjLocks[r] \ bjLocks'[r] :
          \/ o = Foreign /\ bjForeign' = "ended"
          \/ o \in LkProcs /\ bj'[o] # bj[o]
          \/ o \in bjOld
          \/ \E p \in LkProcs : bj'[p] # bj[p] /\ (bj[p].kind = "unlockall" \/ o \notin bj[p].list)]_bjAll

(***************************************************************************)
(* Every job comes to its end: the retry loop of acquireRunLock does not   *)
(* spin on a dead owner, a half-written lock or another reclaimer.         *)
(***************************************************************************)
EveryJobEnds ==
    <>(\A p \in LkProcs : IF bj[p].kind \in LockFree THEN bj[p].pc = "over" ELSE lkPc[p] \in LkEnded)

\* The jobs exclude each other unless a lock is stolen, and the progress file is a live run's.
JobsInv == BjTypeOK /\ ProgressIsLive /\ JobsExcludeUnlessStolen
=============================================================================
