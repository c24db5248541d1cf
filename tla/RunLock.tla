------------------------------ MODULE RunLock ------------------------------
(***************************************************************************)
(* backup.lock, the file by which the backup jobs of one host exclude each *)
(* other (acquireRunLock, releaseRunLock).  Every system call on the path  *)
(* is a step.  A process is one incarnation: its token names its pid and   *)
(* its start time, so a restarted program is another process.  A file is   *)
(* named by the process that created it; its content is that process's     *)
(* token once it has been written and Empty before.                        *)
(***************************************************************************)
EXTENDS Naturals, FiniteSets

CONSTANTS
    LkProcs,     \* the job processes
    LkLeft,      \* the owner of a lock file that was there before them
    NoLock, Empty,
    LkMaxFault   \* model bound: crashes and failed system calls

ASSUME LkAssumption ==
    /\ LkMaxFault \in Nat
    /\ LkLeft \notin LkProcs
    /\ NoLock \notin LkProcs \cup {LkLeft} /\ Empty \notin LkProcs \cup {LkLeft}

VARIABLES
    lkPc,      \* where each process is in acquireRunLock or releaseRunLock
    lkPath,    \* the file at the lock path
    lkWritten, \* the files that hold their token
    lkOld,     \* the files older than staleLockAfter
    lkLegacy,  \* LkLeft's token is a bare pid, written by an old release
    lkSeen,    \* per process: the owner it read and whether the file was old
    lkAside,   \* per process: the file it has renamed to its reclaim path
    lkStolen,  \* history: a process took away a lock it had not judged
    lkFaults

lkVars == <<lkPc, lkPath, lkWritten, lkOld, lkLegacy, lkSeen, lkAside, lkStolen, lkFaults>>

LkFiles == LkProcs \cup {LkLeft}
LkEnded == {"skipped", "failed", "done", "crashed"}
LkAlive(p) == p \in LkProcs /\ lkPc[p] \notin LkEnded
Content(f) == IF f \in lkWritten THEN f ELSE Empty
LkUnseen == [owner |-> NoLock, old |-> FALSE]

\* The lock is free, or a job died holding it, half way through writing it, or under an old release.
LkInit(lockers) ==
    /\ lkPc = [p \in LkProcs |-> IF p \in lockers THEN "open" ELSE "done"]
    /\ lkPath \in {NoLock, LkLeft}
    /\ lkWritten \in {{}, {LkLeft}}
    /\ lkLegacy \in BOOLEAN
    /\ lkPath = NoLock => lkWritten = {} /\ ~lkLegacy
    /\ lkLegacy => lkWritten # {}
    /\ lkOld = {}
    /\ lkSeen = [p \in LkProcs |-> LkUnseen]
    /\ lkAside = [p \in LkProcs |-> NoLock]
    /\ lkStolen = FALSE
    /\ lkFaults = 0

LkFault == lkFaults < LkMaxFault /\ lkFaults' = lkFaults + 1
LkGoto(p, pc) == lkPc' = [lkPc EXCEPT ![p] = pc]
----------------------------------------------------------------------------
(* acquireRunLock *)

\* OpenFile with O_EXCL
LkOpen(p) ==
    /\ lkPc[p] = "open"
    /\ IF lkPath = NoLock
       THEN lkPath' = p /\ LkGoto(p, "write")
       ELSE lkPath' = lkPath /\ LkGoto(p, "stat")
    /\ lkSeen' = [lkSeen EXCEPT ![p] = LkUnseen]
    /\ UNCHANGED <<lkWritten, lkOld, lkLegacy, lkAside, lkStolen, lkFaults>>

\* The token goes to the open file, wherever that file is by now.
LkWrite(p) ==
    /\ lkPc[p] = "write"
    /\ lkWritten' = lkWritten \cup {p}
    /\ LkGoto(p, "held")
    /\ UNCHANGED <<lkPath, lkOld, lkLegacy, lkSeen, lkAside, lkStolen, lkFaults>>

\* A failed Write removes whatever is at the path.
LkWriteFails(p) ==
    /\ lkPc[p] = "write" /\ LkFault
    /\ lkPath' = NoLock
    /\ lkStolen' = (lkStolen \/ lkPath \notin {p, NoLock})
    /\ LkGoto(p, "failed")
    /\ UNCHANGED <<lkWritten, lkOld, lkLegacy, lkSeen, lkAside>>

LkStat(p) ==
    /\ lkPc[p] = "stat"
    /\ lkSeen' = [lkSeen EXCEPT ![p].old = lkPath \in lkOld]
    /\ LkGoto(p, IF lkPath = NoLock THEN "open" ELSE "owner")
    /\ UNCHANGED <<lkPath, lkWritten, lkOld, lkLegacy, lkAside, lkStolen, lkFaults>>

LkReadOwner(p) ==
    /\ lkPc[p] = "owner"
    /\ IF lkPath = NoLock
       THEN UNCHANGED lkSeen /\ LkGoto(p, "open")
       ELSE lkSeen' = [lkSeen EXCEPT ![p].owner = Content(lkPath)] /\ LkGoto(p, "judge")
    /\ UNCHANGED <<lkPath, lkWritten, lkOld, lkLegacy, lkAside, lkStolen, lkFaults>>

\* A job that waits for the owner instead of leaving.
MutVerdictsWait(p) ==
    LET seen == lkSeen[p]
    IN {IF seen.owner \in LkProcs /\ ~LkAlive(seen.owner) THEN "reread" ELSE "open"}

\* The verdicts acquireRunLock may reach on the owner that p has read.
Verdicts(p) ==
    LET seen == lkSeen[p]
    IN CASE seen.owner = Empty -> {IF seen.old THEN "failed" ELSE "skipped"}
         [] seen.owner = LkLeft /\ lkLegacy -> IF seen.old THEN {"skipped", "reread"} ELSE {"skipped"}
         [] OTHER -> {IF LkAlive(seen.owner) THEN "skipped" ELSE "reread"}

LkJudge(p) ==
    /\ lkPc[p] = "judge"
    /\ \E v \in Verdicts(p) :
         /\ LkGoto(p, v)
         /\ lkSeen' = IF v \in LkEnded THEN [lkSeen EXCEPT ![p] = LkUnseen] ELSE lkSeen
    /\ UNCHANGED <<lkPath, lkWritten, lkOld, lkLegacy, lkAside, lkStolen, lkFaults>>

LkReread(p) ==
    /\ lkPc[p] = "reread"
    /\ LkGoto(p, IF lkPath # NoLock /\ Content(lkPath) = lkSeen[p].owner THEN "rename" ELSE "open")
    /\ UNCHANGED <<lkPath, lkWritten, lkOld, lkLegacy, lkSeen, lkAside, lkStolen, lkFaults>>

LkRename(p) ==
    /\ lkPc[p] = "rename"
    /\ lkPath' = NoLock
    /\ lkAside' = [lkAside EXCEPT ![p] = lkPath]
    /\ lkStolen' = (lkStolen \/ (lkPath # NoLock /\ Content(lkPath) # lkSeen[p].owner))
    /\ LkGoto(p, IF lkPath = NoLock THEN "open" ELSE "grab")
    /\ UNCHANGED <<lkWritten, lkOld, lkLegacy, lkSeen, lkFaults>>

\* The renamed file is the one that was judged, and is removed, or it is not.
LkGrab(p) ==
    /\ lkPc[p] = "grab"
    /\ IF Content(lkAside[p]) = lkSeen[p].owner
       THEN lkAside' = [lkAside EXCEPT ![p] = NoLock] /\ LkGoto(p, "open")
       ELSE UNCHANGED lkAside /\ LkGoto(p, "putback")
    /\ UNCHANGED <<lkPath, lkWritten, lkOld, lkLegacy, lkSeen, lkStolen, lkFaults>>

\* renameNoReplace; when the path is taken again, the file is dropped.
LkPutBack(p) ==
    /\ lkPc[p] = "putback"
    /\ lkPath' = IF lkPath = NoLock THEN lkAside[p] ELSE lkPath
    /\ lkAside' = [lkAside EXCEPT ![p] = NoLock]
    /\ lkSeen' = [lkSeen EXCEPT ![p] = LkUnseen]
    /\ LkGoto(p, "skipped")
    /\ UNCHANGED <<lkWritten, lkOld, lkLegacy, lkStolen, lkFaults>>
----------------------------------------------------------------------------
(* releaseRunLock *)

LkReadOwn(p) ==
    /\ lkPc[p] = "release"
    /\ LkGoto(p, IF lkPath # NoLock /\ Content(lkPath) = p THEN "remove" ELSE "done")
    /\ UNCHANGED <<lkPath, lkWritten, lkOld, lkLegacy, lkSeen, lkAside, lkStolen, lkFaults>>

LkRemove(p) ==
    /\ lkPc[p] = "remove"
    /\ lkPath' = NoLock
    /\ LkGoto(p, "done")
    /\ UNCHANGED <<lkWritten, lkOld, lkLegacy, lkSeen, lkAside, lkStolen, lkFaults>>
----------------------------------------------------------------------------
\* The process is killed; what it has put on the disk stays.
LkCrash(p) ==
    /\ LkAlive(p) /\ LkFault
    /\ LkGoto(p, "crashed")
    /\ lkSeen' = [lkSeen EXCEPT ![p] = LkUnseen]
    /\ lkAside' = [lkAside EXCEPT ![p] = NoLock]
    /\ UNCHANGED <<lkPath, lkWritten, lkOld, lkLegacy, lkStolen>>

\* staleLockAfter passes.
LkDay ==
    /\ lkOld' = {lkPath} \ {NoLock}
    /\ UNCHANGED <<lkPc, lkPath, lkWritten, lkLegacy, lkSeen, lkAside, lkStolen, lkFaults>>

LkAcquire(p) ==
    \/ LkOpen(p) \/ LkWrite(p) \/ LkStat(p) \/ LkReadOwner(p) \/ LkJudge(p)
    \/ LkReread(p) \/ LkRename(p) \/ LkGrab(p) \/ LkPutBack(p)
LkRelease(p) == LkReadOwn(p) \/ LkRemove(p)

\* The job is over and its deferred release starts.
LkLetGo(p) ==
    /\ lkPc[p] = "held" /\ LkGoto(p, "release")
    /\ UNCHANGED <<lkPath, lkWritten, lkOld, lkLegacy, lkSeen, lkAside, lkStolen, lkFaults>>

LkNext ==
    \/ LkDay
    \/ \E p \in LkProcs : LkAcquire(p) \/ LkRelease(p) \/ LkLetGo(p) \/ LkWriteFails(p) \/ LkCrash(p)

LkSpec == LkInit(LkProcs) /\ [][LkNext]_lkVars
----------------------------------------------------------------------------
LkHolders == {p \in LkProcs : lkPc[p] \in {"held", "release", "remove"}}

\* Files, owners and program counters are well formed; a holder has written its token.
LkTypeOK ==
    /\ lkPc \in [LkProcs -> LkEnded \cup {"open", "write", "held", "stat", "owner", "judge", "reread",
                                          "rename", "grab", "putback", "release", "remove"}]
    /\ lkPath \in LkFiles \cup {NoLock}
    /\ lkWritten \subseteq LkFiles
    /\ lkSeen \in [LkProcs -> [owner : LkFiles \cup {NoLock, Empty}, old : BOOLEAN]]
    /\ lkAside \in [LkProcs -> LkFiles \cup {NoLock}]
    /\ lkFaults \in 0..LkMaxFault
    /\ \A p \in LkProcs : lkPc[p] = "held" => p \in lkWritten

(***************************************************************************)
(* What BACKUPS.md promises of the lock: a job that finds another one in   *)
(* flight does nothing, so no two jobs are at work at the same time.       *)
(***************************************************************************)
JobsExclude == Cardinality(LkHolders) <= 1

(***************************************************************************)
(* What acquireRunLock does give: two jobs are at work together only after *)
(* a reclaimer has renamed away a lock other than the one it judged dead.  *)
(* Crashes, half-written locks, locks of old releases and a release that   *)
(* comes after the lock has changed hands are no way to get there.         *)
(***************************************************************************)
JobsExcludeUnlessStolen == lkStolen \/ JobsExclude
============================================================================
