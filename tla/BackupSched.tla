---------------------------- MODULE BackupSched ----------------------------
(***************************************************************************)
(* The scheduler of a containerised agent: a daily backup and a weekly     *)
(* check, with jitter, in one loop that runs its jobs itself.  Its state   *)
(* file keeps the last occurrence triggered, so that a restart knows what  *)
(* it missed.  Time is in ticks of a fraction of a day; the loop wakes     *)
(* every minute, so no tick passes over a job that is due.                 *)
(***************************************************************************)
EXTENDS Integers, FiniteSets, FiniteSetsExt

CONSTANTS
    SdDay,      \* ticks in a day
    SdWeek,     \* days in a week
    SdBackupAt, \* the tick of the day of the backup
    SdCheckDay, SdCheckAt,  \* the day of the week and the tick of the day of the check
    SdJitter,   \* the largest jitter, in ticks
    SdMaxNow,   \* model bound: the last tick
    SdMaxFault  \* model bound: crashes and failed writes of the state file

ASSUME SdAssumption ==
    /\ SdDay \in Nat \ {0} /\ SdWeek \in Nat \ {0} /\ SdMaxNow \in Nat /\ SdMaxFault \in Nat
    /\ SdBackupAt \in 0..(SdDay - 1) /\ SdCheckAt \in 0..(SdDay - 1) /\ SdCheckDay \in 0..(SdWeek - 1)
    /\ SdJitter \in 0..(SdDay - 1)
    /\ SdDay * SdWeek <= SdMaxNow + 1  \* a container may start at any time of the first week

VARIABLES
    sdNow,
    sdFile,    \* the state file: b and c, the last occurrences triggered; NoFile
    sdSt,      \* the loop's copy of it
    sdNext,    \* b and c: nextBackup and nextCheck
    sdPc,      \* "down", "sleep", "backup" or "check"
    sdWoke,    \* the loop's now
    sdLast,    \* history: the last occurrences triggered
    sdUnsaved, \* history: a write of the state file has failed
    sdFaults

sdVars == <<sdNow, sdFile, sdSt, sdNext, sdPc, sdWoke, sdLast, sdUnsaved, sdFaults>>

Jobs2 == {"b", "c"}
NoFile == [j \in Jobs2 |-> -1]
SdWeekTicks == SdDay * SdWeek
DayOf(t) == t \div SdDay
Weekday(t) == DayOf(t) % SdWeek
----------------------------------------------------------------------------
(* The occurrences of a schedule. *)

MostRecentDaily(now) ==
    LET t == DayOf(now) * SdDay + SdBackupAt
    IN IF t > now THEN t - SdDay ELSE t

NextDaily(now) ==
    LET t == DayOf(now) * SdDay + SdBackupAt
    IN IF t <= now THEN t + SdDay ELSE t

MostRecentWeekly(now) ==
    LET since == (Weekday(now) - SdCheckDay + SdWeek) % SdWeek
        t == (DayOf(now) - since) * SdDay + SdCheckAt
    IN IF t > now THEN t - SdWeekTicks ELSE t

NextWeekly(now) ==
    LET until == (SdCheckDay - Weekday(now) + SdWeek) % SdWeek
        t == (DayOf(now) + until) * SdDay + SdCheckAt
    IN IF t <= now THEN t + SdWeekTicks ELSE t

Recent(j, now) == IF j = "b" THEN MostRecentDaily(now) ELSE MostRecentWeekly(now)
Following(j, now) == IF j = "b" THEN NextDaily(now) ELSE NextWeekly(now)
----------------------------------------------------------------------------
SdInit ==
    /\ sdNow \in 0..(SdWeekTicks - 1)
    /\ sdFile = NoFile /\ sdSt = NoFile /\ sdLast = NoFile
    /\ sdNext = [j \in Jobs2 |-> 0]
    /\ sdPc = "down" /\ sdWoke = 0
    /\ sdUnsaved = FALSE /\ sdFaults = 0

\* saveState: temporary file and rename, a failure is only logged
SaveState(st) ==
    \/ sdFile' = st /\ UNCHANGED <<sdUnsaved, sdFaults>>
    \/ /\ sdFaults < SdMaxFault /\ sdFaults' = sdFaults + 1
       /\ sdUnsaved' = TRUE /\ UNCHANGED sdFile

\* arm, before the jitter
Arm(j, last) == IF last < Recent(j, sdNow) THEN sdNow ELSE Following(j, sdNow)

\* New, and Run up to its loop
SdStart ==
    /\ sdPc = "down"
    /\ LET first == sdFile = NoFile
           st == IF first THEN [j \in Jobs2 |-> sdNow] ELSE sdFile
       IN /\ sdSt' = st
          /\ \E k \in [Jobs2 -> 0..SdJitter] : sdNext' = [j \in Jobs2 |-> Arm(j, st[j]) + k[j]]
          /\ IF first THEN SaveState(st) ELSE UNCHANGED <<sdFile, sdUnsaved, sdFaults>>
    /\ sdPc' = "sleep"
    /\ UNCHANGED <<sdNow, sdWoke, sdLast>>

\* A trigger that leaves the state file to the end of the job.
MutTrigger(j, now) ==
    /\ sdSt' = [sdSt EXCEPT ![j] = Recent(j, now)]
    /\ UNCHANGED <<sdFile, sdUnsaved, sdFaults>>
    /\ \E k \in 0..SdJitter : sdNext' = [sdNext EXCEPT ![j] = Following(j, now) + k]
    /\ sdLast' = [sdLast EXCEPT ![j] = Recent(j, now)]

\* The occurrence is recorded and saved, the next one armed; then the job runs.
Trigger(j, now) ==
    /\ sdSt' = [sdSt EXCEPT ![j] = Recent(j, now)]
    /\ SaveState(sdSt')
    /\ \E k \in 0..SdJitter : sdNext' = [sdNext EXCEPT ![j] = Following(j, now) + k]
    /\ sdLast' = [sdLast EXCEPT ![j] = Recent(j, now)]

SdWakeBackup ==
    /\ sdPc = "sleep" /\ sdNow >= sdNext["b"]
    /\ Trigger("b", sdNow)
    /\ sdPc' = "backup" /\ sdWoke' = sdNow
    /\ UNCHANGED sdNow

SdWakeCheck ==
    /\ sdPc = "sleep" /\ sdNow < sdNext["b"] /\ sdNow >= sdNext["c"]
    /\ Trigger("c", sdNow)
    /\ sdPc' = "check" /\ sdWoke' = sdNow
    /\ UNCHANGED sdNow

\* The backup returns; the check is decided by the time at which the loop woke.
SdBackupEnds ==
    /\ sdPc = "backup"
    /\ IF sdWoke >= sdNext["c"]
       THEN Trigger("c", sdWoke) /\ sdPc' = "check"
       ELSE sdPc' = "sleep" /\ UNCHANGED <<sdSt, sdFile, sdUnsaved, sdFaults, sdNext, sdLast>>
    /\ UNCHANGED <<sdNow, sdWoke>>

SdCheckEnds ==
    /\ sdPc = "check" /\ sdPc' = "sleep"
    /\ UNCHANGED <<sdNow, sdFile, sdSt, sdNext, sdWoke, sdLast, sdUnsaved, sdFaults>>

\* The container stops, in the middle of a job or between two.
SdCrash ==
    /\ sdPc # "down" /\ sdFaults < SdMaxFault
    /\ sdPc' = "down" /\ sdFaults' = sdFaults + 1
    /\ UNCHANGED <<sdNow, sdFile, sdSt, sdNext, sdWoke, sdLast, sdUnsaved>>

SdTick ==
    /\ sdNow < SdMaxNow
    /\ sdPc = "sleep" => \A j \in Jobs2 : sdNow < sdNext[j]
    /\ sdNow' = sdNow + 1
    /\ UNCHANGED <<sdFile, sdSt, sdNext, sdPc, sdWoke, sdLast, sdUnsaved, sdFaults>>

SdNextStep ==
    \/ SdStart \/ SdWakeBackup \/ SdWakeCheck \/ SdBackupEnds \/ SdCheckEnds \/ SdCrash \/ SdTick

SdSpec == SdInit /\ [][SdNextStep]_sdVars
----------------------------------------------------------------------------
\* The loop's times, its state and its state file are well formed.
SdTypeOK ==
    /\ sdNow \in 0..SdMaxNow /\ sdWoke \in 0..sdNow
    /\ sdPc \in {"down", "sleep", "backup", "check"}
    /\ \A j \in Jobs2 : sdFile[j] <= sdNow /\ sdSt[j] <= sdNow

(***************************************************************************)
(* No occurrence is passed over: the loop that sleeps is armed for the     *)
(* next occurrence, or, when one has passed that was not triggered (the    *)
(* container was down, or the other job ran), for now; jitter apart.       *)
(***************************************************************************)
NextRunIsNear ==
    sdPc = "sleep" =>
        \A j \in Jobs2 :
            sdNext[j] <= SdJitter + (IF sdSt[j] < Recent(j, sdNow) THEN sdNow ELSE Following(j, sdNow))

(***************************************************************************)
(* No occurrence is triggered twice, over restarts and over jobs that last *)
(* longer than a day, unless the state file could not be written.          *)
(***************************************************************************)
TriggersAdvance ==
    \A j \in Jobs2 : sdLast'[j] > sdLast[j] \/ UNCHANGED sdNext[j] \/ sdPc = "down" \/ sdUnsaved

(***************************************************************************)
(* mostRecentDaily, nextDaily, mostRecentWeekly and nextWeekly name the    *)
(* latest occurrence up to now and the earliest one after now.             *)
(***************************************************************************)
OccurrencesAreExact ==
    LET span == (sdNow - 2 * SdWeekTicks)..(sdNow + 2 * SdWeekTicks)
        at(j) == {t \in span : IF j = "b" THEN t % SdDay = SdBackupAt
                               ELSE t % SdWeekTicks = SdCheckDay * SdDay + SdCheckAt}
    IN \A j \in Jobs2 :
         /\ Recent(j, sdNow) = Max({t \in at(j) : t <= sdNow})
         /\ Following(j, sdNow) = Min({t \in at(j) : t > sdNow})

\* No occurrence of a backup or a check is passed over, and none is triggered twice.
OccurrencesRunOnce ==
    [][SdTypeOK /\ NextRunIsNear /\ TriggersAdvance /\ (sdNow' # sdNow => OccurrencesAreExact)]_sdVars
=============================================================================
