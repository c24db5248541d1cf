---------------------------- MODULE BanSource ----------------------------
(***************************************************************************)
(* The sshd log source of the ban manager (internal/agent/ipban/source.go  *)
(* and parse.go).  It follows the journal or, where journalctl is missing  *)
(* or may not read it, tails the auth log: it notices that the file was    *)
(* rotated, truncated or rewritten by comparing inode and size every two   *)
(* seconds, and tells a line it has seen from a new one by the time stamp  *)
(* and a digest of the line.                                               *)
(*                                                                         *)
(* The files at the log's path are bsInodes, the last one is current.  A   *)
(* line is [id, when, kind, text]: the id and the time it was written are  *)
(* the model's; the code sees the text and a stamp without a year.         *)
(***************************************************************************)
EXTENDS Naturals, Sequences, FiniteSets, Functions

CONSTANTS
    BsYear,      \* a year, in ticks
    BsDay,       \* 24 hours, in ticks
    BsSeedLines, \* fileSeedBytes, in lines
    BsTexts,     \* the texts sshd writes: [kind, text]
    BsMaxLines, BsMaxClock, BsMaxRotate, BsMaxFault   \* bounds of the model

ASSUME BsAssumption ==
    /\ \A t \in BsTexts : t.kind \in {"failure", "probe"}
    /\ BsYear \in Nat \ {0} /\ BsDay \in Nat /\ BsSeedLines \in Nat
    /\ {BsMaxLines, BsMaxClock, BsMaxRotate, BsMaxFault} \subseteq Nat

VARIABLES
    bsInodes,     \* contents of the files that were at the path
    bsWriter,     \* the file the logging daemon has open
    bsJournal,    \* "ok", or "unavailable": no journalctl, or no permission
    bsPipe,       \* journalctl's output not yet scanned
    bsFd,         \* the goroutine: pc, inode and pos of the open file
    bsLatest, bsSeen,  \* the cursor of acceptFileLine
    bsAggressive,
    bsClock,
    bsLog,        \* (history) every line, at its id
    bsEmitted,    \* (history) ids handed to emit, in order
    bsMissed,     \* (history) id -> why the source never emits it
    bsFaults,     \* faults and changes of the mode so far
    bsBack,       \* (history) the clock was set back
    bsMisdated,   \* (history) a stamp was read as another year's
    bsUnseeded    \* (history) a file was opened that the seed did not cover

bsVars == <<bsInodes, bsWriter, bsJournal, bsPipe, bsFd, bsLatest, bsSeen, bsAggressive, bsClock,
            bsLog, bsEmitted, bsMissed, bsFaults, bsBack, bsMisdated, bsUnseeded>>

BsCur == Len(bsInodes)
BsIds == 1..BsMaxLines
BsWritten == DOMAIN bsLog

NoFd == [pc |-> "off", inode |-> 0, pos |-> 0]

BsInit ==
    /\ bsInodes = << <<>> >> /\ bsWriter = 1 /\ bsPipe = <<>> /\ bsFd = NoFd
    /\ bsJournal \in {"unavailable", "ok"}
    /\ bsLatest = 0 /\ bsSeen = {} /\ bsAggressive = FALSE /\ bsClock = 1
    /\ bsLog = <<>> /\ bsEmitted = <<>> /\ bsMissed = <<>> /\ bsFaults = 0
    /\ bsBack = FALSE /\ bsMisdated = FALSE /\ bsUnseeded = FALSE

\* (history) the ids are never emitted, for this reason, unless one is known.
Miss(ids, why) ==
    bsMissed' = [id \in DOMAIN bsMissed \cup (ids \ Range(bsEmitted)) |->
                   IF id \in DOMAIN bsMissed THEN bsMissed[id] ELSE why]

IdsFrom(i, k) == {bsInodes[i][j].id : j \in {n \in DOMAIN bsInodes[i] : n > k}}

\* What the open file holds and was not read; after a truncation, all of it.
Unread == IdsFrom(bsFd.inode, IF Len(bsInodes[bsFd.inode]) >= bsFd.pos THEN bsFd.pos ELSE 0)

Reading == bsFd.pc \in {"read", "check"}

----------------------------------------------------------------------------
(* What a line says. *)

\* ParseSyslogLine: the stamp has no year; one more than a day ahead is last year's.
StampedAt(line, now) ==
    LET at == (now \div BsYear) * BsYear + (line.when % BsYear)
    IN IF at > now + BsDay THEN (IF at < BsYear THEN 0 ELSE at - BsYear) ELSE at

\* ParseSSHD: the patterns, the aggressive ones only in that mode.
Matches(line) == line.kind = "failure" \/ (line.kind = "probe" /\ bsAggressive)

\* The digest is of the line as it stands in the file.
Digest(line) == <<line.when % BsYear, line.text>>

\* acceptFileLine: its answer ...
Accepts(at, line, latest, seen) == at > latest \/ (at = latest /\ Digest(line) \notin seen)

\* ... and the cursor it leaves.
Cursor(at, line, latest, seen) ==
    IF at < latest THEN [latest |-> latest, seen |-> seen]
    ELSE [latest |-> at, seen |-> {Digest(line)} \cup (IF at = latest THEN seen ELSE {})]

----------------------------------------------------------------------------
(* The log and its keeper. *)

NewLine(t) == [id |-> Len(bsLog) + 1, when |-> bsClock, kind |-> t.kind, text |-> t.text]

\* sshd writes a line: to the journal, and to the file the daemon has open.
BsWrite ==
    /\ Len(bsLog) < BsMaxLines
    /\ \E t \in BsTexts :
         LET i == bsWriter
             line == NewLine(t)
             follows == bsFd.pc = "journal"
             masked == Reading /\ bsFd.inode = i /\ Len(bsInodes[i]) + 1 = bsFd.pos
         IN /\ bsLog' = Append(bsLog, line)
            /\ bsInodes' = [bsInodes EXCEPT ![i] = Append(@, line)]
            /\ bsPipe' = IF follows THEN Append(bsPipe, line) ELSE bsPipe
            /\ CASE masked -> Miss({line.id} \cup IdsFrom(i, 0), "truncated")
                 [] ~masked /\ bsFd.pc \in {"off", "open"} -> Miss({line.id}, "unattended")
                 [] ~masked /\ Reading /\ i < bsFd.inode -> Miss({line.id}, "rotated")
                 [] OTHER -> UNCHANGED bsMissed
    /\ UNCHANGED <<bsWriter, bsJournal, bsFd, bsLatest, bsSeen, bsAggressive, bsClock, bsEmitted,
                   bsFaults, bsBack, bsMisdated, bsUnseeded>>

\* logrotate: a new file, a truncated one, or a copy of this one (an editor).
BsRotate ==
    /\ BsCur <= BsMaxRotate
    /\ \/ bsInodes' = Append(bsInodes, <<>>)
       \/ bsInodes' = Append(bsInodes, bsInodes[BsCur])
    /\ UNCHANGED <<bsLog, bsWriter, bsJournal, bsPipe, bsFd, bsLatest, bsSeen, bsAggressive, bsClock, bsEmitted,
                   bsMissed, bsFaults, bsBack, bsMisdated, bsUnseeded>>

\* The logging daemon opens the file at the path.
BsReopenLog ==
    /\ bsWriter < BsCur /\ bsWriter' = BsCur
    /\ UNCHANGED <<bsLog, bsInodes, bsJournal, bsPipe, bsFd, bsLatest, bsSeen, bsAggressive, bsClock,
                   bsEmitted, bsMissed, bsFaults, bsBack, bsMisdated, bsUnseeded>>

BsTruncate ==
    /\ bsFaults < BsMaxFault /\ bsFaults' = bsFaults + 1
    /\ bsInodes[BsCur] # <<>>
    /\ bsInodes' = [bsInodes EXCEPT ![BsCur] = <<>>]
    /\ Miss(IF Reading /\ bsFd.inode = BsCur THEN Unread ELSE IdsFrom(BsCur, 0), "truncated")
    /\ UNCHANGED <<bsLog, bsWriter, bsJournal, bsPipe, bsFd, bsLatest, bsSeen, bsAggressive, bsClock, bsEmitted,
                   bsBack, bsMisdated, bsUnseeded>>

BsTick ==
    /\ bsClock < BsMaxClock /\ bsClock' = bsClock + 1
    /\ UNCHANGED <<bsLog, bsWriter, bsInodes, bsJournal, bsPipe, bsFd, bsLatest, bsSeen, bsAggressive, bsEmitted,
                   bsMissed, bsFaults, bsBack, bsMisdated, bsUnseeded>>

\* The clock is set back, or local time is at the end of summer time.
BsClockBack ==
    /\ bsFaults < BsMaxFault /\ bsFaults' = bsFaults + 1
    /\ bsClock > 1 /\ bsClock' = bsClock - 1 /\ bsBack' = TRUE
    /\ UNCHANGED <<bsLog, bsWriter, bsInodes, bsJournal, bsPipe, bsFd, bsLatest, bsSeen, bsAggressive, bsEmitted,
                   bsMissed, bsMisdated, bsUnseeded>>

\* applyPolicy sets the mode.
BsSetMode ==
    /\ bsFaults < BsMaxFault /\ bsFaults' = bsFaults + 1
    /\ bsAggressive' = ~bsAggressive
    /\ UNCHANGED <<bsLog, bsWriter, bsInodes, bsJournal, bsPipe, bsFd, bsLatest, bsSeen, bsClock, bsEmitted,
                   bsMissed, bsBack, bsMisdated, bsUnseeded>>

----------------------------------------------------------------------------
(* The goroutine. *)

\* handleMessage
Handle(line) ==
    IF Matches(line) THEN bsEmitted' = Append(bsEmitted, line.id) /\ UNCHANGED bsMissed
    ELSE Miss({line.id}, "unmatched") /\ UNCHANGED bsEmitted

\* runOnce: journalctl when it is there and may read, otherwise the file.
BsRunOnce ==
    /\ bsFd.pc = "off"
    /\ bsFd' = IF bsJournal = "ok" THEN [NoFd EXCEPT !.pc = "journal"]
               ELSE [NoFd EXCEPT !.pc = "open"]
    /\ UNCHANGED <<bsLog, bsWriter, bsInodes, bsJournal, bsPipe, bsLatest, bsSeen, bsAggressive, bsClock, bsEmitted,
                   bsMissed, bsFaults, bsBack, bsMisdated, bsUnseeded>>

\* handleJournalLine: the entry has its own full time stamp.
BsJournalLine ==
    /\ bsFd.pc = "journal" /\ bsPipe # <<>>
    /\ bsPipe' = Tail(bsPipe)
    /\ Handle(Head(bsPipe))
    /\ UNCHANGED <<bsLog, bsWriter, bsInodes, bsJournal, bsFd, bsLatest, bsSeen, bsAggressive, bsClock,
                   bsFaults, bsBack, bsMisdated, bsUnseeded>>

\* journalctl ends, or reports that it may not read: its output is scanned to
\* the end before runJournal returns.
BsJournalEnds ==
    /\ bsFd.pc = "journal" /\ bsPipe = <<>>
    /\ bsFaults < BsMaxFault /\ bsFaults' = bsFaults + 1
    /\ \/ bsFd' = NoFd /\ UNCHANGED bsJournal
       \/ bsFd' = [NoFd EXCEPT !.pc = "open"] /\ bsJournal' = "unavailable"
    /\ UNCHANGED <<bsLog, bsWriter, bsInodes, bsPipe, bsLatest, bsSeen, bsAggressive, bsClock, bsEmitted,
                   bsMissed, bsBack, bsMisdated, bsUnseeded>>

\* Where tailing starts: at the end.
SeedPos == Len(bsInodes[BsCur])

\* seedFileCursor: the last lines of the file, one after the other, set the cursor.
Seed(lines) ==
    LET n == Len(lines)
        from == IF n > BsSeedLines THEN n - BsSeedLines ELSE 0
        Seeded[k \in 0..n] ==
            IF k <= from THEN [latest |-> 0, seen |-> {}]
            ELSE Cursor(StampedAt(lines[k], bsClock), lines[k], Seeded[k - 1].latest, Seeded[k - 1].seen)
    IN Seeded[n]

\* runFile and the start of tailFile; no readable file is an error.
BsOpen ==
    /\ bsFd.pc = "open"
    /\ LET lines == bsInodes[BsCur]
           c == Seed(lines)
       IN /\ bsLatest' = c.latest /\ bsSeen' = c.seen
          /\ bsFd' = [pc |-> "read", inode |-> BsCur, pos |-> SeedPos]
          /\ bsMisdated' = (bsMisdated \/ \E k \in DOMAIN lines : StampedAt(lines[k], bsClock) # lines[k].when)
          /\ bsUnseeded' = (bsUnseeded \/ Len(lines) > BsSeedLines)
    /\ UNCHANGED <<bsLog, bsWriter, bsInodes, bsJournal, bsPipe, bsAggressive, bsClock, bsEmitted, bsMissed,
                   bsFaults, bsBack>>

\* The next line of the open file.
BsReadLine ==
    /\ bsFd.pc = "read" /\ bsFd.pos < Len(bsInodes[bsFd.inode])
    /\ LET line == bsInodes[bsFd.inode][bsFd.pos + 1]
           at == StampedAt(line, bsClock)
           c == Cursor(at, line, bsLatest, bsSeen)
           why == IF at < bsLatest THEN "late" ELSE "same"
       IN /\ bsFd' = [bsFd EXCEPT !.pos = @ + 1]
          /\ bsLatest' = c.latest /\ bsSeen' = c.seen
          /\ bsMisdated' = (bsMisdated \/ at # line.when)
          /\ IF Accepts(at, line, bsLatest, bsSeen) THEN Handle(line)
             ELSE Miss({line.id}, why) /\ UNCHANGED bsEmitted
    /\ UNCHANGED <<bsLog, bsWriter, bsInodes, bsJournal, bsPipe, bsAggressive, bsClock, bsFaults, bsBack, bsUnseeded>>

\* Read has met the end of the file; the goroutine sleeps.
BsAtEnd ==
    /\ bsFd.pc = "read" /\ bsFd.pos >= Len(bsInodes[bsFd.inode])
    /\ bsFd' = [bsFd EXCEPT !.pc = "check"]
    /\ UNCHANGED <<bsLog, bsWriter, bsInodes, bsJournal, bsPipe, bsLatest, bsSeen, bsAggressive, bsClock, bsEmitted,
                   bsMissed, bsFaults, bsBack, bsMisdated, bsUnseeded>>

\* Mutant: the position is kept.
MutReopened == [pc |-> "read", inode |-> BsCur, pos |-> bsFd.pos]

\* The descriptor after a rotation was noticed.
Reopened == [pc |-> "read", inode |-> BsCur, pos |-> 0]

\* The check after the sleep: what was written to the file it leaves since
\* the last read, and to files in between, is never read.
BsCheck ==
    /\ bsFd.pc = "check"
    /\ LET same == bsFd.inode = BsCur /\ Len(bsInodes[BsCur]) >= bsFd.pos
           left == IF bsFd.inode = BsCur THEN {}
                   ELSE Unread \cup UNION {IdsFrom(i, 0) : i \in (bsFd.inode + 1)..(BsCur - 1)}
           here == {bsInodes[BsCur][k].id : k \in DOMAIN bsInodes[BsCur]}
       IN IF same THEN bsFd' = [bsFd EXCEPT !.pc = "read"] /\ UNCHANGED bsMissed
          ELSE bsFd' = Reopened /\ Miss(left \ here, "rotated")
    /\ UNCHANGED <<bsLog, bsWriter, bsInodes, bsJournal, bsPipe, bsLatest, bsSeen, bsAggressive, bsClock, bsEmitted,
                   bsFaults, bsBack, bsMisdated, bsUnseeded>>

\* A read error or a failed open ends tailFile, stopSource ends the goroutine;
\* Run or startSource begins again later.
BsStops ==
    /\ bsFd.pc \in {"open", "read", "check"}
    /\ bsFaults < BsMaxFault /\ bsFaults' = bsFaults + 1
    /\ bsFd' = NoFd
    /\ Miss(UNION {IdsFrom(i, 0) : i \in DOMAIN bsInodes}, "unattended")
    /\ UNCHANGED <<bsLog, bsWriter, bsInodes, bsJournal, bsPipe, bsLatest, bsSeen, bsAggressive, bsClock, bsEmitted,
                   bsBack, bsMisdated, bsUnseeded>>

BsNext ==
    \/ BsWrite \/ BsRotate \/ BsReopenLog \/ BsTruncate \/ BsTick \/ BsClockBack \/ BsSetMode
    \/ BsRunOnce \/ BsJournalLine \/ BsJournalEnds \/ BsOpen \/ BsReadLine \/ BsAtEnd
    \/ BsCheck \/ BsStops

\* The goroutine and its timers go on.
BsFairness ==
    /\ WF_bsVars(BsRunOnce) /\ WF_bsVars(BsJournalLine) /\ WF_bsVars(BsOpen)
    /\ WF_bsVars(BsReadLine) /\ WF_bsVars(BsAtEnd) /\ WF_bsVars(BsCheck)

BsSpec == BsInit /\ [][BsNext]_bsVars
BsFairSpec == BsSpec /\ BsFairness

----------------------------------------------------------------------------
\* Files, cursor and history are well formed.
BsTypeOK ==
    /\ bsFd.pc \in {"off", "journal", "open", "read", "check"}
    /\ bsFd.inode \in 0..BsCur /\ bsFd.pos \in 0..BsMaxLines
    /\ bsJournal \in {"unavailable", "ok"} /\ bsLatest \in 0..(BsMaxClock + BsYear)
    /\ \A s \in bsSeen : s[1] \in 0..(BsYear - 1)
    /\ Range(bsEmitted) \subseteq BsIds /\ DOMAIN bsMissed \subseteq BsIds
    /\ bsFd.pc # "journal" => bsPipe = <<>>

(***************************************************************************)
(* A login failure counts once: through a rotation, a truncation, a copy   *)
(* of the log and a restart of the source no line is emitted a second      *)
(* time, although a reopened file is read from its start.  (A line of an   *)
(* earlier year that is read as this year's escapes the cursor, and so do  *)
(* lines before the part of a long file that sets it.)                     *)
(***************************************************************************)
EmittedOnce ==
    bsMisdated \/ bsUnseeded \/ \A i, j \in DOMAIN bsEmitted : bsEmitted[i] = bsEmitted[j] => i = j

(***************************************************************************)
(* A line is rejected as old only when the clock was set back or a stamp   *)
(* was taken for another year's, and as seen only when a line of the same  *)
(* text was written in the same second.                                    *)
(***************************************************************************)
RejectedForCause ==
    \A id \in DOMAIN bsMissed :
       /\ bsMissed[id] = "late" => bsBack \/ bsMisdated
       /\ bsMissed[id] = "same" =>
            \E other \in BsWritten \ {id} :
               /\ bsLog[other].text = bsLog[id].text
               /\ bsLog[other].when = bsLog[id].when \/ bsMisdated

(***************************************************************************)
(* Every line is dealt with: what sshd writes while the source runs is     *)
(* emitted in the end, unless it lay unread in a file when the rotation    *)
(* was noticed, was truncated away, or does not match.                     *)
(***************************************************************************)
EveryLineDealtWith ==
    \A id \in BsIds : []<>(id \in BsWritten => id \in Range(bsEmitted) \cup DOMAIN bsMissed)

\* Every log line is emitted once or rejected for a reason.
EveryLineOnce == [](BsTypeOK /\ EmittedOnce /\ RejectedForCause) /\ EveryLineDealtWith
=============================================================================
