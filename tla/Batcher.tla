------------------------------- MODULE Batcher -------------------------------
(***************************************************************************)
(* The ingest batcher of the server (internal/server/ingest/batcher.go)    *)
(* together with the part of the ingest handler that drives it             *)
(* (internal/server/api/ingest.go) and the shutdown sequence of the server *)
(* process (cmd/server/main.go).                                           *)
(*                                                                         *)
(* A request reserves room for its metric rows, writes its snapshot rows   *)
(* in a transaction, and then either gives the room back or sends its rows *)
(* one by one into the channel b.in while it holds enqueueMu.  One         *)
(* goroutine (loop) moves rows from the channel to a buffer and copies the *)
(* buffer to metric_points.                                                *)
(***************************************************************************)
EXTENDS Integers, Sequences, FiniteSets

CONSTANTS
  Request,     \* ingest requests, one handler goroutine each
  Rows,        \* Rows[r]: how many metric rows request r carries
  QueueCap,    \* cap(b.in)
  MaxRows,     \* b.maxRows: buffer length that triggers a flush
  MaxDup,      \* model bound: copies that reach the table although they fail
  NoRequest    \* enqueueMu is free

ASSUME BatcherAssumption ==
  /\ IsFiniteSet(Request)
  /\ Rows \in [Request -> Nat]
  /\ QueueCap \in Nat
  /\ MaxRows \in Nat \ {0}
  /\ MaxDup \in Nat
  /\ NoRequest \notin Request

RetainRows == MaxRows * 4

FlushAttempts == 3

VARIABLES
  \* @ ingest handlers
  pc,          \* where each handler is
  left,        \* left[r]: rows request r has reserved and not yet sent
  \* @ Batcher
  enqueueMu,   \* holder of the mutex across CommitReserved, or NoRequest
  in,          \* the channel b.in
  reserved,    \* b.reserved
  dropped,     \* b.dropped
  flushed,     \* b.flushed
  \* @ the loop goroutine
  loop,        \* control point of loop
  buf,         \* rows taken from the channel and not yet copied
  retryHold,   \* time.Now() is before retryAt
  attempt,     \* shutdown flushes already tried
  \* @ environment
  ctxDone,     \* the process received SIGINT or SIGTERM
  listening,   \* the HTTP server still accepts requests
  points,      \* the table metric_points: the copies of each row
  \* @ history
  rejected,    \* rows refused by Reserve
  late         \* rows sent after drainAndFlush found the channel empty

handlerVars == <<pc, left>>
queueVars   == <<enqueueMu, in, reserved>>
loopVars    == <<loop, buf, retryHold, attempt>>
envVars     == <<ctxDone, listening>>
vars == <<pc, left, enqueueMu, in, reserved, dropped, flushed, loop, buf,
          retryHold, attempt, ctxDone, listening, points, rejected, late>>

\* Row i of request r.
Row == UNION {{r} \X (1..Rows[r]) : r \in Request}

HandlerPC == {"idle", "snapshots", "commit", "sending", "acked", "refused", "failed"}
LoopPC == {"select", "flushing", "drain", "final", "finalFlush", "stopped"}

Init ==
  /\ pc = [r \in Request |-> "idle"]
  /\ left = [r \in Request |-> 0]
  /\ enqueueMu = NoRequest
  /\ in = <<>>
  /\ reserved = 0
  /\ dropped = 0
  /\ flushed = 0
  /\ loop = "select"
  /\ buf = <<>>
  /\ retryHold = FALSE
  /\ attempt = 0
  /\ ctxDone = FALSE
  /\ listening = TRUE
  /\ points = [w \in Row |-> 0]
  /\ rejected = 0
  /\ late = {}

-----------------------------------------------------------------------------
(* The ingest handler.                                                     *)

\* Mutant: the room other requests have reserved is forgotten.
MutDoesNotFit(n) == n > QueueCap - Len(in)

\* Reserve refuses a request that does not fit beside what is queued and
\* what other requests have reserved.
DoesNotFit(n) == n > QueueCap - Len(in) - reserved

\* b.Reserve(len(points)) fails with ErrBackpressure: the handler answers 429.
ReserveRefused(r) ==
  /\ pc[r] = "idle" /\ listening
  /\ enqueueMu = NoRequest
  /\ Rows[r] > 0 /\ DoesNotFit(Rows[r])
  /\ dropped' = dropped + Rows[r]
  /\ rejected' = rejected + Rows[r]
  /\ pc' = [pc EXCEPT ![r] = "refused"]
  /\ UNCHANGED <<left, queueVars, flushed, loopVars, envVars, points, late>>

\* b.Reserve(len(points)) succeeds.
Reserve(r) ==
  /\ pc[r] = "idle" /\ listening
  /\ enqueueMu = NoRequest
  /\ Rows[r] > 0 /\ ~DoesNotFit(Rows[r])
  /\ reserved' = reserved + Rows[r]
  /\ left' = [left EXCEPT ![r] = Rows[r]]
  /\ pc' = [pc EXCEPT ![r] = "snapshots"]
  /\ UNCHANGED <<enqueueMu, in, dropped, flushed, loopVars, envVars, points, rejected, late>>

\* Reserve(0) takes neither the mutex nor room.
ReserveNone(r) ==
  /\ pc[r] = "idle" /\ listening
  /\ Rows[r] = 0
  /\ pc' = [pc EXCEPT ![r] = "snapshots"]
  /\ UNCHANGED <<left, queueVars, dropped, flushed, loopVars, envVars, points, rejected, late>>

\* InsertSnapshots committed its transaction.
SnapshotsStored(r) ==
  /\ pc[r] = "snapshots"
  /\ pc' = [pc EXCEPT ![r] = "commit"]
  /\ UNCHANGED <<left, queueVars, dropped, flushed, loopVars, envVars, points, rejected, late>>

\* Mutant: the error path returns without ReleaseReserved.
MutSnapshotsFailed(r) ==
  /\ pc[r] = "snapshots"
  /\ left' = [left EXCEPT ![r] = 0]
  /\ pc' = [pc EXCEPT ![r] = "failed"]
  /\ UNCHANGED <<queueVars, dropped, flushed, loopVars, envVars, points, rejected, late>>

\* Mutant: the room is released both here and by a deferred call.
MutReleaseTwice(r) ==
  /\ pc[r] = "snapshots"
  /\ Rows[r] > 0 => enqueueMu = NoRequest
  /\ reserved' = reserved - 2 * left[r]
  /\ left' = [left EXCEPT ![r] = 0]
  /\ pc' = [pc EXCEPT ![r] = "failed"]
  /\ UNCHANGED <<enqueueMu, in, dropped, flushed, loopVars, envVars, points, rejected, late>>

\* InsertSnapshots failed: ReleaseReserved gives the room back, answer 502.
SnapshotsFailed(r) ==
  /\ pc[r] = "snapshots"
  /\ Rows[r] > 0 => enqueueMu = NoRequest
  /\ reserved' = reserved - left[r]
  /\ left' = [left EXCEPT ![r] = 0]
  /\ pc' = [pc EXCEPT ![r] = "failed"]
  /\ UNCHANGED <<enqueueMu, in, dropped, flushed, loopVars, envVars, points, rejected, late>>

\* CommitReserved takes enqueueMu and keeps it until its last row is sent.
CommitBegin(r) ==
  /\ pc[r] = "commit" /\ Rows[r] > 0
  /\ enqueueMu = NoRequest
  /\ enqueueMu' = r
  /\ pc' = [pc EXCEPT ![r] = "sending"]
  /\ UNCHANGED <<left, in, reserved, dropped, flushed, loopVars, envVars, points, rejected, late>>

NextRow(r) == <<r, Rows[r] - left[r] + 1>>

\* One iteration of CommitReserved: b.in <- rows[i] (blocks while the channel
\* is full), then b.reserved--.
CommitRow(r) ==
  /\ pc[r] = "sending" /\ left[r] > 0
  /\ Len(in) < QueueCap
  /\ in' = Append(in, NextRow(r))
  /\ reserved' = reserved - 1
  /\ left' = [left EXCEPT ![r] = @ - 1]
  /\ late' = IF loop \in {"final", "finalFlush", "stopped"} THEN late \cup {NextRow(r)} ELSE late
  /\ UNCHANGED <<pc, enqueueMu, dropped, flushed, loopVars, envVars, points, rejected>>

\* CommitReserved returns (deferred Unlock) and the handler answers 200.
CommitEnd(r) ==
  /\ pc[r] = "sending" /\ left[r] = 0
  /\ enqueueMu' = NoRequest
  /\ pc' = [pc EXCEPT ![r] = "acked"]
  /\ UNCHANGED <<left, in, reserved, dropped, flushed, loopVars, envVars, points, rejected, late>>

\* CommitReserved of no rows returns at once.
CommitNone(r) ==
  /\ pc[r] = "commit" /\ Rows[r] = 0
  /\ pc' = [pc EXCEPT ![r] = "acked"]
  /\ UNCHANGED <<left, queueVars, dropped, flushed, loopVars, envVars, points, rejected, late>>

-----------------------------------------------------------------------------
(* The loop goroutine.                                                     *)

\* case r := <-b.in: append, and flush a full buffer unless a retry is held.
ReceiveRow ==
  /\ loop = "select" /\ in # <<>>
  /\ in' = Tail(in)
  /\ buf' = Append(buf, Head(in))
  /\ loop' = IF Len(buf') >= MaxRows /\ ~retryHold THEN "flushing" ELSE "select"
  /\ UNCHANGED <<handlerVars, enqueueMu, reserved, dropped, flushed, retryHold,
                 attempt, envVars, points, rejected, late>>

\* Mutant: the timer is not reset after a failed flush.
MutTimerFires ==
  /\ loop = "select" /\ buf # <<>> /\ ~retryHold
  /\ retryHold' = FALSE
  /\ loop' = "flushing"
  /\ UNCHANGED <<handlerVars, queueVars, dropped, flushed, buf, attempt, envVars,
                 points, rejected, late>>

\* case <-t.C: the timer was reset to maxAge by the flush that set retryAt, so
\* the hold is over when it fires; flush returns at once on an empty buffer.
TimerFires ==
  /\ loop = "select" /\ buf # <<>>
  /\ retryHold' = FALSE
  /\ loop' = "flushing"
  /\ UNCHANGED <<handlerVars, queueVars, dropped, flushed, buf, attempt, envVars,
                 points, rejected, late>>

\* maxAge has passed since the failed flush.
RetryDue ==
  /\ loop = "select" /\ retryHold
  /\ retryHold' = FALSE
  /\ UNCHANGED <<handlerVars, queueVars, dropped, flushed, loop, buf, attempt, envVars,
                 points, rejected, late>>

CountIn(w, s) == Cardinality({i \in 1..Len(s) : s[i] = w})

\* The rows of the buffer are in the table.
Stored == [w \in Row |-> points[w] + CountIn(w, buf)]

AfterFlush == IF loop = "flushing" THEN "select" ELSE "final"

AfterAttempt == IF loop = "flushing" THEN attempt ELSE attempt + 1

\* copyRows succeeds.
FlushOk ==
  /\ loop \in {"flushing", "finalFlush"}
  /\ points' = Stored
  /\ flushed' = flushed + Len(buf)
  /\ buf' = <<>>
  /\ loop' = AfterFlush
  /\ attempt' = AfterAttempt
  /\ UNCHANGED <<handlerVars, queueVars, dropped, retryHold, envVars, rejected, late>>

Overflow == IF Len(buf) > RetainRows THEN Len(buf) - RetainRows ELSE 0

\* Mutant: the overflow is cut from the buffer and not counted.
MutKeepForRetry ==
  /\ buf' = SubSeq(buf, Overflow + 1, Len(buf))
  /\ retryHold' = TRUE
  /\ loop' = AfterFlush
  /\ attempt' = AfterAttempt
  /\ UNCHANGED dropped

\* copyRows returns an error: the oldest rows beyond retainRows are dropped,
\* the others stay for a retry.
KeepForRetry ==
  /\ dropped' = dropped + Overflow
  /\ buf' = SubSeq(buf, Overflow + 1, Len(buf))
  /\ retryHold' = TRUE
  /\ loop' = AfterFlush
  /\ attempt' = AfterAttempt

FlushFailed ==
  /\ loop \in {"flushing", "finalFlush"}
  /\ KeepForRetry
  /\ UNCHANGED <<handlerVars, queueVars, flushed, envVars, points, rejected, late>>

\* copyRows returns an error although the database committed the copy (the
\* connection or the context ended before the answer arrived).
FlushFailedCommitted ==
  /\ loop \in {"flushing", "finalFlush"}
  /\ \A w \in Row : Stored[w] <= MaxDup
  /\ points' = Stored
  /\ KeepForRetry
  /\ UNCHANGED <<handlerVars, queueVars, flushed, envVars, rejected, late>>

\* case <-ctx.Done() or <-b.stopCh: drainAndFlush.
DrainBegin ==
  /\ loop = "select" /\ ctxDone
  /\ loop' = "drain"
  /\ UNCHANGED <<handlerVars, queueVars, dropped, flushed, buf, retryHold, attempt,
                 envVars, points, rejected, late>>

DrainRow ==
  /\ loop = "drain" /\ in # <<>>
  /\ in' = Tail(in)
  /\ buf' = Append(buf, Head(in))
  /\ UNCHANGED <<handlerVars, enqueueMu, reserved, dropped, flushed, loop, retryHold,
                 attempt, envVars, points, rejected, late>>

\* default: the channel is empty at this instant.
DrainEmpty ==
  /\ loop = "drain" /\ in = <<>>
  /\ loop' = "final"
  /\ UNCHANGED <<handlerVars, queueVars, dropped, flushed, buf, retryHold, attempt,
                 envVars, points, rejected, late>>

FinalFlush ==
  /\ loop = "final" /\ attempt < FlushAttempts /\ buf # <<>>
  /\ loop' = "finalFlush"
  /\ UNCHANGED <<handlerVars, queueVars, dropped, flushed, buf, retryHold, attempt,
                 envVars, points, rejected, late>>

\* The remaining rows are given up, counted, and loop returns.
LoopReturns ==
  /\ loop = "final" /\ (attempt = FlushAttempts \/ buf = <<>>)
  /\ dropped' = dropped + Len(buf)
  /\ buf' = <<>>
  /\ loop' = "stopped"
  /\ UNCHANGED <<handlerVars, queueVars, flushed, retryHold, attempt, envVars, points,
                 rejected, late>>

-----------------------------------------------------------------------------
(* The server process.                                                     *)

\* SIGINT or SIGTERM cancels the context that main gave to batcher.Start.
Signal ==
  /\ ~ctxDone
  /\ ctxDone' = TRUE
  /\ UNCHANGED <<handlerVars, queueVars, dropped, flushed, loopVars, listening, points,
                 rejected, late>>

\* srv.Shutdown closes the listeners; handlers in flight go on.
Shutdown ==
  /\ ctxDone /\ listening
  /\ listening' = FALSE
  /\ UNCHANGED <<handlerVars, queueVars, dropped, flushed, loopVars, ctxDone, points,
                 rejected, late>>

HandlerNext(r) ==
  \/ ReserveRefused(r) \/ Reserve(r) \/ ReserveNone(r)
  \/ SnapshotsStored(r) \/ SnapshotsFailed(r)
  \/ CommitBegin(r) \/ CommitRow(r) \/ CommitEnd(r) \/ CommitNone(r)

LoopNext ==
  \/ ReceiveRow \/ TimerFires \/ RetryDue
  \/ FlushOk \/ FlushFailed \/ FlushFailedCommitted
  \/ DrainBegin \/ DrainRow \/ DrainEmpty \/ FinalFlush \/ LoopReturns

Next ==
  \/ \E r \in Request : HandlerNext(r)
  \/ LoopNext
  \/ Signal \/ Shutdown

Spec == Init /\ [][Next]_vars

(***************************************************************************)
(* Fairness.  A runnable goroutine runs (handlers and loop), timers fire,  *)
(* and the database accepts a copy again and again.  Nothing is assumed of *)
(* the arrival of requests, of snapshot transactions or of signals.        *)
(***************************************************************************)
Fairness ==
  /\ \A r \in Request : WF_vars(CommitBegin(r) \/ CommitRow(r) \/ CommitEnd(r))
  /\ WF_vars(ReceiveRow) /\ WF_vars(TimerFires)
  /\ WF_vars(DrainBegin) /\ WF_vars(DrainRow) /\ WF_vars(DrainEmpty)
  /\ WF_vars(FinalFlush) /\ WF_vars(LoopReturns)
  /\ WF_vars(FlushOk \/ FlushFailed) /\ SF_vars(FlushOk)

FairSpec == Spec /\ Fairness

-----------------------------------------------------------------------------
(* Properties.                                                             *)

TypeOK ==
  /\ pc \in [Request -> HandlerPC]
  /\ left \in [Request -> Nat]
  /\ enqueueMu \in Request \cup {NoRequest}
  /\ in \in Seq(Row)
  /\ buf \in Seq(Row)
  /\ reserved \in Nat /\ dropped \in Nat /\ flushed \in Nat /\ rejected \in Nat
  /\ loop \in LoopPC
  /\ attempt \in 0..FlushAttempts
  /\ retryHold \in BOOLEAN /\ ctxDone \in BOOLEAN /\ listening \in BOOLEAN
  /\ points \in [Row -> Nat]
  /\ late \subseteq Row

\* Rows reserved and not yet sent.
Owed == {w \in Row : w[2] > Rows[w[1]] - left[w[1]]}

\* Rows sent into the channel, now or earlier.
Sent == {w \in Row : /\ pc[w[1]] \in {"sending", "acked"}
                     /\ w[2] <= Rows[w[1]] - left[w[1]]}

InMemory(w) == (\E i \in 1..Len(in) : in[i] = w) \/ (\E i \in 1..Len(buf) : buf[i] = w)

\* The send in CommitReserved never waits for room: whoever holds enqueueMu
\* across the sends finds a free slot, so ingest cannot stall behind it even
\* when loop is stuck in a copy or has already returned.
CommitNeverBlocks ==
  \A r \in Request : pc[r] = "sending" /\ left[r] > 0 => Len(in) < QueueCap

\* b.reserved is exactly what requests still owe: no path of the handler leaks
\* room (which would end in permanent 429s) or gives it back twice.
ReservationsBalance == reserved = Cardinality(Owed)

\* Every row that entered the channel is queued, buffered, counted as flushed
\* or counted as dropped: the counters of /stats hide no loss.
RowsAccounted ==
  Cardinality(Sent) = Len(in) + Len(buf) + flushed + (dropped - rejected)

\* A row that left the channel and the buffer without being counted as dropped
\* is in the table: if nothing was dropped, all of them are stored.
NothingDroppedAllStored ==
  dropped = rejected => \A w \in Sent : InMemory(w) \/ points[w] > 0

\* A row stays in memory forever only if it was sent after drainAndFlush had
\* found the channel empty; every other row is eventually stored or given up,
\* through database outages and through shutdown.
RowsLeaveMemory ==
  \A w \in Row : (w \in Sent \ late) ~> ~InMemory(w)

\* No row is lost in silence and none is kept for ever: what was sent is stored, or counted as dropped.
RowsArrive == []NothingDroppedAllStored /\ RowsLeaveMemory
=============================================================================
