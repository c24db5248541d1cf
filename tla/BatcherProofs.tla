---------------------------- MODULE BatcherProofs ----------------------------
(***************************************************************************)
(* Proofs about Batcher for every set of requests, every row count, every  *)
(* queue capacity and every buffer size.                                   *)
(*                                                                         *)
(* TypeOK and the four accounting facts are not inductive alone: that      *)
(* b.reserved never goes below zero rests on the balance with the rows     *)
(* still owed, that balance rests on what a handler at each point owes,    *)
(* and that a send finds room rests on the sum of what is queued and what  *)
(* is reserved.                                                            *)
(***************************************************************************)
EXTENDS Batcher, TLAPS, FiniteSetTheorems

\* The holder of enqueueMu is the one handler inside CommitReserved.
MutexInv == \A r \in Request : pc[r] = "sending" <=> enqueueMu = r

\* What a handler owes at each of its control points.
LeftInv ==
  \A r \in Request :
    /\ left[r] <= Rows[r]
    /\ pc[r] \in {"snapshots", "commit"} => left[r] = Rows[r]
    /\ pc[r] \in {"idle", "acked", "refused", "failed"} => left[r] = 0

\* The queue has room for everything that is reserved.
RoomInv == Len(in) + reserved <= QueueCap

AttemptInv == loop = "finalFlush" => attempt < FlushAttempts

IInv ==
  /\ TypeOK
  /\ MutexInv
  /\ LeftInv
  /\ AttemptInv
  /\ RoomInv
  /\ ReservationsBalance
  /\ RowsAccounted

-----------------------------------------------------------------------------
(* Facts about rows.                                                       *)

\* Two rows are equal when their request and their index are.
LEMMA RowPairs ==
  ASSUME NEW w \in Row
  PROVE  /\ w[1] \in Request
         /\ w[2] \in 1..Rows[w[1]]
         /\ w = <<w[1], w[2]>>
BY DEF Row

LEMMA RowMember ==
  ASSUME NEW r \in Request, NEW i \in 1..Rows[r]
  PROVE  <<r, i>> \in Row
BY DEF Row

\* One request carries Rows[r] rows.
LEMMA RequestRows ==
  ASSUME NEW r \in Request
  PROVE  /\ IsFiniteSet({r} \X (1..Rows[r]))
         /\ Cardinality({r} \X (1..Rows[r])) = Rows[r]
<1>1. Rows[r] \in Nat
  BY BatcherAssumption
<1>2. IsFiniteSet({r}) /\ Cardinality({r}) = 1
  BY FS_Singleton
<1>3. IsFiniteSet(1..Rows[r]) /\ Cardinality(1..Rows[r]) = Rows[r]
  BY <1>1, FS_Interval
<1>4. /\ IsFiniteSet({r} \X (1..Rows[r]))
      /\ Cardinality({r} \X (1..Rows[r])) = Cardinality({r}) * Cardinality(1..Rows[r])
  BY <1>2, <1>3, FS_Product
<1> QED
  BY <1>1, <1>2, <1>3, <1>4

LEMMA RowFinite == IsFiniteSet(Row)
<1> DEFINE Parts == {{r} \X (1..Rows[r]) : r \in Request}
<1> DEFINE part == [r \in Request |-> {r} \X (1..Rows[r])]
<1>1. IsFiniteSet(Parts)
  <2>1. part \in Surjection(Request, Parts)
    BY DEF Surjection
  <2> QED
    BY <2>1, BatcherAssumption, FS_Surjection
<1>2. \A T \in Parts : IsFiniteSet(T)
  BY RequestRows
<1>3. IsFiniteSet(UNION Parts)
  BY <1>1, <1>2, FS_UNION
<1> QED
  BY <1>3 DEF Row

\* What a handler owes, and what was sent, are finite sets of rows.
LEMMA OwedSentFinite ==
  /\ IsFiniteSet(Owed) /\ Cardinality(Owed) \in Nat
  /\ IsFiniteSet(Sent) /\ Cardinality(Sent) \in Nat
<1>1. Owed \in SUBSET Row /\ Sent \in SUBSET Row
  BY DEF Owed, Sent
<1>2. IsFiniteSet(Owed) /\ IsFiniteSet(Sent)
  BY <1>1, RowFinite, FS_Subset
<1> QED
  BY <1>2, FS_CardinalityType

LEMMA CountInType ==
  ASSUME NEW s \in Seq(Row), NEW w
  PROVE  CountIn(w, s) \in Nat
<1>1. IsFiniteSet(1..Len(s))
  BY FS_Interval
<1>2. {i \in 1..Len(s) : s[i] = w} \in SUBSET (1..Len(s))
  OBVIOUS
<1>3. IsFiniteSet({i \in 1..Len(s) : s[i] = w})
  BY <1>1, <1>2, FS_Subset
<1> QED
  BY <1>3, FS_CardinalityType DEF CountIn

LEMMA StoredType ==
  ASSUME TypeOK
  PROVE  Stored \in [Row -> Nat]
<1>1. \A w \in Row : CountIn(w, buf) \in Nat
  BY CountInType DEF TypeOK
<1> QED
  BY <1>1 DEF Stored, TypeOK

\* The rows that KeepForRetry keeps and the ones it drops add up.
LEMMA OverflowSplit ==
  ASSUME TypeOK
  PROVE  /\ Overflow \in Nat
         /\ SubSeq(buf, Overflow + 1, Len(buf)) \in Seq(Row)
         /\ Overflow + Len(SubSeq(buf, Overflow + 1, Len(buf))) = Len(buf)
<1>1. RetainRows \in Nat /\ Len(buf) \in Nat /\ buf \in Seq(Row)
  BY BatcherAssumption DEF RetainRows, TypeOK
<1>2. Overflow \in Nat /\ Overflow <= Len(buf)
  BY <1>1 DEF Overflow
<1> QED
  BY <1>1, <1>2

-----------------------------------------------------------------------------
(* How a step moves the rows that are owed and the rows that were sent.    *)

LEMMA NothingMoved ==
  ASSUME left' = left,
         \A r \in Request : Rows[r] > 0 =>
            (pc'[r] \in {"sending", "acked"} <=> pc[r] \in {"sending", "acked"})
  PROVE  Owed' = Owed /\ Sent' = Sent
<1>1. \A w \in Row : Rows[w[1]] > 0 /\ w[1] \in Request
  BY RowPairs, BatcherAssumption
<1>2. Owed' = Owed
  BY DEF Owed
<1>3. Sent' = Sent
  BY <1>1 DEF Sent
<1> QED
  BY <1>2, <1>3

\* A successful Reserve adds all the rows of its request to what is owed.
LEMMA ReserveMoves ==
  ASSUME IInv, NEW r \in Request, Reserve(r)
  PROVE  /\ Sent' = Sent
         /\ Cardinality(Owed') = Cardinality(Owed) + Rows[r]
<1> DEFINE Mine == {r} \X (1..Rows[r])
<1>1. left[r] = 0 /\ Rows[r] \in Nat
  BY BatcherAssumption DEF IInv, LeftInv, Reserve
<1>2. left' = [left EXCEPT ![r] = Rows[r]] /\ left \in [Request -> Nat]
  BY DEF IInv, TypeOK, Reserve
<1>3. \A w \in Row : w \in Mine <=> w[1] = r
  BY RowPairs
<1>4. Mine \subseteq Row
  BY RowMember
<1>5. Owed' = Owed \cup Mine
  BY <1>1, <1>2, <1>3, <1>4, RowPairs, BatcherAssumption DEF Owed
<1>6. Owed \cap Mine = {}
  BY <1>1, <1>3, <1>4, RowPairs, BatcherAssumption DEF Owed
<1>7. Cardinality(Owed') = Cardinality(Owed) + Rows[r]
  <2>1. Cardinality(Owed \cup Mine) = Cardinality(Owed) + Cardinality(Mine) - Cardinality(Owed \cap Mine)
    BY OwedSentFinite, RequestRows, FS_Union
  <2>2. Cardinality(Owed \cap Mine) = 0
    BY <1>6, FS_EmptySet
  <2>3. Cardinality(Mine) = Rows[r]
    BY RequestRows
  <2> QED
    BY <1>1, <1>5, <2>1, <2>2, <2>3, OwedSentFinite
<1>8. Sent' = Sent
  <2>1. pc[r] = "idle" /\ pc' = [pc EXCEPT ![r] = "snapshots"] /\ pc \in [Request -> HandlerPC]
    BY DEF Reserve, IInv, TypeOK
  <2> QED
    BY <1>2, <2>1, RowPairs DEF Sent
<1> QED
  BY <1>7, <1>8

\* ReleaseReserved on the error path takes all of them away.
LEMMA ReleaseMoves ==
  ASSUME IInv, NEW r \in Request, SnapshotsFailed(r)
  PROVE  /\ Sent' = Sent
         /\ Cardinality(Owed') = Cardinality(Owed) - Rows[r]
<1> DEFINE Mine == {r} \X (1..Rows[r])
<1>1. left[r] = Rows[r] /\ Rows[r] \in Nat
  BY BatcherAssumption DEF IInv, LeftInv, SnapshotsFailed
<1>2. left' = [left EXCEPT ![r] = 0] /\ left \in [Request -> Nat]
  BY DEF IInv, TypeOK, SnapshotsFailed
<1>3. \A w \in Row : w \in Mine <=> w[1] = r
  BY RowPairs
<1>4. Mine \subseteq Row
  BY RowMember
<1>5. Owed' = Owed \ Mine
  BY <1>1, <1>2, <1>3, <1>4, RowPairs, BatcherAssumption DEF Owed
<1>6. Owed \cap Mine = Mine
  BY <1>1, <1>3, <1>4, RowPairs, BatcherAssumption DEF Owed
<1>7. Cardinality(Owed') = Cardinality(Owed) - Rows[r]
  <2>1. Cardinality(Owed \ Mine) = Cardinality(Owed) - Cardinality(Owed \cap Mine)
    BY OwedSentFinite, FS_Difference
  <2> QED
    BY <1>5, <1>6, <2>1, RequestRows
<1>8. Sent' = Sent
  <2>1. pc[r] = "snapshots" /\ pc' = [pc EXCEPT ![r] = "failed"] /\ pc \in [Request -> HandlerPC]
    BY DEF SnapshotsFailed, IInv, TypeOK
  <2> QED
    BY <1>2, <2>1, RowPairs DEF Sent
<1> QED
  BY <1>7, <1>8

\* A send moves one row from the owed ones to the sent ones.
LEMMA CommitRowMoves ==
  ASSUME IInv, NEW r \in Request, CommitRow(r)
  PROVE  /\ NextRow(r) \in Row
         /\ Cardinality(Owed') = Cardinality(Owed) - 1
         /\ Cardinality(Sent') = Cardinality(Sent) + 1
<1>1. left[r] \in Nat /\ left[r] > 0 /\ left[r] <= Rows[r] /\ Rows[r] \in Nat
  BY BatcherAssumption DEF IInv, TypeOK, LeftInv, CommitRow
<1>2. left' = [left EXCEPT ![r] = left[r] - 1] /\ left \in [Request -> Nat]
  BY DEF IInv, TypeOK, CommitRow
<1>3. pc' = pc /\ pc[r] = "sending"
  BY DEF CommitRow
<1>4. NextRow(r) \in Row /\ NextRow(r)[1] = r /\ NextRow(r)[2] = Rows[r] - left[r] + 1
  BY <1>1, RowMember DEF NextRow
<1>5. \A w \in Row : w = NextRow(r) <=> w[1] = r /\ w[2] = Rows[r] - left[r] + 1
  BY <1>4, RowPairs DEF NextRow
<1>6. NextRow(r) \in Owed /\ Owed' = Owed \ {NextRow(r)}
  BY <1>1, <1>2, <1>4, <1>5, RowPairs, BatcherAssumption DEF Owed
<1>7. NextRow(r) \notin Sent /\ Sent' = Sent \cup {NextRow(r)}
  BY <1>1, <1>2, <1>3, <1>4, <1>5, RowPairs, BatcherAssumption DEF Sent
<1>8. Cardinality(Owed') = Cardinality(Owed) - 1
  BY <1>6, OwedSentFinite, FS_RemoveElement
<1>9. Cardinality(Sent') = Cardinality(Sent) + 1
  BY <1>7, OwedSentFinite, FS_AddElement
<1> QED
  BY <1>4, <1>8, <1>9

-----------------------------------------------------------------------------
(* The invariant is inductive.                                             *)

LEMMA InitIInv == Init => IInv
<1> SUFFICES ASSUME Init PROVE IInv
  OBVIOUS
<1>1. Owed = {}
  BY RowPairs, BatcherAssumption DEF Init, Owed
<1>2. Sent = {}
  BY RowPairs DEF Init, Sent
<1>3. Cardinality(Owed) = 0 /\ Cardinality(Sent) = 0
  BY <1>1, <1>2, FS_EmptySet
<1>4. TypeOK
  <2>1. in \in Seq(Row) /\ buf \in Seq(Row)
    BY DEF Init
  <2>2. attempt \in 0..FlushAttempts
    BY DEF Init, FlushAttempts
  <2> QED
    BY <2>1, <2>2 DEF Init, TypeOK, HandlerPC, LoopPC
<1>5. MutexInv /\ LeftInv /\ AttemptInv /\ RoomInv
  BY BatcherAssumption DEF Init, MutexInv, LeftInv, AttemptInv, RoomInv
<1>6. ReservationsBalance /\ RowsAccounted
  BY <1>3 DEF Init, ReservationsBalance, RowsAccounted
<1> QED
  BY <1>4, <1>5, <1>6 DEF IInv

\* Every step of a handler preserves the invariant.
LEMMA HandlerIInv ==
  ASSUME IInv, NEW r \in Request, HandlerNext(r)
  PROVE  IInv'
<1> USE DEF handlerVars, queueVars, loopVars, envVars
<1>0. Rows[r] \in Nat /\ Rows \in [Request -> Nat]
  BY BatcherAssumption
<1>1. CASE ReserveRefused(r)
  <2>1. Owed' = Owed /\ Sent' = Sent
    BY <1>1, NothingMoved DEF ReserveRefused, IInv, TypeOK
  <2>2. TypeOK'
    BY <1>0, <1>1 DEF ReserveRefused, IInv, TypeOK, HandlerPC
  <2>3. MutexInv' /\ LeftInv' /\ AttemptInv' /\ RoomInv'
    BY <1>1 DEF ReserveRefused, IInv, TypeOK, MutexInv, LeftInv, AttemptInv, RoomInv
  <2>4. ReservationsBalance' /\ RowsAccounted'
    <3>1. /\ dropped' = dropped + Rows[r] /\ rejected' = rejected + Rows[r]
          /\ reserved' = reserved /\ in' = in /\ buf' = buf /\ flushed' = flushed
      BY <1>1 DEF ReserveRefused
    <3>2. dropped \in Nat /\ rejected \in Nat
      BY DEF IInv, TypeOK
    <3>3. dropped' - rejected' = dropped - rejected
      BY <1>0, <3>1, <3>2
    <3> QED
      BY <2>1, <3>1, <3>3 DEF IInv, ReservationsBalance, RowsAccounted
  <2> QED
    BY <2>2, <2>3, <2>4 DEF IInv
<1>2. CASE Reserve(r)
  <2>1. Sent' = Sent /\ Cardinality(Owed') = Cardinality(Owed) + Rows[r]
    BY <1>2, ReserveMoves
  <2>2. TypeOK'
    BY <1>0, <1>2 DEF Reserve, IInv, TypeOK, HandlerPC
  <2>3. MutexInv' /\ LeftInv' /\ AttemptInv'
    BY <1>0, <1>2 DEF Reserve, IInv, TypeOK, MutexInv, LeftInv, AttemptInv
  <2>4. RoomInv'
    BY <1>0, <1>2, BatcherAssumption DEF Reserve, DoesNotFit, IInv, TypeOK, RoomInv
  <2>5. ReservationsBalance' /\ RowsAccounted'
    BY <1>2, <2>1 DEF Reserve, IInv, ReservationsBalance, RowsAccounted
  <2> QED
    BY <2>2, <2>3, <2>4, <2>5 DEF IInv
<1>3. CASE ReserveNone(r)
  <2>1. Owed' = Owed /\ Sent' = Sent
    BY <1>3, NothingMoved DEF ReserveNone, IInv, TypeOK
  <2>2. TypeOK'
    BY <1>3 DEF ReserveNone, IInv, TypeOK, HandlerPC
  <2>3. MutexInv' /\ LeftInv' /\ AttemptInv' /\ RoomInv'
    BY <1>3 DEF ReserveNone, IInv, TypeOK, MutexInv, LeftInv, AttemptInv, RoomInv
  <2>4. ReservationsBalance' /\ RowsAccounted'
    BY <1>3, <2>1 DEF ReserveNone, IInv, ReservationsBalance, RowsAccounted
  <2> QED
    BY <2>2, <2>3, <2>4 DEF IInv
<1>4. CASE SnapshotsStored(r)
  <2>1. Owed' = Owed /\ Sent' = Sent
    BY <1>4, NothingMoved DEF SnapshotsStored, IInv, TypeOK
  <2>2. TypeOK'
    BY <1>4 DEF SnapshotsStored, IInv, TypeOK, HandlerPC
  <2>3. MutexInv' /\ LeftInv' /\ AttemptInv' /\ RoomInv'
    BY <1>4 DEF SnapshotsStored, IInv, TypeOK, MutexInv, LeftInv, AttemptInv, RoomInv
  <2>4. ReservationsBalance' /\ RowsAccounted'
    BY <1>4, <2>1 DEF SnapshotsStored, IInv, ReservationsBalance, RowsAccounted
  <2> QED
    BY <2>2, <2>3, <2>4 DEF IInv
<1>5. CASE SnapshotsFailed(r)
  <2>1. Sent' = Sent /\ Cardinality(Owed') = Cardinality(Owed) - Rows[r]
    BY <1>5, ReleaseMoves
  <2>2. left[r] = Rows[r] /\ Rows[r] \in Nat /\ reserved = Cardinality(Owed)
    BY <1>5, BatcherAssumption DEF SnapshotsFailed, IInv, LeftInv, ReservationsBalance
  <2>3. reserved' = Cardinality(Owed') /\ reserved' \in Nat
    <3>1. reserved' = Cardinality(Owed')
      BY <1>5, <2>1, <2>2 DEF SnapshotsFailed
    <3>2. IsFiniteSet(Owed')
      <4>1. (Owed') \in SUBSET Row
        BY DEF Owed
      <4> QED
        BY <4>1, RowFinite, FS_Subset
    <3> QED
      BY <3>1, <3>2, FS_CardinalityType
  <2>4. TypeOK'
    BY <1>5, <2>3 DEF SnapshotsFailed, IInv, TypeOK, HandlerPC
  <2>5. MutexInv' /\ LeftInv' /\ AttemptInv'
    BY <1>5, BatcherAssumption DEF SnapshotsFailed, IInv, TypeOK, MutexInv, LeftInv, AttemptInv
  <2>6. RoomInv'
    BY <1>5, <2>2, BatcherAssumption DEF SnapshotsFailed, IInv, TypeOK, RoomInv
  <2>7. ReservationsBalance' /\ RowsAccounted'
    BY <1>5, <2>1, <2>3 DEF SnapshotsFailed, IInv, ReservationsBalance, RowsAccounted
  <2> QED
    BY <2>4, <2>5, <2>6, <2>7 DEF IInv
<1>6. CASE CommitBegin(r)
  <2>1. Owed' = Owed /\ Sent' = Sent
    <3>1. left[r] = Rows[r] /\ left' = left /\ pc' = [pc EXCEPT ![r] = "sending"]
          /\ pc[r] = "commit" /\ pc \in [Request -> HandlerPC]
      BY <1>6 DEF CommitBegin, IInv, LeftInv, TypeOK
    <3>2. Owed' = Owed
      BY <3>1 DEF Owed
    <3>3. \A w \in Row : w[1] = r => ~(w[2] <= Rows[w[1]] - left[w[1]])
      BY <1>0, <3>1, RowPairs
    <3>4. Sent' = Sent
      BY <3>1, <3>3, RowPairs DEF Sent
    <3> QED
      BY <3>2, <3>4
  <2>2. TypeOK'
    BY <1>6 DEF CommitBegin, IInv, TypeOK, HandlerPC
  <2>3. MutexInv' /\ LeftInv' /\ AttemptInv' /\ RoomInv'
    BY <1>6, BatcherAssumption DEF CommitBegin, IInv, TypeOK, MutexInv, LeftInv, AttemptInv, RoomInv
  <2>4. ReservationsBalance' /\ RowsAccounted'
    BY <1>6, <2>1 DEF CommitBegin, IInv, ReservationsBalance, RowsAccounted
  <2> QED
    BY <2>2, <2>3, <2>4 DEF IInv
<1>7. CASE CommitRow(r)
  <2>1. /\ NextRow(r) \in Row
        /\ Cardinality(Owed') = Cardinality(Owed) - 1
        /\ Cardinality(Sent') = Cardinality(Sent) + 1
    BY <1>7, CommitRowMoves
  <2>2. reserved' = Cardinality(Owed') /\ reserved' \in Nat
    <3>1. reserved' = Cardinality(Owed')
      BY <1>7, <2>1 DEF CommitRow, IInv, ReservationsBalance
    <3>2. IsFiniteSet(Owed')
      <4>1. (Owed') \in SUBSET Row
        BY DEF Owed
      <4> QED
        BY <4>1, RowFinite, FS_Subset
    <3> QED
      BY <3>1, <3>2, FS_CardinalityType
  <2>3. in' = Append(in, NextRow(r)) /\ in \in Seq(Row) /\ Len(in') = Len(in) + 1
    BY <1>7, <2>1 DEF CommitRow, IInv, TypeOK
  <2>4. TypeOK'
    BY <1>7, <2>1, <2>2, <2>3 DEF CommitRow, IInv, TypeOK, HandlerPC
  <2>5. MutexInv' /\ LeftInv' /\ AttemptInv'
    BY <1>0, <1>7 DEF CommitRow, IInv, TypeOK, MutexInv, LeftInv, AttemptInv
  <2>6. RoomInv'
    BY <1>7, <2>3, BatcherAssumption DEF CommitRow, IInv, TypeOK, RoomInv
  <2>7. ReservationsBalance' /\ RowsAccounted'
    BY <1>7, <2>1, <2>2, <2>3, OwedSentFinite DEF CommitRow, IInv, TypeOK, ReservationsBalance, RowsAccounted
  <2> QED
    BY <2>4, <2>5, <2>6, <2>7 DEF IInv
<1>8. CASE CommitEnd(r)
  <2>1. Owed' = Owed /\ Sent' = Sent
    BY <1>8, NothingMoved DEF CommitEnd, IInv, TypeOK
  <2>2. TypeOK'
    BY <1>8 DEF CommitEnd, IInv, TypeOK, HandlerPC
  <2>3. MutexInv' /\ LeftInv' /\ AttemptInv' /\ RoomInv'
    BY <1>8, BatcherAssumption DEF CommitEnd, IInv, TypeOK, MutexInv, LeftInv, AttemptInv, RoomInv
  <2>4. ReservationsBalance' /\ RowsAccounted'
    BY <1>8, <2>1 DEF CommitEnd, IInv, ReservationsBalance, RowsAccounted
  <2> QED
    BY <2>2, <2>3, <2>4 DEF IInv
<1>9. CASE CommitNone(r)
  <2>1. Owed' = Owed /\ Sent' = Sent
    BY <1>9, NothingMoved DEF CommitNone, IInv, TypeOK
  <2>2. TypeOK'
    BY <1>9 DEF CommitNone, IInv, TypeOK, HandlerPC
  <2>3. MutexInv' /\ LeftInv' /\ AttemptInv' /\ RoomInv'
    BY <1>9, BatcherAssumption DEF CommitNone, IInv, TypeOK, MutexInv, LeftInv, AttemptInv, RoomInv
  <2>4. ReservationsBalance' /\ RowsAccounted'
    BY <1>9, <2>1 DEF CommitNone, IInv, ReservationsBalance, RowsAccounted
  <2> QED
    BY <2>2, <2>3, <2>4 DEF IInv
<1> QED
  BY <1>1, <1>2, <1>3, <1>4, <1>5, <1>6, <1>7, <1>8, <1>9 DEF HandlerNext

\* The loop, the signal and the shutdown leave pc and left alone.
LEMMA LoopIInv ==
  ASSUME IInv, LoopNext \/ Signal \/ Shutdown
  PROVE  IInv'
<1> USE DEF handlerVars, queueVars, loopVars, envVars
<1>0. Owed' = Owed /\ Sent' = Sent
  <2>1. pc' = pc /\ left' = left
    BY DEF LoopNext, ReceiveRow, TimerFires, RetryDue, FlushOk, FlushFailed, FlushFailedCommitted,
           DrainBegin, DrainRow, DrainEmpty, FinalFlush, LoopReturns, Signal, Shutdown
  <2> QED
    BY <2>1 DEF Owed, Sent
<1>a. in \in Seq(Row) /\ buf \in Seq(Row) /\ Len(in) \in Nat /\ Len(buf) \in Nat
  BY DEF IInv, TypeOK
<1>b. ASSUME in # <<>>
      PROVE  /\ Tail(in) \in Seq(Row) /\ Len(Tail(in)) = Len(in) - 1
             /\ Append(buf, Head(in)) \in Seq(Row) /\ Len(Append(buf, Head(in))) = Len(buf) + 1
  BY <1>a, <1>b
<1>c. ASSUME KeepForRetry, loop \in {"flushing", "finalFlush"}
      PROVE  /\ buf' \in Seq(Row) /\ dropped' \in Nat /\ retryHold' \in BOOLEAN
             /\ loop' \in LoopPC /\ loop' # "finalFlush" /\ attempt' \in 0..FlushAttempts
             /\ Len(buf') + dropped' = Len(buf) + dropped
  <2>1. buf' \in Seq(Row) /\ dropped' \in Nat /\ Len(buf') + dropped' = Len(buf) + dropped
    <3>1. dropped' = dropped + Overflow
      BY <1>c DEF KeepForRetry
    <3>2. dropped \in Nat
      BY DEF IInv, TypeOK
    <3>3. /\ Overflow \in Nat /\ buf' \in Seq(Row) /\ Len(buf') \in Nat
          /\ Overflow + Len(buf') = Len(buf)
      <4>1. buf' = SubSeq(buf, Overflow + 1, Len(buf))
        BY <1>c DEF KeepForRetry
      <4> QED
        BY <4>1, OverflowSplit DEF IInv
    <3> QED
      BY <1>a, <3>1, <3>2, <3>3
  <2>2. retryHold' \in BOOLEAN /\ loop' \in LoopPC /\ loop' # "finalFlush"
    BY <1>c DEF KeepForRetry, AfterFlush, LoopPC
  <2>3. attempt' \in 0..FlushAttempts
    BY <1>c DEF KeepForRetry, AfterAttempt, FlushAttempts, IInv, TypeOK, AttemptInv
  <2> QED
    BY <2>1, <2>2, <2>3
<1>1. CASE ReceiveRow
  <2>1. TypeOK'
    BY <1>1, <1>b DEF ReceiveRow, IInv, TypeOK, LoopPC
  <2>2. MutexInv' /\ LeftInv' /\ AttemptInv' /\ RoomInv'
    BY <1>1, <1>a, <1>b, BatcherAssumption DEF ReceiveRow, IInv, TypeOK, MutexInv, LeftInv, AttemptInv, RoomInv
  <2>3. ReservationsBalance' /\ RowsAccounted'
    BY <1>0, <1>1, <1>a, <1>b DEF ReceiveRow, IInv, TypeOK, ReservationsBalance, RowsAccounted
  <2> QED
    BY <2>1, <2>2, <2>3 DEF IInv
<1>2. CASE TimerFires
  <2>1. TypeOK'
    BY <1>2 DEF TimerFires, IInv, TypeOK, LoopPC
  <2>2. MutexInv' /\ LeftInv' /\ AttemptInv' /\ RoomInv'
    BY <1>2 DEF TimerFires, IInv, TypeOK, MutexInv, LeftInv, AttemptInv, RoomInv
  <2>3. ReservationsBalance' /\ RowsAccounted'
    BY <1>0, <1>2 DEF TimerFires, IInv, TypeOK, ReservationsBalance, RowsAccounted
  <2> QED
    BY <2>1, <2>2, <2>3 DEF IInv
<1>3. CASE RetryDue
  <2>1. TypeOK'
    BY <1>3 DEF RetryDue, IInv, TypeOK, LoopPC
  <2>2. MutexInv' /\ LeftInv' /\ AttemptInv' /\ RoomInv'
    BY <1>3 DEF RetryDue, IInv, TypeOK, MutexInv, LeftInv, AttemptInv, RoomInv
  <2>3. ReservationsBalance' /\ RowsAccounted'
    BY <1>0, <1>3 DEF RetryDue, IInv, TypeOK, ReservationsBalance, RowsAccounted
  <2> QED
    BY <2>1, <2>2, <2>3 DEF IInv
<1>4. CASE FlushOk
  <2>1. TypeOK'
    BY <1>4, StoredType DEF FlushOk, IInv, TypeOK, LoopPC, AfterFlush, AfterAttempt, AttemptInv, FlushAttempts
  <2>2. MutexInv' /\ LeftInv' /\ AttemptInv' /\ RoomInv'
    BY <1>4 DEF FlushOk, IInv, TypeOK, MutexInv, LeftInv, AttemptInv, RoomInv, AfterFlush
  <2>3. ReservationsBalance' /\ RowsAccounted'
    BY <1>0, <1>4, <1>a DEF FlushOk, IInv, TypeOK, ReservationsBalance, RowsAccounted
  <2> QED
    BY <2>1, <2>2, <2>3 DEF IInv
<1>5. CASE FlushFailed
  <2>1. TypeOK'
    BY <1>5, <1>c DEF FlushFailed, IInv, TypeOK, LoopPC
  <2>2. MutexInv' /\ LeftInv' /\ AttemptInv' /\ RoomInv'
    BY <1>5, <1>c DEF FlushFailed, IInv, TypeOK, MutexInv, LeftInv, AttemptInv, RoomInv
  <2>3. ReservationsBalance' /\ RowsAccounted'
    <3>1. reserved' = reserved /\ in' = in /\ flushed' = flushed /\ rejected' = rejected
      BY <1>5 DEF FlushFailed
    <3>2. Len(buf') + dropped' = Len(buf) + dropped
      BY <1>5, <1>c DEF FlushFailed
    <3>3. Len(buf') \in Nat /\ dropped' \in Nat /\ dropped \in Nat /\ flushed \in Nat /\ rejected \in Nat
      BY <2>1 DEF IInv, TypeOK
    <3>4. Len(in') + Len(buf') + flushed' + (dropped' - rejected') = Len(in) + Len(buf) + flushed + (dropped - rejected)
      BY <1>a, <3>1, <3>2, <3>3
    <3>5. Cardinality(Owed)' = Cardinality(Owed) /\ Cardinality(Sent)' = Cardinality(Sent)
      BY <1>0
    <3>6. ReservationsBalance /\ RowsAccounted
      BY DEF IInv
    <3> QED
      BY <3>1, <3>4, <3>5, <3>6 DEF ReservationsBalance, RowsAccounted
  <2> QED
    BY <2>1, <2>2, <2>3 DEF IInv
<1>6. CASE FlushFailedCommitted
  <2>1. TypeOK'
    BY <1>6, <1>c, StoredType DEF FlushFailedCommitted, IInv, TypeOK, LoopPC
  <2>2. MutexInv' /\ LeftInv' /\ AttemptInv' /\ RoomInv'
    BY <1>6, <1>c DEF FlushFailedCommitted, IInv, TypeOK, MutexInv, LeftInv, AttemptInv, RoomInv
  <2>3. ReservationsBalance' /\ RowsAccounted'
    <3>1. reserved' = reserved /\ in' = in /\ flushed' = flushed /\ rejected' = rejected
      BY <1>6 DEF FlushFailedCommitted
    <3>2. Len(buf') + dropped' = Len(buf) + dropped
      BY <1>6, <1>c DEF FlushFailedCommitted
    <3>3. Len(buf') \in Nat /\ dropped' \in Nat /\ dropped \in Nat /\ flushed \in Nat /\ rejected \in Nat
      BY <2>1 DEF IInv, TypeOK
    <3>4. Len(in') + Len(buf') + flushed' + (dropped' - rejected') = Len(in) + Len(buf) + flushed + (dropped - rejected)
      BY <1>a, <3>1, <3>2, <3>3
    <3>5. Cardinality(Owed)' = Cardinality(Owed) /\ Cardinality(Sent)' = Cardinality(Sent)
      BY <1>0
    <3>6. ReservationsBalance /\ RowsAccounted
      BY DEF IInv
    <3> QED
      BY <3>1, <3>4, <3>5, <3>6 DEF ReservationsBalance, RowsAccounted
  <2> QED
    BY <2>1, <2>2, <2>3 DEF IInv
<1>7. CASE DrainBegin
  <2>1. TypeOK'
    BY <1>7 DEF DrainBegin, IInv, TypeOK, LoopPC
  <2>2. MutexInv' /\ LeftInv' /\ AttemptInv' /\ RoomInv'
    BY <1>7 DEF DrainBegin, IInv, TypeOK, MutexInv, LeftInv, AttemptInv, RoomInv
  <2>3. ReservationsBalance' /\ RowsAccounted'
    BY <1>0, <1>7 DEF DrainBegin, IInv, TypeOK, ReservationsBalance, RowsAccounted
  <2> QED
    BY <2>1, <2>2, <2>3 DEF IInv
<1>8. CASE DrainRow
  <2>1. TypeOK'
    BY <1>8, <1>b DEF DrainRow, IInv, TypeOK, LoopPC
  <2>2. MutexInv' /\ LeftInv' /\ AttemptInv' /\ RoomInv'
    BY <1>8, <1>a, <1>b, BatcherAssumption DEF DrainRow, IInv, TypeOK, MutexInv, LeftInv, AttemptInv, RoomInv
  <2>3. ReservationsBalance' /\ RowsAccounted'
    BY <1>0, <1>8, <1>a, <1>b DEF DrainRow, IInv, TypeOK, ReservationsBalance, RowsAccounted
  <2> QED
    BY <2>1, <2>2, <2>3 DEF IInv
<1>9. CASE DrainEmpty
  <2>1. TypeOK'
    BY <1>9 DEF DrainEmpty, IInv, TypeOK, LoopPC
  <2>2. MutexInv' /\ LeftInv' /\ AttemptInv' /\ RoomInv'
    BY <1>9 DEF DrainEmpty, IInv, TypeOK, MutexInv, LeftInv, AttemptInv, RoomInv
  <2>3. ReservationsBalance' /\ RowsAccounted'
    BY <1>0, <1>9 DEF DrainEmpty, IInv, TypeOK, ReservationsBalance, RowsAccounted
  <2> QED
    BY <2>1, <2>2, <2>3 DEF IInv
<1>10. CASE FinalFlush
  <2>1. TypeOK'
    BY <1>10 DEF FinalFlush, IInv, TypeOK, LoopPC
  <2>2. MutexInv' /\ LeftInv' /\ AttemptInv' /\ RoomInv'
    BY <1>10 DEF FinalFlush, IInv, TypeOK, MutexInv, LeftInv, AttemptInv, RoomInv, FlushAttempts
  <2>3. ReservationsBalance' /\ RowsAccounted'
    BY <1>0, <1>10 DEF FinalFlush, IInv, TypeOK, ReservationsBalance, RowsAccounted
  <2> QED
    BY <2>1, <2>2, <2>3 DEF IInv
<1>11. CASE LoopReturns
  <2>1. TypeOK'
    BY <1>11 DEF LoopReturns, IInv, TypeOK, LoopPC
  <2>2. MutexInv' /\ LeftInv' /\ AttemptInv' /\ RoomInv'
    BY <1>11 DEF LoopReturns, IInv, TypeOK, MutexInv, LeftInv, AttemptInv, RoomInv
  <2>3. ReservationsBalance' /\ RowsAccounted'
    BY <1>0, <1>11, <1>a DEF LoopReturns, IInv, TypeOK, ReservationsBalance, RowsAccounted
  <2> QED
    BY <2>1, <2>2, <2>3 DEF IInv
<1>12. CASE Signal
  <2>1. TypeOK'
    BY <1>12 DEF Signal, IInv, TypeOK, LoopPC
  <2>2. MutexInv' /\ LeftInv' /\ AttemptInv' /\ RoomInv'
    BY <1>12 DEF Signal, IInv, TypeOK, MutexInv, LeftInv, AttemptInv, RoomInv
  <2>3. ReservationsBalance' /\ RowsAccounted'
    BY <1>0, <1>12 DEF Signal, IInv, TypeOK, ReservationsBalance, RowsAccounted
  <2> QED
    BY <2>1, <2>2, <2>3 DEF IInv
<1>13. CASE Shutdown
  <2>1. TypeOK'
    BY <1>13 DEF Shutdown, IInv, TypeOK, LoopPC
  <2>2. MutexInv' /\ LeftInv' /\ AttemptInv' /\ RoomInv'
    BY <1>13 DEF Shutdown, IInv, TypeOK, MutexInv, LeftInv, AttemptInv, RoomInv
  <2>3. ReservationsBalance' /\ RowsAccounted'
    BY <1>0, <1>13 DEF Shutdown, IInv, TypeOK, ReservationsBalance, RowsAccounted
  <2> QED
    BY <2>1, <2>2, <2>3 DEF IInv
<1> QED
  BY <1>1, <1>2, <1>3, <1>4, <1>5, <1>6, <1>7, <1>8, <1>9, <1>10, <1>11, <1>12, <1>13 DEF LoopNext

LEMMA NextIInv == IInv /\ [Next]_vars => IInv'
<1> SUFFICES ASSUME IInv, [Next]_vars PROVE IInv'
  OBVIOUS
<1>1. CASE \E r \in Request : HandlerNext(r)
  BY <1>1, HandlerIInv
<1>2. CASE LoopNext \/ Signal \/ Shutdown
  BY <1>2, LoopIInv
<1>3. CASE UNCHANGED vars
  <2>1. Owed' = Owed /\ Sent' = Sent
    BY <1>3 DEF vars, Owed, Sent
  <2> QED
    BY <1>3, <2>1 DEF vars, IInv, TypeOK, MutexInv, LeftInv, AttemptInv, RoomInv,
                      ReservationsBalance, RowsAccounted
<1> QED
  BY <1>1, <1>2, <1>3 DEF Next

THEOREM BatcherInvariant == Spec => []IInv
<1> QED
  BY InitIInv, NextIInv, PTL DEF Spec

-----------------------------------------------------------------------------
(* The theorems.                                                           *)

\* Every reachable state of the batcher, its loop and its handlers is well
\* typed; in particular b.reserved, an int that three methods add to and
\* subtract from, is never negative.
THEOREM TypeCorrect == Spec => []TypeOK
<1>1. IInv => TypeOK
  BY DEF IInv
<1> QED
  BY <1>1, BatcherInvariant, PTL

\* CommitReserved never blocks on b.in while it holds enqueueMu: whoever
\* still has rows to send finds a free slot, for every queue capacity.
THEOREM SendsNeverBlock == Spec => []CommitNeverBlocks
<1>1. IInv => CommitNeverBlocks
  <2> SUFFICES ASSUME IInv, NEW r \in Request, pc[r] = "sending", left[r] > 0
               PROVE  Len(in) < QueueCap
    BY DEF CommitNeverBlocks
  <2>1. left[r] \in Nat /\ left[r] <= Rows[r] /\ Rows[r] \in Nat
    BY BatcherAssumption DEF IInv, TypeOK, LeftInv
  <2>2. <<r, Rows[r]>> \in Owed
    BY <2>1, RowMember DEF Owed
  <2>3. Cardinality(Owed) > 0
    BY <2>2, OwedSentFinite, FS_EmptySet
  <2> QED
    BY <2>3, OwedSentFinite, BatcherAssumption DEF IInv, TypeOK, RoomInv, ReservationsBalance
<1> QED
  BY <1>1, BatcherInvariant, PTL

\* b.reserved is exactly the number of rows whose Reserve succeeded and that
\* were neither sent by CommitReserved nor given back by ReleaseReserved.
THEOREM ReservationsAlwaysBalance == Spec => []ReservationsBalance
<1>1. IInv => ReservationsBalance
  BY DEF IInv
<1> QED
  BY <1>1, BatcherInvariant, PTL

\* The counters of Stats account for every row that entered the channel,
\* through failed copies, overflow of the retained rows and shutdown.
THEOREM RowsAlwaysAccounted == Spec => []RowsAccounted
<1>1. IInv => RowsAccounted
  BY DEF IInv
<1> QED
  BY <1>1, BatcherInvariant, PTL

-----------------------------------------------------------------------------
(***************************************************************************)
(* No loss in silence.  Nobody gives up a row that was sent without adding *)
(* to b.dropped, which refused requests alone move otherwise: while the    *)
(* two counts agree no step has dropped a row, and each step leaves it in  *)
(* the channel, in the buffer or in the table.                             *)
(***************************************************************************)

Holds(s, w) == \E i \in 1..Len(s) : s[i] = w

DroppedInv == rejected <= dropped /\ NothingDroppedAllStored

\* A row stays where it is when another one comes, and the first goes.
LEMMA Moves ==
  ASSUME NEW s \in Seq(Row), NEW x \in Row, NEW w
  PROVE  /\ Holds(s, w) => Holds(Append(s, x), w)
         /\ Holds(Append(s, x), x)
         /\ Holds(s, w) /\ s # <<>> => w = Head(s) \/ Holds(Tail(s), w)
<1>1. ASSUME Holds(s, w) PROVE Holds(Append(s, x), w)
  <2>1. PICK i \in 1..Len(s) : s[i] = w
    BY <1>1 DEF Holds
  <2>2. i \in 1..Len(Append(s, x)) /\ Append(s, x)[i] = w
    BY <2>1
  <2> QED
    BY <2>2 DEF Holds
<1>2. Holds(Append(s, x), x)
  <2>1. Len(s) + 1 \in 1..Len(Append(s, x)) /\ Append(s, x)[Len(s) + 1] = x
    OBVIOUS
  <2> QED
    BY <2>1 DEF Holds
<1>3. ASSUME Holds(s, w), s # <<>>, w # Head(s) PROVE Holds(Tail(s), w)
  <2>1. PICK i \in 1..Len(s) : s[i] = w
    BY <1>3 DEF Holds
  <2>2. i # 1
    BY <1>3, <2>1
  <2>3. i - 1 \in 1..Len(Tail(s)) /\ Tail(s)[i - 1] = w
    BY <1>3, <2>1, <2>2
  <2> QED
    BY <2>3 DEF Holds
<1> QED
  BY <1>1, <1>2, <1>3

\* A copy of the buffer stores every row the buffer holds, and takes none away.
LEMMA CopyStores ==
  ASSUME TypeOK, NEW w \in Row
  PROVE  /\ points[w] > 0 => Stored[w] > 0
         /\ Holds(buf, w) => Stored[w] > 0
<1>1. points[w] \in Nat /\ CountIn(w, buf) \in Nat /\ Stored[w] = points[w] + CountIn(w, buf)
  BY CountInType DEF TypeOK, Stored
<1>2. ASSUME Holds(buf, w) PROVE CountIn(w, buf) # 0
  <2> DEFINE At == {i \in 1..Len(buf) : buf[i] = w}
  <2>1. Len(buf) \in Nat
    BY DEF TypeOK
  <2>2. IsFiniteSet(1..Len(buf))
    BY <2>1, FS_Interval
  <2>3. IsFiniteSet(At)
    BY <2>2, FS_Subset
  <2>4. At # {}
    BY <1>2 DEF Holds
  <2>5. Cardinality(At) # 0
    BY <2>3, <2>4, FS_EmptySet
  <2> QED
    BY <2>5 DEF CountIn
<1> QED
  BY <1>1, <1>2

\* While the buffer is not over the limit a failed copy keeps all of it.
LEMMA KeptWhole ==
  ASSUME TypeOK, KeepForRetry, rejected <= dropped
  PROVE  /\ rejected <= dropped'
         /\ dropped' = rejected => dropped = rejected /\ buf' = buf
<1>1. dropped' = dropped + Overflow /\ buf' = SubSeq(buf, Overflow + 1, Len(buf))
  BY DEF KeepForRetry
<1>2. Overflow \in Nat /\ dropped \in Nat /\ rejected \in Nat /\ buf \in Seq(Row)
  BY OverflowSplit DEF TypeOK
<1>3. ASSUME Overflow = 0 PROVE buf' = buf
  BY <1>1, <1>2, <1>3
<1>4. rejected <= dropped' /\ (dropped' = rejected => dropped = rejected /\ Overflow = 0)
  BY <1>1, <1>2
<1> QED
  BY <1>3, <1>4

LEMMA HandlerDrops ==
  ASSUME IInv, DroppedInv, NEW r \in Request, HandlerNext(r)
  PROVE  DroppedInv'
<1> USE DEF queueVars, loopVars, envVars
<1>1. points' = points /\ buf' = buf
  BY DEF HandlerNext, ReserveRefused, Reserve, ReserveNone, SnapshotsStored, SnapshotsFailed,
         CommitBegin, CommitRow, CommitEnd, CommitNone
<1>2. /\ rejected \in Nat /\ dropped \in Nat /\ rejected <= dropped
      /\ (dropped = rejected => \A w \in Sent : InMemory(w) \/ points[w] > 0)
  BY DEF IInv, TypeOK, DroppedInv, NothingDroppedAllStored
<1>3. CASE CommitRow(r)
  <2>1. in' = Append(in, NextRow(r)) /\ dropped' = dropped /\ rejected' = rejected
    BY <1>3 DEF CommitRow
  <2>2. in \in Seq(Row) /\ NextRow(r) \in Row
    BY <1>3, CommitRowMoves DEF IInv, TypeOK
  <2>3. ASSUME NEW w \in Sent' PROVE w \in Sent \/ w = NextRow(r)
    <3>1. /\ left[r] \in Nat /\ left[r] > 0 /\ left[r] <= Rows[r] /\ Rows[r] \in Nat
          /\ left' = [left EXCEPT ![r] = left[r] - 1] /\ left \in [Request -> Nat] /\ pc' = pc /\ pc[r] = "sending"
      BY <1>3, BatcherAssumption DEF IInv, TypeOK, LeftInv, CommitRow
    <3>2. w \in Row /\ pc[w[1]] \in {"sending", "acked"} /\ w[2] <= Rows[w[1]] - left'[w[1]]
      BY <2>3, <3>1 DEF Sent
    <3>3. w[1] \in Request /\ w[2] \in 1..Rows[w[1]] /\ w = <<w[1], w[2]>>
      BY <3>2, RowPairs
    <3>4. CASE w[1] # r
      BY <3>1, <3>2, <3>3, <3>4 DEF Sent
    <3>5. CASE w[1] = r
      <4>1. left'[r] = left[r] - 1
        BY <3>1
      <4>2. w[2] \in Nat /\ w[2] <= Rows[r] - (left[r] - 1)
        BY <3>2, <3>3, <3>5, <4>1, BatcherAssumption
      <4>3. w[2] <= Rows[r] - left[r] \/ w[2] = Rows[r] - left[r] + 1
        BY <3>1, <4>2
      <4> QED
        BY <3>2, <3>3, <3>5, <4>3 DEF Sent, NextRow
    <3> QED
      BY <3>4, <3>5
  <2>4. ASSUME dropped' = rejected', NEW w \in Sent' PROVE InMemory(w)' \/ points'[w] > 0
    <3>1. CASE w = NextRow(r)
      BY <2>1, <2>2, <3>1, Moves DEF InMemory, Holds
    <3>2. CASE w \in Sent
      <4>1. InMemory(w) \/ points[w] > 0
        BY <1>2, <2>1, <2>4, <3>2
      <4>2. Holds(in, w) => Holds(in', w)
        BY <2>1, <2>2, Moves
      <4> QED
        BY <1>1, <4>1, <4>2 DEF InMemory, Holds
    <3> QED
      BY <2>3, <2>4, <3>1, <3>2
  <2> QED
    BY <1>2, <2>1, <2>4 DEF DroppedInv, NothingDroppedAllStored
<1>4. CASE ~CommitRow(r)
  <2>1. /\ in' = in
        /\ \/ dropped' = dropped /\ rejected' = rejected
           \/ dropped' = dropped + Rows[r] /\ rejected' = rejected + Rows[r]
    BY <1>4 DEF HandlerNext, ReserveRefused, Reserve, ReserveNone, SnapshotsStored, SnapshotsFailed,
                CommitBegin, CommitEnd, CommitNone
  <2>2. Sent' = Sent
    <3>1. /\ pc \in [Request -> HandlerPC] /\ left \in [Request -> Nat]
          /\ \A q \in Request : pc[q] = "sending" \/ pc[q] = "acked" \/ left[q] <= Rows[q]
      BY DEF IInv, TypeOK, LeftInv
    <3>2. \A q \in Request : q # r => pc'[q] = pc[q] /\ left'[q] = left[q]
      BY <1>4, <3>1 DEF HandlerNext, ReserveRefused, Reserve, ReserveNone, SnapshotsStored, SnapshotsFailed,
                CommitBegin, CommitEnd, CommitNone
    <3>3. \/ pc'[r] \notin {"sending", "acked"} /\ pc[r] \notin {"sending", "acked"}
          \/ pc'[r] \in {"sending", "acked"} /\ pc[r] \in {"sending", "acked"} /\ left'[r] = left[r]
          \/ pc'[r] \in {"sending", "acked"} /\ left'[r] = Rows[r] /\ pc[r] = "commit"
      <4>1. pc[r] = "commit" => left[r] = Rows[r]
        BY DEF IInv, LeftInv
      <4> QED
        BY <1>4, <3>1, <4>1 DEF HandlerNext, ReserveRefused, Reserve, ReserveNone, SnapshotsStored, SnapshotsFailed,
                CommitBegin, CommitEnd, CommitNone
    <3>4. \A w \in Row : w[1] \in Request /\ w[2] \in Nat /\ w[2] >= 1 /\ Rows[w[1]] \in Nat
      BY RowPairs, BatcherAssumption
    <3>5. ASSUME NEW w \in Row PROVE w \in Sent' <=> w \in Sent
      <4>1. CASE w[1] # r
        BY <3>2, <3>4, <4>1 DEF Sent
      <4>2. CASE w[1] = r
        BY <3>3, <3>4, <4>2 DEF Sent
      <4> QED
        BY <4>1, <4>2
    <3> QED
      BY <3>5 DEF Sent
  <2>3. rejected' <= dropped' /\ (dropped' = rejected' => dropped = rejected)
    BY <1>2, <2>1, BatcherAssumption
  <2> QED
    BY <1>1, <1>2, <2>1, <2>2, <2>3 DEF DroppedInv, NothingDroppedAllStored, InMemory
<1> QED
  BY <1>3, <1>4

LEMMA LoopDrops ==
  ASSUME IInv, DroppedInv, LoopNext \/ Signal \/ Shutdown
  PROVE  DroppedInv'
<1> USE DEF handlerVars, queueVars, loopVars, envVars
<1>1. Sent' = Sent /\ rejected' = rejected
  BY DEF LoopNext, ReceiveRow, TimerFires, RetryDue, FlushOk, FlushFailed, FlushFailedCommitted,
         DrainBegin, DrainRow, DrainEmpty, FinalFlush, LoopReturns, Signal, Shutdown, Sent
<1>2. /\ rejected \in Nat /\ dropped \in Nat /\ rejected <= dropped /\ in \in Seq(Row) /\ buf \in Seq(Row)
      /\ Sent \in SUBSET Row
      /\ (dropped = rejected => \A w \in Sent : Holds(in, w) \/ Holds(buf, w) \/ points[w] > 0)
  BY DEF IInv, TypeOK, DroppedInv, NothingDroppedAllStored, InMemory, Sent, Holds
<1> SUFFICES /\ rejected <= dropped'
             /\ (dropped' = rejected => \A w \in Sent : Holds(in', w) \/ Holds(buf', w) \/ points'[w] > 0)
  BY <1>1 DEF DroppedInv, NothingDroppedAllStored, InMemory, Holds
<1>3. CASE ReceiveRow \/ DrainRow
  <2>1. /\ in # <<>> /\ in' = Tail(in) /\ buf' = Append(buf, Head(in)) /\ dropped' = dropped /\ points' = points
    BY <1>3 DEF ReceiveRow, DrainRow
  <2>2. Head(in) \in Row
    BY <1>2, <2>1
  <2>3. ASSUME NEW w \in Sent
        PROVE  Holds(in, w) \/ Holds(buf, w) => Holds(in', w) \/ Holds(buf', w)
    <3>1. Holds(buf, w) => Holds(buf', w)
      BY <1>2, <2>1, <2>2, Moves
    <3>2. Holds(in, w) => w = Head(in) \/ Holds(in', w)
      BY <1>2, <2>1, <2>2, Moves
    <3>3. Holds(buf', Head(in))
      BY <1>2, <2>1, <2>2, Moves
    <3> QED
      BY <3>1, <3>2, <3>3
  <2> QED
    BY <1>2, <2>1, <2>3
<1>4. CASE FlushOk
  <2>1. points' = Stored /\ in' = in /\ dropped' = dropped
    BY <1>4 DEF FlushOk
  <2>2. \A w \in Sent : Holds(buf, w) \/ points[w] > 0 => points'[w] > 0
    BY <1>2, <2>1, CopyStores DEF IInv
  <2> QED
    BY <1>2, <2>1, <2>2
<1>5. CASE FlushFailed \/ FlushFailedCommitted
  <2>1. KeepForRetry /\ in' = in /\ (points' = points \/ points' = Stored)
    BY <1>5 DEF FlushFailed, FlushFailedCommitted
  <2>2. rejected <= dropped' /\ (dropped' = rejected => dropped = rejected /\ buf' = buf)
    BY <1>2, <2>1, KeptWhole DEF IInv
  <2>3. \A w \in Sent : points[w] > 0 => points'[w] > 0
    BY <1>2, <2>1, CopyStores DEF IInv
  <2> QED
    BY <1>2, <2>1, <2>2, <2>3
<1>6. CASE LoopReturns
  <2>1. dropped' = dropped + Len(buf) /\ in' = in /\ points' = points
    BY <1>6 DEF LoopReturns
  <2>2. Len(buf) \in Nat
    BY <1>2
  <2>3. \A w \in Sent : Holds(buf, w) => Len(buf) # 0
    BY <2>2 DEF Holds
  <2> QED
    BY <1>2, <2>1, <2>2, <2>3
<1>7. CASE TimerFires \/ RetryDue \/ DrainBegin \/ DrainEmpty \/ FinalFlush \/ Signal \/ Shutdown
  <2>1. in' = in /\ buf' = buf /\ points' = points /\ dropped' = dropped
    BY <1>7 DEF TimerFires, RetryDue, DrainBegin, DrainEmpty, FinalFlush, Signal, Shutdown
  <2> QED
    BY <1>2, <2>1
<1> QED
  BY <1>3, <1>4, <1>5, <1>6, <1>7 DEF LoopNext

\* A row that CommitReserved has sent and no path has counted as dropped is
\* queued, buffered or in metric_points: a failed copy, a copy that failed
\* after its commit and the shutdown lose none in silence.
THEOREM NothingLostInSilence == Spec => []NothingDroppedAllStored
<1>1. Init => DroppedInv
  <2> SUFFICES ASSUME Init PROVE DroppedInv
    OBVIOUS
  <2>1. \A w \in Row : pc[w[1]] = "idle"
    BY RowPairs DEF Init
  <2>2. Sent = {}
    BY <2>1 DEF Sent
  <2>3. rejected <= dropped
    BY DEF Init
  <2> QED
    BY <2>2, <2>3 DEF DroppedInv, NothingDroppedAllStored
<1>2. IInv /\ DroppedInv /\ [Next]_vars => DroppedInv'
  <2> SUFFICES ASSUME IInv, DroppedInv, [Next]_vars PROVE DroppedInv'
    OBVIOUS
  <2>1. CASE UNCHANGED vars
    BY <2>1 DEF vars, DroppedInv, NothingDroppedAllStored, Sent, InMemory
  <2> QED
    BY <2>1, HandlerDrops, LoopDrops DEF Next
<1>3. DroppedInv => NothingDroppedAllStored
  BY DEF DroppedInv
<1> QED
  BY <1>1, <1>2, <1>3, BatcherInvariant, PTL DEF Spec
=============================================================================
