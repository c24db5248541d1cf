----------------------------- MODULE AgentProofs -----------------------------
(*****************************************************************************)
(* Proofs about the agent: the delivery of samples and events, the backup    *)
(* jobs of a host, and what it reports of them.                              *)
(*****************************************************************************)
EXTENDS Delivery, BackupJobs, BackupReport, FiniteSetTheorems, WellFoundedInduction, TLAPS

-----------------------------------------------------------------------------
(*****************************************************************************)
(* Delivery, for any number of batches, events and slots, any sizes of the   *)
(* buffer and of the spool, crashes and lost requests.                       *)
(*                                                                           *)
(* That a batch is stored at most once while the agent keeps track of it     *)
(* (DlTracked) and that nothing vanishes unexcused (NoSilentLoss) need the   *)
(* requests in flight tied to the goroutines that wait for them (DlPosts,    *)
(* DlRequests), an answer of success tied to the database (DlStored), and the*)
(* spool kept apart from what the runner still posts (DlSpooled).            *)
(*****************************************************************************)
\* The least of a set of numbers is one of them: the oldest of a queue is in it.
LEMMA LeastIsMember ==
  ASSUME NEW S \in SUBSET Nat, S # {}
  PROVE  Min(S) \in S
<1> DEFINE R == OpToRel(<, Nat)
<1>1. IsWellFoundedOn(R, Nat)
  BY NatLessThanWellFounded
<1>2. \A x, y \in Nat : y < x => <<y, x>> \in R
  BY DEF OpToRel
<1> HIDE DEF R
<1>3. PICK x \in S : \A y \in S : ~(<<y, x>> \in R)
  BY <1>1, WFMin
<1>4. ASSUME NEW y \in S PROVE x <= y
  <2>1. x \in Nat /\ y \in Nat
    OBVIOUS
  <2>2. ~(y < x)
    BY <1>2, <1>3, <2>1
  <2> QED
    BY <2>1, <2>2
<1> QED
  BY <1>4 DEF Min

\* What each goroutine waits for, and the answer that has come back.
DlPosts ==
    /\ \A g \in Goroutine : /\ post[g] = Idle \/ (post[g].slot \in Slot /\ post[g].batch \in Batch /\ post[g].batch < nextBatch)
                            /\ answer[g] # "none" => post[g] # Idle
    /\ \A g, f \in Goroutine : g # f /\ post[g] # Idle => post[g].slot # post[f].slot /\ post[g].batch # post[f].batch

\* Whose request a request is, is told by its slot.
DlRequests ==
    /\ \A q \in net : q.batch < nextBatch
    /\ \A q, r \in net : q.slot = r.slot => q = r
    /\ \A q \in net : \A g \in Goroutine : post[g].slot = q.slot => post[g].batch = q.batch /\ answer[g] = "none"

\* The spool holds old batches, and none the runner still posts.
DlSpooled ==
    /\ \A b \in spool : b < nextBatch /\ b # post["runner"].batch
    /\ \A e \in events : e < nextEvent

\* A batch that was answered with success is in the database.
DlStored ==
    \A g \in Goroutine : answer[g] = "ok" => carries[post[g].batch] \subseteq stored

\* Of a batch the agent has not lost track of there is at most one copy on its way, and no
\* other comes once it is stored.
DlTracked ==
    /\ \A b \in Batch : b >= nextBatch => points[b] = 0
    /\ \A b \in Batch \ doubted :
         /\ points[b] \in {0, 1}
         /\ \A q \in net : q.batch = b => points[b] = 0 /\ \E g \in Goroutine : post[g].slot = q.slot
         /\ points[b] = 1 => /\ \A g \in Goroutine : post[g].batch = b => answer[g] \in {"none", "ok"}
                             /\ b \in spool => post["drainer"].batch = b

\* The inductive invariant of delivery.
DlIInv == TypeOK /\ NoSilentLoss /\ DlPosts /\ DlRequests /\ DlSpooled /\ DlStored /\ DlTracked

\* What the parts of the invariant say of the posts, in the form the steps use.
LEMMA DlPostFacts ==
  ASSUME DlIInv
  PROVE  /\ post \in [Goroutine -> [slot : 0..MaxNet, batch : 0..MaxBatch]]
         /\ answer \in [Goroutine -> Answer] /\ net \subseteq [slot : Slot, batch : Batch]
         /\ nextBatch \in Nat /\ nextEvent \in Nat
         /\ spool \subseteq Batch /\ doubted \subseteq Batch /\ events \subseteq Event
         /\ 0 \notin Slot /\ 0 \notin Batch
         /\ \A g \in Goroutine : post[g] # Idle <=> post[g].slot \in Slot
         /\ \A g \in Goroutine : post[g] # Idle => post[g].batch \in Batch /\ post[g].batch < nextBatch
         /\ \A g \in Goroutine : post[g] = Idle => post[g].batch = 0 /\ post[g].slot = 0 /\ answer[g] = "none"
<1>1. MaxBatch \in Nat /\ MaxNet \in Nat
  BY DeliveryAssumption
<1>2. 0 \notin Slot /\ 0 \notin Batch
  BY <1>1 DEF Slot, Batch
<1>3. nextBatch \in Nat /\ nextEvent \in Nat
  BY <1>1, DeliveryAssumption DEF DlIInv, TypeOK
<1> QED
  BY <1>2, <1>3 DEF DlIInv, TypeOK, DlPosts, Idle

\* The parts of the invariant that speak of posts survive the end of a post, if the agent has
\* seen its answer or doubts its batch, and does not spool again what is stored.
LEMMA DlEnded ==
  ASSUME DlIInv, NEW g \in Goroutine, post[g] # Idle, PostEnd(g),
         UNCHANGED <<net, nextBatch, nextEvent, points, carries, stored>>,
         events' \subseteq events, doubted \subseteq doubted', doubted' \subseteq Batch,
         answer[g] = "none" => post[g].batch \in doubted',
         spool' \subseteq Batch,
         \A b \in spool' : b \in spool \/ (g = "runner" /\ b = post[g].batch),
         post[g].batch \notin doubted' /\ points[post[g].batch] = 1 => post[g].batch \notin spool'
  PROVE  /\ post' \in [Goroutine -> [slot : 0..MaxNet, batch : 0..MaxBatch]] /\ answer' \in [Goroutine -> Answer]
         /\ DlPosts' /\ DlRequests' /\ DlSpooled' /\ DlStored' /\ DlTracked'
<1>1. /\ post \in [Goroutine -> [slot : 0..MaxNet, batch : 0..MaxBatch]]
      /\ answer \in [Goroutine -> Answer] /\ net \subseteq [slot : Slot, batch : Batch]
      /\ 0 \notin Slot /\ 0 \notin Batch /\ nextBatch \in Nat
      /\ \A f \in Goroutine : post[f] # Idle <=> post[f].slot \in Slot
      /\ \A f \in Goroutine : post[f] # Idle => post[f].batch \in Batch /\ post[f].batch < nextBatch
      /\ \A f \in Goroutine : post[f] = Idle => post[f].batch = 0 /\ post[f].slot = 0 /\ answer[f] = "none"
  BY DlPostFacts
<1>2. /\ post'[g] = Idle /\ answer'[g] = "none"
      /\ \A f \in Goroutine \ {g} : post'[f] = post[f] /\ answer'[f] = answer[f]
  BY <1>1 DEF PostEnd
<1>3. Idle.slot = 0 /\ Idle.batch = 0
  BY DEF Idle
<1>4. DlPosts /\ DlRequests /\ DlSpooled /\ DlStored /\ DlTracked
  BY DEF DlIInv
<1>5. post' \in [Goroutine -> [slot : 0..MaxNet, batch : 0..MaxBatch]] /\ answer' \in [Goroutine -> Answer]
  <2>1. Idle \in [slot : 0..MaxNet, batch : 0..MaxBatch] /\ "none" \in Answer
    BY DeliveryAssumption DEF Idle, Answer
  <2> QED
    BY <1>1, <2>1 DEF PostEnd
<1>6. DlPosts'
  <2>1. \A f \in Goroutine : /\ post'[f] = Idle \/ (post'[f].slot \in Slot /\ post'[f].batch \in Batch /\ post'[f].batch < nextBatch)
                             /\ answer'[f] # "none" => post'[f] # Idle
    BY <1>1, <1>2
  <2>2. \A f, h \in Goroutine : f # h /\ post[f] # Idle => post[f].slot # post[h].slot /\ post[f].batch # post[h].batch
    BY <1>4 DEF DlPosts
  <2>3. \A f, h \in Goroutine : f # h /\ post'[f] # Idle => post'[f].slot # post'[h].slot /\ post'[f].batch # post'[h].batch
    BY <1>1, <1>2, <1>3, <2>2
  <2> QED
    BY <2>1, <2>3 DEF DlPosts
<1>7. DlRequests'
  BY <1>1, <1>2, <1>3, <1>4 DEF DlRequests
<1>8. DlSpooled'
  <2>1. \A b \in spool' : b < nextBatch
    BY <1>1, <1>4 DEF DlSpooled
  <2>2. \A b \in spool' : b # post'["runner"].batch
    <3>1. CASE g = "runner"
      BY <1>1, <1>2, <1>3, <3>1
    <3>2. CASE g # "runner"
      <4>1. "runner" \in Goroutine \ {g}
        BY <3>2 DEF Goroutine
      <4> QED
        BY <1>2, <1>4, <3>2, <4>1 DEF DlSpooled
    <3> QED
      BY <3>1, <3>2
  <2> QED
    BY <1>4, <2>1, <2>2 DEF DlSpooled
<1>9. DlStored'
  BY <1>2, <1>4 DEF DlStored
<1>10. DlTracked'
  <2>1. \A b \in Batch : b >= nextBatch => points[b] = 0
    BY <1>4 DEF DlTracked
  <2>2. ASSUME NEW b \in Batch \ doubted'
        PROVE  /\ points[b] \in {0, 1}
               /\ \A q \in net : q.batch = b => points[b] = 0 /\ \E f \in Goroutine : post'[f].slot = q.slot
               /\ points[b] = 1 => /\ \A f \in Goroutine : post'[f].batch = b => answer'[f] \in {"none", "ok"}
                                   /\ b \in spool' => post'["drainer"].batch = b
    <3>1. /\ points[b] \in {0, 1}
          /\ \A q \in net : q.batch = b => points[b] = 0 /\ \E f \in Goroutine : post[f].slot = q.slot
          /\ points[b] = 1 => /\ \A f \in Goroutine : post[f].batch = b => answer[f] \in {"none", "ok"}
                              /\ b \in spool => post["drainer"].batch = b
      BY <1>4 DEF DlTracked
    <3>2. \A q \in net : q.batch = b => points[b] = 0 /\ \E f \in Goroutine : post'[f].slot = q.slot
      <4> SUFFICES ASSUME NEW q \in net, q.batch = b
                   PROVE  \E f \in Goroutine : post'[f].slot = q.slot
        BY <3>1
      <4>1. PICK f \in Goroutine : post[f].slot = q.slot
        BY <3>1
      <4>2. post[f].batch = b /\ answer[f] = "none"
        BY <1>4, <4>1 DEF DlRequests
      <4>3. f # g
        BY <4>2
      <4> QED
        BY <1>2, <4>1, <4>3
    <3>3. points[b] = 1 => \A f \in Goroutine : post'[f].batch = b => answer'[f] \in {"none", "ok"}
      BY <1>2, <3>1
    <3>4. ASSUME points[b] = 1, b \in spool'
          PROVE  post'["drainer"].batch = b
      <4>1. b # post[g].batch
        BY <3>4
      <4>2. b \in spool
        BY <3>4, <4>1
      <4>3. post["drainer"].batch = b /\ "drainer" \in Goroutine
        BY <3>1, <3>4, <4>2 DEF Goroutine
      <4> QED
        BY <1>2, <4>1, <4>3
    <3> QED
      BY <3>1, <3>2, <3>3, <3>4
  <2> QED
    BY <2>1, <2>2 DEF DlTracked
<1> QED
  BY <1>5, <1>6, <1>7, <1>8, <1>9, <1>10

\* A post begins: of a new batch, or of a spooled one that is not stored as far as the agent knows.
LEMMA DlBegun ==
  ASSUME DlIInv, NEW g \in Goroutine, NEW b \in Batch, PostBegin(g, b),
         nextBatch' \in Nat, nextBatch <= nextBatch', b < nextBatch',
         UNCHANGED <<answer, spool, points, doubted, stored, events, nextEvent>>,
         \A c \in Batch : c < nextBatch => carries'[c] = carries[c],
         \A f \in Goroutine : post[f].batch # b,
         b \notin doubted => points[b] = 0,
         g = "runner" => b \notin spool
  PROVE  /\ post' \in [Goroutine -> [slot : 0..MaxNet, batch : 0..MaxBatch]] /\ net' \subseteq [slot : Slot, batch : Batch]
         /\ DlPosts' /\ DlRequests' /\ DlSpooled' /\ DlStored' /\ DlTracked'
<1>1. /\ post \in [Goroutine -> [slot : 0..MaxNet, batch : 0..MaxBatch]]
      /\ answer \in [Goroutine -> Answer] /\ net \subseteq [slot : Slot, batch : Batch]
      /\ 0 \notin Slot /\ 0 \notin Batch /\ nextBatch \in Nat
      /\ spool \subseteq Batch
      /\ \A f \in Goroutine : post[f] # Idle <=> post[f].slot \in Slot
      /\ \A f \in Goroutine : post[f] # Idle => post[f].batch \in Batch /\ post[f].batch < nextBatch
      /\ \A f \in Goroutine : post[f] = Idle => post[f].batch = 0 /\ post[f].slot = 0 /\ answer[f] = "none"
  BY DlPostFacts
<1>2. PICK s \in FreeSlots : /\ post' = [post EXCEPT ![g] = [slot |-> s, batch |-> b]]
                             /\ net' = net \cup {[slot |-> s, batch |-> b]}
  BY DEF PostBegin
<1>3. s \in Slot /\ (\A q \in net : q.slot # s) /\ \A f \in Goroutine : post[f].slot # s
  BY DEF FreeSlots
<1> DEFINE r == [slot |-> s, batch |-> b]
<1>4. r.slot = s /\ r.batch = b /\ r \in [slot : Slot, batch : Batch] /\ r # Idle
  BY <1>1, <1>3 DEF Idle
<1>5. net' = net \cup {r} /\ post' = [post EXCEPT ![g] = r]
  BY <1>2
<1> HIDE DEF r
<1>6. post'[g] = r /\ (\A f \in Goroutine \ {g} : post'[f] = post[f]) /\ post[g] = Idle /\ answer[g] = "none"
  BY <1>1, <1>5 DEF PostBegin
<1>7. DlPosts /\ DlRequests /\ DlSpooled /\ DlStored /\ DlTracked
  BY DEF DlIInv
<1>8. post' \in [Goroutine -> [slot : 0..MaxNet, batch : 0..MaxBatch]] /\ net' \subseteq [slot : Slot, batch : Batch]
  <2>1. r \in [slot : 0..MaxNet, batch : 0..MaxBatch]
    BY <1>4 DEF Slot, Batch
  <2> QED
    BY <1>1, <1>4, <1>5, <2>1
<1>9. DlPosts'
  <2>1. \A f \in Goroutine : /\ post'[f] = Idle \/ (post'[f].slot \in Slot /\ post'[f].batch \in Batch /\ post'[f].batch < nextBatch')
                             /\ answer'[f] # "none" => post'[f] # Idle
    <3>1. \A f \in Goroutine \ {g} : post[f] # Idle => post[f].batch < nextBatch'
      <4>1. \A n \in Batch : n < nextBatch => n < nextBatch'
        BY <1>1 DEF Batch
      <4> QED
        BY <1>1, <4>1
    <3> QED
      BY <1>1, <1>3, <1>4, <1>6, <3>1
  <2>2. \A f, h \in Goroutine : f # h /\ post'[f] # Idle => post'[f].slot # post'[h].slot /\ post'[f].batch # post'[h].batch
    BY <1>3, <1>4, <1>6, <1>7 DEF DlPosts
  <2> QED
    BY <2>1, <2>2 DEF DlPosts
<1>10. DlRequests'
  <2>1. \A n \in Batch : n < nextBatch => n < nextBatch'
    BY <1>1 DEF Batch
  <2>2. /\ \A q \in net : q.batch \in Batch /\ q.batch < nextBatch
        /\ \A q, p \in net : q.slot = p.slot => q = p
        /\ \A q \in net : \A f \in Goroutine : post[f].slot = q.slot => post[f].batch = q.batch /\ answer[f] = "none"
    BY <1>1, <1>7 DEF DlRequests
  <2>3. \A q \in net' : q.batch < nextBatch'
    BY <1>4, <1>5, <2>1, <2>2
  <2>4. \A q, p \in net' : q.slot = p.slot => q = p
    BY <1>3, <1>4, <1>5, <2>2
  <2>5. \A q \in net' : \A f \in Goroutine : post'[f].slot = q.slot => post'[f].batch = q.batch /\ answer[f] = "none"
    BY <1>3, <1>4, <1>5, <1>6, <2>2
  <2> QED
    BY <2>3, <2>4, <2>5 DEF DlRequests
<1>11. DlSpooled'
  <2>1. \A c \in spool : c \in Nat /\ c < nextBatch /\ c # post["runner"].batch
    <3>1. Batch \subseteq Nat
      BY DEF Batch
    <3> QED
      BY <1>1, <1>7, <3>1 DEF DlSpooled
  <2>2. \A c \in spool : c < nextBatch'
    BY <1>1, <2>1
  <2>3. \A c \in spool : c # post'["runner"].batch
    <3>1. CASE g = "runner"
      BY <1>4, <1>6, <3>1
    <3>2. CASE g # "runner"
      <4>1. "runner" \in Goroutine \ {g}
        BY <3>2 DEF Goroutine
      <4> QED
        BY <1>6, <2>1, <4>1
    <3> QED
      BY <3>1, <3>2
  <2> QED
    BY <1>7, <2>2, <2>3 DEF DlSpooled
<1>12. DlStored'
  <2> SUFFICES ASSUME NEW f \in Goroutine, answer[f] = "ok"
               PROVE  carries'[post'[f].batch] \subseteq stored
    BY DEF DlStored
  <2>1. f # g /\ post[f] # Idle
    BY <1>1, <1>6
  <2>2. carries'[post[f].batch] = carries[post[f].batch]
    BY <1>1, <2>1
  <2> QED
    BY <1>6, <1>7, <2>1, <2>2 DEF DlStored
<1>13. DlTracked'
  <2>1. \A c \in Batch : c >= nextBatch' => points[c] = 0
    BY <1>1, <1>7 DEF DlTracked, Batch
  <2>2. ASSUME NEW c \in Batch \ doubted
        PROVE  /\ points[c] \in {0, 1}
               /\ \A q \in net' : q.batch = c => points[c] = 0 /\ \E f \in Goroutine : post'[f].slot = q.slot
               /\ points[c] = 1 => /\ \A f \in Goroutine : post'[f].batch = c => answer[f] \in {"none", "ok"}
                                   /\ c \in spool => post'["drainer"].batch = c
    <3>1. /\ points[c] \in {0, 1}
          /\ \A q \in net : q.batch = c => points[c] = 0 /\ \E f \in Goroutine : post[f].slot = q.slot
          /\ points[c] = 1 => /\ \A f \in Goroutine : post[f].batch = c => answer[f] \in {"none", "ok"}
                              /\ c \in spool => post["drainer"].batch = c
      BY <1>7 DEF DlTracked
    <3>2. ASSUME NEW q \in net', q.batch = c
          PROVE  points[c] = 0 /\ \E f \in Goroutine : post'[f].slot = q.slot
      <4>1. CASE q = r
        BY <1>4, <1>6, <3>2, <4>1
      <4>2. CASE q \in net
        <5>1. PICK f \in Goroutine : post[f].slot = q.slot
          BY <3>1, <3>2, <4>2
        <5>2. f # g
          BY <1>1, <1>6, <4>2, <5>1
        <5> QED
          BY <1>6, <3>1, <3>2, <4>2, <5>1, <5>2
      <4> QED
        BY <1>5, <4>1, <4>2
    <3>3. ASSUME points[c] = 1
          PROVE  /\ \A f \in Goroutine : post'[f].batch = c => answer[f] \in {"none", "ok"}
                 /\ c \in spool => post'["drainer"].batch = c
      <4>1. \A f \in Goroutine : post'[f].batch = c => answer[f] \in {"none", "ok"}
        BY <1>6, <3>1, <3>3
      <4>2. ASSUME c \in spool
            PROVE  post'["drainer"].batch = c
        <5>1. post["drainer"].batch = c /\ "drainer" \in Goroutine
          BY <3>1, <3>3, <4>2 DEF Goroutine
        <5>2. g # "drainer"
          BY <1>1, <1>6, <4>2, <5>1
        <5> QED
          BY <1>6, <5>1, <5>2
      <4> QED
        BY <4>1, <4>2
    <3> QED
      BY <3>1, <3>2, <3>3
  <2> QED
    BY <2>1, <2>2 DEF DlTracked
<1> QED
  BY <1>8, <1>9, <1>10, <1>11, <1>12, <1>13

\* A request is decided, and its sender, if it still waits, may hear of it: what it hears is true.
LEMMA DlAnswered ==
  ASSUME DlIInv, NEW q \in net, NEW status \in Answer, status # "none", Answers(q, status),
         stored \subseteq stored',
         \/ /\ status = "ok" /\ carries[q.batch] \subseteq stored'
            /\ points' = [points EXCEPT ![q.batch] = IF @ = 2 THEN 2 ELSE @ + 1]
         \/ status # "ok" /\ points' = points
  PROVE  /\ answer' \in [Goroutine -> Answer] /\ net' \subseteq [slot : Slot, batch : Batch] /\ points' \in [Batch -> 0..2]
         /\ DlPosts' /\ DlRequests' /\ DlSpooled' /\ DlStored' /\ DlTracked'
<1>1. /\ post \in [Goroutine -> [slot : 0..MaxNet, batch : 0..MaxBatch]]
      /\ answer \in [Goroutine -> Answer] /\ net \subseteq [slot : Slot, batch : Batch]
      /\ 0 \notin Slot /\ 0 \notin Batch /\ nextBatch \in Nat
      /\ \A f \in Goroutine : post[f] # Idle <=> post[f].slot \in Slot
      /\ \A f \in Goroutine : post[f] # Idle => post[f].batch \in Batch /\ post[f].batch < nextBatch
      /\ \A f \in Goroutine : post[f] = Idle => post[f].batch = 0 /\ post[f].slot = 0 /\ answer[f] = "none"
  BY DlPostFacts
<1>2. /\ net' = net \ {q} /\ post' = post /\ carries' = carries /\ events' = events
      /\ spool' = spool /\ nextBatch' = nextBatch /\ nextEvent' = nextEvent /\ doubted' = doubted
  BY DEF Answers, diskVars, histVars
<1>3. /\ \A f \in Goroutine : answer'[f] = answer[f] \/ (answer'[f] = status /\ post[f].slot = q.slot)
      /\ answer' \in [Goroutine -> Answer]
  <2>1. CASE answer' = answer
    BY <1>1, <2>1
  <2>2. ASSUME NEW g \in Goroutine, post[g].slot = q.slot, answer' = [answer EXCEPT ![g] = status]
        PROVE  /\ \A f \in Goroutine : answer'[f] = answer[f] \/ (answer'[f] = status /\ post[f].slot = q.slot)
               /\ answer' \in [Goroutine -> Answer]
    BY <1>1, <2>2
  <2> QED
    BY <2>1, <2>2 DEF Answers
<1>4. DlPosts /\ DlRequests /\ DlSpooled /\ DlStored /\ DlTracked
  BY DEF DlIInv
<1>5. q.slot \in Slot /\ q.batch \in Batch /\ \A f \in Goroutine : post[f].slot = q.slot => post[f].batch = q.batch /\ answer[f] = "none"
  BY <1>1, <1>4 DEF DlRequests
<1>6. points \in [Batch -> 0..2]
  BY DEF DlIInv, TypeOK
<1>7. /\ points' \in [Batch -> 0..2]
      /\ \A b \in Batch \ {q.batch} : points'[b] = points[b]
      /\ points'[q.batch] = points[q.batch] \/ (status = "ok" /\ points[q.batch] = 0 /\ points'[q.batch] = 1)
                                            \/ (status = "ok" /\ points[q.batch] # 0)
  <2>1. CASE points' = points
    BY <1>6, <2>1
  <2>2. CASE status = "ok" /\ points' = [points EXCEPT ![q.batch] = IF points[q.batch] = 2 THEN 2 ELSE points[q.batch] + 1]
    <3>1. (IF points[q.batch] = 2 THEN 2 ELSE points[q.batch] + 1) \in 0..2
      BY <1>5, <1>6
    <3> QED
      BY <1>5, <1>6, <2>2, <3>1
  <2> QED
    BY <2>1, <2>2
<1>8. DlPosts'
  <2>1. \A f \in Goroutine : answer'[f] # "none" => post[f] # Idle
    BY <1>1, <1>3, <1>5
  <2> QED
    BY <1>2, <1>4, <2>1 DEF DlPosts
<1>9. DlRequests'
  <2>1. \A p \in net' : \A f \in Goroutine : post[f].slot = p.slot => post[f].batch = p.batch /\ answer'[f] = "none"
    <3> SUFFICES ASSUME NEW p \in net', NEW f \in Goroutine, post[f].slot = p.slot
                 PROVE  post[f].batch = p.batch /\ answer'[f] = "none"
      OBVIOUS
    <3>1. p \in net /\ p.slot # q.slot
      BY <1>2, <1>4 DEF DlRequests
    <3> QED
      BY <1>3, <1>4, <3>1 DEF DlRequests
  <2> QED
    BY <1>2, <1>4, <2>1 DEF DlRequests
<1>10. DlSpooled'
  BY <1>2, <1>4 DEF DlSpooled
<1>11. DlStored'
  <2> SUFFICES ASSUME NEW f \in Goroutine, answer'[f] = "ok"
               PROVE  carries[post[f].batch] \subseteq stored'
    BY <1>2 DEF DlStored
  <2>1. CASE answer[f] = "ok"
    BY <1>4, <2>1 DEF DlStored
  <2>2. CASE answer[f] # "ok"
    <3>1. status = "ok" /\ post[f].batch = q.batch
      BY <1>3, <1>5, <2>2
    <3> QED
      BY <3>1
  <2> QED
    BY <2>1, <2>2
<1>12. DlTracked'
  <2>1. q.batch < nextBatch
    BY <1>4 DEF DlRequests
  <2>2. \A b \in Batch : b >= nextBatch => points'[b] = 0
    <3>1. \A b \in Batch : b >= nextBatch => points[b] = 0 /\ b # q.batch
      BY <1>1, <1>4, <2>1 DEF DlTracked, Batch
    <3> QED
      BY <1>7, <3>1
  <2>3. ASSUME NEW b \in Batch \ doubted
        PROVE  /\ points'[b] \in {0, 1}
               /\ \A p \in net' : p.batch = b => points'[b] = 0 /\ \E f \in Goroutine : post[f].slot = p.slot
               /\ points'[b] = 1 => /\ \A f \in Goroutine : post[f].batch = b => answer'[f] \in {"none", "ok"}
                                    /\ b \in spool => post["drainer"].batch = b
    <3>1. /\ points[b] \in {0, 1}
          /\ \A p \in net : p.batch = b => points[b] = 0 /\ \E f \in Goroutine : post[f].slot = p.slot
          /\ points[b] = 1 => /\ \A f \in Goroutine : post[f].batch = b => answer[f] \in {"none", "ok"}
                              /\ b \in spool => post["drainer"].batch = b
      BY <1>4 DEF DlTracked
    <3>2. CASE b # q.batch
      <4>1. points'[b] = points[b]
        BY <1>7, <3>2
      <4>2. \A f \in Goroutine : post[f].batch = b => answer'[f] = answer[f]
        BY <1>3, <1>5, <3>2
      <4> QED
        BY <1>2, <3>1, <4>1, <4>2
    <3>3. CASE b = q.batch
      <4>1. PICK g \in Goroutine : post[g].slot = q.slot
        BY <3>1, <3>3
      <4>2. points[b] = 0
        BY <3>1, <3>3
      <4>3. \A f \in Goroutine : post[f].batch = b => f = g
        BY <1>1, <1>4, <1>5, <3>3, <4>1 DEF DlPosts
      <4>4. \A p \in net' : p.batch # b
        <5> SUFFICES ASSUME NEW p \in net, p # q, p.batch = b
                     PROVE  FALSE
          BY <1>2
        <5>1. PICK f \in Goroutine : post[f].slot = p.slot
          BY <3>1
        <5>2. post[f].batch = b
          BY <1>4, <5>1 DEF DlRequests
        <5>3. p.slot = q.slot
          BY <4>1, <4>3, <5>1, <5>2
        <5> QED
          BY <1>4, <5>3 DEF DlRequests
      <4>5. points'[b] = 0 \/ (status = "ok" /\ points'[b] = 1)
        BY <1>7, <3>3, <4>2
      <4>6. status = "ok" => \A f \in Goroutine : post[f].batch = b => answer'[f] \in {"none", "ok"}
        BY <1>3, <1>5, <3>3, <4>1, <4>3
      <4>7. b \in spool => post["drainer"].batch = b
        <5>1. b \in spool => g # "runner"
          BY <1>4, <1>5, <3>3, <4>1 DEF DlSpooled
        <5> QED
          BY <1>5, <3>3, <4>1, <5>1 DEF Goroutine
      <4> QED
        BY <4>4, <4>5, <4>6, <4>7
    <3> QED
      BY <3>2, <3>3
  <2> QED
    BY <1>2, <2>2, <2>3 DEF DlTracked
<1> QED
  BY <1>2, <1>1, <1>3, <1>7, <1>8, <1>9, <1>10, <1>11, <1>12

\* What the process forgets it doubts.
LEMMA DlForgotten ==
  ASSUME DlIInv, MemoryLost, spool' \subseteq spool,
         UNCHANGED <<net, nextBatch, nextEvent, points, carries, stored>>
  PROVE  /\ post' \in [Goroutine -> [slot : 0..MaxNet, batch : 0..MaxBatch]] /\ answer' \in [Goroutine -> Answer]
         /\ doubted' \subseteq Batch /\ DlPosts' /\ DlRequests' /\ DlSpooled' /\ DlStored' /\ DlTracked'
<1>1. /\ post \in [Goroutine -> [slot : 0..MaxNet, batch : 0..MaxBatch]]
      /\ net \subseteq [slot : Slot, batch : Batch] /\ doubted \subseteq Batch /\ spool \subseteq Batch
      /\ 0 \notin Slot /\ 0 \notin Batch
      /\ \A f \in Goroutine : post[f] # Idle <=> post[f].slot \in Slot
      /\ \A f \in Goroutine : post[f] # Idle => post[f].batch \in Batch
  BY DlPostFacts
<1>2. /\ post' = [g \in Goroutine |-> Idle] /\ answer' = [g \in Goroutine |-> "none"] /\ events' = {}
      /\ doubted' = doubted \cup PendingPosts
  BY DEF MemoryLost
<1>3. PendingPosts \subseteq Batch /\ \A f \in Goroutine : post[f] # Idle => post[f].batch \in PendingPosts
  BY <1>1 DEF PendingPosts
<1>4. Idle.slot = 0 /\ Idle.batch = 0 /\ Idle \in [slot : 0..MaxNet, batch : 0..MaxBatch] /\ "none" \in Answer
  BY DeliveryAssumption DEF Idle, Answer
<1>5. DlPosts /\ DlRequests /\ DlSpooled /\ DlStored /\ DlTracked
  BY DEF DlIInv
<1>6. post' \in [Goroutine -> [slot : 0..MaxNet, batch : 0..MaxBatch]] /\ answer' \in [Goroutine -> Answer]
  BY <1>2, <1>4
<1>7. \A f \in Goroutine : post'[f] = Idle /\ answer'[f] = "none"
  BY <1>2
<1>8. DlPosts'
  BY <1>7 DEF DlPosts
<1>9. DlRequests'
  BY <1>1, <1>4, <1>5, <1>7 DEF DlRequests
<1>10. DlSpooled'
  <2>1. post'["runner"].batch = 0
    BY <1>4, <1>7 DEF Goroutine
  <2> QED
    BY <1>1, <1>2, <1>5, <2>1 DEF DlSpooled
<1>11. DlStored'
  BY <1>7 DEF DlStored
<1>12. DlTracked'
  <2>1. ASSUME NEW b \in Batch \ doubted'
        PROVE  /\ points[b] \in {0, 1}
               /\ \A q \in net : q.batch # b
               /\ points[b] = 1 => b \notin spool
    <3>1. /\ points[b] \in {0, 1}
          /\ \A q \in net : q.batch = b => \E f \in Goroutine : post[f].slot = q.slot
          /\ points[b] = 1 => (b \in spool => post["drainer"].batch = b)
      BY <1>2, <1>5 DEF DlTracked
    <3>2. \A f \in Goroutine : post[f] # Idle => post[f].batch # b
      BY <1>2, <1>3
    <3>3. ASSUME NEW q \in net, q.batch = b
          PROVE  FALSE
      <4>1. PICK f \in Goroutine : post[f].slot = q.slot
        BY <3>1, <3>3
      <4>2. post[f] # Idle /\ post[f].batch = b
        BY <1>1, <1>5, <3>3, <4>1 DEF DlRequests
      <4> QED
        BY <3>2, <4>2
    <3>4. post["drainer"].batch # b
      BY <1>4, <1>1, <3>2 DEF Goroutine
    <3> QED
      BY <3>1, <3>3, <3>4
  <2>2. \A b \in Batch : b >= nextBatch => points[b] = 0
    BY <1>5 DEF DlTracked
  <2>3. \A b \in Batch \ doubted' : \A f \in Goroutine : post'[f].batch # b
    BY <1>1, <1>4, <1>7
  <2> QED
    BY <2>1, <2>2, <2>3 DEF DlTracked
<1> QED
  BY <1>1, <1>2, <1>3, <1>6, <1>8, <1>9, <1>10, <1>11, <1>12

\* A step that puts nothing where it could be forgotten loses no event.
LEMMA DlKept ==
  ASSUME NoSilentLoss, nextEvent' = nextEvent, stored \subseteq stored', excused \subseteq excused',
         \A e \in events : e \in events' \/ e \in EventsIn(spool)' \/ e \in stored' \/ e \in excused',
         \A b \in spool : \A e \in carries[b] : e \in EventsIn(spool)' \/ e \in stored' \/ e \in excused'
  PROVE  NoSilentLoss'
<1> SUFFICES ASSUME NEW e \in 1..nextEvent - 1
             PROVE  e \in events' \/ e \in EventsIn(spool)' \/ e \in stored' \/ e \in excused'
  BY DEF NoSilentLoss
<1>1. e \in events \/ e \in EventsIn(spool) \/ e \in stored \/ e \in excused
  BY DEF NoSilentLoss
<1>2. e \in EventsIn(spool) => \E b \in spool : e \in carries[b]
  BY DEF EventsIn
<1> QED
  BY <1>1, <1>2

\* Events are in a spooled batch if they are in one of the batches.
LEMMA DlEventsIn ==
  ASSUME NEW S \in SUBSET Batch
  PROVE  /\ carries \in [Batch -> SUBSET Event] => EventsIn(S) \subseteq Event
         /\ \A b \in S : carries[b] \subseteq EventsIn(S)
  BY DEF EventsIn

\* A part of the buffer is not larger than the buffer.
LEMMA DlFits ==
  ASSUME TypeOK, NEW S \in SUBSET events
  PROVE  /\ S \subseteq Event /\ IsFiniteSet(S) /\ Cardinality(S) \in Nat /\ Cardinality(S) <= Cardinality(events)
         /\ Cardinality(events) \in Nat /\ Cardinality(S) <= EventCap
<1>1. IsFiniteSet(Event)
  <2>1. 1 \in Int /\ MaxEvent \in Int
    BY DeliveryAssumption
  <2> QED
    BY <2>1, FS_Interval DEF Event
<1>2. IsFiniteSet(events) /\ S \subseteq Event
  BY <1>1, FS_Subset DEF TypeOK
<1>3. IsFiniteSet(S) /\ Cardinality(S) <= Cardinality(events) /\ Cardinality(S) \in Nat /\ Cardinality(events) \in Nat
  BY <1>2, FS_Subset, FS_CardinalityType
<1>4. Cardinality(events) <= EventCap /\ EventCap \in Nat
  BY DeliveryAssumption DEF TypeOK
<1> QED
  BY <1>2, <1>3, <1>4

\* The spool is a finite set, and so is a smaller one with a batch more.
LEMMA DlSpoolSize ==
  ASSUME NEW S \in SUBSET Batch
  PROVE  Cardinality(S) \in Nat /\ (fileSize \in Nat => Grown(Cardinality(S)) \in Nat)
<1>1. IsFiniteSet(Batch)
  <2>1. 1 \in Int /\ MaxBatch \in Int
    BY DeliveryAssumption
  <2> QED
    BY <2>1, FS_Interval DEF Batch
<1>2. Cardinality(S) \in Nat
  BY <1>1, FS_Subset, FS_CardinalityType
<1> QED
  BY <1>2 DEF Grown

\* What dropOldest drops was in the spool.
LEMMA DlDropped == ASSUME NEW out \in Dropped PROVE out \subseteq spool
  BY DEF Dropped, Oldest

\* The agent and the server start in the invariant.
LEMMA DlInit == Init => DlIInv
<1> SUFFICES ASSUME Init
             PROVE  DlIInv
  OBVIOUS
<1>1. {MaxBatch, MaxEvent, MaxNet, EventCap} \subseteq Nat \ {0}
  BY DeliveryAssumption
<1>2. Idle.slot = 0 /\ Idle.batch = 0 /\ Idle \in [slot : 0..MaxNet, batch : 0..MaxBatch]
  BY <1>1 DEF Idle
<1>3. Cardinality(events) = 0 /\ events = {}
  BY FS_EmptySet DEF Init
<1>4. TypeOK
  <2>1. Cardinality(events) <= EventCap /\ 0 \in 0..2 /\ nextBatch \in 1..MaxBatch + 1 /\ nextEvent \in 1..MaxEvent + 1
    BY <1>1, <1>3 DEF Init
  <2>2. post \in [Goroutine -> [slot : 0..MaxNet, batch : 0..MaxBatch]] /\ answer \in [Goroutine -> Answer]
    BY <1>2 DEF Init, Answer
  <2> QED
    BY <1>3, <2>1, <2>2 DEF Init, TypeOK
<1>5. NoSilentLoss
  <2>1. 1..nextEvent - 1 = {}
    BY DEF Init
  <2> QED
    BY <2>1 DEF NoSilentLoss
<1>6. \A g \in Goroutine : post[g] = Idle /\ answer[g] = "none"
  BY DEF Init
<1>7. DlPosts /\ DlRequests /\ DlStored
  BY <1>6 DEF Init, DlPosts, DlRequests, DlStored
<1>8. DlSpooled
  BY <1>3 DEF Init, DlSpooled
<1>9. DlTracked
  BY <1>2, <1>6 DEF Init, DlTracked
<1> QED
  BY <1>4, <1>5, <1>7, <1>8, <1>9 DEF DlIInv

\* A new event keeps the invariant, whatever it drops from the buffer.
LEMMA DlPushEvent == DlIInv /\ PushEvent => DlIInv'
<1> SUFFICES ASSUME DlIInv, PushEvent
             PROVE  DlIInv'
  OBVIOUS
<1>1. TypeOK /\ NoSilentLoss /\ nextEvent \in Nat /\ nextEvent \in Event /\ MaxEvent \in Nat
  BY DeliveryAssumption DEF DlIInv, TypeOK, PushEvent, Event
<1>2. PICK out : /\ out = IF Cardinality(events) >= EventCap THEN {Min(events)} ELSE {}
                 /\ events' = (events \ out) \cup {nextEvent} /\ excused' = excused \cup out
  BY DEF PushEvent
<1>3. Cardinality(events) \in Nat /\ IsFiniteSet(events) /\ EventCap \in Nat \ {0} /\ Cardinality(events) <= EventCap
  BY <1>1, DlFits, DeliveryAssumption DEF TypeOK
<1>4. out \subseteq events /\ (Cardinality(events) >= EventCap => out = {Min(events)} /\ Min(events) \in events)
  <2>1. CASE Cardinality(events) >= EventCap
    <3>1. events # {}
      BY <1>3, <2>1, FS_EmptySet
    <3>2. events \in SUBSET Nat
      BY <1>1 DEF TypeOK, Event
    <3>3. Min(events) \in events
      BY <3>1, <3>2, LeastIsMember
    <3> QED
      BY <1>2, <2>1, <3>3
  <2>2. CASE ~(Cardinality(events) >= EventCap)
    BY <1>2, <2>2
  <2> QED
    BY <2>1, <2>2
<1>5. Cardinality(events') <= EventCap
  <2> DEFINE rest == events \ out
  <2>1. IsFiniteSet(rest) /\ Cardinality(rest) \in Nat /\ Cardinality(rest) <= Cardinality(events)
    BY <1>1, DlFits
  <2>2. Cardinality(rest) < EventCap
    <3>1. CASE Cardinality(events) >= EventCap
      <4>1. events = rest \cup {Min(events)} /\ Min(events) \notin rest
        BY <1>4, <3>1
      <4>2. Cardinality(events) = Cardinality(rest) + 1
        BY <2>1, <4>1, FS_AddElement
      <4> HIDE DEF rest
      <4> QED
        BY <1>3, <2>1, <4>2
    <3> HIDE DEF rest
    <3> QED
      BY <1>3, <2>1, <3>1
  <2>3. nextEvent \notin rest
    BY <1>1 DEF DlIInv, DlSpooled
  <2>4. Cardinality(rest \cup {nextEvent}) = Cardinality(rest) + 1
    BY <2>1, <2>3, FS_AddElement
  <2>5. events' = rest \cup {nextEvent}
    BY <1>2
  <2> HIDE DEF rest
  <2> QED
    BY <1>3, <2>1, <2>2, <2>4, <2>5
<1>6. /\ nextEvent' = nextEvent + 1 /\ nextEvent' \in 1..MaxEvent + 1
      /\ UNCHANGED <<proc, dereg, post, answer, spool, fileSize, sentinel, net, deleted, points, stored, nextBatch, crashes, carries, doubted>>
  BY <1>1 DEF PushEvent, diskVars, serverVars, TypeOK
<1>7. events' \subseteq Event /\ excused' \subseteq Event
  BY <1>1, <1>2, <1>4 DEF TypeOK
<1>8. TypeOK'
  BY <1>1, <1>5, <1>6, <1>7 DEF TypeOK
<1>9. NoSilentLoss'
  <2> SUFFICES ASSUME NEW e \in 1..nextEvent
               PROVE  e \in events' \/ e \in EventsIn(spool)' \/ e \in stored \/ e \in excused'
    BY <1>1, <1>6 DEF NoSilentLoss
  <2>1. EventsIn(spool)' = EventsIn(spool)
    BY <1>6 DEF EventsIn
  <2>2. e = nextEvent \/ e \in 1..nextEvent - 1
    BY <1>1
  <2> QED
    BY <1>1, <1>2, <2>1, <2>2 DEF NoSilentLoss
<1>10. DlSpooled'
  <2>1. \A e \in events' : e < nextEvent'
    <3>1. \A e \in Event : e < nextEvent \/ e = nextEvent => e < nextEvent + 1
      BY <1>1 DEF Event
    <3> QED
      BY <1>1, <1>2, <1>6, <1>7, <3>1 DEF DlIInv, DlSpooled
  <2> QED
    BY <1>6, <2>1 DEF DlIInv, DlSpooled
<1>11. (DlPosts /\ DlRequests /\ DlStored /\ DlTracked)'
  BY <1>6 DEF DlIInv, DlPosts, DlRequests, DlStored, DlTracked
<1> QED
  BY <1>8, <1>9, <1>10, <1>11 DEF DlIInv

\* A tick of the runner, which takes a batch from the buffer, keeps the invariant.
LEMMA DlTick == DlIInv /\ Tick => DlIInv'
<1> SUFFICES ASSUME DlIInv, Tick
             PROVE  DlIInv'
  OBVIOUS
<1>1. TypeOK /\ NoSilentLoss /\ nextBatch \in Batch /\ MaxBatch \in Nat /\ nextBatch \in Nat
  BY DeliveryAssumption DEF DlIInv, TypeOK, Tick, Batch
<1>2. /\ carries' = [carries EXCEPT ![nextBatch] = Oldest(events, ReportCap)] /\ nextBatch' = nextBatch + 1
      /\ UNCHANGED <<proc, dereg, events, answer, spool, fileSize, sentinel, deleted, points, stored, nextEvent, crashes, doubted, excused>>
      /\ PostBegin("runner", nextBatch)
  BY DEF Tick, diskVars, serverVars
<1>3. nextBatch' \in 1..MaxBatch + 1 /\ nextBatch' \in Nat /\ nextBatch <= nextBatch' /\ nextBatch < nextBatch'
  BY <1>1, <1>2 DEF Batch
<1>4. carries' \in [Batch -> SUBSET Event] /\ \A c \in Batch : c < nextBatch => carries'[c] = carries[c]
  <2>1. Oldest(events, ReportCap) \subseteq Event
    BY <1>1 DEF TypeOK, Oldest
  <2>2. \A c \in Batch : c < nextBatch => c # nextBatch
    BY <1>1
  <2> QED
    BY <1>1, <1>2, <2>1, <2>2 DEF TypeOK
<1>5. nextBatch \notin spool /\ points[nextBatch] = 0 /\ \A f \in Goroutine : post[f].batch # nextBatch
  <2>1. nextBatch \notin spool
    BY <1>1 DEF DlIInv, DlSpooled
  <2>2. points[nextBatch] = 0
    BY <1>1 DEF DlIInv, DlTracked
  <2>3. \A f \in Goroutine : post[f].batch # nextBatch
    BY <1>1, DlPostFacts
  <2> QED
    BY <2>1, <2>2, <2>3
<1>6. "runner" \in Goroutine
  BY DEF Goroutine
<1>7. /\ post' \in [Goroutine -> [slot : 0..MaxNet, batch : 0..MaxBatch]] /\ net' \subseteq [slot : Slot, batch : Batch]
      /\ DlPosts' /\ DlRequests' /\ DlSpooled' /\ DlStored' /\ DlTracked'
  BY <1>1, <1>2, <1>3, <1>4, <1>5, <1>6, DlBegun
<1>8. TypeOK'
  BY <1>1, <1>2, <1>3, <1>4, <1>7 DEF TypeOK
<1>9. NoSilentLoss'
  <2>1. \A b \in spool : b \in Batch /\ b < nextBatch
    BY <1>1 DEF DlIInv, DlSpooled, TypeOK
  <2>2. EventsIn(spool)' = EventsIn(spool)
    BY <1>2, <1>4, <2>1 DEF EventsIn
  <2> QED
    BY <1>1, <1>2, <2>2 DEF NoSilentLoss
<1> QED
  BY <1>7, <1>8, <1>9 DEF DlIInv

\* Reading the oldest batch of the spool keeps the invariant.
LEMMA DlDrainPeek == DlIInv /\ DrainPeek => DlIInv'
<1> SUFFICES ASSUME DlIInv, DrainPeek
             PROVE  DlIInv'
  OBVIOUS
<1> DEFINE b == Min(spool)
<1>1. TypeOK /\ NoSilentLoss /\ nextBatch \in Nat
  BY DlPostFacts DEF DlIInv
<1>2. /\ UNCHANGED <<proc, dereg, events, answer, spool, fileSize, sentinel, deleted, points, stored, nextBatch, nextEvent, crashes, carries, doubted, excused>>
      /\ PostBegin("drainer", b)
  BY DEF DrainPeek, diskVars, serverVars, histVars
<1>3. b \in spool /\ b \in Batch
  <2>1. spool \in SUBSET Batch /\ Batch \subseteq Nat /\ spool # {}
    BY <1>1 DEF DrainPeek, TypeOK, Batch
  <2>2. spool \in SUBSET Nat
    BY <2>1
  <2> QED
    BY <2>1, <2>2, LeastIsMember
<1> HIDE DEF b
<1>4. b < nextBatch /\ b # post["runner"].batch
  BY <1>3 DEF DlIInv, DlSpooled
<1>5. post["drainer"] = Idle
  BY <1>2 DEF PostBegin
<1>6. post["drainer"].batch = 0 /\ 0 \notin Batch
  BY <1>5, DlPostFacts DEF Goroutine
<1>7. \A f \in Goroutine : post[f].batch # b
  BY <1>3, <1>4, <1>6 DEF Goroutine
<1>8. b \notin doubted => points[b] = 0
  BY <1>3, <1>6 DEF DlIInv, DlTracked
<1>9. "drainer" \in Goroutine /\ "drainer" # "runner"
  BY DEF Goroutine
<1>10. /\ post' \in [Goroutine -> [slot : 0..MaxNet, batch : 0..MaxBatch]] /\ net' \subseteq [slot : Slot, batch : Batch]
       /\ DlPosts' /\ DlRequests' /\ DlSpooled' /\ DlStored' /\ DlTracked'
  <2>1. nextBatch' \in Nat /\ nextBatch <= nextBatch' /\ b < nextBatch'
    BY <1>1, <1>2, <1>4
  <2> QED
    BY <1>2, <1>3, <1>7, <1>8, <1>9, <2>1, DlBegun
<1>11. TypeOK'
  BY <1>1, <1>2, <1>10 DEF TypeOK
<1>12. NoSilentLoss'
  <2>1. EventsIn(spool)' = EventsIn(spool)
    BY <1>2 DEF EventsIn
  <2> QED
    BY <1>1, <1>2, <2>1 DEF NoSilentLoss
<1> QED
  BY <1>10, <1>11, <1>12 DEF DlIInv

\* What is known of a post that has an answer, or waits for one.
LEMMA DlPending ==
  ASSUME DlIInv, NEW g \in Goroutine, answer[g] # "none" \/ Unanswered(g)
  PROVE  /\ post[g] # Idle /\ post[g].batch \in Batch /\ post[g].batch < nextBatch
         /\ answer[g] \notin {"none", "ok"} /\ post[g].batch \notin doubted => points[post[g].batch] # 1
         /\ g = "runner" => post[g].batch \notin spool
<1>1. post[g] # Idle /\ post[g].batch \in Batch /\ post[g].batch < nextBatch
  BY DlPostFacts DEF Unanswered
<1>2. answer[g] \notin {"none", "ok"} /\ post[g].batch \notin doubted => points[post[g].batch] # 1
  BY <1>1 DEF DlIInv, DlTracked
<1>3. g = "runner" => post[g].batch \notin spool
  BY DEF DlIInv, DlSpooled
<1> QED
  BY <1>1, <1>2, <1>3

\* A step that only ends a post: nothing is spooled, dropped or stored.
LEMMA DlOnlyEnds ==
  ASSUME DlIInv, NEW g \in Goroutine, PostEnd(g), answer[g] # "none" \/ Unanswered(g),
         UNCHANGED <<proc, spool, fileSize, sentinel, net, deleted, points, stored, nextBatch, nextEvent, crashes, carries, excused>>,
         dereg' \in BOOLEAN, events' \subseteq events, \A e \in events : e \in events' \/ e \in stored,
         \/ doubted' = doubted /\ answer[g] # "none" /\ (answer[g] # "ok" \/ g = "runner")
         \/ doubted' = doubted \cup {post[g].batch}
  PROVE  DlIInv'
<1>1. TypeOK /\ NoSilentLoss /\ spool \subseteq Batch /\ doubted \subseteq Batch /\ spool' = spool
  BY DlPostFacts DEF DlIInv
<1>2. /\ post[g] # Idle /\ post[g].batch \in Batch
      /\ answer[g] \notin {"none", "ok"} /\ post[g].batch \notin doubted => points[post[g].batch] # 1
      /\ g = "runner" => post[g].batch \notin spool
  BY DlPending
<1>3. doubted \subseteq doubted' /\ doubted' \subseteq Batch /\ (answer[g] = "none" => post[g].batch \in doubted')
  BY <1>1, <1>2
<1>4. post[g].batch \notin doubted' /\ points[post[g].batch] = 1 => post[g].batch \notin spool'
  BY <1>1, <1>2
<1>5. /\ post' \in [Goroutine -> [slot : 0..MaxNet, batch : 0..MaxBatch]] /\ answer' \in [Goroutine -> Answer]
      /\ DlPosts' /\ DlRequests' /\ DlSpooled' /\ DlStored' /\ DlTracked'
  BY <1>1, <1>2, <1>3, <1>4, DlEnded
<1>6. TypeOK'
  <2>1. events' \subseteq Event /\ Cardinality(events') <= EventCap
    BY <1>1, DlFits
  <2> QED
    BY <1>1, <1>3, <1>5, <2>1 DEF TypeOK
<1>7. NoSilentLoss'
  <2>1. EventsIn(spool)' = EventsIn(spool) /\ \A b \in spool : carries[b] \subseteq EventsIn(spool)
    BY <1>1 DEF EventsIn
  <2> QED
    BY <1>1, <2>1, DlKept
<1> QED
  BY <1>5, <1>6, <1>7 DEF DlIInv

\* The ends of a post that put nothing in the spool and take nothing from it keep the invariant.
LEMMA DlSimpleEnds ==
  /\ DlIInv /\ SendAccepted => DlIInv'
  /\ DlIInv /\ SendRejected => DlIInv'
  /\ DlIInv /\ DrainDeleteFailed => DlIInv'
  /\ DlIInv /\ DrainRejectKept => DlIInv'
  /\ DlIInv /\ DrainRetry => DlIInv'
  /\ \A g \in Goroutine : DlIInv /\ SawGone(g) => DlIInv'
<1> DEFINE old == <<proc, spool, fileSize, sentinel, net, deleted, points, stored, nextBatch, nextEvent, crashes, carries, excused>>
<1>1. "runner" \in Goroutine /\ "drainer" \in Goroutine
  BY DEF Goroutine
<1>2. ASSUME DlIInv PROVE dereg \in BOOLEAN
  BY <1>2 DEF DlIInv, TypeOK
<1>3. ASSUME DlIInv, SendAccepted PROVE DlIInv'
  <2>1. events' = events \ carries[post["runner"].batch] /\ answer["runner"] = "ok"
    BY <1>3 DEF SendAccepted, Acknowledge
  <2>2. carries[post["runner"].batch] \subseteq stored
    BY <1>1, <1>3, <2>1 DEF DlIInv, DlStored
  <2>3. PostEnd("runner") /\ UNCHANGED old /\ doubted' = doubted /\ dereg' = dereg
    BY <1>3 DEF SendAccepted, diskVars, serverVars, histVars
  <2>4. events' \subseteq events /\ \A e \in events : e \in events' \/ e \in stored
    BY <2>1, <2>2
  <2>5. answer["runner"] # "none" /\ (answer["runner"] # "ok" \/ "runner" = "runner")
    BY <2>1
  <2> QED
    BY <1>1, <1>2, <1>3, <2>3, <2>4, <2>5, DlOnlyEnds
<1>4. ASSUME DlIInv, SendRejected PROVE DlIInv'
  <2>1. PostEnd("runner") /\ UNCHANGED old /\ doubted' = doubted /\ dereg' = dereg /\ events' = events /\ answer["runner"] = "reject"
    BY <1>4 DEF SendRejected, diskVars, serverVars, histVars
  <2> QED
    BY <1>1, <1>2, <1>4, <2>1, DlOnlyEnds
<1>5. ASSUME DlIInv, DrainDeleteFailed PROVE DlIInv'
  <2>1. /\ PostEnd("drainer") /\ UNCHANGED old /\ dereg' = dereg /\ events' = events /\ answer["drainer"] = "ok"
        /\ doubted' = doubted \cup {post["drainer"].batch}
    BY <1>5 DEF DrainDeleteFailed, DoubtIf, diskVars, serverVars
  <2> QED
    BY <1>1, <1>2, <1>5, <2>1, DlOnlyEnds
<1>6. ASSUME DlIInv, DrainRejectKept PROVE DlIInv'
  <2>1. PostEnd("drainer") /\ UNCHANGED old /\ doubted' = doubted /\ dereg' = dereg /\ events' = events /\ answer["drainer"] = "reject"
    BY <1>6 DEF DrainRejectKept, diskVars, serverVars, histVars
  <2> QED
    BY <1>1, <1>2, <1>6, <2>1, DlOnlyEnds
<1>7. ASSUME DlIInv, DrainRetry PROVE DlIInv'
  <2>1. /\ PostEnd("drainer") /\ UNCHANGED old /\ dereg' = dereg /\ events' = events
        /\ answer["drainer"] = "retry" \/ Unanswered("drainer")
        /\ doubted' = IF answer["drainer"] = "none" THEN doubted \cup {post["drainer"].batch} ELSE doubted
    BY <1>7 DEF DrainRetry, DoubtIf, diskVars, serverVars
  <2>2. CASE answer["drainer"] = "retry"
    BY <1>1, <1>2, <1>7, <2>1, <2>2, DlOnlyEnds
  <2>3. CASE Unanswered("drainer")
    <3>1. doubted' = doubted \cup {post["drainer"].batch}
      BY <2>1, <2>3 DEF Unanswered
    <3> QED
      BY <1>1, <1>2, <1>7, <2>1, <2>3, <3>1, DlOnlyEnds
  <2> QED
    BY <2>1, <2>2, <2>3
<1>8. ASSUME DlIInv, NEW g \in Goroutine, SawGone(g) PROVE DlIInv'
  <2>1. PostEnd(g) /\ UNCHANGED old /\ doubted' = doubted /\ dereg' = TRUE /\ events' = events /\ answer[g] = "gone"
    BY <1>8 DEF SawGone, diskVars, serverVars, histVars
  <2> QED
    BY <1>8, <2>1, DlOnlyEnds
<1> HIDE DEF old
<1> QED
  BY <1>3, <1>4, <1>5, <1>6, <1>7, <1>8

\* The batch goes to the spool: nothing the spool must drop for it, or fails to take, is lost unexcused.
LEMMA DlSendSpooled == DlIInv /\ SendSpooled => DlIInv'
<1> SUFFICES ASSUME DlIInv, SendSpooled
             PROVE  DlIInv'
  OBVIOUS
<1> DEFINE b == post["runner"].batch
<1>1. TypeOK /\ NoSilentLoss /\ spool \subseteq Batch /\ doubted \subseteq Batch
  BY DlPostFacts DEF DlIInv
<1>2. PICK out \in Dropped : /\ spool' = (spool \ out) \cup {b} /\ excused' = excused \cup EventsIn(out)
                             /\ fileSize' = Grown(Cardinality(spool'))
  BY DEF SendSpooled, Enqueue
<1>3. /\ events' = events \ carries[b] /\ doubted' = IF answer["runner"] = "none" THEN doubted \cup {b} ELSE doubted
      /\ PostEnd("runner") /\ (answer["runner"] = "retry" \/ Unanswered("runner"))
      /\ UNCHANGED <<proc, dereg, sentinel, net, deleted, points, stored, nextBatch, nextEvent, crashes, carries>>
  BY DEF SendSpooled, Acknowledge, DoubtIf, RetryableRunner, serverVars
<1>4. "runner" \in Goroutine /\ out \subseteq spool
  BY DlDropped DEF Goroutine
<1>5. /\ post["runner"] # Idle /\ b \in Batch
      /\ answer["runner"] \notin {"none", "ok"} /\ b \notin doubted => points[b] # 1
  BY <1>3, <1>4, DlPending
<1>6. /\ doubted \subseteq doubted' /\ doubted' \subseteq Batch /\ (answer["runner"] = "none" => b \in doubted')
      /\ (b \notin doubted' => points[b] # 1)
      /\ spool' \subseteq Batch
      /\ \A c \in spool' : c \in spool \/ c = b
      /\ events' \subseteq events
  <2>1. answer["runner"] # "none" => answer["runner"] = "retry"
    BY <1>3 DEF Unanswered
  <2> HIDE DEF b
  <2> QED
    BY <1>1, <1>2, <1>3, <1>5, <2>1
<1>7. /\ post' \in [Goroutine -> [slot : 0..MaxNet, batch : 0..MaxBatch]] /\ answer' \in [Goroutine -> Answer]
      /\ DlPosts' /\ DlRequests' /\ DlSpooled' /\ DlStored' /\ DlTracked'
  BY <1>3, <1>4, <1>5, <1>6, DlEnded
<1>8. TypeOK'
  <2>1. events' \subseteq Event /\ Cardinality(events') <= EventCap
    BY <1>1, <1>6, DlFits
  <2>2. excused' \subseteq Event
    <3>1. EventsIn(out) \subseteq Event
      BY <1>1, <1>4, DlEventsIn DEF TypeOK
    <3> QED
      BY <1>1, <1>2, <3>1 DEF TypeOK
  <2>3. fileSize' \in Nat
    BY <1>1, <1>2, <1>6, DlSpoolSize DEF TypeOK
  <2> QED
    BY <1>1, <1>3, <1>6, <1>7, <2>1, <2>2, <2>3 DEF TypeOK
<1>9. NoSilentLoss'
  <2>1. \A c \in spool' : carries[c] \subseteq EventsIn(spool)'
    BY <1>3 DEF EventsIn
  <2>2. \A c \in out : carries[c] \subseteq excused'
    BY <1>1, <1>2, <1>4, DlEventsIn
  <2>3. b \in spool'
    BY <1>2
  <2>4. \A e \in events : e \in events' \/ e \in EventsIn(spool)'
    BY <1>3, <2>1, <2>3
  <2>5. \A c \in spool : \A e \in carries[c] : e \in EventsIn(spool)' \/ e \in excused'
    BY <1>2, <2>1, <2>2
  <2>6. nextEvent' = nextEvent /\ stored \subseteq stored' /\ excused \subseteq excused'
    BY <1>2, <1>3
  <2> QED
    BY <1>1, <2>4, <2>5, <2>6, DlKept
<1> QED
  BY <1>7, <1>8, <1>9 DEF DlIInv

\* A post that fails puts its batch in the spool and keeps the invariant.
LEMMA DlSendFailed == DlIInv /\ SendFailed => DlIInv'
<1> SUFFICES ASSUME DlIInv, SendFailed
             PROVE  DlIInv'
  OBVIOUS
<1> DEFINE b == post["runner"].batch
<1>1. TypeOK /\ NoSilentLoss /\ spool \subseteq Batch /\ doubted \subseteq Batch
  BY DlPostFacts DEF DlIInv
<1>2. PICK out \in Dropped : spool' = spool \ out /\ excused' = excused \cup EventsIn(out) /\ fileSize' = fileSize
  BY DEF SendFailed, EnqueueError
<1>3. /\ doubted' = IF answer["runner"] = "none" THEN doubted \cup {b} ELSE doubted
      /\ PostEnd("runner") /\ (answer["runner"] = "retry" \/ Unanswered("runner"))
      /\ UNCHANGED <<proc, dereg, events, sentinel, net, deleted, points, stored, nextBatch, nextEvent, crashes, carries>>
  BY DEF SendFailed, DoubtIf, RetryableRunner, serverVars
<1>4. "runner" \in Goroutine /\ out \subseteq spool
  BY DlDropped DEF Goroutine
<1>5. /\ post["runner"] # Idle /\ b \in Batch
      /\ answer["runner"] \notin {"none", "ok"} /\ b \notin doubted => points[b] # 1
  BY <1>3, <1>4, DlPending
<1>6. /\ doubted \subseteq doubted' /\ doubted' \subseteq Batch /\ (answer["runner"] = "none" => b \in doubted')
      /\ (b \notin doubted' => points[b] # 1)
      /\ spool' \subseteq Batch
      /\ \A c \in spool' : c \in spool
      /\ events' \subseteq events
  <2>1. answer["runner"] # "none" => answer["runner"] = "retry"
    BY <1>3 DEF Unanswered
  <2> HIDE DEF b
  <2> QED
    BY <1>1, <1>2, <1>3, <1>5, <2>1
<1>7. /\ post' \in [Goroutine -> [slot : 0..MaxNet, batch : 0..MaxBatch]] /\ answer' \in [Goroutine -> Answer]
      /\ DlPosts' /\ DlRequests' /\ DlSpooled' /\ DlStored' /\ DlTracked'
  BY <1>3, <1>4, <1>5, <1>6, DlEnded
<1>8. TypeOK'
  <2>1. excused' \subseteq Event
    <3>1. EventsIn(out) \subseteq Event
      BY <1>1, <1>4, DlEventsIn DEF TypeOK
    <3> QED
      BY <1>1, <1>2, <3>1 DEF TypeOK
  <2> QED
    BY <1>1, <1>2, <1>3, <1>6, <1>7, <2>1 DEF TypeOK
<1>9. NoSilentLoss'
  <2>1. \A c \in spool' : carries[c] \subseteq EventsIn(spool)'
    BY <1>3 DEF EventsIn
  <2>2. \A c \in out : carries[c] \subseteq excused'
    BY <1>1, <1>2, <1>4, DlEventsIn
  <2>3. \A c \in spool : \A e \in carries[c] : e \in EventsIn(spool)' \/ e \in excused'
    BY <1>2, <2>1, <2>2
  <2>4. nextEvent' = nextEvent /\ stored \subseteq stored' /\ excused \subseteq excused' /\ events' = events
    BY <1>2, <1>3
  <2> QED
    BY <1>1, <2>3, <2>4, DlKept
<1> QED
  BY <1>7, <1>8, <1>9 DEF DlIInv

\* A spooled batch leaves the spool: it is stored, or given up with its events.
LEMMA DlDeleted ==
  ASSUME DlIInv, DrainDelivered \/ DrainRejected
  PROVE  DlIInv'
<1> DEFINE b == post["drainer"].batch
<1>1. TypeOK /\ NoSilentLoss /\ spool \subseteq Batch /\ doubted \subseteq Batch
  BY DlPostFacts DEF DlIInv
<1>2. /\ spool' = spool \ {b} /\ PostEnd("drainer") /\ answer["drainer"] \in {"ok", "reject"}
      /\ UNCHANGED <<proc, dereg, events, fileSize, sentinel, net, deleted, points, stored, nextBatch, nextEvent, crashes, carries, doubted>>
      /\ \/ answer["drainer"] = "ok" /\ excused' = excused
         \/ excused' = excused \cup carries[b]
  BY DEF DrainDelivered, DrainRejected, Delete, serverVars, histVars
<1>3. "drainer" \in Goroutine /\ post["drainer"] # Idle /\ b \in Batch
  BY <1>2, DlPending DEF Goroutine
<1>4. /\ post' \in [Goroutine -> [slot : 0..MaxNet, batch : 0..MaxBatch]] /\ answer' \in [Goroutine -> Answer]
      /\ DlPosts' /\ DlRequests' /\ DlSpooled' /\ DlStored' /\ DlTracked'
  <2>1. spool' \subseteq Batch /\ (\A c \in spool' : c \in spool) /\ b \notin spool' /\ answer["drainer"] # "none"
    BY <1>1, <1>2
  <2> QED
    BY <1>1, <1>2, <1>3, <2>1, DlEnded
<1>5. carries[b] \subseteq Event
  BY <1>1, <1>3 DEF TypeOK
<1>6. TypeOK'
  BY <1>1, <1>2, <1>4, <1>5 DEF TypeOK
<1>7. NoSilentLoss'
  <2>1. \A c \in spool' : carries[c] \subseteq EventsIn(spool)'
    BY <1>2 DEF EventsIn
  <2>2. answer["drainer"] = "ok" => carries[b] \subseteq stored
    BY <1>3 DEF DlIInv, DlStored
  <2>3. \A c \in spool : \A e \in carries[c] : e \in EventsIn(spool)' \/ e \in stored' \/ e \in excused'
    BY <1>2, <2>1, <2>2
  <2>4. nextEvent' = nextEvent /\ stored \subseteq stored' /\ excused \subseteq excused' /\ events' = events
    BY <1>2
  <2> QED
    BY <1>1, <2>3, <2>4, DlKept
<1> QED
  BY <1>4, <1>6, <1>7 DEF DlIInv

\* The process ends: what its memory held is excused, what the spool held too if it is removed.
LEMMA DlStops ==
  ASSUME DlIInv, ExitDeregistered \/ Crash
  PROVE  DlIInv'
<1>1. TypeOK /\ NoSilentLoss /\ spool \subseteq Batch /\ EventsIn(spool) \subseteq Event
  BY DlPostFacts, DlEventsIn DEF DlIInv, TypeOK
<1>2. /\ MemoryLost /\ UNCHANGED <<net, deleted, points, stored, nextBatch, nextEvent, carries>>
      /\ events \subseteq excused' /\ excused \subseteq excused' /\ excused' \subseteq excused \cup events \cup EventsIn(spool)
      /\ spool' = spool \/ (spool' = {} /\ EventsIn(spool) \subseteq excused')
  BY DEF ExitDeregistered, Crash, diskVars, serverVars
<1>3. proc' \in {"up", "down", "exited"} /\ dereg' \in BOOLEAN /\ sentinel' \in BOOLEAN /\ fileSize' \in Nat
  <2>1. CASE ExitDeregistered
    BY <1>1, <2>1 DEF ExitDeregistered, TypeOK
  <2>2. CASE Crash
    BY <1>1, <2>2 DEF Crash, diskVars, TypeOK
  <2> QED
    BY <2>1, <2>2
<1>4. spool' \subseteq spool
  BY <1>2
<1>5. /\ post' \in [Goroutine -> [slot : 0..MaxNet, batch : 0..MaxBatch]] /\ answer' \in [Goroutine -> Answer]
      /\ doubted' \subseteq Batch /\ DlPosts' /\ DlRequests' /\ DlSpooled' /\ DlStored' /\ DlTracked'
  BY <1>2, <1>4, DlForgotten
<1>6. TypeOK'
  <2>1. events' = {}
    BY <1>2 DEF MemoryLost
  <2>2. events' \subseteq Event /\ Cardinality(events') <= EventCap
    BY <1>1, <2>1, DlFits
  <2>3. excused' \subseteq Event
    BY <1>1, <1>2 DEF TypeOK
  <2> QED
    BY <1>1, <1>2, <1>3, <1>4, <1>5, <2>2, <2>3 DEF TypeOK
<1>7. NoSilentLoss'
  <2>1. \A b \in spool : carries[b] \subseteq EventsIn(spool)
    BY <1>1, DlEventsIn
  <2>2. spool' = spool => EventsIn(spool)' = EventsIn(spool)
    BY <1>2 DEF EventsIn
  <2>3. \A b \in spool : \A e \in carries[b] : e \in EventsIn(spool)' \/ e \in excused'
    BY <1>2, <2>1, <2>2
  <2> QED
    BY <1>1, <1>2, <2>3, DlKept
<1> QED
  BY <1>5, <1>6, <1>7 DEF DlIInv

\* The process starts.
LEMMA DlStart == DlIInv /\ Start => DlIInv'
<1> SUFFICES ASSUME DlIInv, Start
             PROVE  DlIInv'
  OBVIOUS
<1>1. /\ proc' = "up"
      /\ UNCHANGED <<dereg, events, post, answer, spool, fileSize, sentinel, net, deleted, points, stored, nextBatch, nextEvent, crashes, carries, doubted, excused>>
  BY DEF Start, diskVars, serverVars, histVars
<1>2. TypeOK'
  BY <1>1 DEF DlIInv, TypeOK
<1>3. NoSilentLoss'
  BY <1>1 DEF DlIInv, NoSilentLoss, EventsIn
<1>4. (DlPosts /\ DlRequests /\ DlSpooled /\ DlStored /\ DlTracked)'
  BY <1>1 DEF DlIInv, DlPosts, DlRequests, DlSpooled, DlStored, DlTracked
<1> QED
  BY <1>2, <1>3, <1>4 DEF DlIInv

\* The server decides a request.
LEMMA DlHandled ==
  ASSUME DlIInv, NEW q \in net,
         HandleGone(q) \/ HandleRejected(q) \/ HandleRefused(q) \/ HandleHalfway(q) \/ HandleAccepted(q)
  PROVE  DlIInv'
<1>1. TypeOK /\ NoSilentLoss /\ q.batch \in Batch
  BY DEF DlIInv, TypeOK
<1>2. PICK status \in {"gone", "reject", "retry", "ok"} :
         /\ Answers(q, status)
         /\ stored' = stored \/ stored' = stored \cup carries[q.batch]
         /\ \/ /\ status = "ok" /\ stored' = stored \cup carries[q.batch]
               /\ points' = [points EXCEPT ![q.batch] = IF @ = 2 THEN 2 ELSE @ + 1]
            \/ status # "ok" /\ points' = points
  BY DEF HandleGone, HandleRejected, HandleRefused, HandleHalfway, HandleAccepted
<1>3. /\ answer' \in [Goroutine -> Answer] /\ net' \subseteq [slot : Slot, batch : Batch] /\ points' \in [Batch -> 0..2]
      /\ DlPosts' /\ DlRequests' /\ DlSpooled' /\ DlStored' /\ DlTracked'
  <2>1. status \in Answer /\ status # "none"
    BY DEF Answer
  <2>2. stored \subseteq stored'
    BY <1>2
  <2> QED
    BY <1>2, <2>1, <2>2, DlAnswered
<1>4. /\ UNCHANGED <<proc, dereg, events, post, spool, fileSize, sentinel, deleted, nextBatch, nextEvent, crashes, carries, doubted, excused>>
  BY <1>2 DEF Answers, diskVars, histVars
<1>5. stored \subseteq stored' /\ stored' \subseteq Event
  BY <1>1, <1>2 DEF TypeOK
<1>6. TypeOK'
  BY <1>1, <1>3, <1>4, <1>5 DEF TypeOK
<1>7. NoSilentLoss'
  <2>1. EventsIn(spool)' = EventsIn(spool) /\ \A b \in spool : carries[b] \subseteq EventsIn(spool)
    BY <1>4 DEF EventsIn
  <2> QED
    BY <1>1, <1>4, <1>5, <2>1, DlKept
<1> QED
  BY <1>3, <1>6, <1>7 DEF DlIInv

\* The network loses a request.
LEMMA DlLose == ASSUME DlIInv, NEW q \in net, Lose(q) PROVE DlIInv'
<1>1. /\ net' = net \ {q}
      /\ UNCHANGED <<proc, dereg, events, post, answer, spool, fileSize, sentinel, deleted, points, stored, nextBatch, nextEvent, crashes, carries, doubted, excused>>
  BY DEF Lose, agentVars, diskVars, serverVars, histVars
<1>2. TypeOK'
  BY <1>1 DEF DlIInv, TypeOK
<1>3. NoSilentLoss'
  BY <1>1 DEF DlIInv, NoSilentLoss, EventsIn
<1>4. (DlPosts /\ DlRequests /\ DlSpooled /\ DlStored /\ DlTracked)'
  BY <1>1 DEF DlIInv, DlPosts, DlRequests, DlSpooled, DlStored, DlTracked
<1> QED
  BY <1>2, <1>3, <1>4 DEF DlIInv

\* An operator deletes the host.
LEMMA DlDeleteHost == DlIInv /\ DeleteHost => DlIInv'
<1> SUFFICES ASSUME DlIInv, DeleteHost
             PROVE  DlIInv'
  OBVIOUS
<1>1. /\ deleted' = TRUE
      /\ UNCHANGED <<proc, dereg, events, post, answer, spool, fileSize, sentinel, net, points, stored, nextBatch, nextEvent, crashes, carries, doubted, excused>>
  BY DEF DeleteHost, agentVars, diskVars, histVars
<1>2. TypeOK'
  BY <1>1 DEF DlIInv, TypeOK
<1>3. NoSilentLoss'
  BY <1>1 DEF DlIInv, NoSilentLoss, EventsIn
<1>4. (DlPosts /\ DlRequests /\ DlSpooled /\ DlStored /\ DlTracked)'
  BY <1>1 DEF DlIInv, DlPosts, DlRequests, DlSpooled, DlStored, DlTracked
<1> QED
  BY <1>2, <1>3, <1>4 DEF DlIInv

\* The inductive invariant of delivery holds at every moment.
THEOREM DeliveryIInvHolds == Spec => []DlIInv
<1>1. DlIInv /\ [Next]_vars => DlIInv'
  <2> SUFFICES ASSUME DlIInv, [Next]_vars
               PROVE  DlIInv'
    OBVIOUS
  <2>1. CASE PushEvent \/ Tick \/ DrainPeek
    BY <2>1, DlPushEvent, DlTick, DlDrainPeek
  <2>2. CASE SendAccepted \/ SendRejected \/ SendSpooled \/ SendFailed
    BY <2>2, DlSimpleEnds, DlSendSpooled, DlSendFailed
  <2>3. CASE DrainDelivered \/ DrainDeleteFailed \/ DrainRejected \/ DrainRejectKept \/ DrainRetry
    BY <2>3, DlSimpleEnds, DlDeleted
  <2>4. CASE \E g \in Goroutine : SawGone(g)
    BY <2>4, DlSimpleEnds
  <2>5. CASE ExitDeregistered \/ Crash \/ Start
    BY <2>5, DlStops, DlStart
  <2>6. CASE \E q \in net : Lose(q) \/ HandleGone(q) \/ HandleRejected(q) \/ HandleRefused(q) \/ HandleHalfway(q) \/ HandleAccepted(q)
    BY <2>6, DlLose, DlHandled
  <2>7. CASE DeleteHost
    BY <2>7, DlDeleteHost
  <2>8. CASE UNCHANGED vars
    <3>1. UNCHANGED <<proc, dereg, events, post, answer, spool, fileSize, sentinel, net, deleted, points, stored, nextBatch, nextEvent, crashes, carries, doubted, excused>>
      BY <2>8 DEF vars, agentVars, diskVars, serverVars, histVars
    <3>2. TypeOK'
      BY <3>1 DEF DlIInv, TypeOK
    <3>3. NoSilentLoss'
      BY <3>1 DEF DlIInv, NoSilentLoss, EventsIn
    <3>4. (DlPosts /\ DlRequests /\ DlSpooled /\ DlStored /\ DlTracked)'
      BY <3>1 DEF DlIInv, DlPosts, DlRequests, DlSpooled, DlStored, DlTracked
    <3> QED
      BY <3>2, <3>3, <3>4 DEF DlIInv
  <2> QED
    BY <2>1, <2>2, <2>3, <2>4, <2>5, <2>6, <2>7, <2>8 DEF Next, AgentNext, ServerNext
<1> QED
  BY <1>1, DlInit, PTL DEF Spec

\* No event is lost but for a reason that excuses it, and none is stored twice that the agent kept track of,
\* for any number of batches, events, crashes and lost requests.
THEOREM DeliveryCorrect == Spec => []DeliveryInv
<1>1. DlIInv => DeliveryInv
  <2> SUFFICES ASSUME DlIInv
               PROVE  DeliveryInv
    OBVIOUS
  <2>1. ASSUME NEW b \in Batch, points[b] > 1
        PROVE  b \in doubted
    <3>1. b \notin doubted => points[b] \in {0, 1}
      BY DEF DlIInv, DlTracked
    <3> QED
      BY <2>1, <3>1
  <2> QED
    BY <2>1 DEF DlIInv, DeliveryInv, DuplicatesExplained
<1> QED
  BY <1>1, DeliveryIInvHolds, PTL

-----------------------------------------------------------------------------
(*****************************************************************************)
(* The backup jobs, for any number of processes, repositories and restic     *)
(* locks, any mixture of jobs, crashes and failed writes.                    *)
(*                                                                           *)
(* That one job at a time is at work rests on who made the file at the lock  *)
(* path (HeldAtPath) and on judged owners staying dead (JudgedDead).  That no*)
(* job undoes what another has recorded rests on it: the copy of the status  *)
(* file a job holds agrees with the file on every result (SeenInv), since no *)
(* other job has the lock and lock-free ones change no result unless they say*)
(* so in bjLost.  What a sweep has listed is dead for good and stays old for *)
(* as long as it is there (ListInv).                                         *)
(*****************************************************************************)
-----------------------------------------------------------------------------
(* The lock.                                                               *)

\* Who is read as the owner, and judged dead, is dead, and has written its token.
JudgedDead ==
  \A p \in LkProcs : lkPc[p] \in {"reread", "rename"} => lkSeen[p].owner # Empty /\ ~LkAlive(lkSeen[p].owner)

\* Until a lock is stolen, whoever has made the file still has it at the path.
HeldAtPath ==
  ~lkStolen => \A p \in LkProcs : lkPc[p] \in {"write", "held", "release", "remove"} => lkPath = p

\* The inductive invariant of the lock.
LkIInv == LkTypeOK /\ JudgedDead /\ HeldAtPath

\* What the jobs do to the lock: its own steps, and faults that are counted with its own.
LkStep ==
  \/ LkNext
  \/ /\ UNCHANGED <<lkPc, lkPath, lkWritten, lkOld, lkLegacy, lkSeen, lkAside, lkStolen>>
     /\ lkFaults' \in {lkFaults, lkFaults + 1} /\ lkFaults' \in 0..LkMaxFault

\* The lock starts in the invariant, whoever is going to ask for it.
LEMMA LkInitGood ==
  ASSUME NEW lockers, LkInit(lockers)
  PROVE  LkIInv
<1>1. \A p \in LkProcs : lkPc[p] \in {"open", "done"}
  BY DEF LkInit
<1>2. LkUnseen \in [owner : LkFiles \cup {NoLock, Empty}, old : BOOLEAN]
  BY DEF LkUnseen
<1>3. LkTypeOK
  BY <1>1, <1>2, LkAssumption DEF LkInit, LkTypeOK, LkFiles, LkEnded
<1> QED
  BY <1>1, <1>3 DEF LkIInv, JudgedDead, HeldAtPath

\* A step of the lock is one process's, unless a day passes.
LEMMA LkOneMoves ==
  ASSUME LkTypeOK, LkStep
  PROVE  \/ lkPc' = lkPc
         \/ \E p \in LkProcs : /\ lkPc[p] \notin LkEnded
                               /\ \A q \in LkProcs : q # p => lkPc'[q] = lkPc[q]
<1>1. ASSUME NEW p \in LkProcs, LkAcquire(p) \/ LkRelease(p) \/ LkLetGo(p) \/ LkWriteFails(p) \/ LkCrash(p)
      PROVE  /\ lkPc[p] \notin LkEnded
             /\ \A q \in LkProcs : q # p => lkPc'[q] = lkPc[q]
  <2> USE DEF LkGoto, LkTypeOK, LkEnded
  <2>1. CASE LkAcquire(p)
    BY <2>1 DEF LkAcquire, LkOpen, LkWrite, LkStat, LkReadOwner, LkJudge, LkReread, LkRename, LkGrab, LkPutBack
  <2>2. CASE LkRelease(p) \/ LkLetGo(p) \/ LkWriteFails(p) \/ LkCrash(p)
    BY <2>2 DEF LkRelease, LkReadOwn, LkRemove, LkLetGo, LkWriteFails, LkCrash, LkAlive
  <2> QED
    BY <1>1, <2>1, <2>2
<1>2. LkDay => lkPc' = lkPc
  BY DEF LkDay
<1> QED
  BY <1>1, <1>2 DEF LkStep, LkNext

\* The dead stay dead.
LEMMA DeadStay ==
  ASSUME LkTypeOK, LkStep, NEW o, ~LkAlive(o)
  PROVE  ~LkAlive(o)'
BY LkOneMoves DEF LkAlive

\* The lock keeps its types.
LEMMA LkTypeHolds ==
  ASSUME LkTypeOK, LkStep
  PROVE  LkTypeOK'
<1> USE DEF LkTypeOK
<1>1. ASSUME NEW p \in LkProcs, LkAcquire(p)
      PROVE  LkTypeOK'
  <2> USE LkAssumption DEF LkGoto, LkEnded, LkFiles, Content, LkUnseen
  <2>1. CASE LkOpen(p)
    BY <2>1 DEF LkOpen
  <2>6. CASE LkWrite(p)
    BY <2>6 DEF LkWrite
  <2>7. CASE LkStat(p)
    <3>1. lkSeen' \in [LkProcs -> [owner : LkFiles \cup {NoLock, Empty}, old : BOOLEAN]]
      <4>1. PICK b \in BOOLEAN : lkSeen' = [lkSeen EXCEPT ![p] = [lkSeen[p] EXCEPT !.old = b]]
        <5>1. CASE lkPath \in lkOld
          <6>1. (lkPath \in lkOld) = TRUE
            BY <5>1
          <6> QED
            BY <2>7, <6>1, Zenon DEF LkStat
        <5>2. CASE lkPath \notin lkOld
          <6>1. (lkPath \in lkOld) = FALSE
            BY <5>2
          <6> QED
            BY <2>7, <6>1, Zenon DEF LkStat
        <5> QED
          BY <5>1, <5>2
      <4>3. [lkSeen[p] EXCEPT !.old = b] \in [owner : LkFiles \cup {NoLock, Empty}, old : BOOLEAN]
        OBVIOUS
      <4> QED
        BY <4>1, <4>3
    <3> QED
      BY <2>7, <3>1 DEF LkStat
  <2>2. CASE LkReadOwner(p)
    BY <2>2 DEF LkReadOwner
  <2>3. CASE LkJudge(p)
    <3>1. Verdicts(p) \subseteq {"skipped", "failed", "reread"}
      BY DEF Verdicts
    <3> QED
      BY <2>3, <3>1 DEF LkJudge
  <2>4. CASE LkReread(p) \/ LkRename(p) \/ LkGrab(p)
    BY <2>4 DEF LkReread, LkRename, LkGrab
  <2>5. CASE LkPutBack(p)
    BY <2>5 DEF LkPutBack
  <2> QED
    BY <1>1, <2>1, <2>2, <2>3, <2>4, <2>5, <2>6, <2>7 DEF LkAcquire
<1>2. ASSUME NEW p \in LkProcs, LkRelease(p) \/ LkLetGo(p)
      PROVE  LkTypeOK'
  BY <1>2 DEF LkRelease, LkReadOwn, LkRemove, LkLetGo, LkGoto, LkEnded
<1>3. ASSUME NEW p \in LkProcs, LkWriteFails(p) \/ LkCrash(p)
      PROVE  LkTypeOK'
  <2>1. LkFault => lkFaults' \in 0..LkMaxFault
    BY LkAssumption DEF LkFault
  <2>2. CASE LkWriteFails(p)
    BY <2>1, <2>2 DEF LkWriteFails, LkGoto, LkEnded
  <2>3. CASE LkCrash(p)
    BY <2>1, <2>3 DEF LkCrash, LkGoto, LkEnded, LkUnseen
  <2> QED
    BY <1>3, <2>2, <2>3
<1>4. CASE LkDay
  BY <1>4 DEF LkDay
<1> QED
  BY <1>1, <1>2, <1>3, <1>4 DEF LkStep, LkNext

\* A process comes to rename only what it has judged dead.
LEMMA JudgedHolds ==
  ASSUME LkIInv, LkStep
  PROVE  JudgedDead'
<1> USE DEF LkIInv, LkTypeOK
<1>1. ASSUME NEW q \in LkProcs, lkPc'[q] \in {"reread", "rename"}, lkPc'[q] # lkPc[q]
      PROVE  lkSeen'[q] = lkSeen[q] /\ lkSeen[q].owner # Empty /\ ~LkAlive(lkSeen[q].owner)
  <2>1. ASSUME NEW p \in LkProcs, LkAcquire(p)
        PROVE  lkSeen'[q] = lkSeen[q] /\ lkSeen[q].owner # Empty /\ ~LkAlive(lkSeen[q].owner)
    <3> USE DEF LkGoto
    <3>1. CASE LkJudge(p)
      <4>1. p = q /\ "reread" \in Verdicts(p) /\ lkSeen'[q] = lkSeen[q]
        BY <1>1, <3>1 DEF LkJudge, Verdicts, LkEnded
      <4> QED
        BY <4>1, LkAssumption DEF Verdicts, LkAlive
    <3>2. CASE LkReread(p)
      BY <1>1, <3>2 DEF LkReread, JudgedDead
    <3>3. CASE LkOpen(p) \/ LkWrite(p) \/ LkStat(p) \/ LkReadOwner(p) \/ LkRename(p) \/ LkGrab(p) \/ LkPutBack(p)
      BY <1>1, <3>3 DEF LkOpen, LkWrite, LkStat, LkReadOwner, LkRename, LkGrab, LkPutBack
    <3> QED
      BY <2>1, <3>1, <3>2, <3>3 DEF LkAcquire
  <2>2. ASSUME NEW p \in LkProcs, LkRelease(p) \/ LkLetGo(p) \/ LkWriteFails(p) \/ LkCrash(p)
        PROVE  FALSE
    BY <1>1, <2>2 DEF LkRelease, LkReadOwn, LkRemove, LkLetGo, LkWriteFails, LkCrash, LkGoto
  <2>3. LkDay \/ UNCHANGED lkPc => FALSE
    BY <1>1 DEF LkDay
  <2> QED
    BY <2>1, <2>2, <2>3 DEF LkStep, LkNext
<1>2. ASSUME NEW q \in LkProcs, lkPc'[q] \in {"reread", "rename"}, lkPc'[q] = lkPc[q]
      PROVE  lkSeen'[q] = lkSeen[q]
  <2>1. ASSUME NEW p \in LkProcs, LkAcquire(p)
        PROVE  lkSeen'[q] = lkSeen[q]
    <3> USE DEF LkGoto
    <3>1. CASE LkJudge(p)
      BY <1>2, <3>1 DEF LkJudge
    <3>2. CASE LkOpen(p) \/ LkWrite(p) \/ LkStat(p) \/ LkReadOwner(p) \/ LkReread(p) \/ LkRename(p) \/ LkGrab(p) \/ LkPutBack(p)
      BY <1>2, <3>2 DEF LkOpen, LkWrite, LkStat, LkReadOwner, LkReread, LkRename, LkGrab, LkPutBack
    <3> QED
      BY <2>1, <3>1, <3>2 DEF LkAcquire
  <2>2. ASSUME NEW p \in LkProcs, LkRelease(p) \/ LkLetGo(p) \/ LkWriteFails(p) \/ LkCrash(p)
        PROVE  lkSeen'[q] = lkSeen[q]
    BY <1>2, <2>2 DEF LkRelease, LkReadOwn, LkRemove, LkLetGo, LkWriteFails, LkCrash, LkGoto
  <2>3. LkDay \/ UNCHANGED lkSeen => lkSeen' = lkSeen
    BY DEF LkDay
  <2> QED
    BY <2>1, <2>2, <2>3 DEF LkStep, LkNext
<1>3. ASSUME NEW q \in LkProcs, lkPc'[q] \in {"reread", "rename"}
      PROVE  (lkSeen[q].owner # Empty /\ ~LkAlive(lkSeen[q].owner))'
  <2>1. lkSeen'[q] = lkSeen[q] /\ lkSeen[q].owner # Empty /\ ~LkAlive(lkSeen[q].owner)
    BY <1>1, <1>2, <1>3 DEF JudgedDead
  <2>2. \A o : ~LkAlive(o) => ~LkAlive(o)'
    BY DeadStay
  <2>3. ~(lkSeen[q].owner \in LkProcs /\ lkPc'[lkSeen[q].owner] \notin LkEnded)
    BY <2>1, <2>2 DEF LkAlive
  <2> QED
    BY <2>1, <2>3 DEF LkAlive
<1> QED
  BY <1>3 DEF JudgedDead

\* Nobody but the one who made it removes a file from the path, unless it is stolen.
LEMMA HeldHolds ==
  ASSUME LkIInv, LkStep
  PROVE  HeldAtPath'
<1> DEFINE Has(p) == lkPc[p] \in {"write", "held", "release", "remove"}
<1> USE LkAssumption DEF LkIInv, LkTypeOK, LkGoto
<1> SUFFICES ASSUME ~lkStolen', NEW p \in LkProcs, Has(p)'
             PROVE  lkPath' = p
  BY DEF HeldAtPath
<1>0. ~lkStolen
  <2>1. ASSUME NEW q \in LkProcs, LkAcquire(q) PROVE lkStolen => lkStolen'
    BY <2>1 DEF LkAcquire, LkOpen, LkWrite, LkStat, LkReadOwner, LkJudge, LkReread, LkRename, LkGrab, LkPutBack
  <2>2. ASSUME NEW q \in LkProcs, LkRelease(q) \/ LkLetGo(q) \/ LkWriteFails(q) \/ LkCrash(q) PROVE lkStolen => lkStolen'
    BY <2>2 DEF LkRelease, LkReadOwn, LkRemove, LkLetGo, LkWriteFails, LkCrash
  <2> QED
    BY <2>1, <2>2 DEF LkStep, LkNext, LkDay
<1>1. Has(p) => lkPath = p
  BY <1>0 DEF HeldAtPath
<1>2. ASSUME NEW q \in LkProcs, LkAcquire(q)
      PROVE  lkPath' = p
  <2>1. CASE LkOpen(q)
    BY <1>1, <2>1 DEF LkOpen
  <2>2. CASE LkWrite(q)
    BY <1>1, <2>2 DEF LkWrite
  <2>3. CASE LkJudge(q)
    <3>1. Verdicts(q) \subseteq {"skipped", "failed", "reread"}
      BY DEF Verdicts
    <3> QED
      BY <1>1, <2>3, <3>1 DEF LkJudge
  <2>4. CASE LkStat(q) \/ LkReadOwner(q) \/ LkReread(q) \/ LkGrab(q) \/ LkPutBack(q)
    BY <1>1, <2>4 DEF LkStat, LkReadOwner, LkReread, LkGrab, LkPutBack
  <2>5. CASE LkRename(q)
    <3>1. Has(p) /\ p # q
      BY <2>5 DEF LkRename
    <3>2. lkPath = p /\ LkAlive(p)
      BY <1>1, <3>1 DEF LkAlive, LkEnded
    <3>3. Content(lkPath) = lkSeen[q].owner
      BY <2>5, <3>2 DEF LkRename
    <3>4. lkSeen[q].owner # Empty /\ ~LkAlive(lkSeen[q].owner)
      BY <2>5 DEF LkRename, JudgedDead
    <3> QED
      BY <3>2, <3>3, <3>4 DEF Content
  <2> QED
    BY <1>2, <2>1, <2>2, <2>3, <2>4, <2>5 DEF LkAcquire
<1>3. ASSUME NEW q \in LkProcs, LkRelease(q) \/ LkLetGo(q)
      PROVE  lkPath' = p
  <2>1. CASE LkRemove(q)
    <3>1. Has(p) /\ p # q
      BY <2>1 DEF LkRemove
    <3> QED
      BY <1>0, <2>1, <3>1 DEF LkRemove, HeldAtPath
  <2>2. CASE LkReadOwn(q) \/ LkLetGo(q)
    BY <1>1, <2>2 DEF LkReadOwn, LkLetGo
  <2> QED
    BY <1>3, <2>1, <2>2 DEF LkRelease
<1>4. ASSUME NEW q \in LkProcs, LkWriteFails(q) \/ LkCrash(q)
      PROVE  lkPath' = p
  <2>1. CASE LkWriteFails(q)
    <3>1. Has(p) /\ p # q
      BY <2>1 DEF LkWriteFails
    <3> QED
      BY <1>0, <2>1, <3>1 DEF LkWriteFails, HeldAtPath
  <2>2. CASE LkCrash(q)
    BY <1>1, <2>2 DEF LkCrash
  <2> QED
    BY <1>4, <2>1, <2>2
<1>5. LkDay \/ UNCHANGED <<lkPc, lkPath>> => lkPath' = p
  BY <1>1 DEF LkDay
<1> QED
  BY <1>2, <1>3, <1>4, <1>5 DEF LkStep, LkNext

\* Every step of the lock keeps its invariant.
LEMMA LkHolds ==
  ASSUME LkIInv, LkStep
  PROVE  LkIInv'
BY LkTypeHolds, JudgedHolds, HeldHolds DEF LkIInv

\* Who has the file at the path is one.
LEMMA LkExcludes == LkIInv => JobsExcludeUnlessStolen
<1> SUFFICES ASSUME LkIInv, ~lkStolen PROVE Cardinality(LkHolders) <= 1
  BY DEF JobsExcludeUnlessStolen, JobsExclude
<1>1. LkHolders \subseteq {lkPath}
  BY DEF LkIInv, HeldAtPath, LkHolders
<1>2. IsFiniteSet({lkPath}) /\ Cardinality({lkPath}) = 1
  BY FS_Singleton
<1>3. Cardinality(LkHolders) <= Cardinality({lkPath})
  BY <1>1, <1>2, FS_Subset
<1> QED
  BY <1>2, <1>3

\* Whoever asks for the lock, two processes are at work together only after a lock was stolen.
THEOREM LockExcludes == LkSpec => []JobsExcludeUnlessStolen
<1>1. LkInit(LkProcs) => LkIInv
  BY LkInitGood
<1>2. LkIInv /\ [LkNext]_lkVars => LkIInv'
  <2>1. LkIInv /\ UNCHANGED lkVars => LkStep
    BY DEF LkIInv, LkTypeOK, lkVars, LkStep
  <2>2. LkIInv /\ LkNext => LkStep
    BY DEF LkStep
  <2> QED
    BY <2>1, <2>2, LkHolds
<1> QED
  BY <1>1, <1>2, LkExcludes, PTL DEF LkSpec

-----------------------------------------------------------------------------
(* The jobs.                                                               *)

Owners == LkProcs \cup {Foreign}
Statuses == UNION {[S -> BjEntry] : S \in SUBSET (BjRepos \cup {BjOrphan})}
Updates == UNION {[S -> BjEntry] : S \in SUBSET BjRepos}
BjKinds == {"run", "check", "restore", "unlock", "unlockall", "init", "enroll", "none"}
BjPcs == {"begin", "read", "repo", "restic", "remove", "apply", "clear", "over"}
BjJob == [kind : BjKinds, pc : BjPcs, todo : SUBSET BjRepos, seen : Statuses, upd : Updates, list : SUBSET Owners]

JobTypes ==
  /\ bj \in [LkProcs -> BjJob]
  /\ bjStatus \in Statuses \cup {Unreadable} /\ bjProgress \in LkProcs \cup {Nobody}
  /\ bjLocks \in [BjRepos -> SUBSET Owners] /\ bjOld \subseteq Owners
  /\ bjForeign \in {"absent", "works", "ended", "died"} /\ bjLost \in BOOLEAN
  /\ \A p \in LkProcs : bj[p].pc \in {"restic", "remove", "apply"} => bj[p].todo # {}

\* The status file is a function on some of the repositories.
LEMMA IsStatus ==
  ASSUME NEW S \in SUBSET (BjRepos \cup {BjOrphan}), NEW f \in [S -> BjEntry]
  PROVE  f \in Statuses /\ f # Unreadable
BY BjAssumption DEF Statuses

\* A status is a function on some of the repositories, and readable.
LEMMA StatusIs ==
  ASSUME NEW f \in Statuses
  PROVE  /\ DOMAIN f \in SUBSET (BjRepos \cup {BjOrphan}) /\ f \in [DOMAIN f -> BjEntry]
         /\ f # Unreadable
BY BjAssumption DEF Statuses

\* The results of a run are a function on some of the configured repositories.
LEMMA UpdatesIs ==
  ASSUME NEW f \in Updates
  PROVE  DOMAIN f \in SUBSET BjRepos /\ f \in [DOMAIN f -> BjEntry]
BY DEF Updates

\* A blank entry is an entry, and no entries make a status.
LEMMA Blanks ==
  /\ BjBlank \in BjEntry /\ NoEntries \in Statuses /\ NoEntries \in Updates
  /\ DOMAIN NoEntries = {}
<1>1. BjBlank \in BjEntry
  BY DEF BjBlank, BjEntry
<1>2. NoEntries \in [{} -> BjEntry] /\ DOMAIN NoEntries = {}
  BY DEF NoEntries
<1>3. NoEntries \in Statuses
  BY <1>2, IsStatus
<1> QED
  BY <1>1, <1>2, <1>3 DEF Updates

\* What mergeStatus, the removal of unconfigured repositories and a check's result make of statuses.
LEMMA StatusMerged ==
  ASSUME NEW s \in Statuses, NEW u \in Updates
  PROVE  MergeStatus(s, u) \in Statuses /\ DOMAIN MergeStatus(s, u) = DOMAIN s \cup DOMAIN u
<1> DEFINE m == MergeStatus(s, u)
<1>0. /\ DOMAIN s \in SUBSET (BjRepos \cup {BjOrphan}) /\ s \in [DOMAIN s -> BjEntry]
      /\ DOMAIN u \in SUBSET BjRepos /\ u \in [DOMAIN u -> BjEntry]
  BY StatusIs, UpdatesIs
<1>1. ASSUME NEW n \in DOMAIN s \cup DOMAIN u
      PROVE  m[n] \in BjEntry
  <2>1. CASE n \notin DOMAIN u
    BY <1>0, <1>1, <2>1 DEF MergeStatus
  <2>2. CASE n \in DOMAIN u /\ n \notin DOMAIN s
    BY <1>0, <1>1, <2>2 DEF MergeStatus
  <2>3. CASE n \in DOMAIN u /\ n \in DOMAIN s
    <3>1. u[n] \in BjEntry /\ s[n] \in BjEntry
      BY <1>0, <2>3
    <3>2. m[n] = [u[n] EXCEPT !.check = s[n].check, !.good = IF u[n].ok THEN @ ELSE s[n].good]
      BY <1>1, <2>3 DEF MergeStatus
    <3> QED
      BY <3>1, <3>2 DEF BjEntry
  <2> QED
    BY <1>1, <2>1, <2>2, <2>3
<1>2. m = [n \in DOMAIN s \cup DOMAIN u |-> m[n]] /\ DOMAIN m = DOMAIN s \cup DOMAIN u
  BY DEF MergeStatus
<1> HIDE DEF m
<1>3. m \in [DOMAIN s \cup DOMAIN u -> BjEntry] /\ DOMAIN s \cup DOMAIN u \in SUBSET (BjRepos \cup {BjOrphan})
  BY <1>0, <1>1, <1>2
<1>4. m \in Statuses /\ DOMAIN m = DOMAIN s \cup DOMAIN u
  BY <1>2, <1>3, IsStatus
<1> QED
  BY <1>4 DEF m

\* A status without the repositories that are configured no more is a status.
LEMMA StatusTrimmed ==
  ASSUME NEW s \in Statuses
  PROVE  /\ WithoutUnconfigured(s) \in Statuses
         /\ DOMAIN WithoutUnconfigured(s) = DOMAIN s \cap BjRepos
         /\ \A n \in DOMAIN s \cap BjRepos : WithoutUnconfigured(s)[n] = s[n]
<1>1. DOMAIN s \in SUBSET (BjRepos \cup {BjOrphan}) /\ s \in [DOMAIN s -> BjEntry]
  BY StatusIs
<1>2. WithoutUnconfigured(s) = [n \in DOMAIN s \cap BjRepos |-> s[n]]
  BY DEF WithoutUnconfigured, Restrict
<1>3. [n \in DOMAIN s \cap BjRepos |-> s[n]] \in [DOMAIN s \cap BjRepos -> BjEntry]
  BY <1>1
<1>4. DOMAIN s \cap BjRepos \in SUBSET (BjRepos \cup {BjOrphan})
  OBVIOUS
<1>5. WithoutUnconfigured(s) \in Statuses
  BY <1>2, <1>3, <1>4, IsStatus
<1> QED
  BY <1>2, <1>5

\* A status with p's check of the repository r.
Checked(a, s, r, p) ==
  /\ a \in Statuses /\ DOMAIN a = DOMAIN s \cup {r}
  /\ \A n \in DOMAIN s : n # r => a[n] = s[n]
  /\ a[r].check = p
  /\ a[r].good = IF r \in DOMAIN s THEN s[r].good ELSE Nobody

\* A status with the result of a check is a status, and has that result.
LEMMA StatusChecked ==
  ASSUME NEW s \in Statuses, NEW r \in BjRepos, NEW p \in LkProcs
  PROVE  Checked(ApplyCheckResult(s, r, p), s, r, p)
<1> DEFINE a == ApplyCheckResult(s, r, p)
           b == IF r \in DOMAIN s THEN s[r] ELSE BjBlank
<1>0. DOMAIN s \in SUBSET (BjRepos \cup {BjOrphan}) /\ s \in [DOMAIN s -> BjEntry]
  BY StatusIs
<1>1. b \in BjEntry /\ b.good = IF r \in DOMAIN s THEN s[r].good ELSE Nobody
  BY <1>0, Blanks DEF BjBlank
<1>2. /\ a[r] = [b EXCEPT !.check = p] /\ DOMAIN a = DOMAIN s \cup {r}
      /\ \A n \in DOMAIN s : n # r => a[n] = s[n]
      /\ a = [n \in DOMAIN s \cup {r} |-> a[n]]
  BY DEF ApplyCheckResult
<1> HIDE DEF a, b
<1>3. a[r] \in BjEntry /\ a[r].check = p /\ a[r].good = b.good
  BY <1>1, <1>2 DEF BjEntry, LkFiles
<1>4. a \in [DOMAIN s \cup {r} -> BjEntry] /\ DOMAIN s \cup {r} \in SUBSET (BjRepos \cup {BjOrphan})
  BY <1>0, <1>2, <1>3
<1>5. a \in Statuses
  BY <1>4, IsStatus
<1>6. Checked(a, s, r, p)
  BY <1>1, <1>2, <1>3, <1>5 DEF Checked
<1> QED
  BY <1>6 DEF a

\* The repository a job takes is one it has still to take.
LEMMA NextIs ==
  ASSUME JobTypes, NEW p \in LkProcs, bj[p].todo # {}
  PROVE  NextRepo(p) \in bj[p].todo /\ NextRepo(p) \in BjRepos
BY DEF NextRepo, JobTypes, BjJob

\* A job that returns is a job.
LEMMA OverIsJob == ASSUME NEW job \in BjJob PROVE Over(job) \in BjJob /\ Over(job).pc = "over" /\ Over(job).kind = job.kind
<1>1. NoEntries \in Statuses /\ NoEntries \in Updates
  BY Blanks
<1>2. Over(job) = [job EXCEPT !.pc = "over", !.todo = {}, !.seen = NoEntries, !.upd = NoEntries, !.list = {}]
  BY DEF Over
<1> HIDE DEF Over
<1> QED
  BY <1>1, <1>2 DEF BjJob, BjPcs

\* What a step of a job leaves alone: the other jobs, and what the job is.
LEMMA JobsStayJobs ==
  ASSUME JobTypes, NEW p \in LkProcs, NEW job \in BjJob, job.kind = bj[p].kind,
         job.pc \in {"restic", "remove", "apply"} => job.todo # {},
         bj' = [bj EXCEPT ![p] = job]
  PROVE  /\ bj' \in [LkProcs -> BjJob]
         /\ bj'[p] = job /\ \A q \in LkProcs : q # p => bj'[q] = bj[q]
         /\ \A q \in LkProcs : bj'[q].pc \in {"restic", "remove", "apply"} => bj'[q].todo # {}
         /\ \A q \in LkProcs : bj'[q].kind = bj[q].kind
BY DEF JobTypes

\* What a job that works does: each of its steps in turn.
LEMMA ReadTypes ==
  ASSUME JobTypes, NEW p \in LkProcs, BjReadStatus(p) \/ BjReadLockFree(p) \/ BjBegin(p)
  PROVE  JobTypes'
<1> DEFINE old == bj[p]
<1>1. old \in BjJob /\ NoEntries \in Statuses
  BY Blanks DEF JobTypes
<1>2. \E job \in BjJob : job.kind = old.kind /\ (job.pc \in {"restic", "remove", "apply"} => job.todo # {}) /\ bj' = [bj EXCEPT ![p] = job]
  <2>1. CASE BjReadStatus(p)
    <3>1. PICK s \in Statuses : bj' = [bj EXCEPT ![p] = [old EXCEPT !.seen = s, !.pc = "repo"]]
      <4>1. (IF bjStatus = Unreadable THEN NoEntries ELSE bjStatus) \in Statuses
        BY <1>1 DEF JobTypes
      <4> QED
        BY <2>1, <4>1 DEF BjReadStatus, JobTypes
    <3>2. [old EXCEPT !.seen = s, !.pc = "repo"] \in BjJob
      BY <1>1 DEF BjJob, BjPcs
    <3> QED
      BY <1>1, <3>1, <3>2 DEF BjJob
  <2>2. CASE BjReadLockFree(p)
    <3>1. CASE bjStatus = Unreadable
      BY <1>1, <2>2, <3>1, OverIsJob DEF BjReadLockFree, JobTypes
    <3>2. CASE bjStatus # Unreadable
      <4>1. bjStatus \in Statuses /\ bj' = [bj EXCEPT ![p] = [old EXCEPT !.seen = bjStatus, !.pc = "repo"]]
        BY <2>2, <3>2 DEF BjReadLockFree, JobTypes
      <4>2. [old EXCEPT !.seen = bjStatus, !.pc = "repo"] \in BjJob
        BY <1>1, <4>1 DEF BjJob, BjPcs
      <4> QED
        BY <1>1, <4>1, <4>2 DEF BjJob
    <3> QED
      BY <3>1, <3>2
  <2>3. CASE BjBegin(p)
    <3>1. PICK pc \in {"read", "repo"} : bj' = [bj EXCEPT ![p] = [old EXCEPT !.pc = pc]]
      BY <2>3 DEF BjBegin, JobTypes
    <3>2. [old EXCEPT !.pc = pc] \in BjJob
      BY <1>1 DEF BjJob, BjPcs
    <3> QED
      BY <1>1, <3>1, <3>2 DEF BjJob
  <2> QED
    BY <2>1, <2>2, <2>3
<1>3. UNCHANGED <<bjStatus, bjProgress, bjLocks, bjOld, bjForeign, bjLost>>
  BY DEF BjReadStatus, BjReadLockFree, BjBegin
<1> QED
  BY <1>2, <1>3, JobsStayJobs DEF JobTypes

\* What a lock-free job writes is well formed.
LEMMA LockFreeTypes ==
  ASSUME JobTypes, NEW p \in LkProcs, BjReconcile(p) \/ BjRecordEnrollment(p)
  PROVE  JobTypes'
<1>1. bj[p] \in BjJob /\ bj[p].seen \in Statuses
  BY DEF JobTypes, BjJob
<1>2. bj' = [bj EXCEPT ![p] = Over(bj[p])] /\ UNCHANGED <<bjProgress, bjLocks, bjOld, bjForeign>>
  BY DEF BjReconcile, BjRecordEnrollment, JobTypes
<1>3. \A u \in Updates : MergeStatus(bj[p].seen, u) \in Statuses /\ WithoutUnconfigured(MergeStatus(bj[p].seen, u)) \in Statuses
  BY <1>1, StatusMerged, StatusTrimmed
<1>4. \A S \in SUBSET BjRepos : [n \in S |-> BjBlank] \in Updates
  BY Blanks DEF Updates
<1>5. bjStatus' \in Statuses \cup {Unreadable}
  <2>1. CASE BjReconcile(p)
    <3>1. BjRepos \ DOMAIN bj[p].seen \in SUBSET BjRepos
      OBVIOUS
    <3> QED
      BY <1>3, <1>4, <2>1, <3>1 DEF BjReconcile, JobTypes
  <2>2. CASE BjRecordEnrollment(p)
    BY <1>3, <1>4, <2>2 DEF BjRecordEnrollment
  <2> QED
    BY <2>1, <2>2
<1>6. bjLost' \in BOOLEAN
  BY DEF BjReconcile, BjRecordEnrollment
<1> QED
  BY <1>1, <1>2, <1>5, <1>6, OverIsJob, JobsStayJobs DEF JobTypes

\* A run keeps the types.
LEMMA RunTypes ==
  ASSUME JobTypes, NEW p \in LkProcs, BjRunBegin(p) \/ BjRepoBegin(p) \/ BjRepoEnd(p) \/ BjRunWrite(p) \/ BjClear(p)
  PROVE  JobTypes'
<1> DEFINE old == bj[p]
<1>1. /\ old \in BjJob /\ NoEntries \in Statuses /\ NoEntries \in Updates
      /\ Over(old) \in BjJob /\ Over(old).pc = "over" /\ Over(old).kind = old.kind
  BY Blanks, OverIsJob DEF JobTypes
<1>2. \A pc \in BjPcs : [old EXCEPT !.pc = pc] \in BjJob /\ [old EXCEPT !.pc = pc].kind = old.kind /\ [old EXCEPT !.pc = pc].pc = pc
                        /\ [old EXCEPT !.pc = pc].todo = old.todo
  BY <1>1 DEF BjJob
<1>3. CASE BjRunBegin(p)
  <2>1. bj' \in {[bj EXCEPT ![p] = [old EXCEPT !.pc = "read"]], [bj EXCEPT ![p] = Over(old)]}
    BY <1>3 DEF BjRunBegin, JobTypes
  <2>2. bjProgress' \in {bjProgress, p} /\ UNCHANGED <<bjStatus, bjLocks, bjOld, bjForeign, bjLost>>
    BY <1>3 DEF BjRunBegin
  <2>3. \E job \in BjJob : job.kind = old.kind /\ (job.pc \in {"restic", "remove", "apply"} => job.todo # {}) /\ bj' = [bj EXCEPT ![p] = job]
    BY <1>1, <1>2, <2>1 DEF BjPcs
  <2> QED
    BY <2>2, <2>3, JobsStayJobs DEF JobTypes
<1>4. CASE BjRepoBegin(p)
  <2>0. old.todo # {} /\ NextRepo(p) \in BjRepos
    BY <1>4, NextIs DEF BjRepoBegin
  <2>1. bj' \in {[bj EXCEPT ![p] = [old EXCEPT !.pc = "restic"]], [bj EXCEPT ![p] = [old EXCEPT !.todo = {}]],
                 [bj EXCEPT ![p] = [old EXCEPT !.pc = "clear"]]}
    BY <1>4 DEF BjRepoBegin, JobTypes
  <2>2. [old EXCEPT !.todo = {}] \in BjJob /\ [old EXCEPT !.todo = {}].kind = old.kind /\ [old EXCEPT !.todo = {}].pc = "repo"
    BY <1>1, <1>4 DEF BjJob, BjRepoBegin, BjWorks
  <2>3. bjProgress' \in {bjProgress, p} /\ UNCHANGED <<bjStatus, bjOld, bjForeign, bjLost>>
    BY <1>4 DEF BjRepoBegin
  <2>4. bjLocks' \in [BjRepos -> SUBSET Owners]
    BY <1>4, <2>0 DEF BjRepoBegin, JobTypes, Owners
  <2>5. \E job \in BjJob : job.kind = old.kind /\ (job.pc \in {"restic", "remove", "apply"} => job.todo # {}) /\ bj' = [bj EXCEPT ![p] = job]
    BY <1>1, <1>2, <2>0, <2>1, <2>2 DEF BjPcs
  <2> QED
    BY <2>3, <2>4, <2>5, JobsStayJobs DEF JobTypes
<1>5. CASE BjRepoEnd(p)
  <2>0. old.todo # {} /\ NextRepo(p) \in BjRepos
    BY <1>5, NextIs DEF BjRepoEnd, BjWorks, JobTypes
  <2>1. PICK ok \in BOOLEAN :
          bj' = [bj EXCEPT ![p] = [old EXCEPT !.pc = "repo", !.todo = old.todo \ {NextRepo(p)},
                   !.upd = WithUpdate(old.upd, NextRepo(p), [good |-> IF ok THEN p ELSE Nobody, check |-> Nobody, ok |-> ok])]]
    BY <1>5 DEF BjRepoEnd, JobTypes
  <2> DEFINE e == [good |-> IF ok THEN p ELSE Nobody, check |-> Nobody, ok |-> ok]
             u == WithUpdate(old.upd, NextRepo(p), e)
  <2>2. u \in Updates
    <3>1. DOMAIN old.upd \in SUBSET BjRepos /\ old.upd \in [DOMAIN old.upd -> BjEntry]
      BY <1>1, UpdatesIs DEF BjJob
    <3>2. e \in BjEntry
      BY DEF BjEntry, LkFiles
    <3>3. u = [n \in DOMAIN old.upd \cup {NextRepo(p)} |-> IF n = NextRepo(p) THEN e ELSE old.upd[n]]
      BY DEF WithUpdate
    <3> HIDE DEF e, u
    <3>4. u \in [DOMAIN old.upd \cup {NextRepo(p)} -> BjEntry]
      BY <3>1, <3>2, <3>3
    <3> QED
      BY <2>0, <3>1, <3>4 DEF Updates
  <2> HIDE DEF u
  <2>3. [old EXCEPT !.pc = "repo", !.todo = old.todo \ {NextRepo(p)}, !.upd = u] \in BjJob
    BY <1>1, <2>2 DEF BjJob, BjPcs
  <2>4. /\ [old EXCEPT !.pc = "repo", !.todo = old.todo \ {NextRepo(p)}, !.upd = u].kind = old.kind
        /\ [old EXCEPT !.pc = "repo", !.todo = old.todo \ {NextRepo(p)}, !.upd = u].pc = "repo"
    BY <1>1 DEF BjJob
  <2>5. bjLocks' \in [BjRepos -> SUBSET Owners] /\ UNCHANGED <<bjStatus, bjProgress, bjOld, bjForeign, bjLost>>
    BY <1>5, <2>0 DEF BjRepoEnd, JobTypes
  <2>6. \E job \in BjJob : job.kind = old.kind /\ (job.pc \in {"restic", "remove", "apply"} => job.todo # {}) /\ bj' = [bj EXCEPT ![p] = job]
    BY <2>1, <2>3, <2>4 DEF u
  <2> QED
    BY <2>5, <2>6, JobsStayJobs DEF JobTypes
<1>6. CASE BjRunWrite(p)
  <2>1. bj' = [bj EXCEPT ![p] = [Over(old) EXCEPT !.pc = "clear"]]
    BY <1>6 DEF BjRunWrite, JobTypes
  <2>2. /\ [Over(old) EXCEPT !.pc = "clear"] \in BjJob /\ [Over(old) EXCEPT !.pc = "clear"].kind = old.kind
        /\ [Over(old) EXCEPT !.pc = "clear"].pc = "clear"
    BY <1>1 DEF BjJob, BjPcs
  <2>3. UNCHANGED <<bjProgress, bjLocks, bjOld, bjForeign, bjLost>>
    BY <1>6 DEF BjRunWrite
  <2>4. bjStatus' \in Statuses \cup {Unreadable}
    <3>1. MergeStatus(old.seen, old.upd) \in Statuses
      BY <1>1, StatusMerged DEF BjJob
    <3>2. WithoutUnconfigured(MergeStatus(old.seen, old.upd)) \in Statuses
      BY <3>1, StatusTrimmed
    <3> QED
      BY <1>6, <3>2 DEF BjRunWrite, JobTypes
  <2> QED
    BY <2>1, <2>2, <2>3, <2>4, JobsStayJobs DEF JobTypes
<1>7. CASE BjClear(p)
  <2>1. bj' = [bj EXCEPT ![p] = Over(old)] /\ bjProgress' = Nobody
    BY <1>7 DEF BjClear, JobTypes
  <2>2. UNCHANGED <<bjStatus, bjLocks, bjOld, bjForeign, bjLost>>
    BY <1>7 DEF BjClear
  <2> QED
    BY <1>1, <2>1, <2>2, JobsStayJobs DEF JobTypes
<1> QED
  BY <1>3, <1>4, <1>5, <1>6, <1>7

\* A check and a sweep keep the types.
LEMMA CheckTypes ==
  ASSUME JobTypes, NEW p \in LkProcs, BjCheck(p) \/ BjUnlock(p) \/ BjRemoveAll(p) \/ BjApply(p)
  PROVE  JobTypes'
<1> DEFINE old == bj[p]
           r == NextRepo(p)
<1>1. old \in BjJob /\ Over(old) \in BjJob /\ Over(old).pc = "over" /\ Over(old).kind = old.kind
  BY OverIsJob DEF JobTypes
<1>2. old.todo # {} /\ r \in BjRepos /\ bjLocks[r] \in SUBSET Owners
  <2>1. old.todo # {}
    BY DEF BjCheck, BjUnlock, BjRemoveAll, BjApply, BjWorks, JobTypes
  <2> QED
    BY <2>1, NextIs DEF JobTypes
<1> HIDE DEF r
<1>3. CASE BjCheck(p)
  <2>1. PICK pc \in {"remove", "apply"} : bj' = [bj EXCEPT ![p] = [old EXCEPT !.list = bjLocks[r], !.pc = pc]]
    BY <1>3 DEF BjCheck, JobTypes, r
  <2>2. /\ [old EXCEPT !.list = bjLocks[r], !.pc = pc] \in BjJob
        /\ [old EXCEPT !.list = bjLocks[r], !.pc = pc].kind = old.kind
        /\ [old EXCEPT !.list = bjLocks[r], !.pc = pc].todo # {}
    BY <1>1, <1>2 DEF BjJob, BjPcs
  <2>3. UNCHANGED <<bjStatus, bjProgress, bjLocks, bjOld, bjForeign, bjLost>>
    BY <1>3 DEF BjCheck
  <2> QED
    BY <2>1, <2>2, <2>3, JobsStayJobs DEF JobTypes
<1>4. CASE BjUnlock(p)
  <2>1. bj' \in {[bj EXCEPT ![p] = [old EXCEPT !.list = bjLocks[r], !.pc = "remove"]],
                 [bj EXCEPT ![p] = [old EXCEPT !.todo = old.todo \ {r}]]}
    BY <1>4 DEF BjUnlock, JobTypes, r
  <2>2. /\ [old EXCEPT !.list = bjLocks[r], !.pc = "remove"] \in BjJob
        /\ [old EXCEPT !.list = bjLocks[r], !.pc = "remove"].kind = old.kind
        /\ [old EXCEPT !.list = bjLocks[r], !.pc = "remove"].todo # {}
    BY <1>1, <1>2 DEF BjJob, BjPcs
  <2>3. /\ [old EXCEPT !.todo = old.todo \ {r}] \in BjJob
        /\ [old EXCEPT !.todo = old.todo \ {r}].kind = old.kind
        /\ [old EXCEPT !.todo = old.todo \ {r}].pc = "repo"
    BY <1>1, <1>4 DEF BjJob, BjUnlock, BjWorks
  <2>4. UNCHANGED <<bjStatus, bjProgress, bjLocks, bjOld, bjForeign, bjLost>>
    BY <1>4 DEF BjUnlock
  <2>5. \E job \in BjJob : job.kind = old.kind /\ (job.pc \in {"restic", "remove", "apply"} => job.todo # {}) /\ bj' = [bj EXCEPT ![p] = job]
    BY <2>1, <2>2, <2>3
  <2> QED
    BY <2>4, <2>5, JobsStayJobs DEF JobTypes
<1>5. CASE BjRemoveAll(p)
  <2>1. bj' \in {[bj EXCEPT ![p] = [old EXCEPT !.pc = "apply"]],
                 [bj EXCEPT ![p] = [old EXCEPT !.pc = "repo", !.todo = old.todo \ {r}]]}
    BY <1>5 DEF BjRemoveAll, JobTypes, r
  <2>2. [old EXCEPT !.pc = "apply"] \in BjJob /\ [old EXCEPT !.pc = "apply"].kind = old.kind /\ [old EXCEPT !.pc = "apply"].todo # {}
    BY <1>1, <1>2 DEF BjJob, BjPcs
  <2>3. /\ [old EXCEPT !.pc = "repo", !.todo = old.todo \ {r}] \in BjJob
        /\ [old EXCEPT !.pc = "repo", !.todo = old.todo \ {r}].kind = old.kind
        /\ [old EXCEPT !.pc = "repo", !.todo = old.todo \ {r}].pc = "repo"
    BY <1>1 DEF BjJob, BjPcs
  <2>4. UNCHANGED <<bjStatus, bjProgress, bjOld, bjForeign, bjLost>> /\ bjLocks' \in [BjRepos -> SUBSET Owners]
    BY <1>2, <1>5 DEF BjRemoveAll, JobTypes
  <2>5. \E job \in BjJob : job.kind = old.kind /\ (job.pc \in {"restic", "remove", "apply"} => job.todo # {}) /\ bj' = [bj EXCEPT ![p] = job]
    BY <2>1, <2>2, <2>3
  <2> QED
    BY <2>4, <2>5, JobsStayJobs DEF JobTypes
<1>6. CASE BjApply(p)
  <2> DEFINE next == ApplyCheckResult(old.seen, r, p)
  <2>1. next \in Statuses
    BY <1>1, <1>2, StatusChecked DEF BjJob, Checked
  <2>2. /\ bj' \in {[bj EXCEPT ![p] = [old EXCEPT !.seen = next, !.pc = "repo", !.todo = old.todo \ {r}]],
                    [bj EXCEPT ![p] = Over(old)]}
        /\ bjStatus' \in {next, bjStatus}
    BY <1>6 DEF BjApply, JobTypes, r
  <2> HIDE DEF next
  <2>3. /\ [old EXCEPT !.seen = next, !.pc = "repo", !.todo = old.todo \ {r}] \in BjJob
        /\ [old EXCEPT !.seen = next, !.pc = "repo", !.todo = old.todo \ {r}].kind = old.kind
        /\ [old EXCEPT !.seen = next, !.pc = "repo", !.todo = old.todo \ {r}].pc = "repo"
    BY <1>1, <2>1 DEF BjJob, BjPcs
  <2>4. UNCHANGED <<bjProgress, bjLocks, bjOld, bjForeign, bjLost>>
    BY <1>6 DEF BjApply
  <2>5. \E job \in BjJob : job.kind = old.kind /\ (job.pc \in {"restic", "remove", "apply"} => job.todo # {}) /\ bj' = [bj EXCEPT ![p] = job]
    BY <1>1, <2>2, <2>3
  <2> QED
    BY <2>1, <2>2, <2>4, <2>5, JobsStayJobs DEF JobTypes
<1> QED
  BY <1>3, <1>4, <1>5, <1>6

\* A restore and the end of a job keep the types.
LEMMA RestoreTypes ==
  ASSUME JobTypes, NEW p \in LkProcs, BjRestoreRefused(p) \/ BjRestore(p) \/ BjRestored(p) \/ BjLetGo(p)
  PROVE  JobTypes'
<1> DEFINE old == bj[p]
<1>1. old \in BjJob /\ Over(old) \in BjJob /\ Over(old).pc = "over" /\ Over(old).kind = old.kind
  BY OverIsJob DEF JobTypes
<1>2. CASE BjRestoreRefused(p) \/ BjLetGo(p)
  <2>1. bj' = [bj EXCEPT ![p] = Over(old)] /\ UNCHANGED <<bjStatus, bjProgress, bjLocks, bjOld, bjForeign, bjLost>>
    BY <1>2 DEF BjRestoreRefused, BjLetGo, JobTypes
  <2> QED
    BY <1>1, <2>1, JobsStayJobs DEF JobTypes
<1>3. CASE BjRestore(p)
  <2>1. old.todo # {} /\ NextRepo(p) \in BjRepos
    BY <1>3, NextIs DEF BjRestore
  <2>2. bj' = [bj EXCEPT ![p] = [old EXCEPT !.pc = "restic"]] /\ UNCHANGED <<bjStatus, bjProgress, bjOld, bjForeign, bjLost>>
    BY <1>3 DEF BjRestore, JobTypes
  <2>3. [old EXCEPT !.pc = "restic"] \in BjJob /\ [old EXCEPT !.pc = "restic"].kind = old.kind /\ [old EXCEPT !.pc = "restic"].todo # {}
    BY <1>1, <2>1 DEF BjJob, BjPcs
  <2>4. bjLocks' \in [BjRepos -> SUBSET Owners]
    BY <1>3, <2>1 DEF BjRestore, JobTypes, Owners
  <2> QED
    BY <2>2, <2>3, <2>4, JobsStayJobs DEF JobTypes
<1>4. CASE BjRestored(p)
  <2>1. NextRepo(p) \in BjRepos
    BY <1>4, NextIs DEF BjRestored, BjWorks, JobTypes
  <2>2. bj' = [bj EXCEPT ![p] = Over(old)] /\ UNCHANGED <<bjStatus, bjProgress, bjOld, bjForeign, bjLost>>
    BY <1>4 DEF BjRestored, JobTypes
  <2>3. bjLocks' \in [BjRepos -> SUBSET Owners]
    BY <1>4, <2>1 DEF BjRestored, JobTypes
  <2> QED
    BY <1>1, <2>2, <2>3, JobsStayJobs DEF JobTypes
<1> QED
  BY <1>2, <1>3, <1>4

\* No step breaks the types.
LEMMA JobTypesHold ==
  ASSUME JobTypes, [BjNext]_bjAll
  PROVE  JobTypes'
<1>1. ASSUME NEW p \in LkProcs, BjStep(p) PROVE JobTypes'
  <2>1. CASE BjLockStep(p)
    BY <2>1 DEF BjLockStep, bjVars, JobTypes
  <2> QED
    BY <1>1, <2>1, ReadTypes, LockFreeTypes, RunTypes, CheckTypes, RestoreTypes DEF BjStep
<1>2. ASSUME NEW p \in LkProcs, BjHeartbeat(p) \/ BjLockFault(p) PROVE JobTypes'
  BY <1>2 DEF BjHeartbeat, BjLockFault, bjVars, JobTypes
<1>3. BjForeignLocks \/ BjForeignEnds => JobTypes'
  BY DEF BjForeignLocks, BjForeignEnds, JobTypes, Owners
<1>4. BjDay => JobTypes'
  <2>1. JobTypes => UNION Range(bjLocks) \subseteq Owners
    BY DEF JobTypes, Range
  <2> QED
    BY <2>1 DEF BjDay, JobTypes
<1>5. UNCHANGED bjAll => JobTypes'
  BY DEF bjAll, bjVars, JobTypes
<1> QED
  BY <1>1, <1>2, <1>3, <1>4, <1>5 DEF BjNext

\* What the jobs do is a step of the lock, and only a lock's own step moves a process in it.
LEMMA JobsStepLock ==
  ASSUME LkTypeOK, [BjNext]_bjAll
  PROVE  LkStep
<1>0. LkFault => lkFaults' \in {lkFaults, lkFaults + 1} /\ lkFaults' \in 0..LkMaxFault
  BY LkAssumption DEF LkFault, LkTypeOK
<1>1. lkFaults \in 0..LkMaxFault
  BY DEF LkTypeOK
<1>2. ASSUME NEW p \in LkProcs, BjStep(p) PROVE LkStep
  <2>1. CASE BjLockStep(p)
    BY <2>1 DEF BjLockStep, LkStep, LkNext
  <2>2. CASE BjLetGo(p)
    BY <2>2 DEF BjLetGo, LkStep, LkNext
  <2>3. CASE BjRunBegin(p) \/ BjRepoBegin(p) \/ BjRunWrite(p) \/ BjApply(p)
    <3>1. UNCHANGED <<lkPc, lkPath, lkWritten, lkOld, lkLegacy, lkSeen, lkAside, lkStolen>> /\ (UNCHANGED lkFaults \/ LkFault)
      BY <2>3 DEF BjRunBegin, BjRepoBegin, BjRunWrite, BjApply
    <3> QED
      BY <1>0, <1>1, <3>1 DEF LkStep
  <2>4. UNCHANGED lkVars => LkStep
    BY <1>1 DEF lkVars, LkStep
  <2> QED
    BY <1>2, <2>1, <2>2, <2>3, <2>4 DEF BjStep, BjReadStatus, BjReadLockFree, BjReconcile, BjRecordEnrollment,
          BjRepoEnd, BjClear, BjBegin, BjCheck, BjUnlock, BjRemoveAll, BjRestoreRefused, BjRestore, BjRestored
<1>3. ASSUME NEW p \in LkProcs, BjHeartbeat(p) \/ BjLockFault(p) PROVE LkStep
  BY <1>1, <1>3 DEF BjHeartbeat, BjLockFault, LkStep, LkNext, lkVars
<1>4. BjDay => LkStep
  BY DEF BjDay, LkStep, LkNext
<1>5. BjForeignLocks \/ BjForeignEnds \/ UNCHANGED bjAll => LkStep
  BY <1>1 DEF BjForeignLocks, BjForeignEnds, bjAll, lkVars, LkStep
<1> QED
  BY <1>2, <1>3, <1>4, <1>5 DEF BjNext

-----------------------------------------------------------------------------
(* The progress file.                                                      *)

RunLive(q) == lkPc[q] = "held" /\ bj[q].pc \in {"read", "repo", "restic", "clear"}

\* The progress file is that of a run.
ProgressRuns ==
  bjProgress # Nobody => bj[bjProgress].kind = "run" /\ (lkPc[bjProgress] = "crashed" \/ RunLive(bjProgress))

\* A repository that is done leaves the run its result.
LEMMA RepoEndIs ==
  ASSUME JobTypes, NEW p \in LkProcs, BjRepoEnd(p)
  PROVE  /\ bj'[p].kind = bj[p].kind /\ bj'[p].pc = "repo" /\ bj'[p].seen = bj[p].seen
         /\ \E ok \in BOOLEAN :
               bj'[p].upd = WithUpdate(bj[p].upd, NextRepo(p), [good |-> IF ok THEN p ELSE Nobody, check |-> Nobody, ok |-> ok])
         /\ \A q \in LkProcs : q # p => bj'[q] = bj[q]
<1>1. PICK ok \in BOOLEAN :
        bj' = [bj EXCEPT ![p] = [bj[p] EXCEPT !.pc = "repo", !.todo = bj[p].todo \ {NextRepo(p)},
                 !.upd = WithUpdate(bj[p].upd, NextRepo(p), [good |-> IF ok THEN p ELSE Nobody, check |-> Nobody, ok |-> ok])]]
  BY DEF BjRepoEnd, JobTypes
<1> DEFINE u == WithUpdate(bj[p].upd, NextRepo(p), [good |-> IF ok THEN p ELSE Nobody, check |-> Nobody, ok |-> ok])
<1> HIDE DEF u
<1>2. bj' = [bj EXCEPT ![p] = [bj[p] EXCEPT !.pc = "repo", !.todo = bj[p].todo \ {NextRepo(p)}, !.upd = u]]
  BY <1>1 DEF u
<1>3. /\ bj'[p].kind = bj[p].kind /\ bj'[p].pc = "repo" /\ bj'[p].seen = bj[p].seen /\ bj'[p].upd = u
      /\ \A q \in LkProcs : q # p => bj'[q] = bj[q]
  BY <1>2 DEF JobTypes, BjJob
<1> QED
  BY <1>3 DEF u

\* No step changes what a job is, and a step of a job changes no other.
LEMMA JobsKeepKind ==
  ASSUME JobTypes, [BjNext]_bjAll
  PROVE  \A p \in LkProcs : bj'[p].kind = bj[p].kind
<1>1. ASSUME NEW p \in LkProcs, NEW q \in LkProcs, BjStep(p) PROVE bj'[q].kind = bj[q].kind
  <2>0. bj[p] \in BjJob /\ Over(bj[p]).kind = bj[p].kind
    BY OverIsJob DEF JobTypes
  <2> HIDE DEF Over
  <2>1. CASE BjLockStep(p)
    BY <2>1 DEF BjLockStep, bjVars
  <2>2. CASE BjReadStatus(p) \/ BjReadLockFree(p) \/ BjReconcile(p) \/ BjRecordEnrollment(p) \/ BjBegin(p)
    BY <2>0, <2>2 DEF BjReadStatus, BjReadLockFree, BjReconcile, BjRecordEnrollment, BjBegin, JobTypes, BjJob
  <2>3. CASE BjRunBegin(p) \/ BjRepoBegin(p) \/ BjClear(p)
    BY <2>0, <2>3 DEF BjRunBegin, BjRepoBegin, BjClear, JobTypes, BjJob
  <2>7. CASE BjRepoEnd(p)
    BY <2>7, RepoEndIs DEF JobTypes
  <2>4. CASE BjRunWrite(p)
    <3>1. bj' = [bj EXCEPT ![p] = [Over(bj[p]) EXCEPT !.pc = "clear"]]
      BY <2>4 DEF BjRunWrite, JobTypes
    <3>2. [Over(bj[p]) EXCEPT !.pc = "clear"].kind = bj[p].kind
      BY <2>0, OverIsJob DEF BjJob
    <3> QED
      BY <3>1, <3>2 DEF JobTypes
  <2>5. CASE BjCheck(p) \/ BjUnlock(p) \/ BjRemoveAll(p) \/ BjApply(p)
    BY <2>0, <2>5 DEF BjCheck, BjUnlock, BjRemoveAll, BjApply, JobTypes, BjJob
  <2>6. CASE BjRestoreRefused(p) \/ BjRestore(p) \/ BjRestored(p) \/ BjLetGo(p)
    BY <2>0, <2>6 DEF BjRestoreRefused, BjRestore, BjRestored, BjLetGo, JobTypes, BjJob
  <2> QED
    BY <1>1, <2>1, <2>2, <2>3, <2>4, <2>5, <2>6, <2>7 DEF BjStep
<1>2. ASSUME NEW p \in LkProcs, BjHeartbeat(p) \/ BjLockFault(p) PROVE bj' = bj
  BY <1>2 DEF BjHeartbeat, BjLockFault, bjVars
<1>3. BjForeignLocks \/ BjForeignEnds \/ BjDay \/ UNCHANGED bjAll => bj' = bj
  BY DEF BjForeignLocks, BjForeignEnds, BjDay, bjAll, bjVars
<1> QED
  BY <1>1, <1>2, <1>3 DEF BjNext

\* A run that is under way goes on, is killed, or takes its progress file away.
LEMMA RunGoesOn ==
  ASSUME JobTypes, LkTypeOK, [BjNext]_bjAll, NEW q \in LkProcs, bj[q].kind = "run", RunLive(q)
  PROVE  lkPc'[q] = "crashed" \/ RunLive(q)' \/ bjProgress' = Nobody
<1> USE DEF RunLive, BjWorks
<1>1. ASSUME NEW p \in LkProcs, BjStep(p) PROVE lkPc'[q] = "crashed" \/ RunLive(q)' \/ bjProgress' = Nobody
  <2>1. CASE BjLockStep(p)
    <3>1. p # q
      BY <2>1 DEF BjLockStep, LkAcquire, LkRelease, LkOpen, LkWrite, LkStat, LkReadOwner, LkJudge, LkReread, LkRename, LkGrab,
                  LkPutBack, LkReadOwn, LkRemove
    <3>2. lkPc'[q] = lkPc[q]
      BY <2>1, <3>1 DEF BjLockStep, LkAcquire, LkRelease, LkOpen, LkWrite, LkStat, LkReadOwner, LkJudge, LkReread, LkRename, LkGrab,
                  LkPutBack, LkReadOwn, LkRemove, LkGoto, LkTypeOK
    <3> QED
      BY <2>1, <3>2 DEF BjLockStep, bjVars
  <2>2. CASE BjReadStatus(p) \/ BjReadLockFree(p) \/ BjReconcile(p) \/ BjRecordEnrollment(p) \/ BjBegin(p)
    BY <2>2 DEF BjReadStatus, BjReadLockFree, BjReconcile, BjRecordEnrollment, BjBegin, JobTypes, BjJob, lkVars, LockFree
  <2>3. CASE BjRunBegin(p) \/ BjRepoBegin(p) \/ BjClear(p)
    BY <2>3 DEF BjRunBegin, BjRepoBegin, BjClear, JobTypes, BjJob, lkVars
  <2>8. CASE BjRepoEnd(p)
    <3>1. lkPc' = lkPc
      BY <2>8 DEF BjRepoEnd, lkVars
    <3> QED
      BY <2>8, <3>1, RepoEndIs
  <2>4. CASE BjRunWrite(p)
    <3>1. bj' = [bj EXCEPT ![p] = [Over(bj[p]) EXCEPT !.pc = "clear"]] /\ lkPc' = lkPc
      BY <2>4 DEF BjRunWrite, JobTypes
    <3>2. [Over(bj[p]) EXCEPT !.pc = "clear"].pc = "clear"
      BY OverIsJob DEF JobTypes, BjJob
    <3> QED
      BY <3>1, <3>2 DEF JobTypes
  <2>5. CASE BjCheck(p) \/ BjUnlock(p) \/ BjRemoveAll(p) \/ BjApply(p)
    BY <2>5 DEF BjCheck, BjUnlock, BjRemoveAll, BjApply, JobTypes, BjJob, lkVars
  <2>6. CASE BjRestoreRefused(p) \/ BjRestore(p) \/ BjRestored(p)
    BY <2>6 DEF BjRestoreRefused, BjRestore, BjRestored, JobTypes, BjJob, lkVars
  <2>7. CASE BjLetGo(p)
    <3>1. p # q
      BY <2>7 DEF BjLetGo
    <3> QED
      BY <2>7, <3>1 DEF BjLetGo, LkLetGo, LkGoto, LkTypeOK, JobTypes
  <2> QED
    BY <1>1, <2>1, <2>2, <2>3, <2>4, <2>5, <2>6, <2>7, <2>8 DEF BjStep
<1>2. ASSUME NEW p \in LkProcs, BjHeartbeat(p) PROVE RunLive(q)'
  BY <1>2 DEF BjHeartbeat, lkVars
<1>3. ASSUME NEW p \in LkProcs, BjLockFault(p) PROVE lkPc'[q] = "crashed" \/ RunLive(q)'
  BY <1>3 DEF BjLockFault, LkWriteFails, LkCrash, LkGoto, LkTypeOK, bjVars
<1>4. BjForeignLocks \/ BjForeignEnds \/ BjDay \/ UNCHANGED bjAll => RunLive(q)'
  BY DEF BjForeignLocks, BjForeignEnds, BjDay, LkDay, bjAll, bjVars, lkVars
<1> QED
  BY <1>1, <1>2, <1>3, <1>4 DEF BjNext

\* Only a run that is under way writes the progress file.
LEMMA ProgressWritten ==
  ASSUME JobTypes, [BjNext]_bjAll, bjProgress' # bjProgress, bjProgress' # Nobody
  PROVE  \E p \in LkProcs : bjProgress' = p /\ bj[p].kind = "run" /\ RunLive(p)'
<1> USE DEF RunLive, BjWorks
<1>1. ASSUME NEW p \in LkProcs, BjStep(p)
      PROVE  bjProgress' = p /\ bj[p].kind = "run" /\ RunLive(p)'
  <2>1. CASE BjRunBegin(p)
    BY <2>1 DEF BjRunBegin, JobTypes, BjJob, LockFree
  <2>2. CASE BjRepoBegin(p)
    BY <2>2 DEF BjRepoBegin, JobTypes, BjJob, LockFree
  <2> QED
    BY <1>1, <2>1, <2>2 DEF BjStep, BjLockStep, bjVars, BjReadStatus, BjReadLockFree, BjReconcile, BjRecordEnrollment, BjBegin,
          BjRepoEnd, BjRunWrite, BjClear, BjCheck, BjUnlock, BjRemoveAll, BjApply, BjRestoreRefused, BjRestore, BjRestored, BjLetGo
<1>2. ASSUME NEW p \in LkProcs, BjHeartbeat(p) \/ BjLockFault(p)
      PROVE  bjProgress' = p /\ bj[p].kind = "run" /\ RunLive(p)'
  BY <1>2 DEF BjHeartbeat, BjLockFault, bjVars, lkVars
<1>3. BjForeignLocks \/ BjForeignEnds \/ BjDay \/ UNCHANGED bjAll => FALSE
  BY DEF BjForeignLocks, BjForeignEnds, BjDay, bjAll, bjVars
<1> QED
  BY <1>1, <1>2, <1>3 DEF BjNext

\* The progress file stays that of a run.
LEMMA ProgressHolds ==
  ASSUME JobTypes, LkTypeOK, ProgressRuns, [BjNext]_bjAll
  PROVE  ProgressRuns'
<1> DEFINE Fine(q) == bj[q].kind = "run" /\ (lkPc[q] = "crashed" \/ RunLive(q))
<1>1. ASSUME bjProgress' # bjProgress, bjProgress' # Nobody
      PROVE  \E p \in LkProcs : bjProgress' = p /\ Fine(p)'
  BY <1>1, ProgressWritten, JobsKeepKind
<1>2. ASSUME bjProgress' = bjProgress, bjProgress # Nobody
      PROVE  \E p \in LkProcs : bjProgress' = p /\ Fine(p)'
  <2>1. PICK q \in LkProcs : bjProgress = q
    BY <1>2 DEF JobTypes
  <2>2. Fine(q) /\ bj'[q].kind = "run" /\ bjProgress' # Nobody
    BY <1>2, <2>1, JobsKeepKind DEF ProgressRuns
  <2>3. lkPc[q] = "crashed" => lkPc'[q] = "crashed"
    BY LkOneMoves, JobsStepLock DEF LkEnded
  <2>4. RunLive(q) => lkPc'[q] = "crashed" \/ RunLive(q)'
    BY <2>2, RunGoesOn
  <2> QED
    BY <1>2, <2>1, <2>2, <2>3, <2>4
<1> QED
  BY <1>1, <1>2 DEF ProgressRuns, RunLive

-----------------------------------------------------------------------------
(* The status file.                                                        *)

Fields == {"good", "check"}
SameResults(s, t) == \A n \in BjRepos, f \in Fields : Recorded(s, n, f) = Recorded(t, n, f)

\* A result that a run has for a repository is its own.
UpdatesInv ==
  \A p \in LkProcs : \A n \in DOMAIN bj[p].upd :
    LET u == bj[p].upd[n] IN u.check = Nobody /\ u.good \in {p, Nobody} /\ (u.ok => u.good = p)

\* A job that waits for the lock has not begun.
Acquiring == {"open", "write", "stat", "owner", "judge", "reread", "rename", "grab", "putback"}
BegunInv == \A p \in LkProcs : lkPc[p] \in Acquiring => bj[p].kind \notin LockFree /\ bj[p].pc = "begin"

\* A job has the status file in hand: its copy holds the results that the file holds.
InHand(p) == bj[p].kind \in {"run", "check"} /\ bj[p].pc \in {"repo", "restic", "remove", "apply"}
SeenInv ==
  ~lkStolen /\ ~bjLost =>
    \A p \in LkProcs : lkPc[p] = "held" /\ InHand(p) => SameResults(bj[p].seen, bjStatus)

\* What becomes of the results in a merge, a trimmed and a checked status.
LEMMA MergeKeeps ==
  ASSUME NEW s \in Statuses, NEW u \in Updates, NEW n \in BjRepos
  PROVE  /\ Recorded(MergeStatus(s, u), n, "check") =
              IF n \in DOMAIN u /\ n \notin DOMAIN s THEN u[n].check ELSE Recorded(s, n, "check")
         /\ Recorded(MergeStatus(s, u), n, "good") =
              IF n \in DOMAIN u /\ (n \notin DOMAIN s \/ u[n].ok) THEN u[n].good ELSE Recorded(s, n, "good")
<1> DEFINE m == MergeStatus(s, u)
<1>0. /\ m \in Statuses /\ DOMAIN m = DOMAIN s \cup DOMAIN u /\ m # Unreadable /\ s # Unreadable
      /\ s \in [DOMAIN s -> BjEntry] /\ u \in [DOMAIN u -> BjEntry]
  BY StatusMerged, StatusIs, UpdatesIs
<1>1. CASE n \notin DOMAIN s \cup DOMAIN u
  BY <1>0, <1>1 DEF Recorded
<1>2. CASE n \in DOMAIN s /\ n \notin DOMAIN u
  <2>1. m[n] = s[n]
    BY <1>2 DEF MergeStatus
  <2> QED
    BY <1>0, <1>2, <2>1 DEF Recorded
<1>3. CASE n \notin DOMAIN s /\ n \in DOMAIN u
  <2>1. m[n] = u[n]
    BY <1>3 DEF MergeStatus
  <2> QED
    BY <1>0, <1>3, <2>1 DEF Recorded
<1>4. CASE n \in DOMAIN s /\ n \in DOMAIN u
  <2>1. m[n] = [u[n] EXCEPT !.check = s[n].check, !.good = IF u[n].ok THEN @ ELSE s[n].good]
    BY <1>4 DEF MergeStatus
  <2>2. m[n].check = s[n].check /\ m[n].good = IF u[n].ok THEN u[n].good ELSE s[n].good
    BY <1>0, <1>4, <2>1 DEF BjEntry
  <2> QED
    BY <1>0, <1>4, <2>2 DEF Recorded
<1> QED
  BY <1>1, <1>2, <1>3, <1>4

\* Trimming a status keeps the results of the configured repositories.
LEMMA TrimKeeps ==
  ASSUME NEW s \in Statuses
  PROVE  SameResults(WithoutUnconfigured(s), s)
<1>1. s # Unreadable /\ WithoutUnconfigured(s) # Unreadable
  BY StatusTrimmed, StatusIs
<1> QED
  BY <1>1, StatusTrimmed DEF SameResults, Recorded

\* The result of a check replaces that of its repository, and no other.
LEMMA CheckKeeps ==
  ASSUME NEW s \in Statuses, NEW r \in BjRepos, NEW p \in LkProcs, NEW n \in BjRepos, NEW f \in Fields
  PROVE  Recorded(ApplyCheckResult(s, r, p), n, f) \in {Recorded(s, n, f), p}
<1> DEFINE a == ApplyCheckResult(s, r, p)
<1>1. Checked(a, s, r, p)
  BY StatusChecked
<1> HIDE DEF a
<1>3. s # Unreadable /\ a # Unreadable
  BY <1>1, StatusIs DEF Checked
<1>2. Recorded(a, n, f) \in {Recorded(s, n, f), p}
  <2>1. CASE n # r
    BY <1>1, <1>3, <2>1 DEF Recorded, Checked
  <2>2. CASE n = r
    BY <1>1, <1>3, <2>2 DEF Recorded, Fields, Checked
  <2> QED
    BY <2>1, <2>2
<1> QED
  BY <1>2 DEF a

\* A blank entry replaces no result.
LEMMA BlankKeeps ==
  ASSUME NEW s \in Statuses, NEW S \in SUBSET BjRepos
  PROVE  [n \in S |-> BjBlank] \in Updates /\ SameResults(MergeStatus(s, [n \in S |-> BjBlank]), s)
<1> DEFINE u == [n \in S |-> BjBlank]
<1>1. u \in Updates /\ DOMAIN u = S /\ \A n \in S : u[n] = BjBlank
  BY Blanks DEF Updates
<1> HIDE DEF u
<1>2. s # Unreadable
  BY StatusIs
<1>3. ASSUME NEW n \in BjRepos
      PROVE  /\ Recorded(MergeStatus(s, u), n, "check") = Recorded(s, n, "check")
             /\ Recorded(MergeStatus(s, u), n, "good") = Recorded(s, n, "good")
  BY <1>1, <1>2, MergeKeeps DEF BjBlank, Recorded
<1>4. u \in Updates /\ SameResults(MergeStatus(s, u), s)
  BY <1>1, <1>3 DEF SameResults, Fields
<1> QED
  BY <1>4 DEF u

\* A lock-free job that writes over nothing newer changes no result.
LEMMA LockFreeKeeps ==
  ASSUME JobTypes, NEW p \in LkProcs, BjReconcile(p) \/ BjRecordEnrollment(p), ~bjLost'
  PROVE  SameResults(bjStatus', bjStatus)
<1> DEFINE s == bj[p].seen
<1>1. s \in Statuses
  BY DEF JobTypes, BjJob
<1>2. CASE bjStatus' = bjStatus
  BY <1>2 DEF SameResults
<1>3. CASE bjStatus' # bjStatus
  <2>1. bjStatus = s
    BY <1>3 DEF BjReconcile, BjRecordEnrollment
  <2>2. CASE BjReconcile(p)
    <3> DEFINE u == [n \in BjRepos \ DOMAIN s |-> BjBlank]
    <3>1. BjRepos \ DOMAIN s \in SUBSET BjRepos
      OBVIOUS
    <3>2. u \in Updates /\ SameResults(MergeStatus(s, u), s)
      BY <1>1, <3>1, BlankKeeps
    <3>3. bjStatus' = WithoutUnconfigured(MergeStatus(s, u))
      BY <1>3, <2>2 DEF BjReconcile
    <3> HIDE DEF u
    <3>4. SameResults(WithoutUnconfigured(MergeStatus(s, u)), MergeStatus(s, u))
      BY <1>1, <3>2, StatusMerged, TrimKeeps
    <3> QED
      BY <2>1, <3>2, <3>3, <3>4 DEF SameResults
  <2>3. CASE BjRecordEnrollment(p)
    <3>1. SameResults(MergeStatus(s, [n \in BjRepos |-> BjBlank]), s)
      BY <1>1, BlankKeeps
    <3> QED
      BY <2>1, <2>3, <3>1 DEF BjRecordEnrollment
  <2> QED
    BY <2>2, <2>3
<1> QED
  BY <1>2, <1>3

\* A run and a check put their own results into what they have read.
LEMMA RunWrites ==
  ASSUME JobTypes, UpdatesInv, NEW p \in LkProcs, BjRunWrite(p)
  PROVE  \/ bjStatus' = bjStatus
         \/ \A n \in BjRepos, f \in Fields : Recorded(bjStatus', n, f) \in {Recorded(bj[p].seen, n, f), p}
<1> DEFINE s == bj[p].seen
           u == bj[p].upd
           m == MergeStatus(s, u)
<1>1. s \in Statuses /\ u \in Updates /\ m \in Statuses /\ s # Unreadable
  <2>1. s \in Statuses /\ u \in Updates
    BY DEF JobTypes, BjJob
  <2> QED
    BY <2>1, StatusMerged, StatusIs
<1>2. bjStatus' = bjStatus \/ bjStatus' = WithoutUnconfigured(m)
  BY DEF BjRunWrite
<1>3. \A n \in DOMAIN u : u[n].check = Nobody /\ u[n].good \in {p, Nobody} /\ (u[n].ok => u[n].good = p)
  BY DEF UpdatesInv
<1>4. SameResults(WithoutUnconfigured(m), m)
  BY <1>1, TrimKeeps
<1>5. ASSUME NEW n \in BjRepos
      PROVE  Recorded(m, n, "check") = Recorded(s, n, "check") /\ Recorded(m, n, "good") \in {Recorded(s, n, "good"), p}
  <2> HIDE DEF s, u, m
  <2>1. /\ Recorded(m, n, "check") = IF n \in DOMAIN u /\ n \notin DOMAIN s THEN u[n].check ELSE Recorded(s, n, "check")
        /\ Recorded(m, n, "good") = IF n \in DOMAIN u /\ (n \notin DOMAIN s \/ u[n].ok) THEN u[n].good ELSE Recorded(s, n, "good")
    BY <1>1, MergeKeeps DEF m
  <2>2. n \notin DOMAIN s => Recorded(s, n, "check") = Nobody /\ Recorded(s, n, "good") = Nobody
    BY DEF Recorded
  <2> QED
    BY <1>3, <2>1, <2>2
<1> HIDE DEF s, u, m
<1>6. \A n \in BjRepos, f \in Fields : Recorded(WithoutUnconfigured(m), n, f) \in {Recorded(s, n, f), p}
  BY <1>4, <1>5 DEF SameResults, Fields
<1> QED
  BY <1>2, <1>6 DEF s

\* A check that writes the file puts its own result among those it has read, and goes on with what it wrote.
LEMMA CheckWrites ==
  ASSUME JobTypes, NEW p \in LkProcs, BjApply(p)
  PROVE  \/ bjStatus' = bjStatus /\ bj'[p].pc = "over"
         \/ /\ bj'[p].seen = bjStatus'
            /\ \A n \in BjRepos, f \in Fields : Recorded(bjStatus', n, f) \in {Recorded(bj[p].seen, n, f), p}
<1> DEFINE next == ApplyCheckResult(bj[p].seen, NextRepo(p), p)
<1>1. bj[p] \in BjJob /\ bj[p].seen \in Statuses /\ NextRepo(p) \in BjRepos
  <2>1. bj[p].todo # {}
    BY DEF BjApply, BjWorks, JobTypes
  <2> QED
    BY <2>1, NextIs DEF JobTypes, BjJob
<1>2. \A n \in BjRepos, f \in Fields : Recorded(next, n, f) \in {Recorded(bj[p].seen, n, f), p}
  BY <1>1, CheckKeeps
<1>3. \/ bjStatus' = next /\ bj' = [bj EXCEPT ![p] = [bj[p] EXCEPT !.seen = next, !.pc = "repo", !.todo = bj[p].todo \ {NextRepo(p)}]]
      \/ bjStatus' = bjStatus /\ bj' = [bj EXCEPT ![p] = Over(bj[p])]
  BY DEF BjApply, JobTypes
<1> HIDE DEF next
<1>4. CASE bjStatus' = next /\ bj' = [bj EXCEPT ![p] = [bj[p] EXCEPT !.seen = next, !.pc = "repo", !.todo = bj[p].todo \ {NextRepo(p)}]]
  <2>1. bj'[p].seen = next
    BY <1>1, <1>4 DEF JobTypes, BjJob
  <2> QED
    BY <1>2, <1>4, <2>1
<1>5. CASE bjStatus' = bjStatus /\ bj' = [bj EXCEPT ![p] = Over(bj[p])]
  BY <1>1, <1>5, OverIsJob DEF JobTypes
<1> QED
  BY <1>3, <1>4, <1>5

\* A job moves only while it holds the lock, or needs none.
LEMMA HoldersMove ==
  ASSUME JobTypes, [BjNext]_bjAll, NEW q \in LkProcs, bj'[q] # bj[q]
  PROVE  bj[q].kind \in LockFree \/ lkPc[q] = "held"
<1>1. ASSUME NEW p \in LkProcs, BjStep(p)
      PROVE  p = q /\ (bj[p].kind \in LockFree \/ lkPc[p] = "held")
  <2>1. ASSUME NEW job, bj' = [bj EXCEPT ![p] = job] PROVE p = q
    BY <2>1 DEF JobTypes
  <2>2. CASE BjLockStep(p)
    BY <2>2 DEF BjLockStep, bjVars
  <2>3. CASE BjReadStatus(p) \/ BjReadLockFree(p) \/ BjReconcile(p) \/ BjRecordEnrollment(p) \/ BjBegin(p)
    BY <2>3 DEF BjReadStatus, BjReadLockFree, BjReconcile, BjRecordEnrollment, BjBegin, BjWorks, JobTypes
  <2>4. CASE BjRunBegin(p) \/ BjRepoBegin(p) \/ BjRunWrite(p) \/ BjClear(p)
    BY <2>4 DEF BjRunBegin, BjRepoBegin, BjRunWrite, BjClear, BjWorks, JobTypes
  <2>5. CASE BjRepoEnd(p)
    BY <2>5, RepoEndIs DEF BjRepoEnd, BjWorks
  <2>6. CASE BjCheck(p) \/ BjUnlock(p) \/ BjRemoveAll(p) \/ BjApply(p)
    BY <2>6 DEF BjCheck, BjUnlock, BjRemoveAll, BjApply, BjWorks, JobTypes
  <2>7. CASE BjRestoreRefused(p) \/ BjRestore(p) \/ BjRestored(p) \/ BjLetGo(p)
    BY <2>7 DEF BjRestoreRefused, BjRestore, BjRestored, BjLetGo, BjWorks, JobTypes
  <2> QED
    BY <1>1, <2>2, <2>3, <2>4, <2>5, <2>6, <2>7 DEF BjStep
<1>2. ASSUME NEW p \in LkProcs, BjHeartbeat(p) \/ BjLockFault(p) PROVE FALSE
  BY <1>2 DEF BjHeartbeat, BjLockFault, bjVars
<1>3. BjForeignLocks \/ BjForeignEnds \/ BjDay \/ UNCHANGED bjAll => FALSE
  BY DEF BjForeignLocks, BjForeignEnds, BjDay, bjAll, bjVars
<1> QED
  BY <1>1, <1>2, <1>3 DEF BjNext

\* A process waits for the lock, has just made its file, holds it, or is past it.
LEMMA LockGoesOn ==
  ASSUME LkTypeOK, LkStep, NEW q \in LkProcs
  PROVE  /\ lkPc'[q] \in Acquiring => lkPc[q] \in Acquiring
         /\ lkPc'[q] = "held" => lkPc[q] \in {"write", "held"}
<1> USE DEF LkTypeOK, LkGoto, Acquiring, LkEnded
<1> DEFINE Goal == /\ lkPc'[q] \in Acquiring => lkPc[q] \in Acquiring
                   /\ lkPc'[q] = "held" => lkPc[q] \in {"write", "held"}
<1>1. ASSUME NEW p \in LkProcs, LkAcquire(p) PROVE Goal
  <2>1. CASE LkJudge(p)
    <3>1. Verdicts(p) \subseteq {"skipped", "failed", "reread"}
      BY DEF Verdicts
    <3> QED
      BY <2>1, <3>1 DEF LkJudge
  <2>2. CASE LkOpen(p) \/ LkWrite(p) \/ LkStat(p) \/ LkReadOwner(p)
    BY <2>2 DEF LkOpen, LkWrite, LkStat, LkReadOwner
  <2>3. CASE LkReread(p) \/ LkRename(p) \/ LkGrab(p) \/ LkPutBack(p)
    BY <2>3 DEF LkReread, LkRename, LkGrab, LkPutBack
  <2> QED
    BY <1>1, <2>1, <2>2, <2>3 DEF LkAcquire
<1>2. ASSUME NEW p \in LkProcs, LkRelease(p) \/ LkLetGo(p) \/ LkWriteFails(p) \/ LkCrash(p) PROVE Goal
  BY <1>2 DEF LkRelease, LkReadOwn, LkRemove, LkLetGo, LkWriteFails, LkCrash
<1>3. LkDay \/ UNCHANGED lkPc => Goal
  BY DEF LkDay
<1> QED
  BY <1>1, <1>2, <1>3 DEF LkStep, LkNext

\* No job begins before it has the lock.
LEMMA BegunHolds ==
  ASSUME JobTypes, LkTypeOK, BegunInv, [BjNext]_bjAll
  PROVE  BegunInv'
<1> SUFFICES ASSUME NEW q \in LkProcs, lkPc'[q] \in Acquiring
             PROVE  bj'[q].kind \notin LockFree /\ bj'[q].pc = "begin"
  BY DEF BegunInv
<1>1. lkPc[q] \in Acquiring
  BY LockGoesOn, JobsStepLock
<1>2. bj[q].kind \notin LockFree /\ bj[q].pc = "begin" /\ lkPc[q] # "held"
  BY <1>1 DEF BegunInv, Acquiring
<1> QED
  BY <1>2, HoldersMove

\* The results of a run are those it had, with one more of its own.
LEMMA UpdatesHold ==
  ASSUME JobTypes, UpdatesInv, [BjNext]_bjAll
  PROVE  UpdatesInv'
<1> DEFINE Own(p, u) == \A n \in DOMAIN u : u[n].check = Nobody /\ u[n].good \in {p, Nobody} /\ (u[n].ok => u[n].good = p)
<1>1. \A p \in LkProcs : Own(p, NoEntries) /\ Over(bj[p]).upd = NoEntries
  BY Blanks DEF Over, JobTypes, BjJob
<1>2. ASSUME NEW p \in LkProcs, BjStep(p), NEW q \in LkProcs PROVE Own(q, bj'[q].upd)
  <2>0. Own(q, bj[q].upd) /\ Own(p, bj[p].upd) /\ bj[p] \in BjJob /\ bj[q] \in BjJob
    BY DEF UpdatesInv, JobTypes
  <2>1. CASE BjRepoEnd(p)
    <3>1. CASE q = p
      <4>1. PICK ok \in BOOLEAN :
              bj'[p].upd = WithUpdate(bj[p].upd, NextRepo(p), [good |-> IF ok THEN p ELSE Nobody, check |-> Nobody, ok |-> ok])
        BY <2>1, RepoEndIs
      <4> DEFINE e == [good |-> IF ok THEN p ELSE Nobody, check |-> Nobody, ok |-> ok]
      <4>2. e.check = Nobody /\ e.good \in {p, Nobody} /\ (e.ok => e.good = p)
        OBVIOUS
      <4> HIDE DEF e
      <4>3. bj'[p].upd = [n \in DOMAIN bj[p].upd \cup {NextRepo(p)} |-> IF n = NextRepo(p) THEN e ELSE bj[p].upd[n]]
        BY <4>1 DEF WithUpdate, e
      <4> QED
        BY <2>0, <3>1, <4>2, <4>3
    <3>2. CASE q # p
      BY <2>0, <2>1, <3>2, RepoEndIs
    <3> QED
      BY <3>1, <3>2
  <2>2. CASE ~BjRepoEnd(p)
    <3>1. bj'[q].upd = bj[q].upd \/ bj'[q].upd = NoEntries
      <4> HIDE DEF Own, Over
      <4>1. CASE BjLockStep(p)
        BY <4>1 DEF BjLockStep, bjVars
      <4>2. CASE BjReadStatus(p) \/ BjReadLockFree(p) \/ BjReconcile(p) \/ BjRecordEnrollment(p) \/ BjBegin(p)
        BY <1>1, <2>0, <4>2 DEF BjReadStatus, BjReadLockFree, BjReconcile, BjRecordEnrollment, BjBegin, JobTypes, BjJob
      <4>3. CASE BjRunBegin(p) \/ BjRepoBegin(p) \/ BjClear(p)
        BY <1>1, <2>0, <4>3 DEF BjRunBegin, BjRepoBegin, BjClear, JobTypes, BjJob
      <4>4. CASE BjRunWrite(p)
        <5>1. bj' = [bj EXCEPT ![p] = [Over(bj[p]) EXCEPT !.pc = "clear"]]
          BY <4>4 DEF BjRunWrite, JobTypes
        <5>2. [Over(bj[p]) EXCEPT !.pc = "clear"].upd = NoEntries
          BY <1>1, <2>0, OverIsJob DEF BjJob
        <5> QED
          BY <5>1, <5>2 DEF JobTypes
      <4>5. CASE BjCheck(p) \/ BjUnlock(p) \/ BjRemoveAll(p)
        BY <2>0, <4>5 DEF BjCheck, BjUnlock, BjRemoveAll, JobTypes, BjJob
      <4>6. CASE BjApply(p)
        BY <1>1, <2>0, <4>6 DEF BjApply, JobTypes, BjJob
      <4>7. CASE BjRestoreRefused(p) \/ BjRestore(p) \/ BjRestored(p) \/ BjLetGo(p)
        BY <1>1, <2>0, <4>7 DEF BjRestoreRefused, BjRestore, BjRestored, BjLetGo, JobTypes, BjJob
      <4> QED
        BY <1>2, <2>2, <4>1, <4>2, <4>3, <4>4, <4>5, <4>6, <4>7 DEF BjStep
    <3> QED
      BY <1>1, <2>0, <3>1
  <2> QED
    BY <2>1, <2>2
<1>3. ASSUME NEW p \in LkProcs, BjHeartbeat(p) \/ BjLockFault(p) PROVE bj' = bj
  BY <1>3 DEF BjHeartbeat, BjLockFault, bjVars
<1>4. BjForeignLocks \/ BjForeignEnds \/ BjDay \/ UNCHANGED bjAll => bj' = bj
  BY DEF BjForeignLocks, BjForeignEnds, BjDay, bjAll, bjVars
<1>5. \A q \in LkProcs : Own(q, bj'[q].upd)
  <2>1. \A q \in LkProcs : Own(q, bj[q].upd)
    BY DEF UpdatesInv
  <2> QED
    BY <1>2, <1>3, <1>4, <2>1 DEF BjNext
<1> QED
  BY <1>5 DEF UpdatesInv

\* How a job comes to have the file in hand: it had it, it reads it, or it has written it.
LEMMA InHandFrom ==
  ASSUME JobTypes, [BjNext]_bjAll, NEW q \in LkProcs, InHand(q)'
  PROVE  \/ InHand(q) /\ bj'[q].seen = bj[q].seen
         \/ SameResults(bj'[q].seen, bjStatus) /\ bjStatus' = bjStatus
         \/ bj'[q].seen = bjStatus'
<1> USE DEF InHand
<1> DEFINE Goal == \/ InHand(q) /\ bj'[q].seen = bj[q].seen
                   \/ SameResults(bj'[q].seen, bjStatus) /\ bjStatus' = bjStatus
                   \/ bj'[q].seen = bjStatus'
<1>0. bj'[q] = bj[q] => Goal
  OBVIOUS
<1>1. ASSUME NEW p \in LkProcs, BjStep(p) PROVE Goal
  <2>0. /\ bj[p] \in BjJob /\ bj[p] \in [kind : BjKinds, pc : BjPcs, todo : SUBSET BjRepos, seen : Statuses, upd : Updates, list : SUBSET Owners]
        /\ Over(bj[p]) \in BjJob /\ Over(bj[p]).pc = "over"
    BY OverIsJob DEF JobTypes, BjJob
  <2> HIDE DEF Over
  <2>1. CASE BjLockStep(p)
    BY <1>0, <2>1 DEF BjLockStep, bjVars
  <2>2. CASE BjReadStatus(p)
    <3>1. CASE q = p
      <4>1. bj'[q].seen = (IF bjStatus = Unreadable THEN NoEntries ELSE bjStatus) /\ bjStatus' = bjStatus
        BY <2>0, <2>2, <3>1 DEF BjReadStatus, JobTypes
      <4>2. SameResults(NoEntries, Unreadable)
        BY Blanks DEF SameResults, Recorded
      <4>3. SameResults(bjStatus, bjStatus)
        BY DEF SameResults
      <4> QED
        BY <4>1, <4>2, <4>3
    <3>2. CASE q # p
      BY <1>0, <2>2, <3>2 DEF BjReadStatus, JobTypes
    <3> QED
      BY <3>1, <3>2
  <2>3. CASE BjReadLockFree(p) \/ BjReconcile(p) \/ BjRecordEnrollment(p) \/ BjBegin(p)
    BY <1>0, <2>0, <2>3 DEF BjReadLockFree, BjReconcile, BjRecordEnrollment, BjBegin, BjWorks, LockFree, JobTypes
  <2>4. CASE BjRunBegin(p) \/ BjRepoBegin(p) \/ BjClear(p)
    BY <1>0, <2>0, <2>4 DEF BjRunBegin, BjRepoBegin, BjClear, BjWorks, JobTypes
  <2>5. CASE BjRepoEnd(p)
    BY <1>0, <2>0, <2>5, RepoEndIs DEF BjRepoEnd, BjWorks
  <2>6. CASE BjRunWrite(p)
    <3>1. bj' = [bj EXCEPT ![p] = [Over(bj[p]) EXCEPT !.pc = "clear"]]
      BY <2>6 DEF BjRunWrite, JobTypes
    <3>2. [Over(bj[p]) EXCEPT !.pc = "clear"].pc = "clear"
      BY <2>0 DEF BjJob
    <3> QED
      BY <1>0, <3>1, <3>2 DEF JobTypes
  <2>7. CASE BjCheck(p) \/ BjUnlock(p) \/ BjRemoveAll(p)
    BY <1>0, <2>0, <2>7 DEF BjCheck, BjUnlock, BjRemoveAll, BjWorks, JobTypes
  <2>8. CASE BjApply(p)
    <3>1. CASE q = p
      BY <2>8, <3>1, CheckWrites
    <3>2. CASE q # p
      BY <1>0, <2>8, <3>2 DEF BjApply, JobTypes
    <3> QED
      BY <3>1, <3>2
  <2>9. CASE BjRestoreRefused(p) \/ BjRestore(p) \/ BjRestored(p) \/ BjLetGo(p)
    BY <1>0, <2>0, <2>9 DEF BjRestoreRefused, BjRestore, BjRestored, BjLetGo, BjWorks, JobTypes
  <2> QED
    BY <1>1, <2>1, <2>2, <2>3, <2>4, <2>5, <2>6, <2>7, <2>8, <2>9 DEF BjStep
<1>2. ASSUME NEW p \in LkProcs, BjHeartbeat(p) \/ BjLockFault(p) PROVE Goal
  BY <1>0, <1>2 DEF BjHeartbeat, BjLockFault, bjVars
<1>3. BjForeignLocks \/ BjForeignEnds \/ BjDay \/ UNCHANGED bjAll => Goal
  BY <1>0 DEF BjForeignLocks, BjForeignEnds, BjDay, bjAll, bjVars
<1> QED
  BY <1>1, <1>2, <1>3 DEF BjNext

\* What a step makes of the results: nothing, or the job that holds the lock and has the file
\* in hand puts its own among those it has read.
LEMMA ResultsFrom ==
  ASSUME JobTypes, UpdatesInv, [BjNext]_bjAll, ~bjLost'
  PROVE  \/ SameResults(bjStatus', bjStatus)
         \/ \E p \in LkProcs :
              /\ lkPc[p] = "held" /\ InHand(p) /\ bj'[p] # bj[p]
              /\ InHand(p)' => bj'[p].seen = bjStatus'
              /\ \A n \in BjRepos, f \in Fields : Recorded(bjStatus', n, f) \in {Recorded(bj[p].seen, n, f), p}
<1>0. bjStatus' = bjStatus => SameResults(bjStatus', bjStatus)
  BY DEF SameResults
<1>1. ASSUME NEW p \in LkProcs, BjStep(p), ~SameResults(bjStatus', bjStatus)
      PROVE  /\ lkPc[p] = "held" /\ InHand(p) /\ bj'[p] # bj[p]
             /\ InHand(p)' => bj'[p].seen = bjStatus'
             /\ \A n \in BjRepos, f \in Fields : Recorded(bjStatus', n, f) \in {Recorded(bj[p].seen, n, f), p}
  <2>1. CASE BjRunWrite(p)
    <3>1. bj'[p].pc = "clear"
      <4>1. bj' = [bj EXCEPT ![p] = [Over(bj[p]) EXCEPT !.pc = "clear"]]
        BY <2>1 DEF BjRunWrite, JobTypes
      <4>2. [Over(bj[p]) EXCEPT !.pc = "clear"].pc = "clear"
        BY OverIsJob DEF BjJob, JobTypes
      <4> QED
        BY <4>1, <4>2 DEF JobTypes
    <3>2. lkPc[p] = "held" /\ InHand(p)
      BY <2>1 DEF BjRunWrite, BjWorks, InHand, LockFree
    <3> QED
      BY <1>0, <1>1, <2>1, <3>1, <3>2, RunWrites DEF InHand
  <2>2. CASE BjApply(p)
    <3>1. lkPc[p] = "held" /\ InHand(p) /\ bj[p].pc = "apply"
      BY <2>2 DEF BjApply, BjWorks, InHand, LockFree
    <3>2. bj'[p].pc # "apply"
      <4>1. bj[p] \in BjJob /\ Over(bj[p]).pc = "over"
        BY OverIsJob DEF JobTypes
      <4> HIDE DEF Over
      <4> QED
        BY <2>2, <4>1 DEF BjApply, JobTypes, BjJob
    <3> QED
      BY <1>0, <1>1, <2>2, <3>1, <3>2, CheckWrites
  <2>3. CASE BjReconcile(p) \/ BjRecordEnrollment(p)
    BY <1>1, <2>3, LockFreeKeeps
  <2> QED
    BY <1>0, <1>1, <2>1, <2>2, <2>3 DEF BjStep, BjLockStep, bjVars, BjReadStatus, BjReadLockFree, BjRunBegin, BjRepoBegin, BjRepoEnd,
          BjClear, BjBegin, BjCheck, BjUnlock, BjRemoveAll, BjRestoreRefused, BjRestore, BjRestored, BjLetGo
<1>2. ASSUME NEW p \in LkProcs, BjHeartbeat(p) \/ BjLockFault(p) PROVE bjStatus' = bjStatus
  BY <1>2 DEF BjHeartbeat, BjLockFault, bjVars
<1>3. BjForeignLocks \/ BjForeignEnds \/ BjDay \/ UNCHANGED bjAll => bjStatus' = bjStatus
  BY DEF BjForeignLocks, BjForeignEnds, BjDay, bjAll, bjVars
<1> QED
  BY <1>0, <1>1, <1>2, <1>3 DEF BjNext

\* A stolen lock and a lost result are remembered.
LEMMA HistoryStays ==
  ASSUME [BjNext]_bjAll
  PROVE  (lkStolen => lkStolen') /\ (bjLost => bjLost')
<1>1. ASSUME NEW p \in LkProcs, LkAcquire(p) PROVE lkStolen => lkStolen'
  BY <1>1 DEF LkAcquire, LkOpen, LkWrite, LkStat, LkReadOwner, LkJudge, LkReread, LkRename, LkGrab, LkPutBack
<1>2. ASSUME NEW p \in LkProcs, LkRelease(p) \/ LkLetGo(p) \/ LkWriteFails(p) \/ LkCrash(p) PROVE lkStolen => lkStolen'
  BY <1>2 DEF LkRelease, LkReadOwn, LkRemove, LkLetGo, LkWriteFails, LkCrash
<1>3. ASSUME NEW p \in LkProcs, BjStep(p) PROVE (lkStolen => lkStolen') /\ (bjLost => bjLost')
  <2>1. CASE BjLockStep(p) \/ BjLetGo(p)
    BY <1>1, <1>2, <2>1 DEF BjLockStep, BjLetGo, bjVars
  <2>2. CASE BjReconcile(p) \/ BjRecordEnrollment(p)
    <3>1. lkStolen' = lkStolen
      BY <2>2 DEF BjReconcile, BjRecordEnrollment, lkVars
    <3>2. bjLost' = (bjLost \/ (bjStatus' # bjStatus /\ bj[p].seen # bjStatus))
      BY <2>2 DEF BjReconcile, BjRecordEnrollment
    <3>3. bjLost => bjLost'
      BY <3>2, Zenon
    <3> QED
      BY <3>1, <3>3, Zenon
  <2>3. CASE BjRunBegin(p) \/ BjRepoBegin(p) \/ BjRunWrite(p) \/ BjApply(p)
    BY <2>3 DEF BjRunBegin, BjRepoBegin, BjRunWrite, BjApply
  <2>4. CASE UNCHANGED <<lkVars, bjLost>>
    BY <2>4 DEF lkVars
  <2> QED
    BY <1>3, <2>1, <2>2, <2>3, <2>4 DEF BjStep, BjReadStatus, BjReadLockFree, BjRepoEnd, BjClear, BjBegin, BjCheck, BjUnlock,
          BjRemoveAll, BjRestoreRefused, BjRestore, BjRestored
<1>4. ASSUME NEW p \in LkProcs, BjHeartbeat(p) \/ BjLockFault(p) PROVE (lkStolen => lkStolen') /\ (bjLost => bjLost')
  BY <1>2, <1>4 DEF BjHeartbeat, BjLockFault, bjVars, lkVars
<1>5. BjForeignLocks \/ BjForeignEnds \/ BjDay \/ UNCHANGED bjAll => (lkStolen => lkStolen') /\ (bjLost => bjLost')
  BY DEF BjForeignLocks, BjForeignEnds, BjDay, LkDay, bjAll, bjVars, lkVars
<1> QED
  BY <1>3, <1>4, <1>5 DEF BjNext

\* Whoever has the file in hand under the lock has what it holds.
LEMMA SeenHolds ==
  ASSUME JobTypes, LkIInv, UpdatesInv, BegunInv, SeenInv, [BjNext]_bjAll
  PROVE  SeenInv'
<1> SUFFICES ASSUME ~lkStolen', ~bjLost', NEW q \in LkProcs, lkPc'[q] = "held", InHand(q)'
             PROVE  SameResults(bj'[q].seen, bjStatus')
  BY DEF SeenInv
<1>1. ~lkStolen /\ ~bjLost
  BY HistoryStays
<1>2. LkStep /\ LkTypeOK
  BY JobsStepLock DEF LkIInv
<1>3. lkPc[q] = "held"
  <2>1. lkPc[q] \in {"write", "held"}
    BY <1>2, LockGoesOn
  <2>2. ASSUME lkPc[q] = "write" PROVE FALSE
    <3>1. bj[q].kind \notin LockFree /\ bj[q].pc = "begin"
      BY <2>2 DEF BegunInv, Acquiring
    <3> QED
      BY <2>2, <3>1, HoldersMove DEF InHand
  <2> QED
    BY <2>1, <2>2
<1>4. InHand(q) => SameResults(bj[q].seen, bjStatus)
  BY <1>1, <1>3 DEF SeenInv
<1>5. SameResults(bjStatus', bjStatus') /\ (bjStatus' = bjStatus => SameResults(bjStatus, bjStatus'))
  BY DEF SameResults
<1>6. CASE SameResults(bjStatus', bjStatus)
  BY <1>4, <1>5, <1>6, InHandFrom DEF SameResults
<1>7. CASE ~SameResults(bjStatus', bjStatus)
  <2>1. PICK p \in LkProcs : lkPc[p] = "held" /\ (InHand(p)' => bj'[p].seen = bjStatus')
    BY <1>7, ResultsFrom
  <2>2. p = q
    BY <1>1, <1>3, <2>1 DEF LkIInv, HeldAtPath
  <2> QED
    BY <1>5, <2>1, <2>2
<1> QED
  BY <1>6, <1>7

\* A step replaces a result by one of the job that writes.
LEMMA ResultsStay ==
  ASSUME JobTypes, UpdatesInv, SeenInv, [BjNext]_bjAll, ~lkStolen, ~bjLost',
         NEW n \in BjRepos, NEW f \in Fields
  PROVE  Recorded(bjStatus', n, f) \in {Recorded(bjStatus, n, f)} \cup {p \in LkProcs : bj'[p] # bj[p]}
<1>1. ~bjLost
  BY HistoryStays
<1>2. CASE SameResults(bjStatus', bjStatus)
  BY <1>2 DEF SameResults
<1>3. CASE ~SameResults(bjStatus', bjStatus)
  <2>1. PICK p \in LkProcs :
          /\ lkPc[p] = "held" /\ InHand(p) /\ bj'[p] # bj[p]
          /\ \A i \in BjRepos, g \in Fields : Recorded(bjStatus', i, g) \in {Recorded(bj[p].seen, i, g), p}
    BY <1>3, ResultsFrom
  <2>2. SameResults(bj[p].seen, bjStatus)
    BY <1>1, <2>1 DEF SeenInv
  <2> QED
    BY <2>1, <2>2 DEF SameResults
<1> QED
  BY <1>2, <1>3

\* An owner that can refresh its locks no more.
Gone(o) == IF o = Foreign THEN bjForeign = "died" ELSE ~LkAlive(o)

\* Old locks, and those that a sweep has found abandoned, belong to the dead; a listed lock
\* is old for as long as it is there.
OldInv == \A o \in bjOld : Gone(o)
ListInv ==
  \A p \in LkProcs : bj[p].kind \in {"check", "unlock"} /\ bj[p].pc = "remove" =>
     \A o \in bj[p].list : Gone(o) /\ (o \in bjOld \/ \A r \in BjRepos : o \notin bjLocks[r])

\* The dead stay dead, on this host and on another.
LEMMA GoneStay ==
  ASSUME LkTypeOK, [BjNext]_bjAll, NEW o, Gone(o)
  PROVE  Gone(o)'
<1>1. o # Foreign => Gone(o)'
  BY JobsStepLock, DeadStay DEF Gone
<1>2. bjForeign = "died" => bjForeign' = "died"
  <2>1. ASSUME NEW p \in LkProcs, BjStep(p) PROVE bjForeign' = bjForeign
    BY <2>1 DEF BjStep, BjLockStep, bjVars, BjReadStatus, BjReadLockFree, BjReconcile, BjRecordEnrollment, BjRunBegin, BjRepoBegin,
          BjRepoEnd, BjRunWrite, BjClear, BjBegin, BjCheck, BjUnlock, BjRemoveAll, BjApply, BjRestoreRefused, BjRestore, BjRestored, BjLetGo
  <2>2. ASSUME NEW p \in LkProcs, BjHeartbeat(p) \/ BjLockFault(p) PROVE bjForeign' = bjForeign
    BY <2>2 DEF BjHeartbeat, BjLockFault, bjVars
  <2>3. BjForeignLocks \/ BjForeignEnds \/ BjDay \/ UNCHANGED bjAll => (bjForeign = "died" => bjForeign' = "died")
    BY DEF BjForeignLocks, BjForeignEnds, BjDay, bjAll, bjVars
  <2> QED
    BY <2>1, <2>2, <2>3 DEF BjNext
<1> QED
  BY <1>1, <1>2 DEF Gone

\* Only who is at work locks a repository.
LEMMA LocksAreMade ==
  ASSUME JobTypes, [BjNext]_bjAll, NEW r \in BjRepos, NEW o \in bjLocks'[r], o \notin bjLocks[r]
  PROVE  ~Gone(o)
<1>1. ASSUME NEW p \in LkProcs, BjStep(p), bjLocks' # bjLocks
      PROVE  o = p /\ lkPc[p] = "held"
  <2>1. CASE BjRepoBegin(p) \/ BjRestore(p)
    BY <2>1, <1>1 DEF BjRepoBegin, BjRestore, BjWorks, LockFree, JobTypes
  <2>2. ASSUME BjRepoEnd(p) \/ BjRestored(p) \/ BjRemoveAll(p) PROVE FALSE
    BY <2>2 DEF BjRepoEnd, BjRestored, BjRemoveAll, JobTypes
  <2> QED
    BY <1>1, <2>1, <2>2 DEF BjStep, BjLockStep, bjVars, BjReadStatus, BjReadLockFree, BjReconcile, BjRecordEnrollment, BjRunBegin,
          BjRunWrite, BjClear, BjBegin, BjCheck, BjUnlock, BjApply, BjRestoreRefused, BjLetGo
<1>2. ASSUME NEW p \in LkProcs, BjHeartbeat(p) \/ BjLockFault(p) PROVE bjLocks' = bjLocks
  BY <1>2 DEF BjHeartbeat, BjLockFault, bjVars
<1>3. BjForeignLocks => o = Foreign /\ bjForeign = "absent"
  BY DEF BjForeignLocks, JobTypes
<1>4. BjForeignEnds => FALSE
  BY DEF BjForeignEnds, JobTypes
<1>5. BjDay \/ UNCHANGED bjAll => bjLocks' = bjLocks
  BY DEF BjDay, bjAll, bjVars
<1> QED
  BY <1>1, <1>2, <1>3, <1>4, <1>5, BjAssumption DEF BjNext, Gone, LkAlive, LkEnded

\* Old locks stay old while they are there, and new ones become old with the next day.
LEMMA OldLocks ==
  ASSUME JobTypes, LkTypeOK, OldInv, [BjNext]_bjAll
  PROVE  /\ OldInv'
         /\ \A o \in bjOld : o \in bjOld' \/ \A r \in BjRepos : o \notin bjLocks[r]
<1>1. CASE BjDay
  <2>1. bjOld' = {o \in UNION Range(bjLocks) : Gone(o)}
    BY <1>1 DEF BjDay, Gone
  <2>2. \A r \in BjRepos : bjLocks[r] \subseteq UNION Range(bjLocks)
    BY DEF JobTypes, Range
  <2> QED
    BY <1>1, <2>1, <2>2, GoneStay DEF OldInv
<1>2. CASE bjOld' = bjOld
  BY <1>2, GoneStay DEF OldInv
<1>3. ASSUME NEW p \in LkProcs, BjStep(p) PROVE bjOld' = bjOld
  BY <1>3 DEF BjStep, BjLockStep, bjVars, BjReadStatus, BjReadLockFree, BjReconcile, BjRecordEnrollment, BjRunBegin, BjRepoBegin,
        BjRepoEnd, BjRunWrite, BjClear, BjBegin, BjCheck, BjUnlock, BjRemoveAll, BjApply, BjRestoreRefused, BjRestore, BjRestored, BjLetGo
<1>4. ASSUME NEW p \in LkProcs, BjHeartbeat(p) \/ BjLockFault(p) PROVE bjOld' = bjOld
  BY <1>4 DEF BjHeartbeat, BjLockFault, bjVars
<1>5. BjForeignLocks \/ BjForeignEnds \/ UNCHANGED bjAll => bjOld' = bjOld
  BY DEF BjForeignLocks, BjForeignEnds, bjAll, bjVars
<1> QED
  BY <1>1, <1>2, <1>3, <1>4, <1>5 DEF BjNext

\* A sweep lists the locks of a repository when it has found them all old.
LEMMA SweepsList ==
  ASSUME JobTypes, [BjNext]_bjAll, NEW q \in LkProcs, bj'[q].kind \in {"check", "unlock"}, bj'[q].pc = "remove"
  PROVE  bj'[q] = bj[q] \/ bj'[q].list \subseteq bjOld
<1>0. bj[q] \in BjJob /\ Over(bj[q]) \in BjJob /\ Over(bj[q]).pc = "over"
  BY OverIsJob DEF JobTypes
<1> HIDE DEF Over
<1>1. ASSUME NEW p \in LkProcs, BjStep(p) PROVE bj'[q] = bj[q] \/ bj'[q].list \subseteq bjOld
  <2>1. CASE p # q
    BY <1>1, <2>1 DEF BjStep, BjLockStep, bjVars, BjReadStatus, BjReadLockFree, BjReconcile, BjRecordEnrollment, BjRunBegin, BjRepoBegin,
        BjRepoEnd, BjRunWrite, BjClear, BjBegin, BjCheck, BjUnlock, BjRemoveAll, BjApply, BjRestoreRefused, BjRestore, BjRestored, BjLetGo, JobTypes
  <2>2. CASE p = q
    <3>1. CASE BjCheck(p)
      BY <1>0, <2>2, <3>1 DEF BjCheck, Abandoned, JobTypes, BjJob
    <3>2. CASE BjUnlock(p)
      <4>1. bj[q].kind \in {"unlock", "unlockall"} /\ bj[q].pc = "repo" /\ bj'[q].kind = bj[q].kind
        BY <2>2, <3>2, JobsKeepKind DEF BjUnlock, BjWorks
      <4>2. \/ bj' = [bj EXCEPT ![p].todo = @ \ {NextRepo(p)}]
            \/ /\ bj' = [bj EXCEPT ![p].list = bjLocks[NextRepo(p)], ![p].pc = "remove"]
               /\ bj[p].kind = "unlockall" \/ bjLocks[NextRepo(p)] \subseteq bjOld
        BY <3>2 DEF BjUnlock, Abandoned
      <4> QED
        BY <1>0, <2>2, <4>1, <4>2 DEF JobTypes, BjJob
    <3>3. CASE BjRepoEnd(p)
      BY <2>2, <3>3, RepoEndIs
    <3>4. CASE BjRunWrite(p) \/ BjRunBegin(p) \/ BjRepoBegin(p) \/ BjClear(p)
      <4>1. [Over(bj[p]) EXCEPT !.pc = "clear"].pc = "clear"
        BY <1>0, <2>2 DEF BjJob
      <4> QED
        BY <1>0, <2>2, <3>4, <4>1 DEF BjRunWrite, BjRunBegin, BjRepoBegin, BjClear, BjWorks, JobTypes, BjJob
    <3>5. CASE BjReadStatus(p) \/ BjReadLockFree(p) \/ BjReconcile(p) \/ BjRecordEnrollment(p) \/ BjBegin(p)
      BY <1>0, <2>2, <3>5 DEF BjReadStatus, BjReadLockFree, BjReconcile, BjRecordEnrollment, BjBegin, JobTypes, BjJob
    <3>6. CASE BjRemoveAll(p) \/ BjApply(p)
      BY <1>0, <2>2, <3>6 DEF BjRemoveAll, BjApply, JobTypes, BjJob
    <3>7. CASE BjRestoreRefused(p) \/ BjRestore(p) \/ BjRestored(p) \/ BjLetGo(p) \/ BjLockStep(p)
      BY <1>0, <2>2, <3>7 DEF BjRestoreRefused, BjRestore, BjRestored, BjLetGo, BjLockStep, bjVars, JobTypes, BjJob
    <3> QED
      BY <1>1, <3>1, <3>2, <3>3, <3>4, <3>5, <3>6, <3>7 DEF BjStep
  <2> QED
    BY <2>1, <2>2
<1>2. ASSUME NEW p \in LkProcs, BjHeartbeat(p) \/ BjLockFault(p) PROVE bj' = bj
  BY <1>2 DEF BjHeartbeat, BjLockFault, bjVars
<1>3. BjForeignLocks \/ BjForeignEnds \/ BjDay \/ UNCHANGED bjAll => bj' = bj
  BY DEF BjForeignLocks, BjForeignEnds, BjDay, bjAll, bjVars
<1> QED
  BY <1>1, <1>2, <1>3 DEF BjNext

\* No step makes a listed lock that of a living owner, or young again.
LEMMA ListHolds ==
  ASSUME JobTypes, LkTypeOK, OldInv, ListInv, [BjNext]_bjAll
  PROVE  ListInv'
<1> SUFFICES ASSUME NEW q \in LkProcs, bj'[q].kind \in {"check", "unlock"}, bj'[q].pc = "remove", NEW o \in bj'[q].list
             PROVE  Gone(o)' /\ (o \in bjOld' \/ \A r \in BjRepos : o \notin bjLocks'[r])
  BY DEF ListInv, Gone, LkAlive
<1>1. Gone(o) /\ (o \in bjOld \/ \A r \in BjRepos : o \notin bjLocks[r])
  BY SweepsList DEF ListInv, OldInv
<1>2. Gone(o)'
  BY <1>1, GoneStay
<1>3. o \in bjOld' \/ \A r \in BjRepos : o \notin bjLocks[r]
  BY <1>1, OldLocks
<1>4. \A r \in BjRepos : o \in bjLocks'[r] => o \in bjLocks[r]
  BY <1>1, LocksAreMade
<1> QED
  BY <1>2, <1>3, <1>4

\* A lock that goes is let go of, or was old, or is not looked at.
LEMMA LocksGo ==
  ASSUME JobTypes, ListInv, [BjNext]_bjAll, NEW r \in BjRepos, NEW o \in bjLocks[r], o \notin bjLocks'[r]
  PROVE  \/ o = Foreign /\ bjForeign' = "ended"
         \/ o \in LkProcs /\ bj'[o] # bj[o]
         \/ o \in bjOld
         \/ \E p \in LkProcs : bj'[p] # bj[p] /\ (bj[p].kind = "unlockall" \/ o \notin bj[p].list)
<1>1. ASSUME NEW p \in LkProcs, BjStep(p)
      PROVE  \/ BjRemoveAll(p)
             \/ o = p /\ (BjRepoEnd(p) \/ BjRestored(p))
  <2>1. CASE BjRepoEnd(p) \/ BjRestored(p)
    BY <2>1 DEF BjRepoEnd, BjRestored, JobTypes
  <2>2. ASSUME BjRepoBegin(p) \/ BjRestore(p) PROVE FALSE
    BY <2>2 DEF BjRepoBegin, BjRestore, JobTypes
  <2> QED
    BY <1>1, <2>1, <2>2 DEF BjStep, BjLockStep, bjVars, BjReadStatus, BjReadLockFree, BjReconcile, BjRecordEnrollment, BjRunBegin,
          BjRunWrite, BjClear, BjBegin, BjCheck, BjUnlock, BjApply, BjRestoreRefused, BjLetGo
<1>2. ASSUME NEW p \in LkProcs, BjRepoEnd(p) \/ BjRestored(p) PROVE bj'[p] # bj[p]
  <2>1. bj[p].pc = "restic" /\ Over(bj[p]).pc = "over"
    BY <1>2, OverIsJob DEF BjRepoEnd, BjRestored, BjWorks, JobTypes
  <2> HIDE DEF Over
  <2> QED
    BY <1>2, <2>1, RepoEndIs DEF BjRestored, JobTypes
<1>3. ASSUME NEW p \in LkProcs, BjRemoveAll(p)
      PROVE  bj'[p] # bj[p] /\ (bj[p].kind = "unlockall" \/ o \notin bj[p].list \/ o \in bjOld)
  <2>1. bj[p].pc = "remove" /\ bj[p].kind \in {"check", "unlock", "unlockall"} /\ bj[p] \in BjJob
    BY <1>3 DEF BjRemoveAll, BjWorks, JobTypes
  <2>2. bj'[p].pc \in {"apply", "repo"}
    BY <1>3, <2>1 DEF BjRemoveAll, JobTypes, BjJob
  <2> QED
    BY <2>1, <2>2 DEF ListInv
<1>4. ASSUME NEW p \in LkProcs, BjHeartbeat(p) \/ BjLockFault(p) PROVE FALSE
  BY <1>4 DEF BjHeartbeat, BjLockFault, bjVars
<1>5. BjForeignEnds => o = Foreign /\ bjForeign' = "ended"
  BY DEF BjForeignEnds, JobTypes
<1>6. BjForeignLocks \/ BjDay \/ UNCHANGED bjAll => FALSE
  BY DEF BjForeignLocks, BjDay, bjAll, bjVars, JobTypes
<1> QED
  BY <1>1, <1>2, <1>3, <1>4, <1>5, <1>6 DEF BjNext

\* The inductive invariant of the jobs.
BjIInv ==
  /\ LkIInv /\ JobTypes /\ ProgressRuns
  /\ UpdatesInv /\ BegunInv /\ SeenInv /\ OldInv /\ ListInv

\* The jobs start in the invariant.
LEMMA BjInitGood == BjInit => BjIInv
<1> SUFFICES ASSUME BjInit PROVE BjIInv
  OBVIOUS
<1>0. DOMAIN NoEntries = {} /\ NoEntries \in Statuses /\ NoEntries \in Updates
  BY Blanks
<1>1. PICK s \in BjScenarios :
        /\ bj = [p \in LkProcs |-> [kind |-> s.jobs[p], pc |-> IF s.jobs[p] = "none" THEN "over" ELSE "begin",
                                    todo |-> BjRepos, seen |-> NoEntries, upd |-> NoEntries, list |-> {}]]
        /\ LkInit({p \in LkProcs : s.jobs[p] \notin LockFree})
        /\ bjForeign = s.foreign
  BY DEF BjInit
<1>2. s.jobs \in [LkProcs -> BjKinds] /\ s.foreign \in {"absent", "ended"}
  BY BjAssumption DEF BjKinds
<1>3. \A p \in LkProcs :
        /\ bj[p].kind = s.jobs[p] /\ bj[p].pc = (IF s.jobs[p] = "none" THEN "over" ELSE "begin")
        /\ bj[p].upd = NoEntries /\ bj[p] \in BjJob
  BY <1>0, <1>1, <1>2 DEF BjJob, BjPcs
<1>4. LkIInv
  BY <1>1, LkInitGood
<1>5. bjStatus \in Statuses \cup {Unreadable}
  <2>1. BjEarlier \in BjEntry
    BY DEF BjEarlier, BjEntry, LkFiles
  <2>2. ASSUME NEW r \in BjRepos PROVE [n \in {BjOrphan} \cup (BjRepos \ {r}) |-> BjEarlier] \in Statuses
    <3>1. [n \in {BjOrphan} \cup (BjRepos \ {r}) |-> BjEarlier] \in [{BjOrphan} \cup (BjRepos \ {r}) -> BjEntry]
      BY <2>1
    <3> QED
      BY <3>1 DEF Statuses
  <2> QED
    BY <2>2 DEF BjInit
<1>6. JobTypes
  <2>1. bj \in [LkProcs -> BjJob]
    BY <1>1, <1>3
  <2> QED
    BY <1>1, <1>2, <1>3, <1>5, <2>1 DEF BjInit, JobTypes
<1>7. ProgressRuns /\ OldInv
  BY DEF BjInit, ProgressRuns, OldInv
<1>8. UpdatesInv
  BY <1>0, <1>3 DEF UpdatesInv
<1>9. SeenInv /\ ListInv
  BY <1>3 DEF SeenInv, InHand, ListInv
<1>10. BegunInv
  <2>1. \A p \in LkProcs : lkPc[p] \in Acquiring => s.jobs[p] \notin LockFree
    BY <1>1 DEF LkInit, Acquiring
  <2> QED
    BY <1>3, <2>1 DEF BegunInv, LockFree
<1> QED
  BY <1>4, <1>6, <1>7, <1>8, <1>9, <1>10 DEF BjIInv

\* Every step of the jobs keeps the invariant.
LEMMA BjStepGood == BjIInv /\ [BjNext]_bjAll => BjIInv'
<1> SUFFICES ASSUME BjIInv, [BjNext]_bjAll PROVE BjIInv'
  OBVIOUS
<1> USE DEF BjIInv
<1>1. LkTypeOK /\ LkStep
  BY JobsStepLock DEF LkIInv
<1>2. LkIInv' /\ JobTypes' /\ UpdatesInv' /\ BegunInv'
  BY <1>1, LkHolds, JobTypesHold, UpdatesHold, BegunHolds
<1>3. ProgressRuns' /\ SeenInv'
  BY <1>1, ProgressHolds, SeenHolds
<1>4. OldInv' /\ ListInv'
  BY <1>1, OldLocks, ListHolds
<1> QED
  BY <1>2, <1>3, <1>4

\* The inductive invariant holds in every reachable state of the jobs.
THEOREM BjIInvHolds == BjSpec => []BjIInv
BY BjInitGood, BjStepGood, PTL DEF BjSpec

\* Two jobs are at work together only after a lock was stolen, and the progress file is that
\* of a run under way or killed.
THEOREM JobsCorrect == BjSpec => []JobsInv
<1>1. BjIInv => JobsInv
  <2> SUFFICES ASSUME BjIInv PROVE JobsInv
    OBVIOUS
  <2>1. JobsExcludeUnlessStolen
    BY LkExcludes DEF BjIInv
  <2>2. ProgressIsLive
    BY DEF BjIInv, ProgressRuns, ProgressIsLive, RunLive
  <2>3. LkTypeOK /\ bjProgress \in LkProcs \cup {Nobody}
    BY DEF BjIInv, LkIInv, JobTypes
  <2>4. \A p \in LkProcs :
          /\ bj[p].pc \in BjPcs /\ bj[p].todo \subseteq BjRepos
          /\ bj[p].seen \in Statuses /\ bj[p].upd \in Updates
    BY DEF BjIInv, JobTypes, BjJob
  <2>5. \A p \in LkProcs : \A n \in DOMAIN bj[p].seen : bj[p].seen[n] \in BjEntry
    BY <2>4, StatusIs
  <2>6. \A p \in LkProcs : \A n \in DOMAIN bj[p].upd : n \in BjRepos /\ bj[p].upd[n] \in BjEntry
    BY <2>4, UpdatesIs
  <2>7. bjStatus # Unreadable => \A n \in DOMAIN bjStatus : n \in BjRepos \cup {BjOrphan} /\ bjStatus[n] \in BjEntry
    BY StatusIs DEF BjIInv, JobTypes
  <2>8. BjTypeOK
    BY <2>3, <2>4, <2>5, <2>6, <2>7 DEF BjTypeOK, BjPcs
  <2> QED
    BY <2>1, <2>2, <2>8 DEF JobsInv
<1> QED
  BY <1>1, BjIInvHolds, PTL

\* A recorded result is only ever replaced by one of the job that writes.
THEOREM ResultsAlwaysStay == BjSpec => RecordedResultsStay
<1> DEFINE Kept == ~lkStolen /\ ~bjLost' =>
             \A n \in BjRepos, f \in {"good", "check"} :
               Recorded(bjStatus', n, f) \in {Recorded(bjStatus, n, f)} \cup {p \in LkProcs : bj'[p] # bj[p]}
<1>1. BjIInv /\ [BjNext]_bjAll => [Kept]_bjAll
  BY ResultsStay DEF BjIInv, Fields
<1> QED
  BY <1>1, BjIInvHolds, PTL DEF BjSpec, RecordedResultsStay

\* A repository's lock is taken only from the dead, or by who was told to take them all, or
\* when it came after the sweep had looked.
THEOREM YoungLocksAlwaysStay == BjSpec => YoungLocksStay
<1> DEFINE Kept == \A r \in BjRepos : \A o \in bjLocks[r] \ bjLocks'[r] :
             \/ o = Foreign /\ bjForeign' = "ended"
             \/ o \in LkProcs /\ bj'[o] # bj[o]
             \/ o \in bjOld
             \/ \E p \in LkProcs : bj'[p] # bj[p] /\ (bj[p].kind = "unlockall" \/ o \notin bj[p].list)
<1>1. BjIInv /\ [BjNext]_bjAll => [Kept]_bjAll
  BY LocksGo DEF BjIInv
<1> QED
  BY <1>1, BjIInvHolds, PTL DEF BjSpec, YoungLocksStay

-----------------------------------------------------------------------------
(***************************************************************************)
(* The collector's report, for any number of repositories, runs and faults.*)
(*                                                                         *)
(* That one gauge is up at most depends on what the collector remembers of *)
(* it between two batches and on what the batch under way is about to take *)
(* down: ShownInv says that the server shows nothing else.                 *)
(***************************************************************************)
MaybeRepo == BrRepos \cup {BrNone}
FileData == Nat \cup {BrNone, BrBad}
Memories == [data : FileData \ {BrBad}, sent : FileData, age : 0..BrResend, running : MaybeRepo,
             state : {"unknown", "not_configured", "error", "stale", "ok"}]

ReportTyped ==
  /\ brRun \in MaybeRepo /\ brRuns \in Nat
  /\ brProg \in [repo : MaybeRepo, age : 0..BrLive]
  /\ brFile \in [data : FileData, age : 0..(BrStale + 1)]
  /\ brMem \in Memories
  /\ brHas \in [down : MaybeRepo, up : MaybeRepo, inventory : FileData]
  /\ brServer \in [gauge : [BrRepos -> 0..1], inventory : FileData]
  /\ brPc \in {"idle", "status", "send"}
  /\ brForgot \in BOOLEAN

\* The one gauge that may be up: of the repository that is about to be taken
\* down, else of the one the collector remembers.
Shown == IF brPc = "idle" \/ brHas.down = BrNone THEN brMem.running ELSE brHas.down

ShownInv ==
  /\ brPc # "idle" => brHas.up = brMem.running
  /\ brForgot \/ \A r \in BrRepos : brServer.gauge[r] = 1 => r = Shown

BrIInv == ReportTyped /\ ShownInv

LEMMA BrSizes ==
  /\ BrLive \in Nat /\ BrLive >= 1 /\ BrResend \in Nat /\ BrResend >= 1 /\ BrStale \in Nat
  /\ BrNone \notin BrRepos /\ BrNone # BrBad
BY BrAssumption

LEMMA OlderStays ==
  ASSUME NEW limit \in Nat, NEW age \in 0..limit
  PROVE  BrOlder(age, limit) \in 0..limit
BY DEF BrOlder

LEMMA BrInitInv == BrInit => BrIInv
<1> SUFFICES ASSUME BrInit PROVE BrIInv
  OBVIOUS
<1>1. 0 \in 0..BrLive /\ 0 \in 0..(BrStale + 1) /\ 0 \in 0..BrResend /\ 0 \in 0..1 /\ 0 \in Nat
  BY BrSizes
<1>2. BrFresh \in Memories /\ BrNothing \in [down : MaybeRepo, up : MaybeRepo, inventory : FileData]
      /\ BrNoProg \in [repo : MaybeRepo, age : 0..BrLive]
  BY <1>1, BrSizes DEF BrFresh, Memories, MaybeRepo, FileData, BrNothing, BrNoProg
<1>3. ReportTyped
  BY <1>1, <1>2 DEF BrInit, ReportTyped, MaybeRepo, FileData
<1>4. ShownInv
  BY <1>1 DEF BrInit, ShownInv
<1> QED
  BY <1>3, <1>4 DEF BrIInv

\* What neither the collector nor its batch nor the server's gauges notice.
LEMMA ShownStays ==
  ASSUME ShownInv, brPc' = brPc, brHas' = brHas, brServer' = brServer, brForgot' = brForgot,
         brMem'.running = brMem.running
  PROVE  ShownInv'
BY DEF ShownInv, Shown

\* The jobs: they write their files.
LEMMA JobsReported ==
  ASSUME BrIInv, BrRunStarts \/ BrNextRepo \/ BrRunEnds \/ BrRunDies \/ BrDamage \/ UNCHANGED brVars
  PROVE  BrIInv'
<1>1. /\ brPc' = brPc /\ brHas' = brHas /\ brServer' = brServer /\ brForgot' = brForgot /\ brMem' = brMem
  BY DEF BrRunStarts, BrNextRepo, BrRunEnds, BrRunDies, BrDamage, brVars
<1>2. ShownInv'
  BY <1>1, ShownStays DEF BrIInv
<1>3. 0 \in 0..BrLive /\ 0 \in 0..(BrStale + 1)
  BY BrSizes
<1>4. brRun' \in MaybeRepo /\ brRuns' \in Nat
  <2>1. brRun \in MaybeRepo /\ brRuns \in Nat /\ brRuns + 1 \in Nat
    BY DEF BrIInv, ReportTyped
  <2> QED
    BY <2>1 DEF BrRunStarts, BrNextRepo, BrRunEnds, BrRunDies, BrDamage, brVars, MaybeRepo
<1>5. brProg' \in [repo : MaybeRepo, age : 0..BrLive]
  <2>1. \A r \in MaybeRepo : [repo |-> r, age |-> 0] \in [repo : MaybeRepo, age : 0..BrLive]
    BY <1>3
  <2>2. brProg' = brProg \/ \E r \in MaybeRepo : brProg' = [repo |-> r, age |-> 0]
    BY DEF BrRunStarts, BrNextRepo, BrRunEnds, BrRunDies, BrDamage, brVars, MaybeRepo, BrNoProg
  <2> QED
    BY <2>1, <2>2 DEF BrIInv, ReportTyped
<1>6. brFile' \in [data : FileData, age : 0..(BrStale + 1)]
  <2>1. \A d \in FileData : [data |-> d, age |-> 0] \in [data : FileData, age : 0..(BrStale + 1)]
    BY <1>3
  <2>2. BrNone \in FileData /\ BrBad \in FileData /\ brRuns \in FileData
    BY DEF BrIInv, ReportTyped, FileData
  <2>3. brFile' = brFile \/ \E d \in {BrNone, BrBad, brRuns} : brFile' = [data |-> d, age |-> 0]
    BY DEF BrRunStarts, BrNextRepo, BrRunEnds, BrRunDies, BrDamage, brVars
  <2> QED
    BY <2>1, <2>2, <2>3 DEF BrIInv, ReportTyped
<1> QED
  BY <1>1, <1>2, <1>4, <1>5, <1>6 DEF BrIInv, ReportTyped

\* Collect: what it last reported as running and is not any more goes down.
LEMMA CollectReports ==
  ASSUME BrIInv, BrCollect
  PROVE  BrIInv'
<1> DEFINE now == IF Live THEN brProg.repo ELSE BrNone
           down == IF brMem.running # BrNone /\ (~Live \/ brMem.running # brProg.repo) THEN brMem.running ELSE BrNone
<1>1. /\ brMem \in Memories /\ brHas \in [down : MaybeRepo, up : MaybeRepo, inventory : FileData]
      /\ brProg.repo \in MaybeRepo /\ brMem.running \in MaybeRepo /\ BrNone \in MaybeRepo
  BY DEF BrIInv, ReportTyped, Memories, MaybeRepo
<1>2. now \in MaybeRepo /\ down \in MaybeRepo
  BY <1>1
<1>3. brHas' = [brHas EXCEPT !.up = now, !.down = down] /\ brMem' = [brMem EXCEPT !.running = now]
  BY DEF BrCollect, ProgressPoints
<1>4. brPc = "idle" /\ brPc' = "status"
      /\ UNCHANGED <<brRun, brRuns, brProg, brFile, brServer, brForgot>>
  BY DEF BrCollect
<1>5. down = BrNone => brMem.running = now \/ brMem.running = BrNone
  BY DEF Live
<1>6. down # BrNone => down = brMem.running
  OBVIOUS
<1> HIDE DEF now, down
<1>7. brMem' \in Memories /\ brMem'.running = now
  BY <1>1, <1>2, <1>3 DEF Memories
<1>8. /\ brHas' \in [down : MaybeRepo, up : MaybeRepo, inventory : FileData]
      /\ brHas'.up = now /\ brHas'.down = down
  BY <1>1, <1>2, <1>3
<1>9. ReportTyped'
  BY <1>4, <1>7, <1>8 DEF BrIInv, ReportTyped
<1>10. ASSUME ~brForgot, NEW r \in BrRepos, brServer.gauge[r] = 1 PROVE r = Shown'
  <2>1. r = brMem.running
    BY <1>4, <1>10 DEF BrIInv, ShownInv, Shown
  <2>2. r # BrNone
    BY BrSizes
  <2> QED
    BY <1>4, <1>5, <1>6, <1>7, <1>8, <2>1, <2>2 DEF Shown
<1>11. ShownInv'
  BY <1>4, <1>7, <1>8, <1>10 DEF ShownInv
<1> QED
  BY <1>9, <1>11 DEF BrIInv

\* CollectBackups: the status file is read, an inventory attached.
LEMMA BackupsReport ==
  ASSUME BrIInv, BrCollectBackups
  PROVE  BrIInv'
<1> DEFINE m == ReadStatus
<1>1. /\ brMem \in Memories /\ brFile.data \in FileData
      /\ brHas \in [down : MaybeRepo, up : MaybeRepo, inventory : FileData]
  BY DEF BrIInv, ReportTyped
<1>2. m \in Memories /\ m.running = brMem.running
  BY <1>1, BrSizes DEF ReadStatus, Memories, FileData
<1>3. 0 \in 0..BrResend
  BY BrSizes
<1>4. /\ brPc = "status" /\ brPc' = "send" /\ UNCHANGED <<brRun, brRuns, brProg, brFile, brServer, brForgot>>
      /\ \/ brMem' = [m EXCEPT !.sent = m.data, !.age = 0] /\ brHas' = [brHas EXCEPT !.inventory = m.data]
         \/ brMem' = m /\ brHas' = brHas
  BY DEF BrCollectBackups
<1> HIDE DEF m
<1>5. brMem' \in Memories /\ brMem'.running = brMem.running
  BY <1>2, <1>3, <1>4 DEF Memories
<1>6. /\ brHas' \in [down : MaybeRepo, up : MaybeRepo, inventory : FileData]
      /\ brHas'.up = brHas.up /\ brHas'.down = brHas.down
  <2>1. m.data \in FileData
    BY <1>2 DEF Memories
  <2> QED
    BY <1>1, <1>4, <2>1
<1>7. ReportTyped'
  BY <1>4, <1>5, <1>6 DEF BrIInv, ReportTyped
<1>8. ShownInv'
  BY <1>4, <1>5, <1>6 DEF BrIInv, ShownInv, Shown
<1> QED
  BY <1>7, <1>8 DEF BrIInv

\* The batch arrives: its gauges are the server's.
LEMMA SendReports ==
  ASSUME BrIInv, BrSend
  PROVE  BrIInv'
<1> DEFINE g == [r \in BrRepos |-> IF r = brHas.up THEN 1 ELSE IF r = brHas.down THEN 0 ELSE brServer.gauge[r]]
           inv == IF brHas.inventory = BrNone THEN brServer.inventory ELSE brHas.inventory
<1>1. /\ brPc = "send" /\ brPc' = "idle" /\ brHas' = BrNothing /\ brServer' = [gauge |-> g, inventory |-> inv]
      /\ UNCHANGED <<brRun, brRuns, brProg, brFile, brMem, brForgot>>
  BY DEF BrSend
<1>2. /\ brServer.gauge \in [BrRepos -> 0..1] /\ brServer.inventory \in FileData /\ brHas.inventory \in FileData
  BY DEF BrIInv, ReportTyped
<1>3. g \in [BrRepos -> 0..1]
  <2>1. 0 \in 0..1 /\ 1 \in 0..1
    OBVIOUS
  <2> QED
    BY <1>2, <2>1
<1>4. inv \in FileData
  BY <1>2
<1>5. brHas.up = brMem.running
  BY <1>1 DEF BrIInv, ShownInv
<1>6. ASSUME ~brForgot, NEW r \in BrRepos, g[r] = 1 PROVE r = brMem.running
  <2>1. brServer.gauge[r] = 1 => r = Shown
    BY <1>6 DEF BrIInv, ShownInv
  <2>2. r = brHas.up \/ (r # brHas.down /\ brServer.gauge[r] = 1)
    BY <1>6
  <2> QED
    BY <1>1, <1>5, <2>1, <2>2 DEF Shown
<1> HIDE DEF g, inv
<1>7. BrNothing \in [down : MaybeRepo, up : MaybeRepo, inventory : FileData]
  BY DEF BrNothing, MaybeRepo, FileData
<1>8. ReportTyped'
  BY <1>1, <1>3, <1>4, <1>7 DEF BrIInv, ReportTyped
<1>9. ShownInv'
  BY <1>1, <1>6 DEF ShownInv, Shown
<1> QED
  BY <1>8, <1>9 DEF BrIInv

\* The batch is lost, or the agent restarts: a gauge that stays up is forgotten.
LEMMA LossReported ==
  ASSUME BrIInv, BrLose \/ BrRestart
  PROVE  BrIInv'
<1>1. BrFresh \in Memories /\ BrNothing \in [down : MaybeRepo, up : MaybeRepo, inventory : FileData]
  BY BrSizes DEF BrFresh, Memories, MaybeRepo, FileData, BrNothing
<1>2. /\ brPc' = "idle" /\ brHas' = BrNothing /\ brMem' \in {brMem, BrFresh}
      /\ UNCHANGED <<brRun, brRuns, brProg, brFile, brServer>>
  BY DEF BrLose, BrRestart
<1>3. brForgot' \in BOOLEAN /\ brServer.gauge \in [BrRepos -> 0..1]
  BY DEF BrIInv, ReportTyped, BrLose, BrRestart
<1>4. ReportTyped'
  BY <1>1, <1>2, <1>3 DEF BrIInv, ReportTyped
<1>5. ASSUME ~brForgot', NEW r \in BrRepos, brServer.gauge[r] = 1 PROVE r = brMem'.running
  <2>1. CASE BrLose
    <3>1. brPc = "send" /\ brHas.down = BrNone /\ ~brForgot /\ brMem' = brMem
      BY <1>5, <2>1 DEF BrLose
    <3> QED
      BY <1>5, <3>1 DEF BrIInv, ShownInv, Shown
  <2>2. CASE BrRestart
    BY <1>5, <2>2 DEF BrRestart
  <2> QED
    BY <2>1, <2>2
<1>6. ShownInv'
  BY <1>2, <1>5 DEF ShownInv, Shown
<1> QED
  BY <1>4, <1>6 DEF BrIInv

LEMMA TickReported ==
  ASSUME BrIInv, BrTick
  PROVE  BrIInv'
<1> DEFINE a == BrOlder(brProg.age, BrLive)
           b == BrOlder(brFile.age, BrStale + 1)
           c == BrOlder(brMem.age, BrResend)
<1>1. /\ brProg \in [repo : MaybeRepo, age : 0..BrLive] /\ brFile \in [data : FileData, age : 0..(BrStale + 1)]
      /\ brMem \in Memories
  BY DEF BrIInv, ReportTyped
<1>2. a \in 0..BrLive /\ b \in 0..(BrStale + 1) /\ c \in 0..BrResend /\ 0 \in 0..BrLive
  <2>1. brProg.age \in 0..BrLive /\ brFile.age \in 0..(BrStale + 1) /\ brMem.age \in 0..BrResend
    BY <1>1 DEF Memories
  <2>2. BrLive \in Nat /\ BrStale + 1 \in Nat /\ BrResend \in Nat /\ 0 \in 0..BrLive
    BY BrSizes
  <2> QED
    BY <2>1, <2>2, OlderStays
<1>3. /\ brProg' = [brProg EXCEPT !.age = 0] \/ brProg' = [brProg EXCEPT !.age = a]
      /\ brFile' = [brFile EXCEPT !.age = b] /\ brMem' = [brMem EXCEPT !.age = c]
      /\ UNCHANGED <<brRun, brRuns, brHas, brServer, brPc, brForgot>>
  BY DEF BrTick
<1> HIDE DEF a, b, c
<1>4. brProg' \in [repo : MaybeRepo, age : 0..BrLive]
  BY <1>1, <1>2, <1>3
<1>5. brFile' \in [data : FileData, age : 0..(BrStale + 1)]
  BY <1>1, <1>2, <1>3
<1>6. brMem' \in Memories /\ brMem'.running = brMem.running
  BY <1>1, <1>2, <1>3 DEF Memories
<1>7. ReportTyped'
  BY <1>3, <1>4, <1>5, <1>6 DEF BrIInv, ReportTyped
<1>8. ShownInv'
  BY <1>3, <1>6, ShownStays DEF BrIInv
<1> QED
  BY <1>7, <1>8 DEF BrIInv

LEMMA BrStep == BrIInv /\ [BrNext]_brVars => BrIInv'
BY JobsReported, CollectReports, BackupsReport, SendReports, LossReported, TickReported DEF BrNext

\* At most one gauge is up while none was forgotten.
LEMMA OneUp == BrIInv => BrTypeOK /\ OneGaugeUp
<1> SUFFICES ASSUME BrIInv PROVE BrTypeOK /\ OneGaugeUp
  OBVIOUS
<1>1. BrTypeOK
  BY DEF BrIInv, ReportTyped, Memories, BrTypeOK
<1>2. OneGaugeUp
  <2> SUFFICES ASSUME ~brForgot PROVE Cardinality({r \in BrRepos : brServer.gauge[r] = 1}) <= 1
    BY DEF OneGaugeUp
  <2> DEFINE U == {r \in BrRepos : brServer.gauge[r] = 1}
  <2>1. U = {} \/ U = {Shown}
    BY DEF BrIInv, ShownInv
  <2>2. Cardinality({}) = 0 /\ Cardinality({Shown}) = 1
    BY FS_EmptySet, FS_Singleton
  <2> HIDE DEF U
  <2>3. Cardinality(U) <= 1
    BY <2>1, <2>2
  <2> QED
    BY <2>3 DEF U
<1> QED
  BY <1>1, <1>2

\* Over lost batches, restarts of the agent, killed runs and damaged files,
\* two repositories are shown as running together only when a gauge was
\* forgotten: the safety part of ReportConverges.
THEOREM OneGaugeShown == BrSpec => [](BrTypeOK /\ OneGaugeUp)
<1>1. BrInit => BrIInv
  BY BrInitInv
<1>2. BrIInv /\ [BrNext]_brVars => BrIInv'
  BY BrStep
<1>3. BrIInv => BrTypeOK /\ OneGaugeUp
  BY OneUp
<1> QED
  BY <1>1, <1>2, <1>3, PTL DEF BrSpec
=============================================================================
