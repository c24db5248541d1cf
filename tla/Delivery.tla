------------------------------ MODULE Delivery ------------------------------
(***************************************************************************)
(* How one agent gets its batches, and the ban events they carry, to the   *)
(* server: the runner's tick (internal/agent/runner), the two goroutines   *)
(* that post (Send and drainLoop of internal/agent/transport), the disk    *)
(* spool (internal/agent/spool), the ingest handler at the other end       *)
(* (internal/server/api) and the end of the process after a 410            *)
(* (cmd/agent).  The network loses and delays requests and answers; the    *)
(* agent may stop and start again at any time.  Batches and ban events are *)
(* numbered in the order of their creation, so the oldest of a set is its  *)
(* least member: the buffer and the spool, both queues, are sets.          *)
(***************************************************************************)
EXTENDS Naturals, FiniteSets, FiniteSetsExt

CONSTANTS
  MaxBatch,    \* model bound: batches the runner builds
  MaxEvent,    \* model bound: ban events the agent records
  MaxNet,      \* model bound: requests on their way at the same time
  MaxCrash,    \* model bound: agent restarts
  EventCap,    \* maxBufferedEvents
  ReportCap,   \* maxEventsPerReport
  SpoolMax     \* spool_max_bytes, counted in batches

ASSUME DeliveryAssumption ==
  {MaxBatch, MaxEvent, MaxNet, MaxCrash, EventCap, ReportCap, SpoolMax} \subseteq Nat \ {0}

VARIABLES
  \* @ agent memory
  proc,        \* "up", "down" or "exited"
  dereg,       \* deregisteredCh is closed
  events,      \* Manager.events: recorded and not acknowledged
  post,        \* post[g]: the request goroutine g waits for (slot 0: none)
  answer,      \* answer[g]: what has come back
  \* @ agent disk
  spool,       \* the batches of the bolt bucket
  fileSize,    \* size of the bolt file: it never shrinks
  sentinel,    \* the deregistration sentinel exists
  \* @ network and server
  net,         \* requests on their way
  deleted,     \* the host was removed: hosts.deleted_at is set
  points,      \* copies of each batch in the database: 0, 1 or 2 (several)
  stored,      \* ban events in the database
  \* @ history
  nextBatch, nextEvent, crashes,
  carries,     \* carries[b]: the ban events of batch b
  doubted,     \* batches one of whose posts the agent saw fail or did not see end
  excused      \* events given up on a path that is known to lose them

agentVars == <<proc, dereg, events, post, answer>>
diskVars  == <<spool, fileSize, sentinel>>
serverVars == <<deleted, points, stored>>
histVars  == <<nextBatch, nextEvent, crashes, carries, doubted, excused>>
vars == <<agentVars, diskVars, net, serverVars, histVars>>

Goroutine == {"runner", "drainer"}
Slot == 1..MaxNet
Batch == 1..MaxBatch
Event == 1..MaxEvent
Idle == [slot |-> 0, batch |-> 0]
Answer == {"none", "ok", "gone", "reject", "retry"}

EventsIn(S) == UNION {carries[b] : b \in S}

\* The n oldest members of a queue.
Oldest(S, n) == {x \in S : Cardinality({y \in S : y <= x}) <= n}

Init ==
  /\ proc = "up" /\ dereg = FALSE /\ events = {}
  /\ post = [g \in Goroutine |-> Idle]
  /\ answer = [g \in Goroutine |-> "none"]
  /\ spool = {} /\ fileSize = 0 /\ sentinel = FALSE
  /\ net = {}
  /\ deleted = FALSE
  /\ points = [b \in Batch |-> 0]
  /\ stored = {}
  /\ nextBatch = 1 /\ nextEvent = 1 /\ crashes = 0
  /\ carries = [b \in Batch |-> {}]
  /\ doubted = {} /\ excused = {}

-----------------------------------------------------------------------------
(* The agent.                                                              *)

\* pushEvent: the oldest event makes room for a new one.
PushEvent ==
  /\ proc = "up" /\ nextEvent <= MaxEvent
  /\ LET out == IF Cardinality(events) >= EventCap THEN {Min(events)} ELSE {} IN
       /\ events' = (events \ out) \cup {nextEvent}
       /\ excused' = excused \cup out
  /\ nextEvent' = nextEvent + 1
  /\ UNCHANGED <<proc, dereg, post, answer, diskVars, net, serverVars, nextBatch, crashes,
                 carries, doubted>>

FreeSlots == Slot \ ({q.slot : q \in net} \cup {post[g].slot : g \in Goroutine})

\* postBytes returns at once when deregisteredCh is closed; otherwise the
\* request leaves.
PostBegin(g, b) ==
  /\ post[g] = Idle /\ ~dereg
  /\ \E s \in FreeSlots :
       /\ post' = [post EXCEPT ![g] = [slot |-> s, batch |-> b]]
       /\ net' = net \cup {[slot |-> s, batch |-> b]}

\* tick: the collectors run, the report takes the first events of the buffer
\* (they stay there until they are acknowledged), and Send posts the batch.
Tick ==
  /\ proc = "up" /\ nextBatch <= MaxBatch
  /\ carries' = [carries EXCEPT ![nextBatch] = Oldest(events, ReportCap)]
  /\ nextBatch' = nextBatch + 1
  /\ PostBegin("runner", nextBatch)
  /\ UNCHANGED <<proc, dereg, events, answer, diskVars, serverVars, nextEvent, crashes, doubted, excused>>

\* drainLoop: Peek the oldest entry and post it.
DrainPeek ==
  /\ proc = "up" /\ spool # {}
  /\ PostBegin("drainer", Min(spool))
  /\ UNCHANGED <<proc, dereg, events, answer, diskVars, serverVars, histVars>>

PostEnd(g) ==
  /\ post' = [post EXCEPT ![g] = Idle]
  /\ answer' = [answer EXCEPT ![g] = "none"]

\* The post of g ends without an answer (timeout, broken connection).  A late
\* request may still reach the server.
Unanswered(g) == post[g] # Idle /\ answer[g] = "none"

\* Mutant: the event buffer is emptied, not only of what was sent.
MutAcknowledge(b) == events' = {}

\* AcknowledgeEvents removes by ID what this batch carried.
Acknowledge(b) == events' = events \ carries[b]

\* Send got a 2xx: tick acknowledges the events of the batch.
SendAccepted ==
  /\ proc = "up" /\ answer["runner"] = "ok"
  /\ Acknowledge(post["runner"].batch)
  /\ PostEnd("runner")
  /\ UNCHANGED <<proc, dereg, diskVars, net, serverVars, histVars>>

\* Send got a permanent rejection: the batch is dropped, its events stay.
SendRejected ==
  /\ proc = "up" /\ answer["runner"] = "reject"
  /\ PostEnd("runner")
  /\ UNCHANGED <<proc, dereg, events, diskVars, net, serverVars, histVars>>

\* dropOldest, when the file is larger than allowed, deletes entries until
\* the new body fits: at least one, and more if they are smaller.
Dropped == IF fileSize > SpoolMax /\ spool # {} THEN {Oldest(spool, k) : k \in 1..Cardinality(spool)} ELSE {{}}

Grown(n) == IF n > fileSize THEN n ELSE fileSize

\* Spool.Enqueue.
Enqueue(b) ==
  \E out \in Dropped :
    /\ spool' = (spool \ out) \cup {b}
    /\ excused' = excused \cup EventsIn(out)
    /\ fileSize' = Grown(Cardinality(spool'))

\* Enqueue fails after it has dropped entries: the bolt transaction of Put
\* returns an error.
EnqueueError ==
  \E out \in Dropped :
    /\ spool' = spool \ out
    /\ excused' = excused \cup EventsIn(out)
    /\ UNCHANGED fileSize

RetryableRunner == answer["runner"] = "retry" \/ Unanswered("runner")

DoubtIf(cond, b) == doubted' = IF cond THEN doubted \cup {b} ELSE doubted

\* Send failed in a retryable way and the batch went to the spool: Send
\* returns nil and tick acknowledges the events.
SendSpooled ==
  /\ proc = "up" /\ RetryableRunner
  /\ LET b == post["runner"].batch IN
       /\ Enqueue(b)
       /\ Acknowledge(b)
       /\ DoubtIf(answer["runner"] = "none", b)
  /\ PostEnd("runner")
  /\ UNCHANGED <<proc, dereg, sentinel, net, serverVars, nextBatch, nextEvent, crashes, carries>>

\* Both the post and the spool failed: Send returns an error.
SendFailed ==
  /\ proc = "up" /\ RetryableRunner
  /\ EnqueueError
  /\ DoubtIf(answer["runner"] = "none", post["runner"].batch)
  /\ PostEnd("runner")
  /\ UNCHANGED <<proc, dereg, events, sentinel, net, serverVars, nextBatch, nextEvent, crashes,
                 carries>>

\* Spool.Delete: by key, so an entry that dropOldest took is no error.
Delete(b) == spool' = spool \ {b}

\* The drainer's post was accepted.
DrainDelivered ==
  /\ proc = "up" /\ answer["drainer"] = "ok"
  /\ Delete(post["drainer"].batch)
  /\ PostEnd("drainer")
  /\ UNCHANGED <<proc, dereg, events, fileSize, sentinel, net, serverVars, histVars>>

\* Accepted, but Delete fails: the entry will be posted again.
DrainDeleteFailed ==
  /\ proc = "up" /\ answer["drainer"] = "ok"
  /\ DoubtIf(TRUE, post["drainer"].batch)
  /\ PostEnd("drainer")
  /\ UNCHANGED <<proc, dereg, events, diskVars, net, serverVars, nextBatch, nextEvent, crashes,
                 carries, excused>>

\* Permanently rejected: the entry is deleted.
DrainRejected ==
  /\ proc = "up" /\ answer["drainer"] = "reject"
  /\ Delete(post["drainer"].batch)
  /\ excused' = excused \cup carries[post["drainer"].batch]
  /\ PostEnd("drainer")
  /\ UNCHANGED <<proc, dereg, events, fileSize, sentinel, net, serverVars, nextBatch, nextEvent,
                 crashes, carries, doubted>>

\* Permanently rejected, and Delete fails: the entry will be rejected again.
DrainRejectKept ==
  /\ proc = "up" /\ answer["drainer"] = "reject"
  /\ PostEnd("drainer")
  /\ UNCHANGED <<proc, dereg, events, diskVars, net, serverVars, histVars>>

\* Mutant: an unanswered post never ends (a client without a timeout).
MutDrainRetry ==
  /\ proc = "up" /\ answer["drainer"] = "retry"
  /\ PostEnd("drainer")
  /\ UNCHANGED <<proc, dereg, events, diskVars, net, serverVars, histVars>>

\* Retryable: the entry stays, the drainer backs off.
DrainRetry ==
  /\ proc = "up" /\ (answer["drainer"] = "retry" \/ Unanswered("drainer"))
  /\ DoubtIf(answer["drainer"] = "none", post["drainer"].batch)
  /\ PostEnd("drainer")
  /\ UNCHANGED <<proc, dereg, events, diskVars, net, serverVars, nextBatch, nextEvent, crashes,
                 carries, excused>>

\* Either goroutine got 410: markDeregistered.
SawGone(g) ==
  /\ proc = "up" /\ answer[g] = "gone"
  /\ dereg' = TRUE
  /\ PostEnd(g)
  /\ UNCHANGED <<proc, events, diskVars, net, serverVars, histVars>>

PendingPosts == {post[g].batch : g \in {h \in Goroutine : post[h] # Idle}}

MemoryLost ==
  /\ events' = {}
  /\ post' = [g \in Goroutine |-> Idle]
  /\ answer' = [g \in Goroutine |-> "none"]
  /\ doubted' = doubted \cup PendingPosts

\* Run returns ErrDeregistered between ticks; main writes the sentinel (an
\* error is ignored), removes the spool (an error is logged) and exits.
ExitDeregistered ==
  /\ proc = "up" /\ dereg /\ post["runner"] = Idle
  /\ proc' = "exited"
  /\ MemoryLost
  /\ \E ok \in BOOLEAN : sentinel' = (sentinel \/ ok)
  /\ \E removed \in BOOLEAN :
       /\ spool' = IF removed THEN {} ELSE spool
       /\ fileSize' = IF removed THEN 0 ELSE fileSize
  /\ excused' = excused \cup events \cup EventsIn(spool)
  /\ UNCHANGED <<dereg, net, serverVars, nextBatch, nextEvent, crashes, carries>>

\* The process stops: what is in memory is lost, the spool is not.
Crash ==
  /\ proc = "up" /\ crashes < MaxCrash
  /\ crashes' = crashes + 1
  /\ proc' = "down" /\ dereg' = FALSE
  /\ MemoryLost
  /\ excused' = excused \cup events
  /\ UNCHANGED <<diskVars, net, serverVars, nextBatch, nextEvent, carries>>

\* main starts, unless the sentinel is there.
Start ==
  /\ proc = "down" /\ ~sentinel
  /\ proc' = "up"
  /\ UNCHANGED <<dereg, events, post, answer, diskVars, net, serverVars, histVars>>

-----------------------------------------------------------------------------
(* The network and the server.                                             *)

Lose(q) ==
  /\ q \in net
  /\ net' = net \ {q}
  /\ UNCHANGED <<agentVars, diskVars, serverVars, histVars>>

\* The answer reaches the goroutine that still waits for it; a request whose
\* sender gave up, or the answer of which is lost, answers nobody.
Answers(q, status) ==
  /\ q \in net
  /\ net' = net \ {q}
  /\ \/ \E g \in Goroutine :
          /\ post[g].slot = q.slot
          /\ answer' = [answer EXCEPT ![g] = status]
     \/ UNCHANGED answer
  /\ UNCHANGED <<proc, dereg, events, post, diskVars, deleted, histVars>>

\* requireAgentToken: the host was deleted (410).
HandleGone(q) ==
  /\ deleted
  /\ Answers(q, "gone")
  /\ UNCHANGED <<points, stored>>

\* Permanent rejections, none of which depends on what the agent can see: an
\* archived host (403), a token that ResolveToken does not find (401), a
\* timestamp more than two hours old (400).
HandleRejected(q) ==
  /\ ~deleted
  /\ Answers(q, "reject")
  /\ UNCHANGED <<points, stored>>

\* Rate limit (429), or bans.Ingest fails (502): nothing is stored.
HandleRefused(q) ==
  /\ ~deleted
  /\ Answers(q, "retry")
  /\ UNCHANGED <<points, stored>>

\* bans.Ingest has committed; then Reserve refuses (429) or InsertSnapshots
\* fails (502).
HandleHalfway(q) ==
  /\ ~deleted
  /\ stored' = stored \cup carries[q.batch]
  /\ Answers(q, "retry")
  /\ UNCHANGED points

\* The batch is taken: ban events are stored once per ID, rows are not.
HandleAccepted(q) ==
  /\ ~deleted
  /\ stored' = stored \cup carries[q.batch]
  /\ points' = [points EXCEPT ![q.batch] = IF @ = 2 THEN 2 ELSE @ + 1]
  /\ Answers(q, "ok")

\* An operator removes the host.
DeleteHost ==
  /\ ~deleted
  /\ deleted' = TRUE
  /\ UNCHANGED <<agentVars, diskVars, net, points, stored, histVars>>

AgentNext ==
  \/ PushEvent \/ Tick \/ DrainPeek
  \/ SendAccepted \/ SendRejected \/ SendSpooled \/ SendFailed
  \/ DrainDelivered \/ DrainDeleteFailed \/ DrainRejected \/ DrainRejectKept
  \/ DrainRetry
  \/ \E g \in Goroutine : SawGone(g)
  \/ ExitDeregistered \/ Crash \/ Start

ServerNext ==
  \/ \E q \in net : Lose(q) \/ HandleGone(q) \/ HandleRejected(q) \/ HandleRefused(q)
                    \/ HandleHalfway(q) \/ HandleAccepted(q)
  \/ DeleteHost

Next == AgentNext \/ ServerNext

Spec == Init /\ [][Next]_vars

(***************************************************************************)
(* Fairness.  The drainer's timer fires, the HTTP client ends every post   *)
(* (it has a timeout), a stopped agent is started again by the service     *)
(* manager, and of the drainer's requests some are decided by the server   *)
(* for good.                                                               *)
(***************************************************************************)
Decided == \E q \in net : q.slot = post["drainer"].slot
                          /\ (HandleAccepted(q) \/ HandleRejected(q) \/ HandleGone(q))
                          /\ answer' # answer

Fairness ==
  /\ WF_vars(DrainPeek) /\ WF_vars(DrainRetry)
  /\ WF_vars(SendAccepted \/ SendRejected \/ SendSpooled)
  /\ SF_vars(DrainRejected) /\ SF_vars(DrainDelivered)
  /\ WF_vars(\E q \in net : Lose(q)) /\ SF_vars(Decided)
  /\ WF_vars(\E g \in Goroutine : SawGone(g)) /\ WF_vars(ExitDeregistered) /\ WF_vars(Start)

FairSpec == Spec /\ Fairness

-----------------------------------------------------------------------------
(* Properties.                                                             *)

TypeOK ==
  /\ proc \in {"up", "down", "exited"} /\ dereg \in BOOLEAN /\ sentinel \in BOOLEAN
  /\ events \subseteq Event /\ Cardinality(events) <= EventCap
  /\ post \in [Goroutine -> [slot : 0..MaxNet, batch : 0..MaxBatch]]
  /\ answer \in [Goroutine -> Answer]
  /\ spool \subseteq Batch /\ fileSize \in Nat
  /\ net \subseteq [slot : Slot, batch : Batch]
  /\ deleted \in BOOLEAN
  /\ points \in [Batch -> 0..2] /\ stored \subseteq Event
  /\ nextBatch \in 1..MaxBatch + 1 /\ nextEvent \in 1..MaxEvent + 1
  /\ carries \in [Batch -> SUBSET Event]
  /\ doubted \subseteq Batch /\ excused \subseteq Event

\* A ban event is in the agent's buffer, in a spooled batch or in the
\* database, unless it was given up on one of the paths that say so: buffer
\* overflow, spool overflow, permanent rejection of a spooled batch, loss of
\* memory, deregistration.  Acknowledging, spooling and deleting never lose
\* one between them.
NoSilentLoss ==
  \A e \in 1..nextEvent - 1 :
    \/ e \in events \/ e \in EventsIn(spool)
    \/ e \in stored \/ e \in excused

\* A batch is stored more than once only if one of its posts ended without an
\* answer or its spool entry could not be deleted: the two posting goroutines
\* never both deliver a batch whose answer was seen.
DuplicatesExplained == \A b \in Batch : points[b] > 1 => b \in doubted

\* With a server that answers again and again, every spooled batch leaves the
\* spool, or the agent has left for good.
SpoolDrains ==
  \A b \in Batch : (b \in spool) ~> (b \notin spool \/ proc = "exited")

\* A batch and an event are somewhere, or given up on a path meant for it, and
\* twice in the database only after a missing answer.
DeliveryInv == TypeOK /\ NoSilentLoss /\ DuplicatesExplained
=============================================================================
