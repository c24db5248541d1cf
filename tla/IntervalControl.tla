--------------------------- MODULE IntervalControl ---------------------------
(***************************************************************************)
(* The way of a sampling interval from the hosts table to the ticker of an *)
(* agent.  Every ingest answer carries the interval; postBytes, which runs *)
(* in the runner's goroutine and in the drainer's, compares it with        *)
(* appliedIntervalS and puts a new one into intervalCh, replacing what is  *)
(* there; a goroutine of main writes it to agent.toml and hands it to      *)
(* Runner.SetInterval, which keeps the OLD value when its channel is full. *)
(***************************************************************************)
EXTENDS Naturals, Sequences

CONSTANTS
  Poster,      \* goroutines that run postBytes, "runner" among them
  MaxInterval, \* model bound: intervals an operator chooses, one after the other
  MaxRestart   \* model bound: agent restarts

ASSUME IntervalAssumption ==
  /\ "runner" \in Poster
  /\ MaxInterval \in Nat \ {0}
  /\ MaxRestart \in Nat

VARIABLES
  want,        \* hosts.sample_interval_s
  ivPc,        \* ivPc[g]: control point of postBytes in goroutine g
  ack,         \* ack[g]: interval_s of the answer being handled
  applied,     \* Client.appliedIntervalS
  intervalCh,  \* Client.intervalCh, capacity one
  forward,     \* value main holds between the two channels (0: none)
  runnerCh,    \* Runner.intervalCh, capacity one
  interval,    \* the interval of the runner's ticker
  file,        \* interval_s in agent.toml
  unsaved,     \* history: persistInterval failed since the process started
  restarts     \* restarts so far

ivVars == <<want, ivPc, ack, applied, intervalCh, forward, runnerCh, interval, file, unsaved, restarts>>

Interval == 1..MaxInterval

IvInit ==
  /\ want = 1
  /\ ivPc = [g \in Poster |-> "idle"]
  /\ ack = [g \in Poster |-> 0]
  /\ applied = 1 /\ interval = 1 /\ file = 1
  /\ intervalCh = <<>> /\ runnerCh = <<>>
  /\ forward = 0 /\ unsaved = FALSE /\ restarts = 0

\* An operator sets another interval (PATCH /hosts/{id}).
SetWanted ==
  /\ want < MaxInterval
  /\ want' = want + 1
  /\ UNCHANGED <<ivPc, ack, applied, intervalCh, forward, runnerCh, interval, file, unsaved, restarts>>

\* A goroutine posts a batch; for the runner this is the tick, during which
\* it does not look at its channels.
Post(g) ==
  /\ ivPc[g] = "idle"
  /\ ivPc' = [ivPc EXCEPT ![g] = "posting"]
  /\ UNCHANGED <<want, ack, applied, intervalCh, forward, runnerCh, interval, file, unsaved, restarts>>

\* The handler reads the interval; the answer is on its way.
Answered(g) ==
  /\ ivPc[g] = "posting"
  /\ ack' = [ack EXCEPT ![g] = want]
  /\ ivPc' = [ivPc EXCEPT ![g] = "answered"]
  /\ UNCHANGED <<want, applied, intervalCh, forward, runnerCh, interval, file, unsaved, restarts>>

Done(g) == ivPc' = [ivPc EXCEPT ![g] = "idle"] /\ ack' = [ack EXCEPT ![g] = 0]

\* Under appliedMu: compare and remember.
Compare(g) ==
  /\ ivPc[g] = "answered"
  /\ applied' = ack[g]
  /\ IF ack[g] = applied THEN Done(g) ELSE ivPc' = [ivPc EXCEPT ![g] = "offer"] /\ UNCHANGED ack
  /\ UNCHANGED <<want, intervalCh, forward, runnerCh, interval, file, unsaved, restarts>>

\* First select: send if there is room.
Offer(g) ==
  /\ ivPc[g] = "offer"
  /\ IF intervalCh = <<>>
     THEN intervalCh' = <<ack[g]>> /\ Done(g)
     ELSE ivPc' = [ivPc EXCEPT ![g] = "displace"] /\ UNCHANGED <<ack, intervalCh>>
  /\ UNCHANGED <<want, applied, forward, runnerCh, interval, file, unsaved, restarts>>

\* Mutant: a full channel keeps the older value.
MutDisplace(g) ==
  /\ ivPc[g] = "displace"
  /\ ivPc' = [ivPc EXCEPT ![g] = "offerAgain"]
  /\ UNCHANGED <<want, ack, applied, intervalCh, forward, runnerCh, interval, file, unsaved, restarts>>

\* Second select: take the older value out.
Displace(g) ==
  /\ ivPc[g] = "displace"
  /\ intervalCh' = <<>>
  /\ ivPc' = [ivPc EXCEPT ![g] = "offerAgain"]
  /\ UNCHANGED <<want, ack, applied, forward, runnerCh, interval, file, unsaved, restarts>>

\* Third select: send if there is room, otherwise give up.
OfferAgain(g) ==
  /\ ivPc[g] = "offerAgain"
  /\ intervalCh' = IF intervalCh = <<>> THEN <<ack[g]>> ELSE intervalCh
  /\ Done(g)
  /\ UNCHANGED <<want, applied, forward, runnerCh, interval, file, unsaved, restarts>>

\* main receives a value and persists it.
Persist ==
  /\ forward = 0 /\ intervalCh # <<>>
  /\ forward' = Head(intervalCh)
  /\ intervalCh' = <<>>
  /\ file' = forward'
  /\ UNCHANGED <<want, ivPc, ack, applied, runnerCh, interval, unsaved, restarts>>

\* main receives a value and cannot persist it; it is handed on all the same.
PersistFails ==
  /\ forward = 0 /\ intervalCh # <<>>
  /\ forward' = Head(intervalCh)
  /\ intervalCh' = <<>>
  /\ unsaved' = TRUE
  /\ UNCHANGED <<want, ivPc, ack, applied, runnerCh, interval, file, restarts>>

\* Runner.SetInterval: a full channel keeps what it has.
SetInterval ==
  /\ forward # 0
  /\ runnerCh' = IF runnerCh = <<>> THEN <<forward>> ELSE runnerCh
  /\ forward' = 0
  /\ UNCHANGED <<want, ivPc, ack, applied, intervalCh, interval, file, unsaved, restarts>>

\* Runner.Run, between two ticks: reset the ticker.
ResetTicker ==
  /\ ivPc["runner"] = "idle" /\ runnerCh # <<>>
  /\ interval' = Head(runnerCh)
  /\ runnerCh' = <<>>
  /\ UNCHANGED <<want, ivPc, ack, applied, intervalCh, forward, file, unsaved, restarts>>

\* The process starts again from agent.toml; what was in memory is gone.
Restart ==
  /\ restarts < MaxRestart
  /\ restarts' = restarts + 1
  /\ ivPc' = [g \in Poster |-> "idle"]
  /\ ack' = [g \in Poster |-> 0]
  /\ applied' = file /\ interval' = file
  /\ intervalCh' = <<>> /\ runnerCh' = <<>> /\ forward' = 0
  /\ unsaved' = FALSE
  /\ UNCHANGED <<want, file>>

PostBytes(g) == Answered(g) \/ Compare(g) \/ Offer(g) \/ Displace(g) \/ OfferAgain(g)

IvNext ==
  \/ SetWanted
  \/ \E g \in Poster : Post(g) \/ PostBytes(g)
  \/ Persist \/ PersistFails \/ SetInterval \/ ResetTicker \/ Restart

IvSpec == IvInit /\ [][IvNext]_ivVars

\* Goroutines run, posts are answered, and a select that finds a channel
\* ready again and again takes it.
IvFairness ==
  /\ \A g \in Poster : WF_ivVars(Post(g)) /\ WF_ivVars(PostBytes(g))
  /\ WF_ivVars(Persist \/ PersistFails) /\ WF_ivVars(SetInterval) /\ SF_ivVars(ResetTicker)

IvFairSpec == IvSpec /\ IvFairness

-----------------------------------------------------------------------------
(* Properties.                                                             *)

IvTypeOK ==
  /\ want \in Interval /\ applied \in Interval /\ interval \in Interval /\ file \in Interval
  /\ ivPc \in [Poster -> {"idle", "posting", "answered", "offer", "displace", "offerAgain"}]
  /\ ack \in [Poster -> 0..MaxInterval] /\ forward \in 0..MaxInterval
  /\ intervalCh \in Seq(Interval) /\ Len(intervalCh) <= 1
  /\ runnerCh \in Seq(Interval) /\ Len(runnerCh) <= 1
  /\ unsaved \in BOOLEAN /\ restarts \in 0..MaxRestart

\* The last interval an operator chose is the one that ends up in agent.toml,
\* so that the next start uses it, through restarts at any point, unless the
\* file could not be written: the value is not offered a second time.  It
\* holds while one goroutine posts (an agent without a spool).
FileConverges == []IvTypeOK /\ <>[](file = want \/ unsaved)

\* The last interval an operator chose is the one the ticker ends up with.
TickerConverges == <>[](interval = want)
=============================================================================
