----------------------------- MODULE AlertEngine -----------------------------
(***************************************************************************)
(* The alert evaluator (internal/server/alerting/evaluator.go) on the      *)
(* series of one rule, together with the handlers that change the rule     *)
(* while a pass is under way (internal/server/api/alerts.go).  A pass      *)
(* loads the rule, evaluates the series of the hosts it matches, and       *)
(* sweeps what is left active for hosts or rules that no longer count.     *)
(* The engine keeps nothing between passes: all its state is in            *)
(* alert_states and alert_history, written one statement at a time.  Time  *)
(* advances between passes.                                                *)
(***************************************************************************)
EXTENDS Naturals, FiniteSets

CONSTANTS
  Series,      \* (host, label_key) pairs of the rule
  ForS,        \* for_s, in check periods
  CooldownS,   \* cooldown_s, in check periods
  MayDelete,   \* whether an operator deletes the rule
  MaxFault,    \* model bound: statements and notifications that fail, restarts
  NoSeries     \* not in Series

ASSUME AlertAssumption ==
  /\ IsFiniteSet(Series) /\ NoSeries \notin Series
  /\ {ForS, CooldownS, MaxFault} \subseteq Nat
  /\ MayDelete \in BOOLEAN

VARIABLES
  \* @ what is evaluated
  rule,        \* "enabled", "disabled" or "deleted"
  matched,     \* series whose host is active and selected by the rule
  above,       \* series the aggregate of which crosses the threshold
  \* @ alert_states and alert_history
  state,       \* state[s]
  since,       \* age of the since column, up to ForS
  notified,    \* age of last_notified, up to CooldownS (NULL counts as old)
  open,        \* rows of alert_history without resolved_at: 0, 1 or 2 (several)
  \* @ the pass
  pc,          \* control point of evaluateAll
  loaded,      \* rule as loaded: "enabled" or "disabled"
  selected,    \* series of the hosts matchedHosts returned
  todo,        \* series still to be evaluated or swept
  cur,         \* the series being handled
  fired,       \* predicate of cur
  seen,        \* the row transition has read
  due,         \* the ticker has fired
  \* @ history
  told,        \* told[s]: last notification a channel got
  quiet,       \* age of the last "fire" of this episode, up to CooldownS
  high,        \* how long every evaluation has been true, up to ForS
  early, hasty,\* series notified too early, fired too early
  doubted,     \* series for which a statement failed or was cut off
  faults

world == <<rule, matched, above>>
tables == <<state, since, notified, open>>
pass == <<pc, loaded, selected, todo, cur, fired, seen, due>>
hist == <<told, quiet, high, early, hasty, doubted>>
vars == <<world, tables, pass, hist, faults>>

None == [state |-> "ok", since |-> 0, notified |-> CooldownS]

Init ==
  /\ rule = "enabled" /\ matched = Series /\ above = {}
  /\ state = [s \in Series |-> "ok"]
  /\ since = [s \in Series |-> 0]
  /\ notified = [s \in Series |-> CooldownS]
  /\ open = [s \in Series |-> 0]
  /\ pc = "idle" /\ loaded = "enabled" /\ selected = {} /\ todo = {} /\ cur = NoSeries
  /\ fired = FALSE /\ seen = None
  /\ due = TRUE
  /\ told = [s \in Series |-> "none"]
  /\ quiet = [s \in Series |-> CooldownS]
  /\ high = [s \in Series |-> 0]
  /\ early = {} /\ hasty = {} /\ doubted = {}
  /\ faults = 0

-----------------------------------------------------------------------------
(* The world outside the engine.                                           *)

\* Metric values move.
ValueCrosses(s) ==
  /\ above' = IF s \in above THEN above \ {s} ELSE above \cup {s}
  /\ UNCHANGED <<rule, matched, tables, pass, hist, faults>>

\* A host leaves or joins the selection (archived, removed, retagged).
HostMoves(s) ==
  /\ matched' = IF s \in matched THEN matched \ {s} ELSE matched \cup {s}
  /\ UNCHANGED <<rule, above, tables, pass, hist, faults>>

\* updateAlertRuleHandler.
ToggleRule ==
  /\ rule \in {"enabled", "disabled"}
  /\ rule' = IF rule = "enabled" THEN "disabled" ELSE "enabled"
  /\ UNCHANGED <<matched, above, tables, pass, hist, faults>>

\* deleteAlertRuleHandler: one transaction closes the history rows and
\* deletes the rule; the rows of alert_states go with it.
DeleteRule ==
  /\ MayDelete /\ rule # "deleted"
  /\ rule' = "deleted"
  /\ open' = [s \in Series |-> 0]
  /\ state' = [s \in Series |-> "ok"]
  /\ since' = [s \in Series |-> 0]
  /\ notified' = [s \in Series |-> CooldownS]
  /\ UNCHANGED <<matched, above, pass, hist, faults>>

Older(age, limit) == [s \in Series |-> IF age[s] < limit THEN age[s] + 1 ELSE limit]

\* checkPeriod passes.
TimePasses ==
  /\ pc = "idle" /\ ~due
  /\ due' = TRUE
  /\ since' = Older(since, ForS)
  /\ notified' = Older(notified, CooldownS)
  /\ quiet' = Older(quiet, CooldownS)
  /\ high' = [s \in Series |-> IF high[s] > 0 /\ high[s] <= ForS THEN high[s] + 1 ELSE high[s]]
  /\ UNCHANGED <<world, state, open, pc, loaded, selected, todo, cur, fired, seen, told, early, hasty,
                 doubted, faults>>

-----------------------------------------------------------------------------
(* One pass.                                                               *)

Doubt(s) == doubted' = IF s \in Series THEN doubted \cup {s} ELSE doubted

Goto(p) == pc' = p

\* matchedHosts: the hosts of the selection that are neither deleted nor
\* archived.
MatchedHosts == matched

\* loadRules and loadChannels, then matchedHosts of an enabled rule.  A rule
\* that is gone is not in the list, and its states are gone as well.
Load ==
  /\ pc = "idle" /\ due
  /\ due' = FALSE
  /\ IF rule = "deleted"
     THEN UNCHANGED <<pc, loaded, selected, todo>>
     ELSE /\ loaded' = rule
          /\ selected' = IF rule = "enabled" THEN MatchedHosts ELSE {}
          /\ IF rule = "enabled"
             THEN Goto("evaluate") /\ todo' = MatchedHosts
             ELSE Goto("sweep") /\ todo' = Series
  /\ UNCHANGED <<world, tables, cur, fired, seen, hist, faults>>

\* One of the queries fails: nothing happens in this pass.
LoadFails ==
  /\ pc = "idle" /\ due /\ faults < MaxFault
  /\ due' = FALSE
  /\ faults' = faults + 1
  /\ UNCHANGED <<world, tables, pc, loaded, selected, todo, cur, fired, seen, hist>>

\* transition reads the row of alert_states; a missing row counts as ok.
Read(s, pred) ==
  /\ cur' = s /\ fired' = pred
  /\ seen' = [state |-> state[s], since |-> since[s], notified |-> notified[s]]
  /\ todo' = todo \ {s}
  /\ pc' = IF pc = "evaluate" THEN "transition" ELSE "resolveOrphan"
  /\ UNCHANGED <<loaded, selected, due>>

\* queryGroups and compare: the series has points in the window and their
\* aggregate crosses the threshold.
Crosses(s) == s \in above

\* evaluateRule: the next series, with a value, or without one and not ok
\* (staleStates).
Evaluate(s) ==
  /\ pc = "evaluate" /\ s \in todo
  /\ Read(s, Crosses(s))
  /\ high' = [high EXCEPT ![s] = IF ~Crosses(s) THEN 0 ELSE IF @ = 0 THEN 1 ELSE @]
  /\ UNCHANGED <<world, tables, told, quiet, early, hasty, doubted, faults>>

\* The rule is done: sweepOrphans looks at the series of hosts that were not
\* matched.
EvaluateDone ==
  /\ pc = "evaluate" /\ todo = {}
  /\ Goto("sweep")
  /\ todo' = Series \ selected
  /\ UNCHANGED <<world, tables, loaded, selected, cur, fired, seen, due, hist, faults>>

\* Mutant: a disabled rule is not swept.
MutOrphan(s) == state[s] # "ok" /\ loaded = "enabled"

\* Rows that sweepOrphans resolves.
Orphan(s) == state[s] # "ok"

Sweep(s) ==
  /\ pc = "sweep" /\ s \in todo /\ Orphan(s)
  /\ Read(s, FALSE)
  /\ high' = [high EXCEPT ![s] = 0]
  /\ UNCHANGED <<world, tables, told, quiet, early, hasty, doubted, faults>>

SweepDone ==
  /\ pc = "sweep" /\ \A s \in todo : ~Orphan(s)
  /\ Goto("idle") /\ todo' = {}
  /\ UNCHANGED <<world, tables, loaded, selected, cur, fired, seen, due, hist, faults>>

Handling == pc \in {"transition", "resolveOrphan"}

\* Where the pass goes on after a transition.
Loop == IF pc \in {"resolveOrphan", "clearOrphan"} THEN "sweep" ELSE "evaluate"

Then(p) ==
  /\ pc' = p
  /\ IF p \in {"evaluate", "sweep"}
     THEN cur' = NoSeries /\ fired' = FALSE /\ seen' = None
     ELSE UNCHANGED <<cur, fired, seen>>
  /\ UNCHANGED <<loaded, selected, todo, due>>

Row == rule # "deleted"   \* an UPDATE finds the row

\* Mutant: since is left as it was.
MutPend(s) ==
  /\ state' = [state EXCEPT ![s] = "pending"]
  /\ UNCHANGED <<since, notified, open>>

\* The INSERT ... ON CONFLICT of a new pending row.
Pend(s) ==
  /\ state' = [state EXCEPT ![s] = "pending"]
  /\ since' = [since EXCEPT ![s] = 0]
  /\ UNCHANGED <<notified, open>>

\* ok -> pending; without for_s the same call goes on to fire.
BecomePending ==
  /\ pc = "transition" /\ fired /\ seen.state = "ok" /\ Row
  /\ Pend(cur)
  /\ IF ForS > 0 THEN Then("evaluate") ELSE Then("fire")
  /\ UNCHANGED <<world, hist, faults>>

\* pending, not for long enough: only last_value is written.
StaysPending ==
  /\ pc = "transition" /\ fired /\ seen.state = "pending" /\ seen.since < ForS
  /\ Then("evaluate")
  /\ UNCHANGED <<world, tables, hist, faults>>

\* The UPDATE to firing, which also sets last_notified.
MarkFiring(s) ==
  /\ state' = IF Row THEN [state EXCEPT ![s] = "firing"] ELSE state
  /\ since' = IF Row THEN [since EXCEPT ![s] = 0] ELSE since
  /\ notified' = IF Row THEN [notified EXCEPT ![s] = 0] ELSE notified
  /\ UNCHANGED open

\* pending -> firing.
Fire ==
  /\ \/ pc = "transition" /\ fired /\ seen.state = "pending" /\ seen.since >= ForS
     \/ pc = "fire"
  /\ MarkFiring(cur)
  /\ hasty' = IF high[cur] <= ForS THEN hasty \cup {cur} ELSE hasty
  /\ Then("recordFire")
  /\ UNCHANGED <<world, told, quiet, high, early, doubted, faults>>

Notify(s, kind) ==
  /\ told' = [told EXCEPT ![s] = kind]
  /\ quiet' = [quiet EXCEPT ![s] = IF kind = "fire" THEN 0 ELSE CooldownS]
  /\ early' = IF kind = "fire" /\ quiet[s] < CooldownS THEN early \cup {s} ELSE early

\* The history row, then dispatch.
RecordFire ==
  /\ pc = "recordFire"
  /\ open' = [open EXCEPT ![cur] = IF @ < 2 THEN @ + 1 ELSE 2]
  /\ Notify(cur, "fire")
  /\ Then("evaluate")
  /\ UNCHANGED <<world, state, since, notified, high, hasty, doubted, faults>>

CooledDown == seen.notified >= CooldownS

\* firing: last_value is written and, after the cooldown, last_notified.
StaysFiring ==
  /\ pc = "transition" /\ fired /\ seen.state = "firing"
  /\ IF CooledDown
     THEN /\ notified' = IF Row THEN [notified EXCEPT ![cur] = 0] ELSE notified
          /\ Notify(cur, "fire")
     ELSE UNCHANGED <<notified, told, quiet, early>>
  /\ Then("evaluate")
  /\ UNCHANGED <<world, state, since, open, high, hasty, doubted, faults>>

\* The UPDATE of last_notified fails; its error is dropped and the channel is
\* called all the same.
RenotifyUnrecorded ==
  /\ pc = "transition" /\ fired /\ seen.state = "firing" /\ CooledDown
  /\ faults < MaxFault /\ faults' = faults + 1
  /\ Notify(cur, "fire") /\ Doubt(cur)
  /\ Then("evaluate")
  /\ UNCHANGED <<world, tables, high, hasty>>

\* pending or firing -> ok.
Resolve ==
  /\ Handling /\ ~fired /\ seen.state # "ok"
  /\ state' = [state EXCEPT ![cur] = "ok"]
  /\ since' = [since EXCEPT ![cur] = 0]
  /\ Then(IF seen.state = "pending" THEN Loop
           ELSE IF pc = "transition" THEN "clear" ELSE "clearOrphan")
  /\ UNCHANGED <<world, notified, open, hist, faults>>

\* The UPDATE closes the newest open row.
Close(s) == open' = [open EXCEPT ![s] = IF @ > 0 THEN @ - 1 ELSE 0]

\* The history row is closed, then dispatch.
Clear ==
  /\ pc \in {"clear", "clearOrphan"}
  /\ Close(cur)
  /\ Notify(cur, "resolve")
  /\ Then(Loop)
  /\ UNCHANGED <<world, state, since, notified, high, hasty, doubted, faults>>

\* A statement on alert_history fails; its error is dropped.
HistoryLost ==
  /\ pc \in {"recordFire", "clear", "clearOrphan"}
  /\ faults < MaxFault /\ faults' = faults + 1
  /\ Notify(cur, IF pc = "recordFire" THEN "fire" ELSE "resolve")
  /\ Doubt(cur)
  /\ Then(Loop)
  /\ UNCHANGED <<world, tables, high, hasty>>

\* All three attempts of a channel fail.
NotificationLost ==
  /\ pc \in {"recordFire", "clear", "clearOrphan"}
  /\ faults < MaxFault /\ faults' = faults + 1
  /\ IF pc = "recordFire" THEN open' = [open EXCEPT ![cur] = IF @ < 2 THEN @ + 1 ELSE 2] ELSE Close(cur)
  /\ quiet' = [quiet EXCEPT ![cur] = CooldownS]
  /\ Then(Loop)
  /\ UNCHANGED <<world, state, since, notified, told, high, early, hasty, doubted>>

\* Nothing to do: the predicate is false and the state is ok.
StaysOk ==
  /\ Handling /\ ~fired /\ seen.state = "ok"
  /\ Then(Loop)
  /\ UNCHANGED <<world, tables, hist, faults>>

\* A statement on alert_states fails, or the INSERT finds no rule to refer
\* to: evaluateRule leaves the rule for this pass; sweepOrphans goes on.
Abort ==
  /\ Handling \/ pc = "fire"
  /\ \/ faults < MaxFault /\ faults' = faults + 1
     \/ ~Row /\ fired /\ seen.state = "ok" /\ UNCHANGED faults
  /\ Doubt(cur)
  /\ IF pc = "resolveOrphan"
     THEN Goto("sweep") /\ todo' = todo
     ELSE Goto("sweep") /\ todo' = Series \ selected
  /\ cur' = NoSeries /\ fired' = FALSE /\ seen' = None
  /\ UNCHANGED <<world, tables, loaded, selected, due, told, quiet, high, early, hasty>>

\* The server stops in the middle of a pass or between two; it evaluates as
\* soon as it is up again.
Crash ==
  /\ faults < MaxFault /\ faults' = faults + 1
  /\ pc' = "idle" /\ todo' = {} /\ cur' = NoSeries /\ fired' = FALSE /\ seen' = None
  /\ due' = TRUE
  /\ Doubt(cur)
  /\ UNCHANGED <<world, tables, loaded, selected, told, quiet, high, early, hasty>>

Engine ==
  \/ Load \/ EvaluateDone \/ SweepDone
  \/ \E s \in Series : Evaluate(s) \/ Sweep(s)
  \/ BecomePending \/ StaysPending \/ Fire \/ RecordFire \/ StaysFiring
  \/ Resolve \/ Clear \/ StaysOk \/ Abort

Failure == LoadFails \/ RenotifyUnrecorded \/ HistoryLost \/ NotificationLost \/ Crash

World == ToggleRule \/ DeleteRule \/ \E s \in Series : ValueCrosses(s) \/ HostMoves(s)

Next == Engine \/ Failure \/ World \/ TimePasses

Spec == Init /\ [][Next]_vars

\* The engine's goroutine runs and time passes.
FairSpec == Spec /\ WF_vars(Engine) /\ WF_vars(TimePasses)

-----------------------------------------------------------------------------
(* Properties.                                                             *)

TypeOK ==
  /\ rule \in {"enabled", "disabled", "deleted"}
  /\ matched \subseteq Series /\ above \subseteq Series /\ selected \subseteq Series /\ todo \subseteq Series
  /\ state \in [Series -> {"ok", "pending", "firing"}]
  /\ since \in [Series -> 0..ForS] /\ notified \in [Series -> 0..CooldownS]
  /\ open \in [Series -> 0..2]
  /\ pc \in {"idle", "evaluate", "transition", "fire", "recordFire", "clear", "sweep",
             "resolveOrphan", "clearOrphan"}
  /\ loaded \in {"enabled", "disabled"}
  /\ cur \in Series \cup {NoSeries} /\ fired \in BOOLEAN /\ due \in BOOLEAN
  /\ told \in [Series -> {"none", "fire", "resolve"}]
  /\ quiet \in [Series -> 0..CooldownS] /\ high \in [Series -> 0..ForS + 1]
  /\ {early, hasty, doubted} \subseteq SUBSET Series
  /\ faults \in 0..MaxFault

\* While an alert stays firing its channel is called again only after
\* cooldown_s, unless a statement of its transition failed or was cut off.
CooldownRespected == early \subseteq doubted

\* An alert fires only if every evaluation for the last for_s was true, across
\* restarts, skipped passes and changes of the rule, unless a statement of its
\* transition failed or was cut off.
FiresAfterFor == hasty \subseteq doubted

\* Between passes a series has one open history row while it fires and none
\* otherwise, unless a statement failed or was cut off.
HistoryMatchesState ==
  (pc = "idle" /\ rule # "deleted") =>
    \A s \in Series \ doubted : open[s] = (IF state[s] = "firing" THEN 1 ELSE 0)

\* Every fire that a channel was told about, and that is over, is followed by
\* a resolve.
FireIsCleared ==
  \A s \in Series : []<>(told[s] # "fire" \/ state[s] = "firing")

\* An alert does not outlive its reason: it ends when the rule stays disabled,
\* its host stays out of the selection or its value stays normal.
AlertsEnd ==
  \A s \in Series :
    /\ []<>(state[s] # "firing" \/ rule # "disabled")
    /\ []<>(state[s] # "firing" \/ s \in matched)
    /\ []<>(state[s] # "firing" \/ s \in above)

\* What the evaluator's statements keep among them: a rule's for_s and
\* cooldown_s, and a history in step with the states.
AlertInv == TypeOK /\ CooldownRespected /\ FiresAfterFor /\ HistoryMatchesState

\* Every alert comes to its end, and its channel is told.
AlertsClear == FireIsCleared /\ AlertsEnd
=============================================================================
