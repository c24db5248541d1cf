---------------------------- MODULE BanTracker ----------------------------
(***************************************************************************)
(* The Tracker of internal/agent/ipban: it counts the login failures of an *)
(* address in a sliding window, decides when a ban starts and how long it  *)
(* lasts, and forgets what no longer matters.  Addresses do not influence  *)
(* each other, so one of them is modelled, next to a log of everything     *)
(* that happened to it.  The log is never pruned; the properties recompute *)
(* each decision from it.                                                  *)
(***************************************************************************)
EXTENDS Naturals, Sequences, FiniteSets

CONSTANTS
    BtPolicies,        \* the policies SetPolicy is called with, in ticks
    FindDefault,       \* 10 minutes
    BanDefault,        \* one hour
    EscalationWindow,  \* 7 days
    BtMaxTime, MaxLog  \* bounds of the model

ASSUME BtConstants ==
    /\ BtPolicies \subseteq [maxRetry : Nat, findTime : Nat, banTime : Nat, banTimeMax : Nat]
    /\ FindDefault \in Nat \ {0} /\ BanDefault \in Nat \ {0}
    /\ EscalationWindow \in Nat /\ BtMaxTime \in Nat \ {0} /\ MaxLog \in Nat

VARIABLES
    st,       \* the ipState of the address, BtAbsent when the map has none
    pol,      \* the tracker's policy
    btNow,
    log,      \* (history) failures, bans and unbans since the process started
    widened   \* (history) SetPolicy has made the window longer

btVars == <<st, pol, btNow, log, widened>>

\* Time 0 is the zero time.
BtAbsent == [failures |-> <<>>, bans |-> 0, lastBan |-> 0, bannedUntil |-> 0, present |-> FALSE]
Fresh == [BtAbsent EXCEPT !.present = TRUE]

At(i) == log[i].at

\* Policy.normalized
Normalized(p) ==
    LET ban == IF p.banTime = 0 THEN BanDefault ELSE p.banTime
    IN [maxRetry |-> IF p.maxRetry < 1 THEN 1 ELSE p.maxRetry,
        findTime |-> IF p.findTime = 0 THEN FindDefault ELSE p.findTime,
        banTime |-> ban,
        banTimeMax |-> IF p.banTimeMax < ban THEN ban ELSE p.banTimeMax]

\* f.After(now.Add(-findTime))
RecentlyFailed(t) == t + pol.findTime > btNow

\* dur doubles once per earlier ban while it is below the maximum.
Duration(p, bans) ==
    LET d[i \in 0..bans] ==
          IF i = 0 THEN p.banTime
          ELSE IF d[i-1] < p.banTimeMax THEN 2 * d[i-1] ELSE d[i-1]
    IN IF d[bans] > p.banTimeMax THEN p.banTimeMax ELSE d[bans]

\* The bans that count for the next one.
EarlierBans == IF st.lastBan # 0 /\ btNow - st.lastBan > EscalationWindow THEN 0 ELSE st.bans

BtInit ==
    /\ st = BtAbsent /\ btNow = 1 /\ log = <<>> /\ widened = FALSE
    /\ pol = Normalized([maxRetry |-> 0, findTime |-> 0, banTime |-> 0, banTimeMax |-> 0])

Tick ==
    /\ btNow < BtMaxTime /\ btNow' = btNow + 1
    /\ UNCHANGED <<st, pol, log, widened>>

\* SetPolicy
SetPolicy ==
    /\ \E p \in BtPolicies :
         /\ pol' = Normalized(p)
         /\ widened' = (widened \/ (pol'.findTime > pol.findTime))
    /\ UNCHANGED <<st, btNow, log>>

Record(e) == Len(log) < MaxLog /\ log' = Append(log, e)

\* The failures Observe keeps, one after the other.
Kept ==
    LET k[n \in 0..Len(st.failures)] ==
          IF n = 0 THEN <<>>
          ELSE IF RecentlyFailed(st.failures[n]) THEN Append(k[n-1], st.failures[n]) ELSE k[n-1]
    IN k[Len(st.failures)]

\* Observe, while the address is banned
ObserveBanned ==
    /\ st.bannedUntil > btNow
    /\ UNCHANGED btVars

\* Observe, below the threshold
ObserveFailure ==
    /\ ~(st.bannedUntil > btNow) /\ Len(Kept) + 1 < pol.maxRetry
    /\ st' = [st EXCEPT !.present = TRUE, !.failures = Append(Kept, btNow)]
    /\ Record([kind |-> "failure", at |-> btNow, until |-> 0])
    /\ UNCHANGED <<pol, btNow, widened>>

\* Observe, at the threshold
ObserveBan ==
    /\ ~(st.bannedUntil > btNow) /\ Len(Kept) + 1 >= pol.maxRetry
    /\ LET until == btNow + Duration(pol, EarlierBans)
       IN /\ st' = [present |-> TRUE, failures |-> <<>>, bans |-> EarlierBans + 1,
                    lastBan |-> btNow, bannedUntil |-> until]
          /\ Record([kind |-> "ban", at |-> btNow, until |-> until])
    /\ UNCHANGED <<pol, btNow, widened>>

\* Import, from an element the kernel's set still holds
Import ==
    /\ \E until \in (btNow + 1)..BtMaxTime :
         st' = [st EXCEPT !.present = TRUE,
                          !.bannedUntil = IF until > @ THEN until ELSE @]
    /\ UNCHANGED <<pol, btNow, log, widened>>

\* Unban
Unban ==
    /\ st.present
    /\ st' = BtAbsent
    /\ Record([kind |-> "unban", at |-> btNow, until |-> 0])
    /\ UNCHANGED <<pol, btNow, widened>>

\* Mutant: failures still in the window do not keep the state.
MutPrune ==
    /\ st.present /\ ~(st.bannedUntil > btNow)
    /\ st' = IF st.bans > 0 /\ btNow - st.lastBan <= EscalationWindow
             THEN [st EXCEPT !.failures = <<>>] ELSE BtAbsent
    /\ UNCHANGED <<pol, btNow, log, widened>>

\* Prune
Prune ==
    /\ st.present /\ ~(st.bannedUntil > btNow) /\ Kept = <<>>
    /\ st' = IF st.bans > 0 /\ btNow - st.lastBan <= EscalationWindow
             THEN [st EXCEPT !.failures = <<>>] ELSE BtAbsent
    /\ UNCHANGED <<pol, btNow, log, widened>>

BtNext == Tick \/ SetPolicy \/ ObserveBanned \/ ObserveFailure \/ ObserveBan
          \/ Import \/ Unban \/ Prune

BtSpec == BtInit /\ [][BtNext]_btVars

----------------------------------------------------------------------------
\* The state of the address and the log are well formed.
BtTypeOK ==
    /\ st.present \in BOOLEAN /\ st.bans \in 0..MaxLog /\ st.lastBan \in 0..BtMaxTime
    /\ st.failures \in Seq(1..BtMaxTime) /\ Len(st.failures) <= MaxLog
    /\ st.bannedUntil \in Nat /\ btNow \in 1..BtMaxTime /\ widened \in BOOLEAN
    /\ pol \in [maxRetry : Nat \ {0}, findTime : Nat \ {0}, banTime : Nat \ {0}, banTimeMax : Nat]
    /\ pol.banTime <= pol.banTimeMax
    /\ \A i \in DOMAIN log : log[i].kind \in {"failure", "ban", "unban"} /\ At(i) \in 1..btNow

(***************************************************************************)
(* The reference: the failures of the log that no ban or unban has used    *)
(* up and that lie in the window, and the bans since the last unban that   *)
(* follow each other within the escalation window up to btNow.               *)
(***************************************************************************)
Evidence == {i \in DOMAIN log : /\ log[i].kind = "failure" /\ RecentlyFailed(At(i))
                                /\ \A j \in i..Len(log) : log[j].kind = "failure"}

Spell ==
    LET bans == {i \in DOMAIN log : log[i].kind = "ban"}
        Follows(i) == LET later == {At(j) : j \in {k \in bans : k > i}} \cup {btNow}
                      IN \E t \in later : t - At(i) <= EscalationWindow /\ \A u \in later : t <= u
    IN {i \in bans : /\ \A j \in i..Len(log) : log[j].kind # "unban"
                     /\ \A j \in {k \in bans : k >= i} : Follows(j)}

\* t, doubled n times.
Doubled(t, n) ==
    LET d[i \in 0..n] == IF i = 0 THEN t ELSE 2 * d[i-1] IN d[n]

NewEntry(kind) == Len(log') > Len(log) /\ log'[Len(log')].kind = kind

(***************************************************************************)
(* A ban has its evidence: max_retry failures since the last ban or unban, *)
(* all within find_time, whatever was pruned, imported or re-configured.   *)
(***************************************************************************)
BansOnEvidence ==
    NewEntry("ban") => Cardinality(Evidence) + 1 >= pol.maxRetry

(***************************************************************************)
(* No ban is missed: pruning and trimming never lose a failure that still  *)
(* counts, unless an operator has made the window longer in between.       *)
(***************************************************************************)
NoMissedBan ==
    NewEntry("failure") /\ ~widened => Cardinality(Evidence) + 1 < pol.maxRetry

(***************************************************************************)
(* A repeated ban lasts twice as long as the one before it, up to the      *)
(* maximum, counted over the bans of the current spell; pruning between    *)
(* them does not shorten it.                                               *)
(***************************************************************************)
EscalationIsExact ==
    NewEntry("ban") =>
        LET e == log'[Len(log')]
            full == Doubled(pol.banTime, Cardinality(Spell))
        IN e.until - e.at = IF full > pol.banTimeMax THEN pol.banTimeMax ELSE full

\* Every decision of the tracker is the one the unpruned log gives.
DecisionsMatchLog ==
    [][BtTypeOK /\ BansOnEvidence /\ NoMissedBan /\ EscalationIsExact]_btVars
=============================================================================
