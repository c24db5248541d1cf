----------------------------- MODULE HostsCache -----------------------------
(***************************************************************************)
(* The host cache of the server (internal/server/storage/hosts.go) and the *)
(* token check in front of every agent request (requireAgentToken).  A     *)
(* reader that misses re-reads the whole hosts table outside the lock and  *)
(* installs what it read; a writer changes the table first and invalidates *)
(* the cache afterwards; a resolver that misses must first claim the one   *)
(* refresh per second that a miss may cause.  Rows are what a reader of    *)
(* the cache can tell apart: the token and the state of the host.          *)
(***************************************************************************)
EXTENDS Naturals, FiniteSets

CONSTANTS
  Host,        \* ids of the hosts table
  Reader,      \* concurrent callers of ResolveToken, Get and List
  MaxToken,    \* model bound: tokens handed out
  MaxWriter,   \* model bound: writers between commit and invalidate
  NoHost       \* not in Host: the id of no row

ASSUME HostsAssumption ==
  /\ IsFiniteSet(Host) /\ NoHost \notin Host
  /\ MaxToken \in Nat /\ MaxWriter \in Nat

VARIABLES
  row,         \* row[h]: the hosts table
  nextToken,   \* the next token the server draws
  cache,       \* byToken and byID, installed together
  cachedAt,    \* "zero", "fresh" or "expired"
  missRecent,  \* missRefresh lies within missCooldown
  writers,     \* calls that have changed the table and not yet invalidated
  pc,          \* pc[r]: control point of reader r
  call,        \* call[r]: what r was asked for: operation and token
  snap,        \* snap[r]: rows r has read and not yet installed
  outcome      \* outcome[r]: what the call returned

vars == <<row, nextToken, cache, cachedAt, missRecent, writers, pc, call, snap, outcome>>
cacheVars == <<cache, cachedAt, missRecent>>
readerVars == <<pc, call, snap, outcome>>

Token == 1..MaxToken
Status == {"none", "active", "archived", "deleted"}
Row == [status : Status, token : 0..MaxToken, seen : BOOLEAN]
Empty == [status |-> "none", token |-> 0, seen |-> FALSE]
Table == [Host -> Row]
NoTable == [h \in Host |-> Empty]
Op == {"resolve", "read"}
NoCall == [op |-> "read", token |-> 0]
Outcome == {"none", "ok", "gone", "archived", "unknown", "error"}

Init ==
  /\ row = NoTable /\ nextToken = 1
  /\ cache = NoTable /\ cachedAt = "zero" /\ missRecent = FALSE
  /\ writers = 0
  /\ pc = [r \in Reader |-> "idle"]
  /\ call = [r \in Reader |-> NoCall]
  /\ snap = [r \in Reader |-> NoTable]
  /\ outcome = [r \in Reader |-> "none"]

-----------------------------------------------------------------------------
(* The writers: one statement on the table, then invalidate.               *)

Commit(h, new) ==
  /\ writers < MaxWriter
  /\ row' = [row EXCEPT ![h] = new]
  /\ writers' = writers + 1
  /\ UNCHANGED <<cacheVars, readerVars>>

\* Register: a new row, or a new token for a host that was never seen.
Register(h) ==
  /\ nextToken <= MaxToken
  /\ row[h].status = "none" \/ (row[h].status = "active" /\ ~row[h].seen)
  /\ Commit(h, [status |-> "active", token |-> nextToken, seen |-> FALSE])
  /\ nextToken' = nextToken + 1

\* Archive: an active host only.
Archive(h) ==
  /\ row[h].status = "active"
  /\ Commit(h, [row[h] EXCEPT !.status = "archived"])
  /\ UNCHANGED nextToken

\* Unarchive: never a deleted host.
Unarchive(h) ==
  /\ row[h].status = "archived"
  /\ Commit(h, [row[h] EXCEPT !.status = "active"])
  /\ UNCHANGED nextToken

\* Delete: sets deleted_at, for good.
Delete(h) ==
  /\ row[h].status \in {"active", "archived"}
  /\ Commit(h, [row[h] EXCEPT !.status = "deleted"])
  /\ UNCHANGED nextToken

\* Update, RequestUpgrade, ClearUpgradeRequest: they change what this model
\* leaves out and invalidate like the others.
UpdateOther(h) ==
  /\ row[h].status = "active"
  /\ Commit(h, row[h])
  /\ UNCHANGED nextToken

\* invalidate: both times back to zero.
Invalidate ==
  /\ writers > 0 /\ writers' = writers - 1
  /\ cachedAt' = "zero" /\ missRecent' = FALSE
  /\ UNCHANGED <<row, nextToken, cache, readerVars>>

-----------------------------------------------------------------------------
(* The readers.                                                            *)

Lookup(t) ==
  LET hits == {h \in Host : cache[h].status # "none" /\ cache[h].token = t} IN
  IF hits = {} THEN NoHost ELSE CHOOSE h \in hits : TRUE

\* Mutant: an archived host is told that it was deregistered.
MutVerdict(h) ==
  IF cache[h].status \in {"deleted", "archived"} THEN "gone" ELSE "ok"

\* What ResolveToken answers for a row of the cache.
Verdict(h) ==
  CASE cache[h].status = "deleted"  -> "gone"
    [] cache[h].status = "archived" -> "archived"
    [] OTHER -> "ok"

Finish(r, o) ==
  /\ pc' = [pc EXCEPT ![r] = "done"]
  /\ outcome' = [outcome EXCEPT ![r] = o]
  /\ snap' = [snap EXCEPT ![r] = NoTable]

Goto(r, p) == pc' = [pc EXCEPT ![r] = p]

\* Mutant: an old cache still answers.
MutUsable == cachedAt # "zero"

\* cachedAt lies within cacheTTL.
Usable == cachedAt = "fresh"

\* ResolveToken: a hit in a fresh cache answers, anything else is a miss.
\* Tokens that were never handed out behave like unregistered ones.
BeginResolve(r, t) ==
  /\ pc[r] = "idle"
  /\ call' = [call EXCEPT ![r] = [op |-> "resolve", token |-> t]]
  /\ IF Usable /\ Lookup(t) # NoHost
     THEN Finish(r, Verdict(Lookup(t)))
     ELSE Goto(r, "claim") /\ UNCHANGED <<snap, outcome>>
  /\ UNCHANGED <<row, nextToken, cacheVars, writers>>

\* claimMissRefresh refuses: another miss refreshed within missCooldown.
ClaimRefused(r) ==
  /\ pc[r] = "claim"
  /\ cachedAt # "zero" /\ missRecent
  /\ Finish(r, "unknown")
  /\ UNCHANGED <<row, nextToken, cacheVars, writers, call>>

\* claimMissRefresh grants the refresh; an empty cache does not start the
\* cooldown.
ClaimGranted(r) ==
  /\ pc[r] = "claim"
  /\ cachedAt = "zero" \/ ~missRecent
  /\ missRecent' = (missRecent \/ cachedAt # "zero")
  /\ Goto(r, "query")
  /\ UNCHANGED <<row, nextToken, cache, cachedAt, writers, call, snap, outcome>>

\* List, and a Get that a fresh cache does not answer, refresh without a claim.
BeginRead(r) ==
  /\ pc[r] = "idle"
  /\ Goto(r, "query")
  /\ UNCHANGED <<row, nextToken, cacheVars, writers, call, snap, outcome>>

\* refresh: the query reads the table.
Query(r) ==
  /\ pc[r] = "query"
  /\ snap' = [snap EXCEPT ![r] = row]
  /\ Goto(r, "install")
  /\ UNCHANGED <<row, nextToken, cacheVars, writers, call, outcome>>

\* refresh fails: the caller answers 500.
QueryFails(r) ==
  /\ pc[r] = "query"
  /\ \/ call[r].op = "resolve" /\ Finish(r, "error")
     \/ call[r].op = "read" /\ Goto(r, "idle") /\ UNCHANGED <<snap, outcome>>
  /\ UNCHANGED <<row, nextToken, cacheVars, writers, call>>

\* refresh: the maps are replaced under the lock, whatever happened since
\* the query.  What List and Get return of them is not looked at.
Install(r) ==
  /\ pc[r] = "install"
  /\ cache' = snap[r] /\ cachedAt' = "fresh"
  /\ snap' = [snap EXCEPT ![r] = NoTable]
  /\ Goto(r, IF call[r].op = "resolve" THEN "answer" ELSE "idle")
  /\ UNCHANGED <<row, nextToken, missRecent, writers, call, outcome>>

\* After the refresh: the maps of the moment answer.
AnswerAfter(r) ==
  /\ pc[r] = "answer"
  /\ LET h == Lookup(call[r].token) IN
       Finish(r, IF h = NoHost THEN "unknown" ELSE Verdict(h))
  /\ UNCHANGED <<row, nextToken, cacheVars, writers, call>>

Accepts(r) == call[r].op = "resolve" /\ outcome[r] = "ok"

\* Touch, by the ingest handler once its token was accepted: last_seen is set
\* unless the host has been removed since; the cache is invalidated when
\* something the agent reports has changed.
Touch(r, h) ==
  /\ Accepts(r) /\ writers < MaxWriter
  /\ row[h].token = call[r].token /\ row[h].status = "active"
  /\ row' = [row EXCEPT ![h].seen = TRUE]
  /\ writers' \in {writers, writers + 1}
  /\ UNCHANGED <<nextToken, cacheVars, readerVars>>

\* The handler has its answer.
Return(r) ==
  /\ pc[r] = "done"
  /\ Goto(r, "idle")
  /\ call' = [call EXCEPT ![r] = NoCall]
  /\ outcome' = [outcome EXCEPT ![r] = "none"]
  /\ UNCHANGED <<row, nextToken, cacheVars, writers, snap>>

\* cacheTTL passes.
Expire ==
  /\ cachedAt = "fresh" /\ cachedAt' = "expired"
  /\ UNCHANGED <<row, nextToken, cache, missRecent, writers, readerVars>>

\* missCooldown passes.
CooldownEnds ==
  /\ missRecent /\ missRecent' = FALSE
  /\ UNCHANGED <<row, nextToken, cache, cachedAt, writers, readerVars>>

Working(r) == ClaimRefused(r) \/ ClaimGranted(r) \/ Query(r) \/ QueryFails(r) \/ Install(r)
              \/ AnswerAfter(r) \/ Return(r)

Next ==
  \/ \E h \in Host : Register(h) \/ Archive(h) \/ Unarchive(h) \/ Delete(h)
                     \/ UpdateOther(h)
  \/ Invalidate \/ Expire \/ CooldownEnds
  \/ \E r \in Reader : \/ \E t \in 1..nextToken - 1 : BeginResolve(r, t)
                       \/ BeginRead(r)
                       \/ \E h \in Host : Touch(r, h)
                       \/ Working(r)

Spec == Init /\ [][Next]_vars

\* Calls that have begun end, a committed writer invalidates, time passes.
Fairness ==
  /\ \A r \in Reader : WF_vars(Working(r))
  /\ WF_vars(Invalidate) /\ WF_vars(Expire) /\ WF_vars(CooldownEnds)

FairSpec == Spec /\ Fairness

-----------------------------------------------------------------------------
(* Properties.                                                             *)

TypeOK ==
  /\ row \in Table /\ cache \in Table
  /\ nextToken \in 1..MaxToken + 1
  /\ cachedAt \in {"zero", "fresh", "expired"} /\ missRecent \in BOOLEAN
  /\ writers \in 0..MaxWriter
  /\ pc \in [Reader -> {"idle", "claim", "query", "install", "answer", "done"}]
  /\ call \in [Reader -> [op : Op, token : 0..MaxToken]]
  /\ snap \in [Reader -> Table]
  /\ \A r \in Reader : snap[r] # NoTable => pc[r] = "install"
  /\ outcome \in [Reader -> Outcome]

\* 410 makes an agent erase its spool and never come back, so it is answered
\* only for a host that is deleted, however old the rows are that the answer
\* comes from.
GoneIsTrue ==
  \A r \in Reader, h \in Host :
    (outcome[r] = "gone" /\ row[h].token = call[r].token) => row[h].status = "deleted"

\* A token that was replaced by a second registration, or that belongs to a
\* deleted host, is accepted for a while after the change (rows read before
\* it are installed after invalidate), but not for ever.
RevocationTakesHold ==
  \A t \in Token :
    (nextToken > t /\ \A h \in Host : row[h].token = t => row[h].status = "deleted")
      ~> [](\A r \in Reader : call[r].token = t => ~Accepts(r))

\* The cached rows are well formed, and a 410 they give is true.
CacheInv == TypeOK /\ GoneIsTrue
=============================================================================
