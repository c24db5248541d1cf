-------------------------- MODULE HostsCacheProofs --------------------------
(***************************************************************************)
(* Proofs about HostsCache for every set of hosts and of concurrent        *)
(* callers, every number of tokens and of writers between commit and       *)
(* invalidate.                                                             *)
(*                                                                         *)
(* GoneIsTrue is not inductive alone.  A 410 may come from rows of any     *)
(* age, so it rests on what old rows can still be trusted for: a host that *)
(* was deleted stays deleted and keeps its token (OldRowsTrue), and a      *)
(* token is never drawn twice (TokenInv), hence the deleted host is the    *)
(* only one the token can belong to (GoneInv).                             *)
(***************************************************************************)
EXTENDS HostsCache, TLAPS

\* A registered host has a token that was drawn, and no other host has it.
TokenInv ==
  /\ \A h \in Host : row[h].status # "none" => row[h].token \in 1..nextToken - 1
  /\ \A h \in Host : row[h].status = "none" => row[h].token = 0
  /\ \A g, h \in Host : g # h /\ row[g].token = row[h].token => row[g].token = 0

\* A row that says deleted is still true of the table, however old it is.
DeletedInTable(table) ==
  \A h \in Host : table[h].status = "deleted" =>
    row[h].status = "deleted" /\ row[h].token = table[h].token

OldRowsTrue ==
  /\ DeletedInTable(cache)
  /\ \A r \in Reader : DeletedInTable(snap[r])

\* A call that is asked for a token has one that was drawn; one that was told
\* "gone" has ended, and there is a deleted host with its token.
GoneInv ==
  \A r \in Reader :
    /\ call[r].op = "resolve" => call[r].token \in 1..nextToken - 1
    /\ pc[r] \in {"claim", "answer"} => call[r].op = "resolve"
    /\ outcome[r] = "gone" =>
         /\ pc[r] = "done"
         /\ call[r].op = "resolve"
         /\ \E h \in Host : row[h].status = "deleted" /\ row[h].token = call[r].token

IInv == TypeOK /\ TokenInv /\ OldRowsTrue /\ GoneInv

-----------------------------------------------------------------------------
LEMMA InitIInv == Init => IInv
<1> SUFFICES ASSUME Init PROVE IInv
  OBVIOUS
<1>1. NoTable \in Table /\ \A h \in Host : NoTable[h].status = "none" /\ NoTable[h].token = 0
  BY HostsAssumption DEF NoTable, Table, Row, Status, Empty
<1>2. TypeOK
  <2>1. NoCall \in [op : Op, token : 0..MaxToken]
    BY HostsAssumption DEF NoCall, Op
  <2>2. nextToken \in 1..MaxToken + 1 /\ writers \in 0..MaxWriter
    BY HostsAssumption DEF Init
  <2>3. \A r \in Reader : snap[r] = NoTable
    BY DEF Init
  <2>4. snap \in [Reader -> Table] /\ call \in [Reader -> [op : Op, token : 0..MaxToken]]
    BY <1>1, <2>1 DEF Init
  <2> QED
    BY <1>1, <2>2, <2>3, <2>4 DEF Init, TypeOK, Outcome
<1>3. TokenInv
  BY <1>1 DEF Init, TokenInv
<1>4. OldRowsTrue
  BY <1>1 DEF Init, OldRowsTrue, DeletedInTable
<1>5. GoneInv
  BY DEF Init, GoneInv, NoCall
<1> QED
  BY <1>2, <1>3, <1>4, <1>5 DEF IInv

\* The row of one host is written: what must hold of the new row for the
\* invariant to be kept.  A deleted host is not written any more.
LEMMA CommitIInv ==
  ASSUME IInv, NEW h \in Host, NEW new \in Row, Commit(h, new),
         nextToken' \in {nextToken, nextToken + 1}, nextToken' <= MaxToken + 1,
         row[h].status # "deleted", new.status # "none",
         new.token \in 1..nextToken' - 1,
         \/ new.token = row[h].token
         \/ new.token = nextToken
  PROVE  IInv'
<1> USE DEF Commit, cacheVars, readerVars
<1>1. row' \in Table /\ \A g \in Host : row'[g] = IF g = h THEN new ELSE row[g]
  BY DEF IInv, TypeOK, Table
<1>2. TypeOK'
  BY <1>1, HostsAssumption DEF IInv, TypeOK
<1>3. nextToken \in Nat /\ nextToken' \in Nat /\ \A g \in Host : row[g].token \in Nat
  BY HostsAssumption DEF IInv, TypeOK, Table, Row
<1>4. TokenInv'
  BY <1>1, <1>3 DEF IInv, TokenInv
<1>5. OldRowsTrue'
  BY <1>1 DEF IInv, TypeOK, OldRowsTrue, DeletedInTable
<1>6. GoneInv'
  <2>1. \A r \in Reader : call[r].token \in 1..nextToken - 1 => call[r].token \in 1..nextToken' - 1
    BY <1>3
  <2>2. \A g \in Host : row[g].status = "deleted" => row'[g] = row[g]
    BY <1>1
  <2> QED
    BY <2>1, <2>2 DEF IInv, GoneInv
<1> QED
  BY <1>2, <1>4, <1>5, <1>6 DEF IInv

\* The calls that change the table.
LEMMA WriterIInv ==
  ASSUME IInv, NEW h \in Host,
         Register(h) \/ Archive(h) \/ Unarchive(h) \/ Delete(h) \/ UpdateOther(h)
  PROVE  IInv'
<1>0. /\ row[h] \in Row /\ nextToken \in 1..MaxToken + 1
      /\ row[h].status # "none" => row[h].token \in 1..nextToken - 1
  BY DEF IInv, TypeOK, TokenInv, Table
<1>1. CASE Register(h)
  <2> DEFINE new == [status |-> "active", token |-> nextToken, seen |-> FALSE]
  <2>1. new \in Row
    BY <1>0, <1>1, HostsAssumption DEF Register, Row, Status
  <2>2. Commit(h, new) /\ nextToken' = nextToken + 1 /\ nextToken <= MaxToken /\ row[h].status # "deleted"
    BY <1>1 DEF Register
  <2>3. new.status # "none" /\ new.token = nextToken /\ new.token \in 1..nextToken' - 1
    BY <1>0, <2>2, HostsAssumption
  <2>4. nextToken' <= MaxToken + 1
    BY <1>0, <2>2, HostsAssumption
  <2> HIDE DEF new
  <2> QED
    BY <2>1, <2>2, <2>3, <2>4, CommitIInv
<1>2. ASSUME NEW new \in Row, Commit(h, new), UNCHANGED nextToken,
             row[h].status \in {"active", "archived"}, new.status # "none", new.token = row[h].token
      PROVE  IInv'
  BY <1>0, <1>2, CommitIInv, HostsAssumption
<1>3. ASSUME NEW st \in {"active", "archived", "deleted"}
      PROVE  LET new == [row[h] EXCEPT !.status = st]
             IN  new \in Row /\ new.status # "none" /\ new.token = row[h].token
  BY <1>0 DEF Row, Status
<1>4. CASE Archive(h)
  BY <1>2, <1>3, <1>4 DEF Archive
<1>5. CASE Unarchive(h)
  BY <1>2, <1>3, <1>5 DEF Unarchive
<1>6. CASE Delete(h)
  BY <1>2, <1>3, <1>6 DEF Delete
<1>7. CASE UpdateOther(h)
  BY <1>0, <1>2, <1>7 DEF UpdateOther
<1> QED
  BY <1>1, <1>4, <1>5, <1>6, <1>7

\* Touch sets last_seen of an active host.
LEMMA TouchIInv ==
  ASSUME IInv, NEW r \in Reader, NEW h \in Host, Touch(r, h)
  PROVE  IInv'
<1> USE DEF Touch, cacheVars, readerVars
<1>1. row' \in Table /\ \A g \in Host : row'[g].status = row[g].status /\ row'[g].token = row[g].token
  <2>1. row \in Table /\ row[h] \in Row
    BY DEF IInv, TypeOK, Table
  <2>2. [row[h] EXCEPT !.seen = TRUE] \in Row
    BY <2>1 DEF Row
  <2>3. row' = [row EXCEPT ![h] = [row[h] EXCEPT !.seen = TRUE]]
    OBVIOUS
  <2>4. /\ [row[h] EXCEPT !.seen = TRUE].status = row[h].status
        /\ [row[h] EXCEPT !.seen = TRUE].token = row[h].token
    BY <2>1 DEF Row
  <2> QED
    BY <2>1, <2>2, <2>3, <2>4 DEF Table
<1>2. TypeOK'
  BY <1>1, HostsAssumption DEF IInv, TypeOK
<1>3. TokenInv' /\ OldRowsTrue' /\ GoneInv'
  BY <1>1 DEF IInv, TokenInv, OldRowsTrue, DeletedInTable, GoneInv
<1> QED
  BY <1>2, <1>3 DEF IInv

\* A hit is a host of the cache with the token that was asked for.
LEMMA LookupHit ==
  ASSUME NEW t, Lookup(t) # NoHost
  PROVE  Lookup(t) \in Host /\ cache[Lookup(t)].status # "none" /\ cache[Lookup(t)].token = t
BY DEF Lookup

\* An answer from the cache is "gone" only for the token of a deleted host.
LEMMA VerdictTrue ==
  ASSUME IInv, NEW t, Lookup(t) # NoHost
  PROVE  /\ Verdict(Lookup(t)) \in Outcome
         /\ Verdict(Lookup(t)) = "gone" => \E h \in Host : row[h].status = "deleted" /\ row[h].token = t
BY LookupHit DEF Verdict, Outcome, IInv, OldRowsTrue, DeletedInTable

LEMMA NoTableIsTable == NoTable \in Table /\ DeletedInTable(NoTable)
BY HostsAssumption DEF NoTable, Table, Row, Status, Empty, DeletedInTable

\* A call ends with an answer that is true.
LEMMA FinishIInv ==
  ASSUME IInv, NEW r \in Reader, NEW o \in Outcome, Finish(r, o),
         UNCHANGED <<row, nextToken, cacheVars, writers>>,
         NEW k, k \in [op : Op, token : 0..MaxToken], call' = [call EXCEPT ![r] = k],
         k.op = "resolve", k.token \in 1..nextToken - 1,
         o = "gone" => \E h \in Host : row[h].status = "deleted" /\ row[h].token = k.token
  PROVE  IInv'
<1> USE DEF Finish, cacheVars
<1>1. TypeOK'
  BY NoTableIsTable DEF IInv, TypeOK
<1>2. TokenInv'
  BY DEF IInv, TokenInv
<1>3. OldRowsTrue'
  BY NoTableIsTable DEF IInv, TypeOK, OldRowsTrue, DeletedInTable
<1>4. GoneInv'
  BY DEF IInv, TypeOK, GoneInv
<1> QED
  BY <1>1, <1>2, <1>3, <1>4 DEF IInv

LEMMA ReaderIInv ==
  ASSUME IInv, NEW r \in Reader,
         (\E t \in 1..nextToken - 1 : BeginResolve(r, t)) \/ BeginRead(r) \/ Working(r)
  PROVE  IInv'
<1> USE DEF Goto, cacheVars
<1>0. /\ call[r] \in [op : Op, token : 0..MaxToken] /\ call = [call EXCEPT ![r] = call[r]]
      /\ call[r].op = "resolve" => call[r].token \in 1..nextToken - 1
      /\ pc[r] \in {"claim", "answer"} => call[r].op = "resolve"
      /\ nextToken \in 1..MaxToken + 1
  BY DEF IInv, TypeOK, GoneInv
<1>1. ASSUME NEW t \in 1..nextToken - 1, BeginResolve(r, t)
      PROVE  IInv'
  <2> DEFINE k == [op |-> "resolve", token |-> t]
  <2>1. k \in [op : Op, token : 0..MaxToken] /\ k.op = "resolve" /\ k.token \in 1..nextToken - 1
    BY <1>0, HostsAssumption DEF Op
  <2>2. CASE Usable /\ Lookup(t) # NoHost
    <3>1. /\ Finish(r, Verdict(Lookup(t))) /\ call' = [call EXCEPT ![r] = k]
          /\ UNCHANGED <<row, nextToken, cacheVars, writers>>
      BY <1>1, <2>2 DEF BeginResolve
    <3>2. /\ Verdict(Lookup(t)) \in Outcome
          /\ Verdict(Lookup(t)) = "gone" => \E h \in Host : row[h].status = "deleted" /\ row[h].token = k.token
      BY <2>2, VerdictTrue
    <3> HIDE DEF k
    <3> QED
      BY <2>1, <3>1, <3>2, FinishIInv
  <2>3. CASE ~(Usable /\ Lookup(t) # NoHost)
    <3>1. /\ pc[r] = "idle" /\ pc' = [pc EXCEPT ![r] = "claim"] /\ call' = [call EXCEPT ![r] = k]
          /\ UNCHANGED <<snap, outcome, row, nextToken, cacheVars, writers>>
      BY <1>1, <2>3 DEF BeginResolve
    <3>2. TypeOK'
      BY <2>1, <3>1 DEF IInv, TypeOK
    <3>3. TokenInv' /\ OldRowsTrue' /\ GoneInv'
      BY <2>1, <3>1 DEF IInv, TypeOK, TokenInv, OldRowsTrue, DeletedInTable, GoneInv
    <3> QED
      BY <3>2, <3>3 DEF IInv
  <2> QED
    BY <2>2, <2>3
<1>2. ASSUME NEW p \in {"idle", "claim", "query", "answer"}, pc[r] # "done", pc[r] # "install",
             pc' = [pc EXCEPT ![r] = p], missRecent' \in BOOLEAN,
             p \in {"claim", "answer"} => call[r].op = "resolve",
             UNCHANGED <<row, nextToken, cache, cachedAt, writers, call, snap, outcome>>
      PROVE  IInv'
  <2>1. TypeOK'
    BY <1>2 DEF IInv, TypeOK
  <2>2. TokenInv' /\ OldRowsTrue'
    BY <1>2 DEF IInv, TokenInv, OldRowsTrue, DeletedInTable
  <2>3. GoneInv'
    BY <1>2 DEF IInv, TypeOK, GoneInv
  <2> QED
    BY <2>1, <2>2, <2>3 DEF IInv
<1>3. CASE BeginRead(r)
  BY <1>2, <1>3 DEF BeginRead, IInv, TypeOK
<1>4. CASE ClaimRefused(r)
  BY <1>0, <1>4, FinishIInv DEF ClaimRefused, Outcome
<1>5. CASE ClaimGranted(r)
  BY <1>2, <1>5 DEF ClaimGranted, IInv, TypeOK
<1>6. CASE Query(r)
  <2>1. TypeOK'
    BY <1>6 DEF Query, IInv, TypeOK
  <2>2. TokenInv' /\ OldRowsTrue'
    BY <1>6 DEF Query, IInv, TypeOK, TokenInv, OldRowsTrue, DeletedInTable
  <2>3. GoneInv'
    BY <1>6 DEF Query, IInv, TypeOK, GoneInv
  <2> QED
    BY <2>1, <2>2, <2>3 DEF IInv
<1>7. CASE QueryFails(r)
  <2>1. CASE call[r].op = "resolve"
    BY <1>0, <1>7, <2>1, FinishIInv DEF QueryFails, Outcome
  <2>2. CASE call[r].op # "resolve"
    BY <1>2, <1>7, <2>2 DEF QueryFails, IInv, TypeOK
  <2> QED
    BY <2>1, <2>2
<1>8. CASE Install(r)
  <2>1. TypeOK'
    BY <1>8, NoTableIsTable DEF Install, IInv, TypeOK
  <2>2. TokenInv' /\ OldRowsTrue'
    BY <1>8, NoTableIsTable DEF Install, IInv, TypeOK, TokenInv, OldRowsTrue, DeletedInTable
  <2>3. GoneInv'
    BY <1>8 DEF Install, IInv, TypeOK, GoneInv
  <2> QED
    BY <2>1, <2>2, <2>3 DEF IInv
<1>9. CASE AnswerAfter(r)
  <2> DEFINE o == IF Lookup(call[r].token) = NoHost THEN "unknown" ELSE Verdict(Lookup(call[r].token))
  <2>1. o \in Outcome /\ (o = "gone" => \E h \in Host : row[h].status = "deleted" /\ row[h].token = call[r].token)
    BY VerdictTrue DEF Outcome
  <2>2. Finish(r, o) /\ pc[r] = "answer" /\ UNCHANGED <<row, nextToken, cacheVars, writers, call>>
    BY <1>9 DEF AnswerAfter
  <2> HIDE DEF o
  <2> QED
    BY <1>0, <2>1, <2>2, FinishIInv
<1>10. CASE Return(r)
  <2>1. TypeOK'
    <3>1. NoCall \in [op : Op, token : 0..MaxToken] /\ "none" \in Outcome
      BY HostsAssumption DEF NoCall, Op, Outcome
    <3> QED
      BY <1>10, <3>1 DEF Return, IInv, TypeOK
  <2>2. TokenInv' /\ OldRowsTrue'
    BY <1>10 DEF Return, IInv, TypeOK, TokenInv, OldRowsTrue, DeletedInTable
  <2>3. GoneInv'
    BY <1>10 DEF Return, IInv, TypeOK, GoneInv, NoCall
  <2> QED
    BY <2>1, <2>2, <2>3 DEF IInv
<1> QED
  BY <1>1, <1>3, <1>4, <1>5, <1>6, <1>7, <1>8, <1>9, <1>10 DEF Working

\* invalidate and the passing of time touch the times only.
LEMMA TimesIInv ==
  ASSUME IInv, Invalidate \/ Expire \/ CooldownEnds
  PROVE  IInv'
<1>1. TypeOK'
  <2>1. writers' \in 0..MaxWriter
    BY HostsAssumption DEF Invalidate, Expire, CooldownEnds, IInv, TypeOK
  <2>2. cachedAt' \in {"zero", "fresh", "expired"} /\ missRecent' \in BOOLEAN
    BY DEF Invalidate, Expire, CooldownEnds, IInv, TypeOK
  <2>3. UNCHANGED <<row, nextToken, cache, pc, call, snap, outcome>>
    BY DEF Invalidate, Expire, CooldownEnds, readerVars
  <2> QED
    BY <2>1, <2>2, <2>3 DEF IInv, TypeOK
<1>2. TokenInv' /\ OldRowsTrue' /\ GoneInv'
  BY DEF Invalidate, Expire, CooldownEnds, IInv, TokenInv, OldRowsTrue, DeletedInTable, GoneInv, readerVars
<1> QED
  BY <1>1, <1>2 DEF IInv

\* IInv is an invariant of the cache, its readers and its writers.
THEOREM IInvHolds == Spec => []IInv
<1>1. ASSUME IInv, [Next]_vars
      PROVE  IInv'
  <2>1. CASE UNCHANGED vars
    BY <1>1, <2>1 DEF vars, IInv, TypeOK, TokenInv, OldRowsTrue, DeletedInTable, GoneInv
  <2>2. CASE Next
    BY <1>1, <2>2, WriterIInv, TouchIInv, ReaderIInv, TimesIInv DEF Next
  <2> QED
    BY <1>1, <2>1, <2>2
<1> QED
  BY <1>1, InitIInv, PTL DEF Spec

(***************************************************************************)
(* A 410, on which an agent erases its spool and never returns, is         *)
(* answered only for a deleted host, from rows of whatever age, however    *)
(* many callers refresh and writers invalidate at once.                    *)
(***************************************************************************)
THEOREM CacheCorrect == Spec => []CacheInv
<1>1. IInv => CacheInv
  <2> SUFFICES ASSUME IInv, NEW r \in Reader, NEW h \in Host,
                      outcome[r] = "gone", row[h].token = call[r].token
               PROVE  row[h].status = "deleted"
    BY DEF IInv, CacheInv, GoneIsTrue
  <2>1. PICK g \in Host : row[g].status = "deleted" /\ row[g].token = call[r].token
    BY DEF IInv, GoneInv
  <2>2. row[g].token # 0
    BY <2>1 DEF IInv, TokenInv
  <2> QED
    BY <2>1, <2>2 DEF IInv, TokenInv
<1> QED
  BY <1>1, IInvHolds, PTL

\* A token is never drawn twice: two hosts have different tokens, at any time.
THEOREM TokensDiffer == Spec => [](\A g, h \in Host : g # h /\ row[g].status # "none" => row[g].token # row[h].token)
<1>1. IInv => \A g, h \in Host : g # h /\ row[g].status # "none" => row[g].token # row[h].token
  BY DEF IInv, TokenInv
<1> QED
  BY <1>1, IInvHolds, PTL
=============================================================================
