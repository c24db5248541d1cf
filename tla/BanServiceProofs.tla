--------------------------- MODULE BanServiceProofs ---------------------------
(***************************************************************************)
(* Proofs about BanService for every set of hosts, addresses, reports and  *)
(* calls, any bodies of requests and any number of lost answers and        *)
(* restarts.                                                               *)
(*                                                                         *)
(* Two calls each validate what the other one writes: the settings row's   *)
(* lock is what makes their reading true until they commit (CallsInv).  A  *)
(* report is judged on a snapshot: what it is about to write is right for  *)
(* the tables as long as the version has not moved, and its events are new *)
(* as long as no later commit wrote one of them (SnapshotInv).             *)
(***************************************************************************)
EXTENDS BanService, TLAPS, WellFoundedInduction, FiniteSetTheorems

Row == [host : SvHost, id : Nat, ip : SvAddr, act : {"ban", "unban"}, con : BOOLEAN, recent : BOOLEAN, n : Nat]

Tables ==
  [set : SvSettings, ver : Nat, over : [SvHost -> SvOverride], ev : SUBSET Row, active : SUBSET (SvHost \X SvAddr),
   fleet : [SvAddr -> FleetRow], supp : SUBSET SvAddr]

Pcs == {"idle", "ingest", "settings", "host", "manual", "unban", "store", "storever", "cas", "number"}

\* One row for each event of an agent.
OneRowEach(ev) == \A q, r \in ev : q.host = r.host /\ q.id = r.id => q = r

\* The different bans of an address that contribute, and whether they suffice.
Bans(ev, ip) == {<<r.host, r.id>> : r \in {x \in ev : x.ip = ip /\ x.act = "ban" /\ x.con}}
Enough(ev, ip) ==
  \/ Cardinality({b[1] : b \in Bans(ev, ip)}) >= FleetMinHosts
  \/ Cardinality(Bans(ev, ip)) >= FleetMinBans

TypesInv ==
  /\ SvTypeOK
  /\ db \in Tables /\ db.ver >= 1
  /\ cached \in [set : SvSettings, ver : Nat]
  /\ view \in [SvHost -> [ver : Nat, pol : SvPolicy]]
  /\ dirty = [c \in SvCall |-> dirty[c]]
  /\ call = [c \in SvCall |-> call[c]] /\ \A c \in SvCall : call[c].pc \in Pcs

\* What a call carries; who validates holds the settings row, so that what was
\* read of the other one's columns is still so.
CallOK(c, w, t, lock) ==
  /\ w.pc = "ingest" => w.up \subseteq SvHost \X SvAddr /\ w.new \subseteq Row /\ IsFiniteSet(w.new)
  /\ w.pc = "settings" => w.set \in SvSettings /\ lock["settings"] = c /\ w.over = t.over
  /\ w.pc = "host" => w.host \in SvHost /\ w.over \in SvOverride /\ lock["settings"] = c /\ w.set = t.set
  /\ w.pc = "store" => w.set \in SvSettings
  /\ w.pc \in {"manual", "unban"} => w.ip \in SvAddr
  /\ w.pc \in {"store", "storever", "cas", "number"} => w.ver \in 1..t.ver

CallsInv == \A c \in SvCall : CallOK(c, call[c], db, rowLock)

\* The rows of events are one for each event, and what a report is about to
\* write is justified by the snapshot it was judged on.
SnapshotInv ==
  /\ IsFiniteSet(db.ev) /\ OneRowEach(db.ev)
  /\ \A c \in SvCall : call[c].pc = "ingest" =>
       LET w == call[c] IN
       /\ OneRowEach(w.new)
       /\ \A r \in w.new, q \in db.ev : q.host = r.host /\ q.id = r.id => <<"event", r.host, r.id>> \in dirty[c]
       /\ \A ip \in w.fleet : Enough(db.ev \cup w.new, ip)
       /\ w.bump => w.ver \in 0..db.ver
       /\ w.bump /\ w.ver = db.ver => \A ip \in w.fleet : ip \notin db.set.allow /\ ip \notin db.supp

SvIInv == TypesInv /\ CallsInv /\ EnforcementHasAllowlist /\ SnapshotInv

-----------------------------------------------------------------------------
(* The loop of Ingest.  Recursion on naturals, by the least number for     *)
(* which it goes wrong.                                                    *)

LEMMA Least ==
  ASSUME NEW S \in SUBSET Nat, S # {}
  PROVE  \E x \in S : \A y \in S : x <= y
<1> DEFINE R == OpToRel(<, Nat)
<1>1. IsWellFoundedOn(R, Nat)
  BY NatLessThanWellFounded
<1>2. \A x, y \in Nat : y < x => <<y, x>> \in R
  BY DEF OpToRel
<1> HIDE DEF R
<1>3. PICK x \in S : \A y \in S : ~(<<y, x>> \in R)
  BY <1>1, WFMin
<1>4. ASSUME NEW y \in S PROVE x <= y
  <2>1. x \in Nat /\ y \in Nat
    OBVIOUS
  <2>2. ~(y < x)
    BY <1>2, <1>3, <2>1
  <2> QED
    BY <2>1, <2>2
<1> QED
  BY <1>4

NoWrites(s) == [ev |-> s.ev, up |-> {}, del |-> {}, fleet |-> {}, bump |-> FALSE]

Loops(w, s, rep) ==
  w = [n \in 0..Len(rep.events) |-> IF n = 0 THEN NoWrites(s) ELSE IngestEvent(s, rep.host, w[n - 1], rep.events[n])]

LEMMA LoopIs ==
  ASSUME NEW s, NEW rep
  PROVE  Ingested(s, rep) = (CHOOSE w : Loops(w, s, rep))[Len(rep.events)]
BY Zenon DEF Ingested, Loops, NoWrites

LEMMA LoopExists ==
  ASSUME NEW s, NEW rep, rep.events \in Seq(SvEvent)
  PROVE  \E w : Loops(w, s, rep)
<1> DEFINE L == Len(rep.events)
           Next(w, n) == IF n = 0 THEN NoWrites(s) ELSE IngestEvent(s, rep.host, w[n - 1], rep.events[n])
           Good(n) == \E w : \A i \in 0..n : w[i] = Next(w, i)
           Bad == {n \in Nat : ~Good(n)}
<1>1. L \in Nat
  OBVIOUS
<1>2. Good(0)
  <2> DEFINE w == [i \in {0} |-> NoWrites(s)]
  <2>1. \A i \in 0..0 : w[i] = Next(w, i)
    <3>1. \A i \in 0..0 : i = 0
      OBVIOUS
    <3>2. w[0] = NoWrites(s) /\ Next(w, 0) = NoWrites(s)
      OBVIOUS
    <3> HIDE DEF w, Next
    <3> QED
      BY <3>1, <3>2
  <2> HIDE DEF w, Next
  <2> QED
    BY <2>1
<1>3. ASSUME NEW n \in Nat, n # 0, Good(n - 1) PROVE Good(n)
  <2>1. PICK v : \A i \in 0..(n - 1) : v[i] = Next(v, i)
    BY <1>3
  <2> DEFINE w == [i \in 0..n |-> IF i = n THEN Next(v, n) ELSE v[i]]
  <2>2. \A i \in 0..n : w[i] = IF i = n THEN Next(v, n) ELSE v[i]
    OBVIOUS
  <2>3. ASSUME NEW i \in 0..n PROVE w[i] = Next(w, i)
    <3>1. i # 0 => i - 1 \in 0..n /\ i - 1 # n /\ n \in 0..n
      BY <1>3
    <3>2. i # 0 => w[i - 1] = v[i - 1]
      <4> HIDE DEF w, Next
      <4> QED
        BY <2>2, <3>1
    <3>3. Next(w, i) = Next(v, i)
      <4> HIDE DEF w
      <4> QED
        BY <3>2
    <3>4. i # n => i \in 0..(n - 1)
      BY <1>3
    <3> HIDE DEF w, Next
    <3> QED
      BY <2>1, <2>2, <3>3, <3>4
  <2> HIDE DEF w, Next
  <2> QED
    BY <2>3
<1>4. Good(L)
  <2> SUFFICES ASSUME Bad # {} PROVE FALSE
    BY <1>1
  <2>1. Bad \in SUBSET Nat
    OBVIOUS
  <2>2. PICK n \in Bad : \A m \in Bad : n <= m
    <3> HIDE DEF Bad
    <3> QED
      BY <2>1, Least
  <2>3. n \in Nat /\ ~Good(n) /\ n # 0
    BY <1>2
  <2>4. n - 1 \in Nat /\ ~(n <= n - 1)
    BY <2>3
  <2>5. Good(n - 1)
    <3> HIDE DEF Good
    <3> QED
      BY <2>2, <2>4
  <2> HIDE DEF Good
  <2> QED
    BY <1>3, <2>3, <2>5
<1>5. PICK v : \A i \in 0..L : v[i] = Next(v, i)
  BY <1>4
<1> DEFINE w == [i \in 0..L |-> v[i]]
<1>6. ASSUME NEW i \in 0..L PROVE w[i] = Next(w, i)
  <2>1. i # 0 => i - 1 \in 0..L
    BY <1>1
  <2>2. \A j \in 0..L : w[j] = v[j]
    OBVIOUS
  <2>3. Next(w, i) = Next(v, i)
    <3> HIDE DEF w
    <3> QED
      BY <2>1, <2>2
  <2> HIDE DEF Next, w
  <2> QED
    BY <1>5, <2>2, <2>3
<1>7. w = [i \in 0..L |-> Next(w, i)]
  <2> HIDE DEF Next
  <2>1. w = [i \in 0..L |-> w[i]]
    OBVIOUS
  <2> HIDE DEF w
  <2> QED
    BY <1>6, <2>1
<1>8. Loops(w, s, rep)
  <2> HIDE DEF w
  <2> QED
    BY <1>7 DEF Loops
<1> HIDE DEF w
<1> QED
  BY <1>8

\* The bans of an address are finitely many, and more rows are not less evidence.
LEMMA BansFinite ==
  ASSUME NEW ev, IsFiniteSet(ev), NEW ip
  PROVE  IsFiniteSet(Bans(ev, ip)) /\ IsFiniteSet({b[1] : b \in Bans(ev, ip)})
<1> DEFINE X == {x \in ev : x.ip = ip /\ x.act = "ban" /\ x.con}
           f == [r \in X |-> <<r.host, r.id>>]
           g == [b \in Bans(ev, ip) |-> b[1]]
<1>1. IsFiniteSet(X)
  BY FS_Subset
<1>2. f \in Surjection(X, Bans(ev, ip))
  BY DEF Surjection, Bans
<1>3. IsFiniteSet(Bans(ev, ip))
  <2> HIDE DEF f, X
  <2> QED
    BY <1>1, <1>2, FS_Surjection
<1>4. g \in Surjection(Bans(ev, ip), {b[1] : b \in Bans(ev, ip)})
  BY DEF Surjection
<1>5. IsFiniteSet({b[1] : b \in Bans(ev, ip)})
  <2> HIDE DEF g
  <2> QED
    BY <1>3, <1>4, FS_Surjection
<1> QED
  BY <1>3, <1>5

LEMMA EnoughIs ==
  ASSUME NEW ev, NEW E, IsFiniteSet(E), NEW ip, Enough(ev, ip), Bans(ev, ip) \subseteq Bans(E, ip)
  PROVE  Enough(E, ip)
<1> DEFINE S == Bans(ev, ip)
           T == Bans(E, ip)
           P == {b[1] : b \in S}
           Q == {b[1] : b \in T}
<1>1. IsFiniteSet(T) /\ IsFiniteSet(Q)
  BY BansFinite
<1>2. P \subseteq Q /\ S \subseteq T
  OBVIOUS
<1>3. Cardinality(S) <= Cardinality(T) /\ Cardinality(P) <= Cardinality(Q)
  <2> HIDE DEF S, T, P, Q
  <2> QED
    BY <1>1, <1>2, FS_Subset
<1>4. IsFiniteSet(S) /\ IsFiniteSet(P)
  <2> HIDE DEF S, T, P, Q
  <2> QED
    BY <1>1, <1>2, FS_Subset
<1>5. Cardinality(S) \in Nat /\ Cardinality(T) \in Nat /\ Cardinality(P) \in Nat /\ Cardinality(Q) \in Nat
  <2> HIDE DEF S, T, P, Q
  <2> QED
    BY <1>1, <1>4, FS_CardinalityType
<1>6. Cardinality(P) >= FleetMinHosts \/ Cardinality(S) >= FleetMinBans
  BY DEF Enough
<1>7. Cardinality(Q) >= FleetMinHosts \/ Cardinality(T) >= FleetMinBans
  <2> HIDE DEF S, T, P, Q
  <2> QED
    BY <1>3, <1>5, <1>6, BanServiceAssumption
<1> QED
  BY <1>7 DEF Enough

LEMMA EnoughGrows ==
  ASSUME NEW ev, NEW E, ev \subseteq E, IsFiniteSet(E), NEW ip, Enough(ev, ip)
  PROVE  Enough(E, ip)
<1>1. Bans(ev, ip) \subseteq Bans(E, ip)
  BY DEF Bans
<1> QED
  BY <1>1, EnoughIs

\* With one row for each event, counting rows is counting bans.
LEMMA PromotesEnough ==
  ASSUME NEW ev \in SUBSET Row, IsFiniteSet(ev), OneRowEach(ev), NEW s, NEW ip, Promotes(s, ev, ip)
  PROVE  Enough(ev, ip)
<1> DEFINE X == Evidence(ev, ip)
           f == [r \in X |-> <<r.host, r.id>>]
           B == Bans(ev, ip)
           P == {r.host : r \in X}
           Q == {b[1] : b \in B}
<1>1. IsFiniteSet(B) /\ IsFiniteSet(Q) /\ IsFiniteSet(X)
  <2>1. X \subseteq ev
    BY DEF Evidence
  <2> HIDE DEF X
  <2> QED
    BY <2>1, BansFinite, FS_Subset
<1>2. \A r \in X : <<r.host, r.id>> \in B
  BY DEF Evidence, Bans
<1>3. P \subseteq Q
  <2>1. \A r \in X : <<r.host, r.id>>[1] = r.host
    OBVIOUS
  <2> HIDE DEF X, B
  <2> QED
    BY <1>2, <2>1
<1>4. f \in Injection(X, B)
  <2>1. \A q, r \in X : <<q.host, q.id>> = <<r.host, r.id>> => q = r
    BY DEF Evidence, OneRowEach
  <2> HIDE DEF X, B
  <2> QED
    BY <1>2, <2>1 DEF Injection, IsInjective
<1>5. Cardinality(X) <= Cardinality(B)
  <2> HIDE DEF X, B, f
  <2> QED
    BY <1>1, <1>4, FS_Injection
<1>6. Cardinality(P) <= Cardinality(Q) /\ IsFiniteSet(P)
  <2> HIDE DEF P, Q
  <2> QED
    BY <1>1, <1>3, FS_Subset
<1>7. Cardinality(P) >= FleetMinHosts \/ Cardinality(X) >= FleetMinBans
  BY DEF Promotes
<1>8. Cardinality(X) \in Nat /\ Cardinality(B) \in Nat /\ Cardinality(P) \in Nat /\ Cardinality(Q) \in Nat
  <2> HIDE DEF X, B, P, Q
  <2> QED
    BY <1>1, <1>6, FS_CardinalityType
<1>9. Cardinality(Q) >= FleetMinHosts \/ Cardinality(B) >= FleetMinBans
  <2> HIDE DEF X, B, P, Q
  <2> QED
    BY <1>5, <1>6, <1>7, <1>8, BanServiceAssumption
<1> QED
  BY <1>9 DEF Enough

\* What the loop has come to after some events of a report of host h.
LoopInv(s, w) ==
  /\ w \in [ev : SUBSET Row, up : SUBSET (SvHost \X SvAddr), del : SUBSET (SvHost \X SvAddr), fleet : SUBSET SvAddr,
            bump : BOOLEAN]
  /\ IsFiniteSet(w.ev) /\ OneRowEach(w.ev) /\ s.ev \subseteq w.ev
  /\ \A ip \in w.fleet : ip \notin s.set.allow /\ ip \notin s.supp /\ Enough(w.ev, ip)

LEMMA PickType ==
  ASSUME NEW over \in Tri, NEW base \in BOOLEAN
  PROVE  Pick(over, base) \in BOOLEAN
BY DEF Pick, Tri

LEMMA LoopStep ==
  ASSUME NEW s \in Tables, NEW h \in SvHost, NEW w, LoopInv(s, w), NEW e \in SvEvent
  PROVE  LoopInv(s, IngestEvent(s, h, w, e))
<1> DEFINE con == Pick(s.over[h].contribute, s.set.contribute)
           row == [host |-> h, id |-> e.id, ip |-> e.ip, act |-> e.act, con |-> con,
                   recent |-> TRUE, n |-> Cardinality(SameKey(w.ev, h, e))]
           ins == [w EXCEPT !.ev = @ \cup {row}]
           act == [ins EXCEPT !.up = @ \cup {<<h, e.ip>>}, !.del = @ \ {<<h, e.ip>>}]
           off == [ins EXCEPT !.del = @ \cup {<<h, e.ip>>}, !.up = @ \ {<<h, e.ip>>}]
           pro == [act EXCEPT !.fleet = @ \cup {e.ip}, !.bump = @ \/ MustAnnounce(s, act, e.ip)]
<1> DEFINE Shape == [ev : SUBSET Row, up : SUBSET (SvHost \X SvAddr), del : SUBSET (SvHost \X SvAddr),
                     fleet : SUBSET SvAddr, bump : BOOLEAN]
<1>1. CASE ~IsNewEvent(w.ev, h, e)
  BY <1>1 DEF IngestEvent
<1>2. CASE IsNewEvent(w.ev, h, e)
  <2>1. w \in Shape /\ IsFiniteSet(w.ev) /\ OneRowEach(w.ev) /\ s.ev \subseteq w.ev
    BY DEF LoopInv
  <2>2. SameKey(w.ev, h, e) = {} /\ Cardinality(SameKey(w.ev, h, e)) = 0
    BY <1>2, FS_EmptySet DEF IsNewEvent
  <2>3. con \in BOOLEAN
    <3>1. s.over[h] \in SvOverride /\ s.set \in SvSettings
      BY DEF Tables
    <3>2. s.over[h].contribute \in Tri /\ s.set.contribute \in BOOLEAN
      BY <3>1 DEF SvOverride, SvSettings
    <3> QED
      BY <3>2, PickType
  <2>4. e.id \in Nat /\ e.ip \in SvAddr /\ e.act \in {"ban", "unban"} /\ <<h, e.ip>> \in SvHost \X SvAddr
    BY DEF SvEvent
  <2>5. row \in Row /\ row.host = h /\ row.id = e.id
    <3> HIDE DEF con
    <3> QED
      BY <2>2, <2>3, <2>4 DEF Row
  <2> DEFINE E == w.ev \cup {row}
  <2>6. E \in SUBSET Row /\ IsFiniteSet(E) /\ s.ev \subseteq E /\ w.ev \subseteq E
    <3> HIDE DEF row
    <3> QED
      BY <2>1, <2>5, FS_AddElement
  <2>7. OneRowEach(E)
    <3>1. \A q \in w.ev : ~(q.host = row.host /\ q.id = row.id)
      <4> HIDE DEF row
      <4> QED
        BY <2>2, <2>5 DEF SameKey
    <3> HIDE DEF row
    <3> QED
      BY <2>1, <3>1 DEF OneRowEach
  <2>8. \A ip \in w.fleet : ip \notin s.set.allow /\ ip \notin s.supp /\ Enough(E, ip)
    <3> HIDE DEF E
    <3> QED
      BY <2>6, EnoughGrows DEF LoopInv
  <2>9. ins \in Shape /\ ins.ev = E /\ ins.fleet = w.fleet
    <3> HIDE DEF row
    <3> QED
      BY <2>1, <2>6
  <2>10. off \in Shape /\ off.ev = E /\ off.fleet = w.fleet /\ act \in Shape /\ act.ev = E /\ act.fleet = w.fleet
    <3> HIDE DEF ins, E
    <3> QED
      BY <2>4, <2>9
  <2>11. LoopInv(s, off) /\ LoopInv(s, act)
    <3> HIDE DEF off, act, E
    <3> QED
      BY <2>6, <2>7, <2>8, <2>10 DEF LoopInv
  <2>12. ASSUME e.ip \in Routable \ s.set.allow, Promotes(s, act.ev, e.ip) PROVE LoopInv(s, pro)
    <3>1. MustAnnounce(s, act, e.ip) \in BOOLEAN
      <4> HIDE DEF act
      <4> QED
        BY DEF MustAnnounce
    <3>2. pro \in Shape /\ pro.ev = E /\ pro.fleet = w.fleet \cup {e.ip}
      <4> HIDE DEF act, E
      <4> QED
        BY <2>4, <2>10, <3>1
    <3>3. Enough(E, e.ip) /\ e.ip \notin s.supp
      <4>1. Promotes(s, E, e.ip)
        <5> HIDE DEF act, E
        <5> QED
          BY <2>10, <2>12
      <4> HIDE DEF E
      <4>2. e.ip \notin s.supp
        BY <4>1 DEF Promotes
      <4> QED
        BY <2>6, <2>7, <4>1, <4>2, PromotesEnough
    <3> HIDE DEF pro, E
    <3> QED
      BY <2>6, <2>7, <2>8, <2>12, <3>2, <3>3 DEF LoopInv
  <2>13. IngestEvent(s, h, w, e) \in {off, act} \/
         (e.ip \in Routable \ s.set.allow /\ Promotes(s, act.ev, e.ip) /\ IngestEvent(s, h, w, e) = pro)
    BY <1>2 DEF IngestEvent
  <2> HIDE DEF off, act, pro
  <2> QED
    BY <2>11, <2>12, <2>13
<1> QED
  BY <1>1, <1>2

LEMMA LoopHolds ==
  ASSUME NEW s \in Tables, IsFiniteSet(s.ev), OneRowEach(s.ev), NEW rep, rep.host \in SvHost, rep.events \in Seq(SvEvent)
  PROVE  LoopInv(s, Ingested(s, rep))
<1> DEFINE L == Len(rep.events)
           w == CHOOSE v : Loops(v, s, rep)
           Bad == {n \in 0..L : ~LoopInv(s, w[n])}
<1>1. Loops(w, s, rep)
  BY LoopExists
<1> HIDE DEF w
<1>2. L \in Nat
  OBVIOUS
<1>3. \A n \in 0..L : w[n] = IF n = 0 THEN NoWrites(s) ELSE IngestEvent(s, rep.host, w[n - 1], rep.events[n])
  BY <1>1 DEF Loops
<1>4. LoopInv(s, w[0])
  <2>1. 0 \in 0..L
    BY <1>2
  <2>2. w[0] = NoWrites(s)
    BY <1>3, <2>1
  <2>3. s.ev \in SUBSET Row
    BY DEF Tables
  <2> QED
    BY <2>2, <2>3 DEF LoopInv, NoWrites
<1>5. Bad = {}
  <2> SUFFICES ASSUME Bad # {} PROVE FALSE
    OBVIOUS
  <2>1. PICK n \in Bad : \A m \in Bad : n <= m
    <3>1. Bad \in SUBSET Nat
      OBVIOUS
    <3> HIDE DEF Bad
    <3> QED
      BY <3>1, Least
  <2>2. n \in 1..L /\ n \in 0..L /\ n - 1 \in 0..L /\ ~(n <= n - 1)
    BY <1>2, <1>4, <2>1
  <2>3. LoopInv(s, w[n - 1])
    BY <2>1, <2>2
  <2>4. rep.events[n] \in SvEvent
    BY <2>2
  <2>5. w[n] = IngestEvent(s, rep.host, w[n - 1], rep.events[n])
    BY <1>3, <2>2
  <2>6. LoopInv(s, w[n])
    BY <2>3, <2>4, <2>5, LoopStep
  <2> QED
    BY <2>1, <2>6
<1>6. LoopInv(s, w[L])
  BY <1>2, <1>5
<1> QED
  BY <1>6, LoopIs DEF w

\* What a report that begins will write fits the tables it was judged on.
LEMMA WritesFit ==
  ASSUME NEW s \in Tables, IsFiniteSet(s.ev), OneRowEach(s.ev), NEW rep \in SvReport
  PROVE  LET w == Writes(s, rep) IN
         /\ w.pc = "ingest" /\ w.up \subseteq SvHost \X SvAddr /\ w.new \subseteq Row /\ IsFiniteSet(w.new)
         /\ OneRowEach(w.new)
         /\ \A r \in w.new, q \in s.ev : ~(q.host = r.host /\ q.id = r.id)
         /\ \A ip \in w.fleet : ip \notin s.set.allow /\ ip \notin s.supp /\ Enough(s.ev \cup w.new, ip)
         /\ w.bump => w.ver = s.ver
<1> DEFINE v == Ingested(s, rep)
           w == Writes(s, rep)
<1>1. LoopInv(s, v)
  BY LoopHolds, BanServiceAssumption
<1>2. w = [pc |-> "ingest", new |-> v.ev \ s.ev, up |-> v.up, del |-> v.del \cap s.active,
           fleet |-> v.fleet, bump |-> v.bump, ver |-> IF v.bump THEN s.ver ELSE 0]
  BY DEF Writes
<1> HIDE DEF v, w
<1>3. w.pc = "ingest" /\ w.new = v.ev \ s.ev /\ w.up = v.up /\ w.fleet = v.fleet /\ (w.bump => w.ver = s.ver)
  BY <1>2
<1>4. v.ev \subseteq Row /\ v.up \subseteq SvHost \X SvAddr /\ IsFiniteSet(v.ev) /\ OneRowEach(v.ev) /\ s.ev \subseteq v.ev
      /\ \A ip \in v.fleet : ip \notin s.set.allow /\ ip \notin s.supp /\ Enough(v.ev, ip)
  BY <1>1 DEF LoopInv
<1>5. IsFiniteSet(w.new) /\ s.ev \cup w.new = v.ev
  BY <1>3, <1>4, FS_Subset
<1>6. OneRowEach(w.new) /\ \A r \in w.new, q \in s.ev : ~(q.host = r.host /\ q.id = r.id)
  BY <1>3, <1>4 DEF OneRowEach
<1> QED
  BY <1>3, <1>4, <1>5, <1>6 DEF w

-----------------------------------------------------------------------------
(* The tables.                                                             *)

LEMMA Names ==
  /\ "settings" \in LockedRow /\ SvAddr \subseteq LockedRow
  /\ Idle.pc = "idle" /\ "idle" \in Pcs
  /\ \A d, c : Publishing(d).pc = "cas" /\ Publishing(d).ver = d.ver
BY DEF LockedRow, Idle, Pcs, Publishing

LEMMA ApplyIs ==
  ASSUME NEW d \in Tables, NEW w, w.up \subseteq SvHost \X SvAddr, w.new \subseteq Row
  PROVE  /\ Apply(d, w) \in Tables
         /\ Apply(d, w).set = d.set /\ Apply(d, w).over = d.over /\ Apply(d, w).supp = d.supp
         /\ Apply(d, w).ev = d.ev \cup w.new
         /\ Apply(d, w).ver = IF w.bump THEN d.ver + 1 ELSE d.ver
         /\ \A ip \in SvAddr : Apply(d, w).fleet[ip] = IF ip \in w.fleet THEN "fresh" ELSE d.fleet[ip]
<1> DEFINE F == [ip \in SvAddr |-> IF ip \in w.fleet THEN "fresh" ELSE d.fleet[ip]]
           A == (d.active \ w.del) \cup w.up
           V == IF w.bump THEN d.ver + 1 ELSE d.ver
           E == d.ev \cup w.new
<1>1. F \in [SvAddr -> FleetRow] /\ A \in SUBSET (SvHost \X SvAddr) /\ E \in SUBSET Row
  BY DEF Tables, FleetRow
<1>2. V \in Nat
  BY DEF Tables
<1>3. Apply(d, w) = [d EXCEPT !.ev = E, !.active = A, !.fleet = F, !.ver = V]
  BY DEF Apply, Tables
<1>4. \A ip \in SvAddr : F[ip] = IF ip \in w.fleet THEN "fresh" ELSE d.fleet[ip]
  OBVIOUS
<1> HIDE DEF F, A, V, E
<1>5. PICK a : a = Apply(d, w)
  OBVIOUS
<1>6. a \in Tables /\ a.ev = E /\ a.ver = V /\ a.fleet = F /\ a.set = d.set /\ a.over = d.over /\ a.supp = d.supp
  BY <1>1, <1>2, <1>3, <1>5 DEF Tables
<1> QED
  BY <1>4, <1>5, <1>6 DEF V, E

LEMMA MergeSettings ==
  ASSUME NEW s \in SvSettings, NEW p \in SettingsPatch
  PROVE  Merge(s, p) \in SvSettings
<1>1. PICK r \in SvSettings : DOMAIN p \subseteq DOMAIN r /\ \A f \in DOMAIN p : p[f] = r[f]
  BY BanServiceAssumption DEF SomeFields
<1>2. \A t \in SvSettings : DOMAIN t = {"enforce", "contribute", "allow"} /\ t["enforce"] \in BOOLEAN
         /\ t["contribute"] \in BOOLEAN /\ t["allow"] \in SUBSET AllowEntry
  BY DEF SvSettings
<1>3. PICK m : m = Merge(s, p)
  OBVIOUS
<1>4. m = [f \in {"enforce", "contribute", "allow"} |-> IF f \in DOMAIN p THEN p[f] ELSE s[f]]
  BY <1>2, <1>3 DEF Merge
<1>5. m["enforce"] \in BOOLEAN /\ m["contribute"] \in BOOLEAN /\ m["allow"] \in SUBSET AllowEntry
  BY <1>1, <1>2, <1>4
<1>6. m = [enforce |-> m["enforce"], contribute |-> m["contribute"], allow |-> m["allow"]]
  BY <1>4
<1> QED
  BY <1>3, <1>5, <1>6 DEF SvSettings

LEMMA MergeOverride ==
  ASSUME NEW s \in SvOverride, NEW p \in HostPatch
  PROVE  Merge(s, p) \in SvOverride
<1>1. PICK r \in SvOverride : DOMAIN p \subseteq DOMAIN r /\ \A f \in DOMAIN p : p[f] = r[f]
  BY BanServiceAssumption DEF SomeFields
<1>2. \A t \in SvOverride : DOMAIN t = {"enforce", "contribute"} /\ t["enforce"] \in Tri /\ t["contribute"] \in Tri
  BY DEF SvOverride
<1>3. PICK m : m = Merge(s, p)
  OBVIOUS
<1>4. m = [f \in {"enforce", "contribute"} |-> IF f \in DOMAIN p THEN p[f] ELSE s[f]]
  BY <1>2, <1>3 DEF Merge
<1>5. m["enforce"] \in Tri /\ m["contribute"] \in Tri
  BY <1>1, <1>2, <1>4
<1>6. m = [enforce |-> m["enforce"], contribute |-> m["contribute"]]
  BY <1>4
<1> QED
  BY <1>3, <1>5, <1>6 DEF SvOverride

\* A step changes what the operators decided only with a new version, and only
\* under the settings row's lock; suppressions are added only with a new version.
Kept == db'.set = db.set /\ db'.over = db.over /\ db'.ev = db.ev

DbOK ==
  /\ db' \in Tables /\ db'.ver \in {db.ver, db.ver + 1}
  /\ db'.ver = db.ver => db'.set = db.set /\ db'.over = db.over /\ db'.supp \subseteq db.supp

NobodyFresh == \A ip \in SvAddr : db'.fleet[ip] = "fresh" => db.fleet[ip] = "fresh"

LEMMA DbIngest ==
  ASSUME TypesInv, CallsInv, NEW c \in SvCall, IngestCommit(c)
  PROVE  /\ DbOK /\ db'.set = db.set /\ db'.over = db.over /\ db'.supp = db.supp /\ db'.ev = db.ev \cup call[c].new
         /\ db'.ver = IF call[c].bump THEN db.ver + 1 ELSE db.ver
         /\ \A ip \in SvAddr : db'.fleet[ip] = IF ip \in call[c].fleet THEN "fresh" ELSE db.fleet[ip]
<1>1. db' = Apply(db, call[c]) /\ call[c].pc = "ingest"
  BY DEF IngestCommit
<1>2. call[c].up \subseteq SvHost \X SvAddr /\ call[c].new \subseteq Row /\ db \in Tables
  BY <1>1 DEF CallsInv, CallOK, TypesInv
<1> QED
  BY <1>1, <1>2, ApplyIs DEF DbOK

LEMMA DbSettings ==
  ASSUME TypesInv, CallsInv, NEW c \in SvCall, UpdateSettingsCommit(c)
  PROVE  /\ DbOK /\ NobodyFresh /\ db'.ev = db.ev /\ db'.over = db.over
         /\ \/ db' = db
            \/ /\ db'.ver = db.ver + 1 /\ db'.set = call[c].set /\ db'.set \in SvSettings
               /\ Valid(db'.set) /\ OverridesAllow(db.over, db'.set)
<1>1. call[c].pc = "settings" /\ call[c].set \in SvSettings /\ call[c].over = db.over /\ db \in Tables
  BY DEF UpdateSettingsCommit, CallsInv, CallOK, TypesInv
<1>2. CASE Valid(call[c].set) /\ OverridesAllow(call[c].over, call[c].set)
  <2>1. PICK x \in SvSettings, v \in Nat : x = call[c].set /\ v = db.ver + 1 /\ db' = [db EXCEPT !.set = x, !.ver = v]
    <3>1. db' = [db EXCEPT !.set = call[c].set, !.ver = db.ver + 1] /\ db.ver + 1 \in Nat
      BY <1>1, <1>2 DEF UpdateSettingsCommit, Tables
    <3> QED
      BY <1>1, <3>1
  <2>2. db' \in Tables /\ db'.set = call[c].set /\ db'.ver = db.ver + 1 /\ db'.over = db.over /\ db'.ev = db.ev
        /\ db'.fleet = db.fleet /\ db.ver \in Nat
    BY <1>1, <2>1 DEF Tables
  <2>3. db'.ver # db.ver
    BY <2>2
  <2> QED
    BY <1>1, <1>2, <2>2, <2>3 DEF DbOK, NobodyFresh
<1>3. CASE ~(Valid(call[c].set) /\ OverridesAllow(call[c].over, call[c].set))
  <2>1. db' = db
    BY <1>3 DEF UpdateSettingsCommit
  <2> QED
    BY <1>1, <2>1 DEF DbOK, NobodyFresh
<1> QED
  BY <1>2, <1>3

LEMMA DbHost ==
  ASSUME TypesInv, CallsInv, NEW c \in SvCall, UpdateHostPolicyCommit(c)
  PROVE  /\ DbOK /\ NobodyFresh /\ db'.ev = db.ev /\ db'.set = db.set
         /\ \/ db' = db
            \/ /\ db'.ver = db.ver + 1 /\ (Pick(call[c].over.enforce, db.set.enforce) => db.set.allow # {})
               /\ db'.over = [db.over EXCEPT ![call[c].host] = call[c].over]
<1>1. call[c].pc = "host" /\ call[c].host \in SvHost /\ call[c].over \in SvOverride /\ call[c].set = db.set /\ db \in Tables
  BY DEF UpdateHostPolicyCommit, CallsInv, CallOK, TypesInv
<1>2. CASE Pick(call[c].over.enforce, call[c].set.enforce) => call[c].set.allow # {}
  <2>1. PICK x \in [SvHost -> SvOverride], v \in Nat :
           x = [db.over EXCEPT ![call[c].host] = call[c].over] /\ v = db.ver + 1 /\ db' = [db EXCEPT !.over = x, !.ver = v]
    <3>1. db' = [db EXCEPT !.over = [db.over EXCEPT ![call[c].host] = call[c].over], !.ver = db.ver + 1]
      BY <1>1, <1>2 DEF UpdateHostPolicyCommit, Tables
    <3>2. [db.over EXCEPT ![call[c].host] = call[c].over] \in [SvHost -> SvOverride] /\ db.ver + 1 \in Nat
      BY <1>1 DEF Tables
    <3> QED
      BY <3>1, <3>2
  <2>2. db' \in Tables /\ db'.over = [db.over EXCEPT ![call[c].host] = call[c].over] /\ db'.ver = db.ver + 1
        /\ db'.set = db.set /\ db'.ev = db.ev /\ db'.fleet = db.fleet /\ db.ver \in Nat
    BY <1>1, <2>1 DEF Tables
  <2>3. db'.ver # db.ver
    BY <2>2
  <2> QED
    BY <1>1, <1>2, <2>2, <2>3 DEF DbOK, NobodyFresh
<1>3. CASE ~(Pick(call[c].over.enforce, call[c].set.enforce) => call[c].set.allow # {})
  <2>1. db' = db
    BY <1>3 DEF UpdateHostPolicyCommit
  <2> QED
    BY <1>1, <2>1 DEF DbOK, NobodyFresh
<1> QED
  BY <1>2, <1>3

\* The commits that touch neither settings nor overrides nor events.
LEMMA DbOthers ==
  ASSUME TypesInv, CallsInv,
         \/ \E c \in SvCall : ManualBanCommit(c) \/ FleetUnbanCommit(c) \/ HostUnban(c)
         \/ \E ip \in SvAddr : FleetAges(ip) \/ SweepFleet(ip)
         \/ \E p \in SvHost \X SvAddr : SweepActive(p)
  PROVE  DbOK /\ NobodyFresh /\ Kept
<1>1. db \in Tables
  BY DEF TypesInv
<1>2. ASSUME NEW c \in SvCall, ManualBanCommit(c) PROVE DbOK /\ NobodyFresh /\ Kept
  <2>1. PICK ip : ip = call[c].ip
    OBVIOUS
  <2>2. db' = [db EXCEPT !.supp = @ \ {ip}, !.fleet[ip] = "manual", !.ver = @ + 1]
    BY <1>2, <2>1 DEF ManualBanCommit
  <2>3. ip \in SvAddr
    BY <1>2, <2>1 DEF ManualBanCommit, CallsInv, CallOK
  <2>4. db' \in Tables /\ db'.ver = db.ver + 1 /\ Kept /\ db'.fleet = [db.fleet EXCEPT ![ip] = "manual"] /\ db.ver \in Nat
    <3>1. PICK f, s, v : f = [db.fleet EXCEPT ![ip] = "manual"] /\ s = db.supp \ {ip} /\ v = db.ver + 1
      OBVIOUS
    <3>2. db' = [db EXCEPT !.supp = s, !.fleet = f, !.ver = v]
      BY <1>1, <2>2, <3>1 DEF Tables
    <3>3. f \in [SvAddr -> FleetRow] /\ s \in SUBSET SvAddr /\ v \in Nat /\ db.ver \in Nat
      BY <1>1, <2>3, <3>1 DEF Tables, FleetRow
    <3> QED
      BY <1>1, <3>1, <3>2, <3>3 DEF Tables, Kept
  <2>5. db'.ver # db.ver /\ NobodyFresh
    BY <1>1, <2>4 DEF NobodyFresh, Tables
  <2> QED
    BY <2>4, <2>5 DEF DbOK
<1>3. ASSUME NEW c \in SvCall, FleetUnbanCommit(c) PROVE DbOK /\ NobodyFresh /\ Kept
  <2>1. PICK ip, gone : ip = call[c].ip /\ gone = {p \in db.active : p[2] = ip}
    OBVIOUS
  <2>2. db' = [db EXCEPT !.fleet[ip] = "none", !.supp = @ \cup {ip}, !.active = @ \ gone, !.ver = @ + 1]
    BY <1>3, <2>1 DEF FleetUnbanCommit
  <2>3. ip \in SvAddr
    BY <1>3, <2>1 DEF FleetUnbanCommit, CallsInv, CallOK
  <2>4. db' \in Tables /\ db'.ver = db.ver + 1 /\ Kept /\ db'.fleet = [db.fleet EXCEPT ![ip] = "none"] /\ db.ver \in Nat
    <3>1. PICK f, s, v, a : /\ f = [db.fleet EXCEPT ![ip] = "none"] /\ s = db.supp \cup {ip} /\ v = db.ver + 1
                            /\ a = db.active \ gone
      OBVIOUS
    <3>2. db' = [db EXCEPT !.fleet = f, !.supp = s, !.active = a, !.ver = v]
      BY <1>1, <2>2, <3>1 DEF Tables
    <3>3. f \in [SvAddr -> FleetRow] /\ s \in SUBSET SvAddr /\ v \in Nat /\ db.ver \in Nat
          /\ a \in SUBSET (SvHost \X SvAddr)
      BY <1>1, <2>3, <3>1 DEF Tables, FleetRow
    <3> QED
      BY <1>1, <3>1, <3>2, <3>3 DEF Tables, Kept
  <2>5. db'.ver # db.ver /\ NobodyFresh
    BY <1>1, <2>4 DEF NobodyFresh, Tables
  <2> QED
    BY <2>4, <2>5 DEF DbOK
<1>4. ASSUME NEW c \in SvCall, HostUnban(c) PROVE DbOK /\ NobodyFresh /\ Kept
  <2>1. db' = [db EXCEPT !.ver = @ + 1]
    BY <1>4 DEF HostUnban
  <2>2. db' \in Tables /\ db'.ver = db.ver + 1 /\ Kept /\ db'.fleet = db.fleet /\ db.ver \in Nat
    BY <1>1, <2>1 DEF Tables, Kept
  <2>3. db'.ver # db.ver
    BY <2>2
  <2> QED
    BY <2>2, <2>3 DEF DbOK, NobodyFresh
<1>5. ASSUME NEW ip \in SvAddr, FleetAges(ip) \/ SweepFleet(ip) PROVE DbOK /\ NobodyFresh /\ Kept
  <2>1. PICK row : db' = [db EXCEPT !.fleet[ip] = row] /\ row \in FleetRow /\ row # "fresh"
    <3>1. CASE FleetAges(ip)
      <4>1. db' = [db EXCEPT !.fleet[ip] = Older(db.fleet[ip])] /\ Older(db.fleet[ip]) # db.fleet[ip]
        BY <1>1, <3>1 DEF FleetAges, Tables
      <4>2. db.fleet[ip] \in FleetRow
        BY <1>1 DEF Tables
      <4>3. Older(db.fleet[ip]) \in FleetRow /\ Older(db.fleet[ip]) # "fresh"
        BY <4>1, <4>2 DEF Older, FleetRow
      <4> QED
        BY <4>1, <4>3
    <3>2. CASE SweepFleet(ip)
      BY <3>2 DEF SweepFleet, FleetRow
    <3> QED
      BY <1>5, <3>1, <3>2
  <2>2. db' \in Tables /\ db'.ver = db.ver /\ Kept /\ db'.fleet = [db.fleet EXCEPT ![ip] = row] /\ db'.supp = db.supp
    BY <1>1, <2>1 DEF Tables, Kept
  <2>3. NobodyFresh
    BY <1>1, <2>1, <2>2 DEF NobodyFresh, Tables
  <2> QED
    BY <2>2, <2>3 DEF DbOK, Kept
<1>6. ASSUME NEW p, SweepActive(p) PROVE DbOK /\ NobodyFresh /\ Kept
  <2>1. db' = [db EXCEPT !.active = @ \ {p}]
    BY <1>6 DEF SweepActive
  <2>2. db' \in Tables /\ db'.ver = db.ver /\ Kept /\ db'.fleet = db.fleet /\ db'.supp = db.supp
    BY <1>1, <2>1 DEF Tables, Kept
  <2> QED
    BY <2>2 DEF DbOK, Kept, NobodyFresh
<1> QED
  BY <1>2, <1>3, <1>4, <1>5, <1>6

\* Past its window an event still says which ban it was.
Aged(ev) == {[r EXCEPT !.recent = FALSE] : r \in ev}

LEMMA DbRest ==
  ASSUME TypesInv, SweepRest
  PROVE  /\ DbOK /\ NobodyFresh /\ db'.set = db.set /\ db'.over = db.over /\ db'.ver = db.ver
         /\ db'.ev = db.ev \/ db'.ev = Aged(db.ev)
<1>1. db \in Tables
  BY DEF TypesInv
<1>2. CASE db' = [db EXCEPT !.supp = {}]
  <2>1. db' \in Tables /\ db'.ver = db.ver /\ Kept /\ db'.fleet = db.fleet /\ db'.supp = {}
    BY <1>1, <1>2 DEF Tables, Kept
  <2> QED
    BY <2>1 DEF DbOK, NobodyFresh, Kept
<1>3. CASE db' = [db EXCEPT !.ev = {[r EXCEPT !.recent = FALSE] : r \in @}]
  <2>1. Aged(db.ev) \in SUBSET Row
    <3>1. \A r \in Row : [r EXCEPT !.recent = FALSE] \in Row
      <4> SUFFICES ASSUME NEW r \in Row, NEW q, q = [r EXCEPT !.recent = FALSE] PROVE q \in Row
        OBVIOUS
      <4> QED
        BY DEF Row
    <3>2. db.ev \subseteq Row
      BY <1>1 DEF Tables
    <3> QED
      BY <3>1, <3>2 DEF Aged
  <2>2. db' = [db EXCEPT !.ev = Aged(db.ev)]
    BY <1>1, <1>3 DEF Aged, Tables
  <2>3. db' \in Tables /\ db'.ver = db.ver /\ db'.set = db.set /\ db'.over = db.over /\ db'.fleet = db.fleet
        /\ db'.supp = db.supp /\ db'.ev = Aged(db.ev)
    BY <1>1, <2>1, <2>2 DEF Tables
  <2> QED
    BY <2>3 DEF DbOK, NobodyFresh
<1> QED
  BY <1>2, <1>3 DEF SweepRest

-----------------------------------------------------------------------------
(* The calls.                                                              *)

\* A step of call c: what c is doing next is right, nobody loses the settings
\* row, and who changes settings or overrides holds it.
Moved(c) == \E s : call' = [call EXCEPT ![c] = s] /\ s.pc \in Pcs /\ CallOK(c, s, db', rowLock')
Others(c) == \A d \in SvCall \ {c} : rowLock["settings"] = d => rowLock'["settings"] = d
Guarded(c) == (db'.set = db.set /\ db'.over = db.over) \/ rowLock["settings"] = c

LEMMA IdleOK == ASSUME NEW c PROVE CallOK(c, Idle, db', rowLock') /\ Idle.pc \in Pcs
BY DEF CallOK, Idle, Pcs

LEMMA Ends == ASSUME NEW c, Goto(c, Idle) PROVE Moved(c)
BY IdleOK DEF Moved, Goto

LEMMA Commits ==
  ASSUME NEW c, NEW s, Committed(c, s), s.pc \in Pcs, CallOK(c, s, db', rowLock')
  PROVE  Moved(c)
BY Ends DEF Committed, Moved, Goto

LEMMA Locked ==
  ASSUME TypesInv
  PROVE  /\ rowLock \in [LockedRow -> SvCall \cup {"free"}] /\ "free" \notin SvCall
         /\ \A c \in SvCall : Release(c) => Others(c) /\ rowLock' \in [LockedRow -> SvCall \cup {"free"}]
         /\ \A c \in SvCall, r \in LockedRow : Free(r) /\ rowLock' = [rowLock EXCEPT ![r] = c] =>
               Others(c) /\ rowLock' \in [LockedRow -> SvCall \cup {"free"}] /\ rowLock'[r] = c
         /\ \A c \in SvCall : rowLock' = rowLock => Others(c) /\ rowLock' \in [LockedRow -> SvCall \cup {"free"}]
<1>1. rowLock \in [LockedRow -> SvCall \cup {"free"}] /\ "free" \notin SvCall
  BY BanServiceAssumption DEF TypesInv, SvTypeOK
<1>2. ASSUME NEW c \in SvCall, Release(c) PROVE Others(c) /\ rowLock' \in [LockedRow -> SvCall \cup {"free"}]
  BY <1>1, <1>2, Names DEF Release, Others
<1>3. ASSUME NEW c \in SvCall, NEW r \in LockedRow, Free(r), rowLock' = [rowLock EXCEPT ![r] = c]
      PROVE Others(c) /\ rowLock' \in [LockedRow -> SvCall \cup {"free"}] /\ rowLock'[r] = c
  BY <1>1, <1>3, Names DEF Free, Others
<1>4. ASSUME NEW c \in SvCall, rowLock' = rowLock PROVE Others(c) /\ rowLock' \in [LockedRow -> SvCall \cup {"free"}]
  BY <1>1, <1>4 DEF Others
<1> QED
  BY <1>1, <1>2, <1>3, <1>4

LEMMA CallsStep ==
  ASSUME TypesInv, CallsInv, DbOK, NEW c \in SvCall, Moved(c), Others(c), Guarded(c)
  PROVE  CallsInv' /\ call' = [d \in SvCall |-> call'[d]] /\ \A d \in SvCall : call'[d].pc \in Pcs
<1>1. PICK s : call' = [call EXCEPT ![c] = s] /\ s.pc \in Pcs /\ CallOK(c, s, db', rowLock')
  BY DEF Moved
<1>2. call = [d \in SvCall |-> call[d]] /\ \A d \in SvCall : call[d].pc \in Pcs
  BY DEF TypesInv
<1>3. call'[c] = s /\ (\A d \in SvCall \ {c} : call'[d] = call[d]) /\ call' = [d \in SvCall |-> call'[d]]
  BY <1>1, <1>2
<1>4. 1..db.ver \subseteq 1..db'.ver
  <2>1. db.ver \in Nat /\ db'.ver \in {db.ver, db.ver + 1}
    BY DEF TypesInv, Tables, DbOK
  <2> QED
    BY <2>1
<1>5. ASSUME NEW d \in SvCall \ {c} PROVE CallOK(d, call[d], db', rowLock')
  <2>1. CallOK(d, call[d], db, rowLock)
    BY DEF CallsInv
  <2>2. rowLock["settings"] = d => rowLock'["settings"] = d /\ db'.set = db.set /\ db'.over = db.over
    BY DEF Others, Guarded
  <2> QED
    BY <1>4, <2>1, <2>2 DEF CallOK
<1>6. \A d \in SvCall : CallOK(d, call'[d], db', rowLock')
  BY <1>1, <1>3, <1>5
<1> QED
  BY <1>1, <1>2, <1>3, <1>6 DEF CallsInv

Steady(c) ==
  /\ DbOK /\ Moved(c) /\ Others(c) /\ Guarded(c)
  /\ rowLock' \in [LockedRow -> SvCall \cup {"free"}]

LEMMA SameDb ==
  ASSUME TypesInv, db' = db
  PROVE  DbOK /\ NobodyFresh /\ Kept /\ \A c : Guarded(c)
BY DEF DbOK, NobodyFresh, Kept, TypesInv, Guarded

\* The calls that begin.
LEMMA Begins ==
  ASSUME TypesInv, CallsInv, SnapshotInv, NEW c \in SvCall,
         \/ \E rep \in SvReport : IngestBegin(c, rep)
         \/ \E p \in SettingsPatch : UpdateSettingsBegin(c, p)
         \/ \E h \in SvHost, p \in HostPatch : UpdateHostPolicyBegin(c, h, p)
         \/ \E ip \in SvAddr : ManualBanBegin(c, ip) \/ FleetUnbanBegin(c, ip)
  PROVE  Steady(c) /\ db' = db
<1>1. db \in Tables
  BY DEF TypesInv
<1>2. ASSUME NEW rep \in SvReport, IngestBegin(c, rep) PROVE Steady(c) /\ db' = db
  <2>1. db' = db /\ rowLock' = rowLock /\ call' = [call EXCEPT ![c] = Writes(db, rep)]
    BY <1>2 DEF IngestBegin, Goto
  <2>2. PICK w : w = Writes(db, rep)
    OBVIOUS
  <2>3. w.pc = "ingest" /\ w.up \subseteq SvHost \X SvAddr /\ w.new \subseteq Row /\ IsFiniteSet(w.new)
    BY <1>1, <2>2, WritesFit DEF SnapshotInv
  <2>4. w.pc \in Pcs /\ CallOK(c, w, db', rowLock')
    BY <2>3 DEF CallOK, Pcs
  <2> QED
    BY <2>1, <2>2, <2>4, SameDb, Locked DEF Moved, Steady
<1>3. ASSUME NEW p \in SettingsPatch, UpdateSettingsBegin(c, p) PROVE Steady(c) /\ db' = db
  <2>1. PICK s : s = [pc |-> "settings", set |-> Merge(db.set, p), over |-> db.over]
    OBVIOUS
  <2>2. db' = db /\ call' = [call EXCEPT ![c] = s] /\ Free("settings") /\ rowLock' = [rowLock EXCEPT !["settings"] = c]
    BY <1>3, <2>1 DEF UpdateSettingsBegin, Goto
  <2>3. Merge(db.set, p) \in SvSettings
    BY <1>1, MergeSettings DEF Tables
  <2>4. Others(c) /\ rowLock' \in [LockedRow -> SvCall \cup {"free"}] /\ rowLock'["settings"] = c
    BY <2>2, Locked, Names
  <2>5. s.pc = "settings" /\ s.set = Merge(db.set, p) /\ s.over = db.over
    BY <2>1
  <2>6. s.pc \in Pcs /\ CallOK(c, s, db', rowLock')
    BY <2>2, <2>3, <2>4, <2>5 DEF CallOK, Pcs
  <2> QED
    BY <2>2, <2>4, <2>6, SameDb DEF Moved, Steady
<1>4. ASSUME NEW h \in SvHost, NEW p \in HostPatch, UpdateHostPolicyBegin(c, h, p) PROVE Steady(c) /\ db' = db
  <2>1. PICK s : s = [pc |-> "host", host |-> h, over |-> Merge(db.over[h], p), set |-> db.set]
    OBVIOUS
  <2>2. db' = db /\ call' = [call EXCEPT ![c] = s] /\ Free("settings") /\ rowLock' = [rowLock EXCEPT !["settings"] = c]
    BY <1>4, <2>1 DEF UpdateHostPolicyBegin, Goto
  <2>3. Merge(db.over[h], p) \in SvOverride
    BY <1>1, MergeOverride DEF Tables
  <2>4. Others(c) /\ rowLock' \in [LockedRow -> SvCall \cup {"free"}] /\ rowLock'["settings"] = c
    BY <2>2, Locked, Names
  <2>5. s.pc = "host" /\ s.host = h /\ s.over = Merge(db.over[h], p) /\ s.set = db.set
    BY <2>1
  <2>6. s.pc \in Pcs /\ CallOK(c, s, db', rowLock')
    BY <2>2, <2>3, <2>4, <2>5 DEF CallOK, Pcs
  <2> QED
    BY <2>2, <2>4, <2>6, SameDb DEF Moved, Steady
<1>5. ASSUME NEW ip \in SvAddr, ManualBanBegin(c, ip) PROVE Steady(c) /\ db' = db
  <2>1. db' = db /\ call' = [call EXCEPT ![c] = [pc |-> "manual", ip |-> ip]] /\ rowLock' = rowLock
    BY <1>5 DEF ManualBanBegin, Goto
  <2>2. [pc |-> "manual", ip |-> ip].pc \in Pcs /\ CallOK(c, [pc |-> "manual", ip |-> ip], db', rowLock')
    BY DEF CallOK, Pcs
  <2> QED
    BY <2>1, <2>2, SameDb, Locked DEF Moved, Steady
<1>6. ASSUME NEW ip \in SvAddr, FleetUnbanBegin(c, ip) PROVE Steady(c) /\ db' = db
  <2>1. db' = db /\ call' = [call EXCEPT ![c] = [pc |-> "unban", ip |-> ip]] /\ Free(ip)
        /\ rowLock' = [rowLock EXCEPT ![ip] = c]
    BY <1>6 DEF FleetUnbanBegin, Goto
  <2>2. [pc |-> "unban", ip |-> ip].pc \in Pcs /\ CallOK(c, [pc |-> "unban", ip |-> ip], db', rowLock')
    BY DEF CallOK, Pcs
  <2>3. Others(c) /\ rowLock' \in [LockedRow -> SvCall \cup {"free"}]
    BY <2>1, Locked, Names
  <2> QED
    BY <2>1, <2>2, <2>3, SameDb DEF Moved, Steady
<1> QED
  BY <1>2, <1>3, <1>4, <1>5, <1>6

\* The calls that commit.
LEMMA VersionIsKnown ==
  ASSUME TypesInv, DbOK
  PROVE  db'.ver \in 1..db'.ver /\ 1..db.ver \subseteq 1..db'.ver /\ db'.ver \in Nat /\ db'.ver >= 1
<1>1. db.ver \in Nat /\ db.ver >= 1 /\ db'.ver \in {db.ver, db.ver + 1}
  BY DEF TypesInv, Tables, DbOK
<1> QED
  BY <1>1

LEMMA PublishingOK ==
  ASSUME TypesInv, DbOK, NEW c
  PROVE  Publishing(db').pc \in Pcs /\ CallOK(c, Publishing(db'), db', rowLock')
BY VersionIsKnown, Names DEF CallOK, Pcs

LEMMA IngestCommitSteady ==
  ASSUME TypesInv, CallsInv, NEW c \in SvCall, IngestCommit(c)
  PROVE  Steady(c)
<1>1. DbOK /\ Guarded(c)
  BY DbIngest DEF Guarded
<1>2. Goto(c, Idle) \/ Committed(c, Publishing(db'))
  BY DEF IngestCommit
<1>3. Moved(c)
  BY <1>1, <1>2, Ends, Commits, PublishingOK
<1>4. rowLock' = rowLock
  BY DEF IngestCommit
<1> QED
  BY <1>1, <1>3, <1>4, Locked DEF Steady

LEMMA SettingsCommitSteady ==
  ASSUME TypesInv, CallsInv, NEW c \in SvCall, UpdateSettingsCommit(c)
  PROVE  Steady(c)
<1> DEFINE s == [pc |-> "store", set |-> call[c].set, ver |-> db'.ver]
<1>1. call[c].pc = "settings" /\ call[c].set \in SvSettings /\ rowLock["settings"] = c
  BY DEF UpdateSettingsCommit, CallsInv, CallOK
<1>2. DbOK /\ Guarded(c)
  BY <1>1, DbSettings DEF Guarded
<1>3. Goto(c, Idle) \/ Committed(c, s)
  BY DEF UpdateSettingsCommit
<1>4. s.pc \in Pcs /\ CallOK(c, s, db', rowLock')
  BY <1>1, <1>2, VersionIsKnown DEF CallOK, Pcs
<1>5. Moved(c)
  <2> HIDE DEF s
  <2> QED
    BY <1>3, <1>4, Ends, Commits
<1>6. Release(c)
  BY DEF UpdateSettingsCommit
<1> QED
  BY <1>2, <1>5, <1>6, Locked DEF Steady

LEMMA HostCommitSteady ==
  ASSUME TypesInv, CallsInv, NEW c \in SvCall, UpdateHostPolicyCommit(c)
  PROVE  Steady(c)
<1>1. call[c].pc = "host" /\ rowLock["settings"] = c
  BY DEF UpdateHostPolicyCommit, CallsInv, CallOK
<1>2. DbOK /\ Guarded(c)
  BY <1>1, DbHost DEF Guarded
<1>3. Goto(c, Idle) \/ Committed(c, Publishing(db'))
  BY DEF UpdateHostPolicyCommit
<1>4. Moved(c)
  BY <1>2, <1>3, Ends, Commits, PublishingOK
<1>5. Release(c)
  BY DEF UpdateHostPolicyCommit
<1> QED
  BY <1>2, <1>4, <1>5, Locked DEF Steady

LEMMA OtherCommitsSteady ==
  ASSUME TypesInv, CallsInv, NEW c \in SvCall, ManualBanCommit(c) \/ FleetUnbanCommit(c) \/ HostUnban(c)
  PROVE  Steady(c)
<1>1. DbOK /\ Guarded(c)
  BY DbOthers DEF Kept, Guarded
<1>2. Committed(c, Publishing(db'))
  BY DEF ManualBanCommit, FleetUnbanCommit, HostUnban
<1>3. Moved(c)
  BY <1>1, <1>2, Commits, PublishingOK
<1>4. rowLock' = rowLock \/ Release(c)
  BY DEF ManualBanCommit, FleetUnbanCommit, HostUnban
<1> QED
  BY <1>1, <1>3, <1>4, Locked DEF Steady

\* What follows a commit, and a call that fails.
LEMMA PublishesSteady ==
  ASSUME TypesInv, CallsInv, NEW c \in SvCall,
         CallFails(c) \/ StoreSettings(c) \/ StoreVersion(c) \/ PublishVersion(c) \/ PublishNumber(c)
  PROVE  Steady(c) /\ db' = db
<1>1. db' = db /\ (rowLock' = rowLock \/ Release(c))
  BY DEF CallFails, StoreSettings, StoreVersion, PublishVersion, PublishNumber
<1>2. DbOK /\ Guarded(c)
  BY <1>1, SameDb
<1>3. Moved(c)
  <2>1. CASE Goto(c, Idle)
    BY <2>1, Ends
  <2>2. CASE StoreSettings(c)
    <3>1. call[c].ver \in 1..db'.ver /\ Goto(c, [pc |-> "storever", ver |-> call[c].ver])
      BY <1>1, <2>2 DEF StoreSettings, CallsInv, CallOK
    <3>2. [pc |-> "storever", ver |-> call[c].ver].pc \in Pcs
          /\ CallOK(c, [pc |-> "storever", ver |-> call[c].ver], db', rowLock')
      BY <3>1 DEF CallOK, Pcs
    <3> QED
      BY <3>1, <3>2 DEF Moved, Goto
  <2>3. CASE PublishVersion(c) /\ Goto(c, [pc |-> "number", ver |-> call[c].ver])
    <3>1. call[c].ver \in 1..db'.ver
      BY <1>1, <2>3 DEF PublishVersion, CallsInv, CallOK
    <3>2. [pc |-> "number", ver |-> call[c].ver].pc \in Pcs
          /\ CallOK(c, [pc |-> "number", ver |-> call[c].ver], db', rowLock')
      BY <3>1 DEF CallOK, Pcs
    <3> QED
      BY <2>3, <3>2 DEF Moved, Goto
  <2> QED
    BY <2>1, <2>2, <2>3 DEF CallFails, StoreVersion, PublishVersion, PublishNumber
<1> QED
  BY <1>1, <1>2, <1>3, Locked DEF Steady

CallActions(c) ==
  \/ \E rep \in SvReport : IngestBegin(c, rep)
  \/ \E p \in SettingsPatch : UpdateSettingsBegin(c, p)
  \/ \E h \in SvHost, p \in HostPatch : UpdateHostPolicyBegin(c, h, p)
  \/ \E ip \in SvAddr : ManualBanBegin(c, ip) \/ FleetUnbanBegin(c, ip)
  \/ HostUnban(c) \/ CallStep(c)

LEMMA CallsSteady ==
  ASSUME TypesInv, CallsInv, SnapshotInv, NEW c \in SvCall, CallActions(c)
  PROVE  Steady(c)
BY Begins, IngestCommitSteady, SettingsCommitSteady, HostCommitSteady, OtherCommitsSteady, PublishesSteady
   DEF CallActions, CallStep

\* Time, the sweep and the agents leave the calls and the locks alone.
Bystanders ==
  \/ \E ip \in SvAddr : FleetAges(ip) \/ SweepFleet(ip)
  \/ \E p \in SvHost \X SvAddr : SweepActive(p)
  \/ SweepRest
  \/ \E h \in SvHost : AgentFetches(h)
  \/ UNCHANGED svVars

LEMMA SvSteps ==
  ASSUME [SvNext]_svVars
  PROVE  (\E c \in SvCall : CallActions(c)) \/ Bystanders \/ SvRestart
BY DEF SvNext, CallActions, Bystanders

LEMMA BystandersSteady ==
  ASSUME TypesInv, CallsInv, Bystanders
  PROVE  DbOK /\ NobodyFresh /\ db'.set = db.set /\ db'.over = db.over /\ UNCHANGED <<call, rowLock, cached, published>>
<1>1. UNCHANGED <<call, rowLock, cached, published>>
  BY DEF Bystanders, FleetAges, SweepFleet, SweepActive, SweepRest, AgentFetches, svVars
<1>2. CASE db' = db
  BY <1>1, <1>2, SameDb DEF Kept
<1>3. (\E h \in SvHost : AgentFetches(h)) \/ UNCHANGED svVars => db' = db
  BY DEF AgentFetches, svVars
<1> QED
  BY <1>1, <1>2, <1>3, DbOthers, DbRest DEF Bystanders, Kept

LEMMA CallsHold ==
  ASSUME TypesInv, CallsInv, SnapshotInv, [SvNext]_svVars
  PROVE  /\ CallsInv' /\ DbOK /\ call' = [d \in SvCall |-> call'[d]] /\ \A d \in SvCall : call'[d].pc \in Pcs
         /\ rowLock' \in [LockedRow -> SvCall \cup {"free"}]
<1>1. ASSUME NEW c \in SvCall, CallActions(c)
      PROVE  /\ CallsInv' /\ DbOK /\ call' = [d \in SvCall |-> call'[d]] /\ \A d \in SvCall : call'[d].pc \in Pcs
             /\ rowLock' \in [LockedRow -> SvCall \cup {"free"}]
  BY <1>1, CallsSteady, CallsStep DEF Steady
<1>2. CASE Bystanders
  <2>1. DbOK /\ db'.set = db.set /\ db'.over = db.over /\ UNCHANGED <<call, rowLock>>
    BY <1>2, BystandersSteady
  <2>2. ASSUME NEW d \in SvCall PROVE CallOK(d, call[d], db', rowLock')
    BY <2>1, VersionIsKnown DEF CallsInv, CallOK
  <2>3. rowLock' \in [LockedRow -> SvCall \cup {"free"}]
    BY <2>1 DEF TypesInv, SvTypeOK
  <2> QED
    BY <2>1, <2>2, <2>3 DEF CallsInv, TypesInv
<1>3. CASE SvRestart
  <2>1. db' = db /\ call' = [c \in SvCall |-> Idle] /\ rowLock' = [r \in LockedRow |-> "free"]
    BY <1>3 DEF SvRestart
  <2>2. DbOK
    BY <2>1, SameDb
  <2>3. call' = [d \in SvCall |-> call'[d]] /\ \A d \in SvCall : call'[d] = Idle
    BY <2>1
  <2> QED
    BY <2>1, <2>2, <2>3, IdleOK DEF CallsInv
<1> QED
  BY <1>1, <1>2, <1>3, SvSteps

-----------------------------------------------------------------------------
(* The copies of the settings and the version, and the agents.             *)

LEMMA CachedSteps ==
  ASSUME [SvNext]_svVars
  PROVE  UNCHANGED cached \/ (\E c \in SvCall : StoreSettings(c) \/ PublishNumber(c)) \/ SvRestart
<1>1. ASSUME NEW c \in SvCall, CallActions(c) PROVE UNCHANGED cached \/ StoreSettings(c) \/ PublishNumber(c)
  BY <1>1 DEF CallActions, IngestBegin, UpdateSettingsBegin, UpdateHostPolicyBegin, ManualBanBegin, FleetUnbanBegin,
     HostUnban, CallStep, IngestCommit, CallFails, UpdateSettingsCommit, StoreVersion, UpdateHostPolicyCommit,
     ManualBanCommit, FleetUnbanCommit, PublishVersion
<1>2. CASE Bystanders
  BY <1>2 DEF Bystanders, FleetAges, SweepFleet, SweepActive, SweepRest, AgentFetches, svVars
<1> QED
  BY <1>1, <1>2, SvSteps

LEMMA PublishedSteps ==
  ASSUME [SvNext]_svVars
  PROVE  UNCHANGED published \/ (\E c \in SvCall : StoreVersion(c) \/ PublishVersion(c)) \/ SvRestart
<1>1. ASSUME NEW c \in SvCall, CallActions(c) PROVE UNCHANGED published \/ StoreVersion(c) \/ PublishVersion(c)
  BY <1>1 DEF CallActions, IngestBegin, UpdateSettingsBegin, UpdateHostPolicyBegin, ManualBanBegin, FleetUnbanBegin,
     HostUnban, CallStep, IngestCommit, CallFails, UpdateSettingsCommit, StoreSettings, UpdateHostPolicyCommit,
     ManualBanCommit, FleetUnbanCommit, PublishNumber
<1>2. CASE Bystanders
  BY <1>2 DEF Bystanders, FleetAges, SweepFleet, SweepActive, SweepRest, AgentFetches, svVars
<1> QED
  BY <1>1, <1>2, SvSteps

LEMMA ViewSteps ==
  ASSUME [SvNext]_svVars
  PROVE  UNCHANGED view \/ \E h \in SvHost : AgentFetches(h)
<1>1. ASSUME NEW c \in SvCall, CallActions(c) PROVE UNCHANGED view
  BY <1>1 DEF CallActions, IngestBegin, UpdateSettingsBegin, UpdateHostPolicyBegin, ManualBanBegin, FleetUnbanBegin,
     HostUnban, CallStep, IngestCommit, CallFails, UpdateSettingsCommit, StoreSettings, StoreVersion,
     UpdateHostPolicyCommit, ManualBanCommit, FleetUnbanCommit, PublishNumber, PublishVersion
<1>2. CASE Bystanders
  BY <1>2 DEF Bystanders, FleetAges, SweepFleet, SweepActive, SweepRest, svVars
<1>3. CASE SvRestart
  BY <1>3 DEF SvRestart
<1> QED
  BY <1>1, <1>2, <1>3, SvSteps

LEMMA CountSteps ==
  ASSUME [SvNext]_svVars
  PROVE  /\ work' = work \/ Operator
         /\ losses' = losses \/ (losses < MaxLost /\ losses' = losses + 1)
<1>1. ASSUME NEW c \in SvCall, CallActions(c) PROVE work' = work \/ Operator
  BY <1>1 DEF CallActions, IngestBegin, UpdateSettingsBegin, UpdateHostPolicyBegin, ManualBanBegin, FleetUnbanBegin,
     HostUnban, CallStep, IngestCommit, CallFails, UpdateSettingsCommit, StoreSettings, StoreVersion,
     UpdateHostPolicyCommit, ManualBanCommit, FleetUnbanCommit, PublishNumber, PublishVersion
<1>2. ASSUME NEW c \in SvCall, CallActions(c) PROVE losses' = losses \/ (losses < MaxLost /\ losses' = losses + 1)
  BY <1>2 DEF CallActions, IngestBegin, UpdateSettingsBegin, UpdateHostPolicyBegin, ManualBanBegin, FleetUnbanBegin,
     HostUnban, CallStep, IngestCommit, CallFails, UpdateSettingsCommit, StoreSettings, StoreVersion,
     UpdateHostPolicyCommit, ManualBanCommit, FleetUnbanCommit, PublishNumber, PublishVersion, Committed
<1>3. CASE Bystanders
  BY <1>3 DEF Bystanders, FleetAges, SweepFleet, SweepActive, SweepRest, AgentFetches, svVars
<1>4. CASE SvRestart
  BY <1>4 DEF SvRestart
<1> QED
  BY <1>1, <1>2, <1>3, <1>4, SvSteps

LEMMA LostSteps ==
  ASSUME [SvNext]_svVars, lost \in BOOLEAN
  PROVE  lost' \in BOOLEAN
<1>1. ASSUME NEW c \in SvCall, CallActions(c)
      PROVE  UNCHANGED lost \/ lost' = TRUE \/ lost' = (lost /\ published' < db.ver)
  BY <1>1 DEF CallActions, IngestBegin, UpdateSettingsBegin, UpdateHostPolicyBegin, ManualBanBegin, FleetUnbanBegin,
     HostUnban, CallStep, IngestCommit, CallFails, UpdateSettingsCommit, StoreSettings, StoreVersion,
     UpdateHostPolicyCommit, ManualBanCommit, FleetUnbanCommit, PublishNumber, PublishVersion, Committed
<1>2. CASE Bystanders
  BY <1>2 DEF Bystanders, FleetAges, SweepFleet, SweepActive, SweepRest, AgentFetches, svVars
<1>3. CASE SvRestart
  BY <1>3 DEF SvRestart
<1>4. (lost /\ published' < db.ver) \in BOOLEAN
  OBVIOUS
<1> QED
  BY <1>1, <1>2, <1>3, <1>4, SvSteps

LEMMA ConfigType ==
  ASSUME NEW d \in Tables, NEW h \in SvHost
  PROVE  AgentConfig(d, h) \in [ver : Nat, pol : SvPolicy] /\ AgentConfig(d, h).ver = d.ver
<1>1. d.over[h] \in SvOverride /\ d.set \in SvSettings /\ d.ver \in Nat
  BY DEF Tables
<1>2. d.over[h].enforce \in Tri /\ d.set.enforce \in BOOLEAN /\ d.set.allow \in SUBSET AllowEntry
  BY <1>1 DEF SvOverride, SvSettings
<1>3. (Pick(d.over[h].enforce, d.set.enforce) /\ d.set.allow # {}) \in BOOLEAN
  BY <1>2, PickType
<1> QED
  BY <1>1, <1>2, <1>3 DEF AgentConfig, SvPolicy

LEMMA DirtySteps ==
  ASSUME TypesInv, [SvNext]_svVars
  PROVE  dirty' = [c \in SvCall |-> dirty'[c]]
<1>1. dirty = [c \in SvCall |-> dirty[c]]
  BY DEF TypesInv
<1>2. ASSUME NEW keys, NEW others, MarkDirty(keys, others) PROVE dirty' = [c \in SvCall |-> dirty'[c]]
  <2>1. PICK f : f = [c \in SvCall |-> IF c \in others /\ call[c].pc = "ingest"
                                       THEN dirty[c] \cup (keys \cap Keys(call[c])) ELSE {}]
    OBVIOUS
  <2>2. f = [c \in SvCall |-> f[c]] /\ dirty' = f
    BY <1>2, <2>1, Zenon DEF MarkDirty
  <2> QED
    BY <2>2
<1>3. ASSUME NEW c \in SvCall, CallActions(c)
      PROVE  \/ dirty' = dirty \/ dirty' = [dirty EXCEPT ![c] = {}] \/ \E keys, others : MarkDirty(keys, others)
  BY <1>3 DEF CallActions, CallStep, IngestBegin, IngestCommit, UpdateSettingsBegin, UpdateHostPolicyBegin,
     ManualBanBegin, FleetUnbanBegin, HostUnban, CallFails, UpdateSettingsCommit, StoreSettings, StoreVersion,
     UpdateHostPolicyCommit, ManualBanCommit, FleetUnbanCommit, PublishVersion, PublishNumber
<1>4. CASE SvRestart
  BY <1>4 DEF SvRestart
<1>5. CASE Bystanders
  <2>1. dirty' = dirty \/ \E keys : MarkDirty(keys, SvCall)
    BY <1>5 DEF Bystanders, FleetAges, SweepFleet, SweepActive, SweepRest, AgentFetches, svVars
  <2> QED
    BY <1>1, <1>2, <2>1
<1> QED
  BY <1>1, <1>2, <1>3, <1>4, <1>5, SvSteps

LEMMA TypesHold ==
  ASSUME TypesInv, CallsInv, SnapshotInv, [SvNext]_svVars
  PROVE  TypesInv'
<1>1. /\ DbOK /\ call' = [d \in SvCall |-> call'[d]] /\ \A d \in SvCall : call'[d].pc \in Pcs
      /\ rowLock' \in [LockedRow -> SvCall \cup {"free"}]
  BY CallsHold
<1>2. db \in Tables /\ db' \in Tables /\ db.ver \in Nat /\ db.ver >= 1
  BY <1>1 DEF TypesInv, DbOK, Tables
<1>3. db.ver \in 1..db.ver /\ db.ver \in 1..db'.ver /\ db'.ver >= 1
  BY <1>1, <1>2, VersionIsKnown
<1>4. cached \in [set : SvSettings, ver : Nat] /\ cached.ver \in 1..db.ver /\ published \in 1..db.ver
      /\ view \in [SvHost -> [ver : Nat, pol : SvPolicy]] /\ (\A h \in SvHost : view[h].ver \in 1..db.ver)
  BY DEF TypesInv, SvTypeOK
<1>5. ASSUME NEW c \in SvCall PROVE call[c].pc \in {"store", "storever", "cas", "number"} => call[c].ver \in 1..db.ver
  BY DEF CallsInv, CallOK
<1>6. cached' \in [set : SvSettings, ver : Nat] /\ cached'.ver \in 1..db.ver
  <2>1. ASSUME NEW c \in SvCall, StoreSettings(c) PROVE cached' \in [set : SvSettings, ver : Nat] /\ cached'.ver \in 1..db.ver
    <3>1. call[c].ver \in 1..db.ver /\ call[c].ver \in Nat /\ call[c].set \in SvSettings
      BY <1>5, <2>1 DEF StoreSettings, CallsInv, CallOK
    <3>2. cached' = cached \/ cached' = [set |-> call[c].set, ver |-> call[c].ver]
      BY <2>1 DEF StoreSettings
    <3> QED
      BY <1>4, <3>1, <3>2
  <2>2. ASSUME NEW c \in SvCall, PublishNumber(c) PROVE cached' \in [set : SvSettings, ver : Nat] /\ cached'.ver \in 1..db.ver
    <3>1. call[c].ver \in 1..db.ver
      BY <1>5, <2>2 DEF PublishNumber
    <3>2. PICK m : m = Max2(cached.ver, call[c].ver)
      OBVIOUS
    <3>3. m \in 1..db.ver /\ m \in Nat
      BY <1>2, <1>4, <3>1, <3>2 DEF Max2
    <3>4. cached' = [cached EXCEPT !.ver = m]
      BY <1>4, <2>2, <3>2 DEF PublishNumber
    <3> QED
      BY <1>4, <3>3, <3>4
  <2>3. CASE SvRestart
    <3>1. cached' = [set |-> db.set, ver |-> db.ver]
      BY <2>3 DEF SvRestart
    <3> QED
      BY <1>2, <1>3, <3>1 DEF Tables
  <2> QED
    BY <1>4, <2>1, <2>2, <2>3, CachedSteps
<1>7. published' \in 1..db.ver
  <2>1. ASSUME NEW c \in SvCall, StoreVersion(c) \/ PublishVersion(c) PROVE published' \in 1..db.ver
    <3>1. call[c].ver \in 1..db.ver /\ published' = Max2(published, call[c].ver)
      BY <1>5, <2>1 DEF StoreVersion, PublishVersion
    <3> QED
      BY <1>4, <3>1 DEF Max2
  <2> QED
    BY <1>3, <1>4, <2>1, PublishedSteps DEF SvRestart
<1>8. view' \in [SvHost -> [ver : Nat, pol : SvPolicy]] /\ (\A h \in SvHost : view'[h].ver \in 1..db.ver)
  <2>1. ASSUME NEW h \in SvHost, AgentFetches(h)
        PROVE  view' \in [SvHost -> [ver : Nat, pol : SvPolicy]] /\ (\A g \in SvHost : view'[g].ver \in 1..db.ver)
    <3>1. PICK a : a = AgentConfig(db, h)
      OBVIOUS
    <3>2. a \in [ver : Nat, pol : SvPolicy] /\ a.ver = db.ver /\ view' = [view EXCEPT ![h] = a]
      BY <1>2, <2>1, <3>1, ConfigType DEF AgentFetches
    <3> QED
      BY <1>3, <1>4, <3>2
  <2> QED
    BY <1>4, <2>1, ViewSteps
<1>9. 1..db.ver \subseteq 1..db'.ver
  BY <1>1, VersionIsKnown
<1>10. work' \in 0..MaxWork /\ losses' \in 0..MaxLost
  <2>1. work \in 0..MaxWork /\ losses \in 0..MaxLost /\ MaxWork \in Nat /\ MaxLost \in Nat
    BY BanServiceAssumption DEF TypesInv, SvTypeOK
  <2> QED
    BY <2>1, CountSteps DEF Operator
<1>11. lost' \in BOOLEAN
  BY LostSteps DEF TypesInv, SvTypeOK
<1>12. \A h \in SvHost : view'[h].pol \in SvPolicy /\ view'[h].ver \in 1..db'.ver
  BY <1>8, <1>9
<1>13. /\ db'.set \in SvSettings /\ db'.over \in [SvHost -> SvOverride] /\ db'.ver \in Nat
       /\ db'.fleet \in [SvAddr -> FleetRow] /\ db'.supp \subseteq SvAddr /\ db'.active \subseteq SvHost \X SvAddr
  BY <1>2 DEF Tables
<1>14. cached'.set \in SvSettings /\ cached'.ver \in 1..db'.ver /\ published' \in 1..db'.ver
  BY <1>6, <1>7, <1>9
<1>15. SvTypeOK'
  BY <1>1, <1>10, <1>11, <1>12, <1>13, <1>14 DEF SvTypeOK
<1> QED
  BY <1>1, <1>2, <1>3, <1>6, <1>8, <1>15, DirtySteps DEF TypesInv

-----------------------------------------------------------------------------
(* The settings and the overrides.                                         *)

LEMMA AllowlistHolds ==
  ASSUME TypesInv, CallsInv, SnapshotInv, EnforcementHasAllowlist, [SvNext]_svVars
  PROVE  EnforcementHasAllowlist'
<1>1. CASE db'.set = db.set /\ db'.over = db.over
  BY <1>1 DEF EnforcementHasAllowlist
<1>2. ASSUME NEW c \in SvCall, UpdateSettingsCommit(c), db' # db PROVE EnforcementHasAllowlist'
  <2>1. db'.over = db.over /\ Valid(db'.set) /\ OverridesAllow(db.over, db'.set)
    BY <1>2, DbSettings
  <2> QED
    BY <2>1 DEF EnforcementHasAllowlist, Valid, OverridesAllow
<1>3. ASSUME NEW c \in SvCall, UpdateHostPolicyCommit(c), db' # db PROVE EnforcementHasAllowlist'
  <2>1. db'.set = db.set /\ (Pick(call[c].over.enforce, db.set.enforce) => db.set.allow # {})
        /\ db'.over = [db.over EXCEPT ![call[c].host] = call[c].over] /\ db.over \in [SvHost -> SvOverride]
    BY <1>3, DbHost DEF TypesInv, Tables
  <2>2. db.set.allow = {} => call[c].over.enforce # "on"
    BY <2>1 DEF Pick
  <2> QED
    BY <2>1, <2>2 DEF EnforcementHasAllowlist
<1>4. ASSUME NEW c \in SvCall, CallActions(c)
      PROVE  (db'.set = db.set /\ db'.over = db.over) \/ UpdateSettingsCommit(c) \/ UpdateHostPolicyCommit(c)
  BY <1>4, Begins, DbIngest, DbOthers, PublishesSteady DEF CallActions, CallStep, Kept
<1>5. CASE SvRestart
  BY <1>1, <1>5 DEF SvRestart
<1> QED
  BY <1>1, <1>2, <1>3, <1>4, <1>5, SvSteps, BystandersSteady

-----------------------------------------------------------------------------
(* The rows of events and the snapshots.                                   *)

LEMMA AgedIs ==
  ASSUME NEW ev \in SUBSET Row, IsFiniteSet(ev), OneRowEach(ev)
  PROVE  /\ IsFiniteSet(Aged(ev)) /\ OneRowEach(Aged(ev))
         /\ \A q \in Aged(ev) : \E r \in ev : r.host = q.host /\ r.id = q.id
         /\ \A new, ip : Bans(ev \cup new, ip) = Bans(Aged(ev) \cup new, ip)
<1> DEFINE f == [r \in ev |-> [r EXCEPT !.recent = FALSE]]
<1>1. \A r \in ev : f[r].host = r.host /\ f[r].id = r.id /\ f[r].ip = r.ip /\ f[r].act = r.act /\ f[r].con = r.con
  <2> SUFFICES ASSUME NEW r \in ev, NEW q, q = [r EXCEPT !.recent = FALSE]
               PROVE  q.host = r.host /\ q.id = r.id /\ q.ip = r.ip /\ q.act = r.act /\ q.con = r.con
    OBVIOUS
  <2>1. r \in Row
    OBVIOUS
  <2> QED
    BY <2>1 DEF Row
<1>2. Aged(ev) = {f[r] : r \in ev} /\ f \in Surjection(ev, Aged(ev))
  BY DEF Aged, Surjection
<1> HIDE DEF f
<1>3. IsFiniteSet(Aged(ev))
  BY <1>2, FS_Surjection
<1>4. OneRowEach(Aged(ev))
  BY <1>1, <1>2 DEF OneRowEach
<1>5. \A q \in Aged(ev) : \E r \in ev : r.host = q.host /\ r.id = q.id
  BY <1>1, <1>2
<1>6. ASSUME NEW new, NEW ip PROVE Bans(ev \cup new, ip) = Bans(Aged(ev) \cup new, ip)
  <2>1. Bans(ev \cup new, ip) \subseteq Bans(Aged(ev) \cup new, ip)
    <3> SUFFICES ASSUME NEW r \in ev \cup new, r.ip = ip, r.act = "ban", r.con
                 PROVE  <<r.host, r.id>> \in Bans(Aged(ev) \cup new, ip)
      BY DEF Bans
    <3>1. CASE r \in new
      BY <3>1 DEF Bans
    <3>2. CASE r \in ev
      BY <1>1, <1>2, <3>2 DEF Bans
    <3> QED
      BY <3>1, <3>2
  <2>2. Bans(Aged(ev) \cup new, ip) \subseteq Bans(ev \cup new, ip)
    <3> SUFFICES ASSUME NEW q \in Aged(ev) \cup new, q.ip = ip, q.act = "ban", q.con
                 PROVE  <<q.host, q.id>> \in Bans(ev \cup new, ip)
      BY DEF Bans
    <3>1. CASE q \in new
      BY <3>1 DEF Bans
    <3>2. CASE q \in Aged(ev)
      BY <1>1, <1>2, <3>2 DEF Bans
    <3> QED
      BY <3>1, <3>2
  <2> QED
    BY <2>1, <2>2
<1> QED
  BY <1>3, <1>4, <1>5, <1>6

\* What SnapshotInv says of a report, on given tables and given marks.
Fits(w, t, marks) ==
  /\ OneRowEach(w.new)
  /\ \A r \in w.new, q \in t.ev : q.host = r.host /\ q.id = r.id => <<"event", r.host, r.id>> \in marks
  /\ \A ip \in w.fleet : Enough(t.ev \cup w.new, ip)
  /\ w.bump => w.ver \in 0..t.ver
  /\ w.bump /\ w.ver = t.ver => \A ip \in w.fleet : ip \notin t.set.allow /\ ip \notin t.supp

LEMMA SnapshotIs ==
  SnapshotInv <=> /\ IsFiniteSet(db.ev) /\ OneRowEach(db.ev)
                  /\ \A c \in SvCall : call[c].pc = "ingest" => Fits(call[c], db, dirty[c])
BY DEF SnapshotInv, Fits

\* Tables with the same events, and more marks.
LEMMA FitsStill ==
  ASSUME TypesInv, DbOK, NEW w, NEW marks, NEW more, marks \subseteq more, Fits(w, db, marks), db'.ev = db.ev
  PROVE  Fits(w, db', more)
<1>1. db.ver \in Nat /\ db'.ver \in {db.ver, db.ver + 1}
      /\ (db'.ver = db.ver => db'.set = db.set /\ db'.over = db.over /\ db'.supp \subseteq db.supp)
  BY DEF TypesInv, DbOK, Tables
<1>2. w.bump => w.ver \in 0..db.ver
  BY DEF Fits
<1>3. w.bump => w.ver \in 0..db'.ver /\ (w.ver = db'.ver => db'.ver = db.ver)
  <2>1. ASSUME NEW v \in 0..db.ver PROVE v \in 0..db'.ver /\ (v = db'.ver => db'.ver = db.ver)
    BY <1>1, <2>1
  <2> QED
    BY <1>2, <2>1
<1> QED
  BY <1>1, <1>3 DEF Fits

LEMMA DirtyGrows ==
  ASSUME NEW keys, NEW others, MarkDirty(keys, others), NEW d \in SvCall, d \in others, call[d].pc = "ingest"
  PROVE  dirty'[d] = dirty[d] \cup (keys \cap Keys(call[d]))
BY DEF MarkDirty

\* Where db' keeps the events, a report stays fitting if it keeps its marks.
LEMMA KeptFits ==
  ASSUME TypesInv, SnapshotInv, DbOK, db'.ev = db.ev,
         \A d \in SvCall : call'[d].pc = "ingest" =>
            \/ call'[d] = call[d] /\ dirty[d] \subseteq dirty'[d]
            \/ Fits(call'[d], db', dirty'[d])
  PROVE  SnapshotInv'
<1>1. IsFiniteSet(db'.ev) /\ OneRowEach(db'.ev)
  BY DEF SnapshotInv
<1>2. ASSUME NEW d \in SvCall, call'[d].pc = "ingest" PROVE Fits(call'[d], db', dirty'[d])
  <2>1. CASE call'[d] = call[d] /\ dirty[d] \subseteq dirty'[d]
    BY <1>2, <2>1, FitsStill, SnapshotIs
  <2> QED
    BY <1>2, <2>1
<1> QED
  BY <1>1, <1>2 DEF SnapshotInv, Fits

LEMMA BeginFits ==
  ASSUME TypesInv, SnapshotInv, NEW c \in SvCall, NEW rep \in SvReport, IngestBegin(c, rep)
  PROVE  SnapshotInv'
<1>1. db' = db /\ dirty' = dirty /\ call' = [call EXCEPT ![c] = Writes(db, rep)]
  BY DEF IngestBegin, Goto
<1>2. call = [d \in SvCall |-> call[d]] /\ db \in Tables
  BY DEF TypesInv
<1>3. PICK w : w = Writes(db, rep)
  OBVIOUS
<1>4. call'[c] = w /\ \A d \in SvCall \ {c} : call'[d] = call[d]
  BY <1>1, <1>2, <1>3
<1>5. Fits(w, db', dirty'[c])
  <2>1. db.ver \in Nat
    BY <1>2 DEF Tables
  <2>2. /\ OneRowEach(w.new)
        /\ \A r \in w.new, q \in db.ev : ~(q.host = r.host /\ q.id = r.id)
        /\ \A ip \in w.fleet : ip \notin db.set.allow /\ ip \notin db.supp /\ Enough(db.ev \cup w.new, ip)
        /\ (w.bump => w.ver = db.ver)
    BY <1>2, <1>3, WritesFit DEF SnapshotInv
  <2>3. w.bump => w.ver \in 0..db.ver
    BY <2>1, <2>2
  <2> QED
    BY <1>1, <2>2, <2>3 DEF Fits
<1>6. DbOK
  BY <1>1, SameDb
<1> QED
  BY <1>1, <1>4, <1>5, <1>6, KeptFits

LEMMA CommitFits ==
  ASSUME TypesInv, CallsInv, SnapshotInv, NEW c \in SvCall, IngestCommit(c)
  PROVE  SnapshotInv'
<1> DEFINE w == call[c]
<1>1. w.pc = "ingest" /\ w.new \subseteq Row /\ IsFiniteSet(w.new) /\ Fits(w, db, dirty[c])
  BY SnapshotIs DEF IngestCommit, CallsInv, CallOK
<1>2. DbOK /\ db'.set = db.set /\ db'.supp = db.supp /\ db'.ev = db.ev \cup w.new
      /\ db'.ver = IF w.bump THEN db.ver + 1 ELSE db.ver
  BY DbIngest
<1>3. IsFiniteSet(db.ev) /\ OneRowEach(db.ev)
  BY DEF SnapshotInv
<1>4. IsFiniteSet(db'.ev)
  BY <1>1, <1>2, <1>3, FS_Union
<1>5. \A r \in w.new, q \in db.ev : ~(q.host = r.host /\ q.id = r.id)
  <2>1. \A r \in w.new : <<"event", r.host, r.id>> \notin dirty[c]
    BY DEF IngestCommit, Serializable, EventKeys
  <2> QED
    BY <1>1, <2>1 DEF Fits
<1>6. OneRowEach(db'.ev)
  BY <1>1, <1>2, <1>3, <1>5 DEF OneRowEach, Fits
<1>7. \A d \in SvCall \ {c} : call'[d] = call[d]
  BY DEF IngestCommit, Goto, Committed, TypesInv
<1>8. call'[c].pc # "ingest"
  <2>1. Goto(c, Idle) \/ Goto(c, Publishing(db'))
    BY DEF IngestCommit, Committed
  <2>2. call'[c] \in {Idle, Publishing(db')}
    BY <2>1 DEF Goto, TypesInv
  <2> QED
    BY <2>2, Names
<1>9. ASSUME NEW d \in SvCall \ {c}, call[d].pc = "ingest" PROVE Fits(call[d], db', dirty'[d])
  <2> DEFINE v == call[d]
  <2>1. Fits(v, db, dirty[d]) /\ v.new \subseteq Row /\ IsFiniteSet(v.new)
    BY <1>9, SnapshotIs DEF CallsInv, CallOK
  <2>2. dirty'[d] = dirty[d] \cup (Keys(w) \cap Keys(v))
    <3>1. MarkDirty(Keys(w), SvCall \ {c})
      BY DEF IngestCommit
    <3> QED
      BY <1>9, <3>1, DirtyGrows
  <2>3. ASSUME NEW r \in v.new, NEW q \in db'.ev, q.host = r.host, q.id = r.id
        PROVE  <<"event", r.host, r.id>> \in dirty'[d]
    <3>1. CASE q \in db.ev
      BY <2>1, <2>2, <2>3, <3>1 DEF Fits
    <3>2. CASE q \in w.new
      <4>1. <<"event", r.host, r.id>> \in EventKeys(w.new) /\ <<"event", r.host, r.id>> \in EventKeys(v.new)
        BY <2>3, <3>2 DEF EventKeys
      <4> QED
        BY <2>2, <4>1 DEF Keys
    <3> QED
      BY <1>2, <2>3, <3>1, <3>2
  <2>4. ASSUME NEW ip \in v.fleet PROVE Enough(db'.ev \cup v.new, ip)
    <3>1. IsFiniteSet(db'.ev \cup v.new)
      BY <1>4, <2>1, FS_Union
    <3>2. db.ev \cup v.new \subseteq db'.ev \cup v.new /\ Enough(db.ev \cup v.new, ip)
      BY <1>2, <2>1 DEF Fits
    <3> QED
      BY <3>1, <3>2, EnoughGrows
  <2>5. (v.bump => v.ver \in 0..db'.ver) /\ (v.bump /\ v.ver = db'.ver => db'.ver = db.ver)
    <3>1. db.ver \in Nat /\ db'.ver \in {db.ver, db.ver + 1} /\ (v.bump => v.ver \in 0..db.ver)
      BY <1>2, <2>1 DEF TypesInv, Tables, DbOK, Fits
    <3>2. ASSUME NEW n \in 0..db.ver PROVE n \in 0..db'.ver /\ (n = db'.ver => db'.ver = db.ver)
      BY <3>1, <3>2
    <3> QED
      BY <3>1, <3>2
  <2>6. v.bump /\ v.ver = db'.ver => \A ip \in v.fleet : ip \notin db'.set.allow /\ ip \notin db'.supp
    BY <1>2, <2>1, <2>5 DEF Fits
  <2>7. OneRowEach(v.new)
    BY <2>1 DEF Fits
  <2> QED
    BY <2>3, <2>4, <2>5, <2>6, <2>7 DEF Fits
<1> QED
  BY <1>4, <1>6, <1>7, <1>8, <1>9 DEF SnapshotInv, Fits

\* The steps that write no events.
LEMMA OtherCallsFit ==
  ASSUME TypesInv, CallsInv, SnapshotInv, NEW c \in SvCall, CallActions(c), ~(\E rep \in SvReport : IngestBegin(c, rep)),
         ~IngestCommit(c)
  PROVE  SnapshotInv'
<1>1. DbOK /\ Moved(c)
  BY CallsSteady DEF Steady
<1>2. db'.ev = db.ev
  BY Begins, DbSettings, DbHost, DbOthers, PublishesSteady DEF CallActions, CallStep, Kept
<1>3. \A d \in SvCall \ {c} : call'[d] = call[d]
  BY <1>1 DEF Moved, TypesInv
<1>4. call'[c].pc # "ingest"
  <2>1. \/ \E p : UpdateSettingsBegin(c, p)
        \/ \E h, p : UpdateHostPolicyBegin(c, h, p)
        \/ \E ip : ManualBanBegin(c, ip) \/ FleetUnbanBegin(c, ip)
        \/ HostUnban(c) \/ CallFails(c) \/ UpdateSettingsCommit(c) \/ StoreSettings(c) \/ StoreVersion(c)
        \/ UpdateHostPolicyCommit(c) \/ ManualBanCommit(c) \/ FleetUnbanCommit(c) \/ PublishVersion(c) \/ PublishNumber(c)
    BY DEF CallActions, CallStep
  <2>2. \E s : s.pc # "ingest" /\ Goto(c, s)
    <3>1. Idle.pc # "ingest" /\ Publishing(db').pc # "ingest"
      BY Names
    <3>2. ASSUME NEW s, Committed(c, s), s.pc # "ingest" PROVE \E q : q.pc # "ingest" /\ Goto(c, q)
      BY <3>1, <3>2 DEF Committed
    <3>3. CASE \E p : UpdateSettingsBegin(c, p)
      BY <3>3 DEF UpdateSettingsBegin
    <3>4. CASE \E h, p : UpdateHostPolicyBegin(c, h, p)
      BY <3>4 DEF UpdateHostPolicyBegin
    <3>5. CASE \E ip : ManualBanBegin(c, ip) \/ FleetUnbanBegin(c, ip)
      BY <3>5 DEF ManualBanBegin, FleetUnbanBegin
    <3>6. CASE HostUnban(c) \/ ManualBanCommit(c) \/ FleetUnbanCommit(c)
      BY <3>1, <3>2, <3>6 DEF HostUnban, ManualBanCommit, FleetUnbanCommit
    <3>7. CASE UpdateHostPolicyCommit(c)
      BY <3>1, <3>2, <3>7 DEF UpdateHostPolicyCommit
    <3>8. CASE UpdateSettingsCommit(c)
      <4>1. Goto(c, Idle) \/ \E v : Committed(c, [pc |-> "store", set |-> call[c].set, ver |-> v])
        BY <3>8 DEF UpdateSettingsCommit
      <4> QED
        BY <3>1, <3>2, <4>1
    <3>9. CASE CallFails(c) \/ StoreVersion(c) \/ PublishNumber(c)
      BY <3>1, <3>9 DEF CallFails, StoreVersion, PublishNumber
    <3>10. CASE StoreSettings(c)
      BY <3>10 DEF StoreSettings
    <3>11. CASE PublishVersion(c)
      BY <3>1, <3>11 DEF PublishVersion
    <3> QED
      BY <2>1, <3>3, <3>4, <3>5, <3>6, <3>7, <3>8, <3>9, <3>10, <3>11
  <2> QED
    BY <2>2 DEF Goto, TypesInv
<1>5. ASSUME NEW d \in SvCall, call'[d].pc = "ingest" PROVE call'[d] = call[d] /\ dirty[d] \subseteq dirty'[d]
  <2>1. d # c /\ call'[d] = call[d] /\ call[d].pc = "ingest"
    BY <1>3, <1>4, <1>5
  <2>2. dirty' = dirty \/ dirty' = [dirty EXCEPT ![c] = {}] \/ \E keys : MarkDirty(keys, SvCall)
    BY DEF CallActions, CallStep, UpdateSettingsBegin, UpdateHostPolicyBegin, ManualBanBegin, FleetUnbanBegin,
       HostUnban, CallFails, UpdateSettingsCommit, StoreSettings, StoreVersion, UpdateHostPolicyCommit,
       ManualBanCommit, FleetUnbanCommit, PublishVersion, PublishNumber
  <2>3. dirty' = [dirty EXCEPT ![c] = {}] => dirty'[d] = dirty[d]
    BY <2>1 DEF TypesInv
  <2>4. ASSUME NEW keys, MarkDirty(keys, SvCall) PROVE dirty[d] \subseteq dirty'[d]
    BY <2>1, <2>4, DirtyGrows
  <2> QED
    BY <2>1, <2>2, <2>3, <2>4
<1> QED
  BY <1>1, <1>2, <1>5, KeptFits

LEMMA BystandersFit ==
  ASSUME TypesInv, CallsInv, SnapshotInv, Bystanders
  PROVE  SnapshotInv'
<1>1. DbOK /\ call' = call
  BY BystandersSteady
<1>2. ASSUME NEW d \in SvCall, call[d].pc = "ingest" PROVE dirty[d] \subseteq dirty'[d]
  <2>1. dirty' = dirty \/ \E keys : MarkDirty(keys, SvCall)
    BY DEF Bystanders, FleetAges, SweepFleet, SweepActive, SweepRest, AgentFetches, svVars
  <2> QED
    BY <1>2, <2>1, DirtyGrows
<1>3. CASE db'.ev = db.ev
  BY <1>1, <1>2, <1>3, KeptFits
<1>4. CASE SweepRest /\ db'.ev = Aged(db.ev)
  <2>1. db.ev \in SUBSET Row /\ IsFiniteSet(db.ev) /\ OneRowEach(db.ev)
    BY DEF TypesInv, Tables, SnapshotInv
  <2>2. dirty' = dirty /\ db'.ver = db.ver /\ db'.set = db.set /\ db'.supp \subseteq db.supp
    BY <1>1, <1>4, DbRest DEF SweepRest, DbOK
  <2>3. ASSUME NEW d \in SvCall, call[d].pc = "ingest" PROVE Fits(call[d], db', dirty'[d])
    <3>1. Fits(call[d], db, dirty[d]) /\ IsFiniteSet(call[d].new)
      BY <2>3, SnapshotIs DEF CallsInv, CallOK
    <3>2. ASSUME NEW ip \in call[d].fleet PROVE Enough(db'.ev \cup call[d].new, ip)
      <4>1. IsFiniteSet(Aged(db.ev) \cup call[d].new)
        BY <2>1, <3>1, AgedIs, FS_Union
      <4>2. Bans(db.ev \cup call[d].new, ip) = Bans(Aged(db.ev) \cup call[d].new, ip)
        <5>1. \A new, jp : Bans(db.ev \cup new, jp) = Bans(Aged(db.ev) \cup new, jp)
          BY <2>1, AgedIs, Zenon
        <5> QED
          BY <5>1, Zenon
      <4>3. Enough(db.ev \cup call[d].new, ip)
        BY <3>1 DEF Fits
      <4>4. PICK A, E : A = db.ev \cup call[d].new /\ E = Aged(db.ev) \cup call[d].new
        OBVIOUS
      <4>5. Enough(A, ip) /\ IsFiniteSet(E) /\ Bans(A, ip) \subseteq Bans(E, ip)
        BY <4>1, <4>2, <4>3, <4>4
      <4>6. Enough(E, ip)
        BY <4>5, EnoughIs
      <4> QED
        BY <1>4, <4>4, <4>6
    <3>3. \A r \in call[d].new, q \in db'.ev : q.host = r.host /\ q.id = r.id => <<"event", r.host, r.id>> \in dirty'[d]
      <4>1. \A q \in Aged(db.ev) : \E r \in db.ev : r.host = q.host /\ r.id = q.id
        BY <2>1, AgedIs
      <4> QED
        BY <1>4, <2>2, <3>1, <4>1 DEF Fits
    <3> QED
      BY <2>2, <3>1, <3>2, <3>3 DEF Fits
  <2>4. IsFiniteSet(db'.ev) /\ OneRowEach(db'.ev)
    BY <1>4, <2>1, AgedIs
  <2> QED
    BY <1>1, <2>3, <2>4 DEF SnapshotInv, Fits
<1>5. db'.ev = db.ev \/ (SweepRest /\ db'.ev = Aged(db.ev))
  <2>1. (\E h \in SvHost : AgentFetches(h)) \/ UNCHANGED svVars => db'.ev = db.ev
    BY DEF AgentFetches, svVars
  <2> QED
    BY <2>1, DbOthers, DbRest DEF Bystanders, Kept
<1> QED
  BY <1>3, <1>4, <1>5

LEMMA SnapshotHolds ==
  ASSUME TypesInv, CallsInv, SnapshotInv, [SvNext]_svVars
  PROVE  SnapshotInv'
<1>1. ASSUME NEW c \in SvCall, CallActions(c) PROVE SnapshotInv'
  BY <1>1, BeginFits, CommitFits, OtherCallsFit
<1>2. CASE SvRestart
  <2>1. db' = db /\ call' = [d \in SvCall |-> Idle]
    BY <1>2 DEF SvRestart
  <2> QED
    BY <2>1, Names DEF SnapshotInv
<1> QED
  BY <1>1, <1>2, BystandersFit, SvSteps

-----------------------------------------------------------------------------
(* The theorems.                                                           *)

LEMMA InitHolds ==
  ASSUME SvInit
  PROVE  SvIInv
<1> DEFINE over == [h \in SvHost |-> [enforce |-> "unset", contribute |-> "unset"]]
           fleet == [ip \in SvAddr |-> "none"]
<1>1. over \in [SvHost -> SvOverride] /\ fleet \in [SvAddr -> FleetRow] /\ \A h \in SvHost : over[h].enforce = "unset"
  BY DEF SvOverride, Tri, FleetRow
<1> HIDE DEF over, fleet
<1>2. db = [set |-> InitSettings, ver |-> 1, over |-> over, ev |-> {}, active |-> {}, fleet |-> fleet, supp |-> {}]
  BY DEF SvInit, over, fleet
<1>3. InitSettings \in SvSettings /\ (InitSettings.enforce => InitSettings.allow # {}) /\ MaxWork \in Nat /\ MaxLost \in Nat
  BY BanServiceAssumption
<1>4. db \in Tables /\ db.ver = 1 /\ db.set = InitSettings /\ db.ev = {} /\ db.over = over
  BY <1>1, <1>2, <1>3 DEF Tables
<1>5. 1 \in 1..db.ver /\ 0 \in 0..MaxWork /\ 0 \in 0..MaxLost
  BY <1>3, <1>4
<1>6. view \in [SvHost -> [ver : Nat, pol : SvPolicy]] /\ \A h \in SvHost : view[h].ver = 1
  <2>1. view = [h \in SvHost |-> AgentConfig(db, h)]
    BY DEF SvInit
  <2>2. \A h \in SvHost : AgentConfig(db, h) \in [ver : Nat, pol : SvPolicy] /\ AgentConfig(db, h).ver = 1
    BY <1>4, ConfigType
  <2> QED
    BY <2>1, <2>2
<1>7. cached \in [set : SvSettings, ver : Nat] /\ cached.ver = 1 /\ published = 1
  <2>1. cached = [set |-> db.set, ver |-> 1] /\ published = 1
    BY DEF SvInit
  <2> QED
    BY <1>3, <1>4, <2>1
<1>8. rowLock \in [LockedRow -> SvCall \cup {"free"}] /\ lost \in BOOLEAN /\ work = 0 /\ losses = 0
  BY DEF SvInit
<1>9. SvTypeOK
  <2>1. /\ db.set \in SvSettings /\ db.over \in [SvHost -> SvOverride] /\ db.ver \in Nat
        /\ db.fleet \in [SvAddr -> FleetRow] /\ db.supp \subseteq SvAddr /\ db.active \subseteq SvHost \X SvAddr
    BY <1>4 DEF Tables
  <2>2. cached.set \in SvSettings /\ cached.ver \in 1..db.ver /\ published \in 1..db.ver
    BY <1>5, <1>7
  <2>3. \A h \in SvHost : view[h].pol \in SvPolicy /\ view[h].ver \in 1..db.ver
    BY <1>5, <1>6
  <2> QED
    BY <1>5, <1>8, <2>1, <2>2, <2>3 DEF SvTypeOK
<1>10. call = [c \in SvCall |-> Idle] /\ dirty = [c \in SvCall |-> {}]
  BY DEF SvInit
<1>11. TypesInv
  <2>1. call = [c \in SvCall |-> call[c]] /\ dirty = [c \in SvCall |-> dirty[c]] /\ \A c \in SvCall : call[c] = Idle
    BY <1>10
  <2> QED
    BY <1>4, <1>6, <1>7, <1>9, <2>1, Names DEF TypesInv
<1>12. CallsInv
  BY <1>10, Names DEF CallsInv, CallOK
<1>13. EnforcementHasAllowlist
  BY <1>1, <1>3, <1>4 DEF EnforcementHasAllowlist
<1>14. SnapshotInv
  BY <1>4, <1>10, Names, FS_EmptySet DEF SnapshotInv, OneRowEach
<1> QED
  BY <1>11, <1>12, <1>13, <1>14 DEF SvIInv

LEMMA StepHolds ==
  ASSUME SvIInv, [SvNext]_svVars
  PROVE  SvIInv'
BY CallsHold, TypesHold, AllowlistHolds, SnapshotHolds DEF SvIInv

\* The inductive invariant: the locks, the snapshots and the types.
THEOREM SvIInvHolds == SvSpec => []SvIInv
<1>1. SvInit => SvIInv
  BY InitHolds
<1>2. SvIInv /\ [SvNext]_svVars => SvIInv'
  BY StepHolds
<1> QED
  BY <1>1, <1>2, PTL DEF SvSpec

\* UpdateSettings and UpdateHostPolicy never leave enforcement on without an
\* allowlist, and no number is ahead of the committed one.
THEOREM PolicyCorrect == SvSpec => []PolicyInv
<1>1. SvIInv => PolicyInv
  BY DEF SvIInv, TypesInv, PolicyInv
<1> QED
  BY <1>1, SvIInvHolds, PTL

\* Only the commit of a report makes an automatic fleet ban.
LEMMA FreshSteps ==
  ASSUME SvIInv, [SvNext]_svVars
  PROVE  NobodyFresh \/ \E c \in SvCall : IngestCommit(c)
<1> USE DEF SvIInv
<1>1. ASSUME NEW c \in SvCall, CallActions(c) PROVE NobodyFresh \/ IngestCommit(c)
  <2>1. CASE db' = db
    BY <2>1, SameDb
  <2> QED
    BY <1>1, <2>1, Begins, DbSettings, DbHost, DbOthers, PublishesSteady DEF CallActions, CallStep
<1>2. CASE SvRestart
  BY <1>2, SameDb DEF SvRestart
<1> QED
  BY <1>1, <1>2, BystandersSteady, SvSteps

LEMMA BansStep ==
  ASSUME SvIInv, [SvNext]_svVars
  PROVE  AnnouncedBansRespectOperator /\ PromotionHasEvidence
<1> SUFFICES ASSUME NEW ip \in SvAddr, db.fleet[ip] = "none", db'.fleet[ip] = "fresh", db'.ver > db.ver
             PROVE  ip \notin db.supp /\ ip \notin db.set.allow /\ Enough(db'.ev, ip)
  BY DEF AnnouncedBansRespectOperator, PromotionHasEvidence, Enough, Bans
<1>1. TypesInv /\ CallsInv /\ SnapshotInv
  BY DEF SvIInv
<1>2. PICK c \in SvCall : IngestCommit(c)
  BY FreshSteps DEF NobodyFresh
<1>3. db'.ev = db.ev \cup call[c].new /\ db'.ver = (IF call[c].bump THEN db.ver + 1 ELSE db.ver) /\ ip \in call[c].fleet
  BY <1>1, <1>2, DbIngest
<1>4. call[c].bump
  <2>1. db.ver \in Nat
    BY <1>1 DEF TypesInv, Tables
  <2>2. ~(db.ver > db.ver)
    BY <2>1
  <2> QED
    BY <1>3, <2>2
<1>5. call[c].pc = "ingest" /\ call[c].ver = db.ver
  BY <1>2, <1>4 DEF IngestCommit, Serializable
<1>6. Fits(call[c], db, dirty[c])
  BY <1>1, <1>5, SnapshotIs
<1> QED
  BY <1>3, <1>4, <1>5, <1>6 DEF Fits

\* A fleet ban that Ingest announces is allowed by the operators' settings and
\* rests on enough evidence, whatever ran between its snapshot and its commit.
THEOREM FleetBansHold == SvSpec => FleetBansAreJustified
<1>1. SvIInv /\ [SvNext]_svVars => [AnnouncedBansRespectOperator /\ PromotionHasEvidence]_svVars
  BY BansStep
<1> QED
  BY <1>1, SvIInvHolds, PTL DEF SvSpec, FleetBansAreJustified

LEMMA AuthorityStep ==
  ASSUME SvIInv, [SvNext]_svVars
  PROVE  [Authority!AuthNext]_(Authority!authVars)
<1> DEFINE P == [h \in SvHost |-> AgentConfig(db, h).pol]
<1>1. TypesInv /\ CallsInv /\ SnapshotInv
  BY DEF SvIInv
<1>2. DbOK
  BY <1>1, CallsHold
<1>3. db'.ver = db.ver => P' = P
  BY <1>2 DEF DbOK, AgentConfig
<1>4. P' \in [SvHost -> SvPolicy]
  <2>1. \A h \in SvHost : AgentConfig(db', h) \in [ver : Nat, pol : SvPolicy]
    BY <1>2, ConfigType DEF DbOK
  <2>2. \A h \in SvHost : AgentConfig(db', h).pol \in SvPolicy
    BY <2>1
  <2> QED
    BY <2>2
<1>5. ASSUME NEW h \in SvHost, AgentFetches(h) PROVE Authority!Learn(h)
  <2>1. db' = db /\ view' = [view EXCEPT ![h] = AgentConfig(db, h)]
    BY <1>5 DEF AgentFetches
  <2>2. AgentConfig(db, h) = [ver |-> db.ver, pol |-> P[h]]
    BY DEF AgentConfig
  <2>3. P' = P
    BY <1>3, <2>1
  <2> HIDE DEF P
  <2>4. view' = [view EXCEPT ![h] = [ver |-> db.ver, pol |-> P[h]]] /\ db'.ver = db.ver /\ P' = P
    BY <2>1, <2>2, <2>3
  <2> QED
    BY <2>4 DEF Authority!Learn, Authority!Current, P
<1>6. CASE UNCHANGED view /\ db'.ver = db.ver
  BY <1>3, <1>6 DEF Authority!authVars
<1>7. CASE UNCHANGED view /\ db'.ver = db.ver + 1
  BY <1>4, <1>7 DEF Authority!AuthNext, Authority!Decree
<1> QED
  BY <1>2, <1>5, <1>6, <1>7, ViewSteps DEF DbOK, Authority!AuthNext

\* The service implements one numbered policy: what an agent fetches under a number
\* is what was committed under this number.
THEOREM AuthorityImplemented == SvSpec => ImplementsAuthority
<1>1. SvInit => Authority!AuthInit
  <2> SUFFICES ASSUME SvInit PROVE Authority!AuthInit
    OBVIOUS
  <2>1. db \in Tables /\ db.ver = 1
    <3>1. TypesInv
      BY InitHolds DEF SvIInv
    <3> QED
      BY <3>1 DEF SvInit, TypesInv
  <2>2. \A h \in SvHost : AgentConfig(db, h) \in [ver : Nat, pol : SvPolicy]
    BY <2>1, ConfigType
  <2>3. [h \in SvHost |-> AgentConfig(db, h).pol] \in [SvHost -> SvPolicy]
    BY <2>2
  <2>4. view = [h \in SvHost |-> AgentConfig(db, h)]
    BY DEF SvInit
  <2>5. \A h \in SvHost : AgentConfig(db, h) = [ver |-> db.ver, pol |-> [g \in SvHost |-> AgentConfig(db, g).pol][h]]
    BY DEF AgentConfig
  <2> QED
    BY <2>1, <2>3, <2>4, <2>5 DEF Authority!AuthInit, Authority!Current
<1>2. SvIInv /\ [SvNext]_svVars => [Authority!AuthNext]_(Authority!authVars)
  BY AuthorityStep
<1> QED
  BY <1>1, <1>2, SvIInvHolds, PTL DEF SvSpec, ImplementsAuthority, Authority!AuthSpec
=============================================================================
