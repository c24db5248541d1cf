--------------------------- MODULE RepoStoreProofs ---------------------------
(***************************************************************************)
(* Proofs about RepoStore for every set of requests and objects, every     *)
(* size, quota and kind of backend, and any number of requests, failures   *)
(* and operations of the operator.                                         *)
(*                                                                         *)
(* What the row of a repository has to cover is not what the store holds:  *)
(* between its reservation and the end of its request an upload is owed,   *)
(* and an object stored without a reservation is owed to the row until the *)
(* late accounting.  The inductive invariant therefore bounds the usage by *)
(* a sum over the store and over the requests, an unaccounted object       *)
(* counting negatively (UsageCovers), and keeps the bound while there is   *)
(* no row at all.  The rest says which row a request was let in for.       *)
(***************************************************************************)
EXTENDS RepoStore, TLAPS, WellFoundedInduction, FiniteSetTheorems

Request ==
    [pc : RsPcs, obj : RsObjects \cup {""}, body : RsContents \cup {"delete", ""}, secret : Nat, id : Nat,
     reserved : BOOLEAN, freed : Nat, rows : [id : Nat, secret : Nat, revoked : BOOLEAN]]

Works(c) == rsReq[c].pc \notin {"idle", "refresh"}

\* What a request is when: whom it works for, what it removes, what it has reserved.
RequestOK(r) ==
    /\ r.rows.id \in 0..rsIds /\ r.rows.secret \in 0..rsIds
    /\ r.pc = "idle" => r = RsIdle
    /\ r.pc # "idle" => r.obj \in RsObjects
    /\ r.pc \notin {"idle", "refresh"} => r.id \in 1..rsIds
    /\ r.pc \in {"idle", "refresh", "authed", "stat", "unlink", "late"} => ~r.reserved
    /\ r.body = "delete" \/ r.pc = "unlink" => r.obj \in RsLocks
    /\ r.pc \in {"refresh", "authed"} => r.body \in RsContents \cup {"delete"}
    /\ r.pc \in {"stat", "create", "commit"} => r.body \in RsContents
    /\ r.pc = "unlink" => r.freed \in {0, RsSize[r.obj]}
    /\ r.pc = "commit" /\ rsBackend = "s3plain" => r.obj \in RsLocks

RequestsInv ==
    /\ rsIds \in Nat
    /\ rsReq \in [RsClients -> Request]
    /\ \A c \in RsClients : RequestOK(rsReq[c])

RestInv ==
    /\ rsAdmin.seen \in Nat /\ rsAdmin.overlap \in BOOLEAN /\ rsRaced \in BOOLEAN /\ rsCeil \in Nat
    /\ rsOwner \in [RsObjects -> Nat] /\ rsAcked \in [RsObjects -> SUBSET RsContents]
    /\ rsAdmin = [pc |-> rsAdmin.pc, seen |-> rsAdmin.seen, overlap |-> rsAdmin.overlap]
    /\ rsCache = [fresh |-> rsCache.fresh, entry |-> rsCache.entry]

\* A fresh cache and a request that has just read the rows know the row of
\* today, unless a credential changed between a reading and its use.
CredentialsInv ==
    ~rsRaced =>
        /\ rsCache.fresh /\ rsAdmin.pc # "invalidate" => rsCache.entry = Entry
        /\ \A c \in RsClients : rsReq[c].pc = "refresh" => rsReq[c].rows = Entry
        /\ rsCache.fresh /\ rsRow.id # 0 => rsCache.entry.id \in {0, rsRow.id}

\* A new row was inserted with no request and no object about.
InsertInv ==
    /\ rsAdmin.pc = "insert" => rsRow.id = 0
    /\ rsAdmin.pc = "insert" /\ ~rsAdmin.overlap => Busy = {} /\ \A o \in RsObjects : rsObjs[o] = Absent
    /\ rsRow.id # 0 /\ "created" \notin rsCauses /\ ~rsRaced =>
          \A c \in RsClients : Works(c) => rsReq[c].id = rsRow.id

\* What a revoked row still owes was reserved before it was revoked.
RevokedInv ==
    rsRow.revoked =>
        \A c \in RsClients :
           rsReq[c].reserved /\ rsReq[c].id = rsRow.id /\ RsSize[rsReq[c].obj] > 0 => c \in rsCaught

\* What a request will still take from the usage, or has to add to it.
Due(c) ==
    IF rsReq[c].pc = "late" THEN -RsSize[rsReq[c].obj]
    ELSE IF rsReq[c].reserved \/ (rsReq[c].pc = "release" /\ rsReq[c].id = rsRow.id) THEN RsSize[rsReq[c].obj]
    ELSE 0

RsDue == [c \in RsClients |-> Due(c)]
DueSum == SumFunction(RsDue)
Cover == Bytes + DueSum

UsageCovers ==
    rsCauses = {} =>
        /\ rsRow.id # 0 => Cover <= rsRow.used
        /\ rsRow.id # 0 /\ rsCeil # 0 => rsRow.used <= rsCeil /\ rsRow.quota # 0 /\ rsRow.quota <= rsCeil
        /\ rsRow.id = 0 /\ rsCeil # 0 => Cover <= rsCeil
        /\ rsAdmin.pc = "measured" /\ ~rsAdmin.overlap =>
              Busy = {} /\ Bytes <= rsAdmin.seen /\ (rsCeil # 0 => rsAdmin.seen <= rsCeil)

RsIInv ==
    /\ RsTypeOK /\ RequestsInv /\ RestInv
    /\ CredentialsInv /\ InsertInv /\ RevokedInv /\ NoRebinding /\ AckedIsStored /\ UsageCovers

-----------------------------------------------------------------------------
(* Sums over finite sets: by the smallest subset for which a sum is wrong. *)

LEMMA Least ==
  ASSUME NEW S \in SUBSET Nat, S # {}
  PROVE  \E x \in S : \A y \in S : x <= y
<1> DEFINE R == OpToRel(<, Nat)
<1>1. IsWellFoundedOn(R, Nat)
  BY NatLessThanWellFounded
<1>2. \A x, y \in Nat : y < x => <<y, x>> \in R
  BY DEF OpToRel
<1> HIDE DEF R
<1>3. PICK x \in S : \A y \in S : ~(<<y, x>> \in R)
  BY <1>1, WFMin
<1>4. ASSUME NEW y \in S PROVE x <= y
  <2>1. x \in Nat /\ y \in Nat
    OBVIOUS
  <2>2. ~(y < x)
    BY <1>2, <1>3, <2>1
  <2> QED
    BY <2>1, <2>2
<1> QED
  BY <1>4

\* A family of subsets of a finite set has a member none of whose elements
\* can be taken out.
LEMMA LeastSet ==
  ASSUME NEW D, IsFiniteSet(D), NEW Bad \in SUBSET (SUBSET D), Bad # {}
  PROVE  \E s \in Bad : \A x \in s : s \ {x} \notin Bad
<1> DEFINE N == {Cardinality(s) : s \in Bad}
<1>1. \A s \in SUBSET D : IsFiniteSet(s) /\ Cardinality(s) \in Nat
  BY FS_Subset, FS_CardinalityType
<1>2. PICK n \in N : \A m \in N : n <= m
  <2>1. N \in SUBSET Nat /\ N # {}
    BY <1>1
  <2> HIDE DEF N
  <2> QED
    BY <2>1, Least
<1>3. PICK s \in Bad : n = Cardinality(s)
  OBVIOUS
<1>4. ASSUME NEW x \in s, s \ {x} \in Bad PROVE FALSE
  <2>1. Cardinality(s \ {x}) = Cardinality(s) - 1
    BY <1>1, <1>3, FS_RemoveElement
  <2>2. Cardinality(s) <= Cardinality(s \ {x})
    BY <1>2, <1>3, <1>4
  <2> QED
    BY <2>1, <2>2, <1>1, <1>3
<1> QED
  BY <1>4, <1>3

Adds(D, w, it) ==
  it = [s \in SUBSET D |-> IF s = {} THEN 0 ELSE LET x == CHOOSE y \in s : TRUE IN w[x] + it[s \ {x}]]
Partial(w) == CHOOSE it : Adds(DOMAIN w, w, it)

LEMMA SumIs == ASSUME NEW w PROVE SumFunction(w) = Partial(w)[DOMAIN w]
  BY Zenon DEF SumFunction, SumFunctionOnSet, FoldFunctionOnSet, MapThenFoldSet, Partial, Adds

LEMMA PartialExists ==
  ASSUME NEW D, IsFiniteSet(D), NEW w \in [D -> Int]
  PROVE  \E it : Adds(D, w, it)
<1> DEFINE Small(n) == {s \in SUBSET D : Cardinality(s) <= n}
           Next(it, s) == IF s = {} THEN 0 ELSE LET x == CHOOSE y \in s : TRUE IN w[x] + it[s \ {x}]
           Good(n) == \E it : \A s \in Small(n) : it[s] = Next(it, s)
           Bad == {n \in Nat : ~Good(n)}
<1>1. \A s \in SUBSET D : IsFiniteSet(s) /\ Cardinality(s) \in Nat
  BY FS_Subset, FS_CardinalityType
<1>2. \A s \in SUBSET D : s # {} => (CHOOSE y \in s : TRUE) \in s
  OBVIOUS
<1>3. ASSUME NEW n \in Nat, n # 0, Good(n - 1) PROVE Good(n)
  <2>1. PICK f : \A s \in Small(n - 1) : f[s] = Next(f, s)
    BY <1>3
  <2> DEFINE g == [s \in SUBSET D |-> Next(f, s)]
  <2>2. \A s \in Small(n - 1) : g[s] = f[s]
    <3> HIDE DEF Next
    <3> QED
      BY <2>1
  <2>3. ASSUME NEW s \in Small(n), s # {} PROVE s \ {CHOOSE y \in s : TRUE} \in Small(n - 1)
    <3>1. PICK x \in s : x = CHOOSE y \in s : TRUE
      BY <1>2, <2>3
    <3>2. Cardinality(s \ {x}) = Cardinality(s) - 1
      BY <1>1, <3>1, FS_RemoveElement
    <3>3. Cardinality(s \ {x}) <= n - 1
      BY <3>2, <1>1
    <3> QED
      BY <3>1, <3>3
  <2>4. ASSUME NEW s \in Small(n) PROVE g[s] = Next(g, s)
    <3>1. CASE s = {}
      BY <3>1
    <3>2. CASE s # {}
      <4>1. g[s \ {CHOOSE y \in s : TRUE}] = f[s \ {CHOOSE x \in s : TRUE}]
        <5> HIDE DEF g, Small
        <5> QED
          BY <2>2, <2>3, <3>2
      <4>2. g[s] = Next(f, s)
        OBVIOUS
      <4> HIDE DEF g
      <4> QED
        BY <4>1, <4>2, <3>2
    <3> QED
      BY <3>1, <3>2
  <2> HIDE DEF g, Next, Small
  <2> QED
    BY <2>4
<1>4. Good(0)
  <2>1. \A s \in Small(0) : s = {}
    <3> SUFFICES ASSUME NEW s \in Small(0) PROVE s = {}
      OBVIOUS
    <3>1. Cardinality(s) = 0
      BY <1>1
    <3> QED
      BY <3>1, <1>1, FS_EmptySet
  <2> DEFINE f == [s \in SUBSET D |-> 0]
  <2>2. \A s \in Small(0) : f[s] = Next(f, s)
    BY <2>1
  <2> HIDE DEF f, Next, Small
  <2> QED
    BY <2>2
<1>5. Bad = {}
  <2> SUFFICES ASSUME Bad # {} PROVE FALSE
    OBVIOUS
  <2>1. PICK n \in Bad : \A m \in Bad : n <= m
    <3>1. Bad \in SUBSET Nat
      OBVIOUS
    <3> HIDE DEF Bad
    <3> QED
      BY <3>1, Least
  <2>2. n \in Nat /\ ~Good(n) /\ n # 0
    <3> HIDE DEF Good
    <3> QED
      BY <1>4
  <2>3. n - 1 \in Nat /\ ~(n <= n - 1)
    BY <2>2
  <2>4. Good(n - 1)
    <3> HIDE DEF Good
    <3> QED
      BY <2>1, <2>3
  <2> HIDE DEF Good, Bad
  <2> QED
    BY <1>3, <2>2, <2>4
<1>6. Good(Cardinality(D))
  <2>1. Cardinality(D) \in Nat
    BY <1>1
  <2> HIDE DEF Good
  <2> QED
    BY <1>5, <2>1
<1>7. PICK f : \A s \in SUBSET D : f[s] = Next(f, s)
  <2>1. \A s \in SUBSET D : Cardinality(s) <= Cardinality(D)
    BY FS_Subset
  <2> HIDE DEF Next
  <2> QED
    BY <1>6, <2>1
<1> DEFINE g == [s \in SUBSET D |-> f[s]]
<1>8. g = [s \in SUBSET D |-> Next(g, s)]
  <2>1. \A s \in SUBSET D : f[s] = Next(g, s)
    BY <1>7
  <2> HIDE DEF Next
  <2> QED
    BY <2>1
<1> QED
  BY <1>8 DEF Adds

LEMMA PartialAdds ==
  ASSUME NEW D, IsFiniteSet(D), NEW w \in [D -> Int], NEW s \in SUBSET D
  PROVE  /\ s = {} => Partial(w)[s] = 0
         /\ s # {} => \E x \in s : Partial(w)[s] = w[x] + Partial(w)[s \ {x}]
<1>1. DOMAIN w = D
  OBVIOUS
<1>2. Adds(D, w, Partial(w))
  BY <1>1, PartialExists DEF Partial
<1>3. Partial(w)[s] = IF s = {} THEN 0 ELSE LET x == CHOOSE y \in s : TRUE IN w[x] + Partial(w)[s \ {x}]
  BY <1>2 DEF Adds
<1>4. s # {} => (CHOOSE y \in s : TRUE) \in s
  OBVIOUS
<1> QED
  BY <1>3, <1>4

LEMMA PartialType ==
  ASSUME NEW D, IsFiniteSet(D), NEW w \in [D -> Int], NEW s \in SUBSET D
  PROVE  Partial(w)[s] \in Int
<1> DEFINE Bad == {t \in SUBSET D : Partial(w)[t] \notin Int}
<1>1. SUFFICES ASSUME Bad # {} PROVE FALSE
  OBVIOUS
<1>2. PICK t \in Bad : \A x \in t : t \ {x} \notin Bad
  <2>1. Bad \in SUBSET (SUBSET D)
    OBVIOUS
  <2> HIDE DEF Bad
  <2> QED
    BY <1>1, <2>1, LeastSet
<1>3. t # {}
  BY PartialAdds
<1>4. PICK x \in t : Partial(w)[t] = w[x] + Partial(w)[t \ {x}]
  BY <1>3, PartialAdds
<1>5. Partial(w)[t \ {x}] \in Int /\ w[x] \in Int
  BY <1>2
<1> QED
  BY <1>4, <1>5

\* The element taken out first does not matter.
LEMMA PartialRemove ==
  ASSUME NEW D, IsFiniteSet(D), NEW w \in [D -> Int], NEW s \in SUBSET D, NEW x \in s
  PROVE  Partial(w)[s] = w[x] + Partial(w)[s \ {x}]
<1> DEFINE Bad == {t \in SUBSET D : \E y \in t : Partial(w)[t] # w[y] + Partial(w)[t \ {y}]}
<1>1. SUFFICES ASSUME Bad # {} PROVE FALSE
  OBVIOUS
<1>2. PICK t \in Bad : \A y \in t : t \ {y} \notin Bad
  <2>1. Bad \in SUBSET (SUBSET D)
    OBVIOUS
  <2> HIDE DEF Bad
  <2> QED
    BY <1>1, <2>1, LeastSet
<1>3. PICK y \in t : Partial(w)[t] # w[y] + Partial(w)[t \ {y}]
  OBVIOUS
<1>4. PICK z \in t : Partial(w)[t] = w[z] + Partial(w)[t \ {z}]
  BY <1>3, PartialAdds
<1>5. y # z
  BY <1>3, <1>4
<1>6. Partial(w)[t \ {z}] = w[y] + Partial(w)[(t \ {z}) \ {y}]
  BY <1>2, <1>5
<1>7. Partial(w)[t \ {y}] = w[z] + Partial(w)[(t \ {y}) \ {z}]
  BY <1>2, <1>5
<1>8. (t \ {z}) \ {y} = (t \ {y}) \ {z}
  OBVIOUS
<1>9. w[y] \in Int /\ w[z] \in Int /\ Partial(w)[(t \ {y}) \ {z}] \in Int
  BY PartialType
<1>10. PICK p \in Int : p = Partial(w)[(t \ {y}) \ {z}]
  BY <1>9
<1>11. Partial(w)[t \ {z}] = w[y] + p /\ Partial(w)[t \ {y}] = w[z] + p
  BY <1>6, <1>7, <1>8, <1>10
<1>12. w[z] + (w[y] + p) = w[y] + (w[z] + p)
  BY <1>9
<1> QED
  BY <1>3, <1>4, <1>11, <1>12

\* A sum of no larger numbers is no larger.
LEMMA PartialLe ==
  ASSUME NEW D, IsFiniteSet(D), NEW v \in [D -> Int], NEW w \in [D -> Int], NEW s \in SUBSET D,
         \A x \in s : v[x] <= w[x]
  PROVE  Partial(v)[s] <= Partial(w)[s]
<1> DEFINE Bad == {t \in SUBSET s : ~(Partial(v)[t] <= Partial(w)[t])}
<1>1. SUFFICES ASSUME Bad # {} PROVE FALSE
  OBVIOUS
<1>2. PICK t \in Bad : \A y \in t : t \ {y} \notin Bad
  <2>1. Bad \in SUBSET (SUBSET D)
    OBVIOUS
  <2> HIDE DEF Bad
  <2> QED
    BY <1>1, <2>1, LeastSet
<1>3. t # {}
  BY PartialAdds
<1>4. PICK x \in t : TRUE
  BY <1>3
<1>5. Partial(v)[t] = v[x] + Partial(v)[t \ {x}]
  BY PartialRemove
<1>6. Partial(w)[t] = w[x] + Partial(w)[t \ {x}]
  BY PartialRemove
<1>7. Partial(v)[t \ {x}] <= Partial(w)[t \ {x}]
  BY <1>2
<1>8. Partial(v)[t \ {x}] \in Int /\ Partial(w)[t \ {x}] \in Int
  BY PartialType
<1>9. v[x] <= w[x] /\ v[x] \in Int /\ w[x] \in Int
  OBVIOUS
<1>10. Partial(v)[t] <= Partial(w)[t]
  <2> HIDE DEF Bad
  <2> QED
    BY <1>5, <1>6, <1>7, <1>8, <1>9
<1> QED
  BY <1>10

LEMMA SumType ==
  ASSUME NEW D, IsFiniteSet(D), NEW w \in [D -> Int]
  PROVE  SumFunction(w) \in Int
BY SumIs, PartialType

LEMMA SumLe ==
  ASSUME NEW D, IsFiniteSet(D), NEW v \in [D -> Int], NEW w \in [D -> Int], \A x \in D : v[x] <= w[x]
  PROVE  SumFunction(v) <= SumFunction(w)
BY SumIs, PartialLe

LEMMA SumZero ==
  ASSUME NEW D, IsFiniteSet(D)
  PROVE  SumFunction([x \in D |-> 0]) = 0
<1> DEFINE w == [x \in D |-> 0]
           Bad == {t \in SUBSET D : Partial(w)[t] # 0}
<1>1. w \in [D -> Int] /\ DOMAIN w = D
  OBVIOUS
<1>2. Bad = {}
  <2> SUFFICES ASSUME Bad # {} PROVE FALSE
    OBVIOUS
  <2>1. PICK t \in Bad : \A y \in t : t \ {y} \notin Bad
    <3>1. Bad \in SUBSET (SUBSET D)
      OBVIOUS
    <3> HIDE DEF Bad
    <3> QED
      BY <3>1, LeastSet
  <2>2. \A x \in D : w[x] = 0
    OBVIOUS
  <2> HIDE DEF w
  <2>3. t \in SUBSET D /\ Partial(w)[t] # 0
    OBVIOUS
  <2>4. PICK x \in t : Partial(w)[t] = w[x] + Partial(w)[t \ {x}]
    BY <2>3, <1>1, PartialAdds
  <2>5. Partial(w)[t \ {x}] = 0 /\ w[x] = 0
    BY <2>1, <2>2
  <2> QED
    BY <2>3, <2>4, <2>5
<1>3. Partial(w)[D] = 0
  BY <1>2
<1> HIDE DEF w
<1> QED
  BY <1>1, <1>3, SumIs DEF w

\* Changing one number changes the sum by the difference.
LEMMA SumUpdate ==
  ASSUME NEW D, IsFiniteSet(D), NEW v \in [D -> Int], NEW w \in [D -> Int], NEW x \in D,
         \A y \in D : y # x => v[y] = w[y]
  PROVE  SumFunction(w) = SumFunction(v) - v[x] + w[x]
<1>1. Partial(v)[D] = v[x] + Partial(v)[D \ {x}]
  BY PartialRemove
<1>2. Partial(w)[D] = w[x] + Partial(w)[D \ {x}]
  BY PartialRemove
<1>3. Partial(v)[D \ {x}] <= Partial(w)[D \ {x}]
  <2>1. \A y \in D \ {x} : v[y] <= w[y]
    <3>1. \A y \in D \ {x} : v[y] = w[y] /\ v[y] \in Int
      OBVIOUS
    <3> QED
      BY <3>1
  <2> QED
    BY <2>1, PartialLe
<1>4. Partial(w)[D \ {x}] <= Partial(v)[D \ {x}]
  <2>1. \A y \in D \ {x} : w[y] <= v[y]
    <3>1. \A y \in D \ {x} : w[y] = v[y] /\ v[y] \in Int
      OBVIOUS
    <3> QED
      BY <3>1
  <2> QED
    BY <2>1, PartialLe
<1>5. Partial(w)[D \ {x}] \in Int /\ Partial(v)[D \ {x}] \in Int /\ v[x] \in Int /\ w[x] \in Int
  BY PartialType
<1>6. SumFunction(v) = Partial(v)[D] /\ SumFunction(w) = Partial(w)[D]
  BY SumIs
<1> QED
  BY <1>1, <1>2, <1>3, <1>4, <1>5, <1>6

-----------------------------------------------------------------------------
(* Requests.                                                               *)

LEMMA Names ==
  /\ RsObjects # {} => RsSize \in [RsObjects -> Nat]
  /\ RsLocks \subseteq RsObjects /\ RsGood \in RsContents
  /\ "delete" \notin RsContents /\ Absent \notin RsContents
BY RsAssumption DEF RsObjects, Absent

LEMMA Sizes ==
  ASSUME NEW o \in RsObjects
  PROVE  RsSize[o] \in Nat
BY RsAssumption

LEMMA IdleRequest == RsIdle \in Request
BY DEF RsIdle, Request, RsPcs, NoEntry

LEMMA IdleOK == RequestsInv => RequestOK(RsIdle)
<1>1. /\ RsIdle.pc = "idle" /\ RsIdle.body = "" /\ ~RsIdle.reserved
      /\ RsIdle.rows.id = 0 /\ RsIdle.rows.secret = 0
  BY DEF RsIdle, NoEntry
<1>2. RequestsInv => 0 \in 0..rsIds
  BY DEF RequestsInv
<1> QED
  BY <1>1, <1>2 DEF RequestOK

\* A request that has not got as far as a reservation.
LEMMA EarlyOK ==
  ASSUME NEW r, r.pc \in {"refresh", "authed"}, r.obj \in RsObjects, r.body \in RsContents \cup {"delete"},
         r.body = "delete" => r.obj \in RsLocks, ~r.reserved, r.rows.id \in 0..rsIds, r.rows.secret \in 0..rsIds,
         r.pc = "authed" => r.id \in 1..rsIds
  PROVE  RequestOK(r)
BY DEF RequestOK

LEMMA OneRequest ==
  ASSUME RequestsInv, NEW c \in RsClients, NEW r \in Request, RequestOK(r),
         rsReq' = [rsReq EXCEPT ![c] = r], UNCHANGED <<rsIds, rsBackend>>
  PROVE  RequestsInv'
BY DEF RequestsInv, RequestOK

\* Each step of a request changes that request, into one that is well formed.
LEMMA RequestStep ==
  ASSUME RsTypeOK, RequestsInv, NEW c \in RsClients, RsRequest(c)
  PROVE  \E r \in Request : RequestOK(r) /\ rsReq' = [rsReq EXCEPT ![c] = r]
<1>1. rsReq[c] \in Request /\ RequestOK(rsReq[c]) /\ rsReq \in [RsClients -> Request] /\ rsIds \in Nat
  BY DEF RequestsInv
<1>2. RsIdle \in Request /\ RequestOK(RsIdle)
  BY IdleRequest, IdleOK
<1> DEFINE go(pc) == [rsReq[c] EXCEPT !.pc = pc]
<1>3. ASSUME Answered(c) PROVE rsReq' = [rsReq EXCEPT ![c] = RsIdle]
  BY <1>3 DEF Answered
<1>4. ASSUME NEW pc, Go(c, pc) PROVE rsReq' = [rsReq EXCEPT ![c] = go(pc)]
  BY <1>1, <1>4 DEF Go
<1>5. \A pc \in RsPcs : go(pc) \in Request
  BY <1>1 DEF Request
<1>6. ASSUME NEW o \in RsObjects, NEW b \in RsContents \cup {"delete"}, NEW s \in 1..rsIds, RsArrive(c, o, b, s),
             b = "delete" => o \in RsLocks
      PROVE  \E r \in Request : RequestOK(r) /\ rsReq' = [rsReq EXCEPT ![c] = r]
  <2> DEFINE new == [RsIdle EXCEPT !.obj = o, !.body = b]
  <2>1. PICK r : /\ rsReq' = [rsReq EXCEPT ![c] = r]
                 /\ \/ r = [new EXCEPT !.pc = "refresh", !.secret = s, !.rows = Entry]
                    \/ r = [new EXCEPT !.pc = "authed", !.id = rsCache.entry.id] /\ rsCache.entry.id # 0
    BY <1>6 DEF RsArrive, Matches
  <2>2. /\ Entry \in [id : Nat, secret : Nat, revoked : BOOLEAN]
        /\ Entry.id \in 0..rsIds /\ Entry.secret \in 0..rsIds
        /\ rsCache.entry.id \in 0..rsIds
    BY <1>1 DEF RsTypeOK, Entry
  <2>3. CASE r = [new EXCEPT !.pc = "refresh", !.secret = s, !.rows = Entry]
    <3>1. r = [pc |-> "refresh", obj |-> o, body |-> b, secret |-> s, id |-> 0, reserved |-> FALSE, freed |-> 0,
               rows |-> Entry]
      BY <2>3 DEF RsIdle
    <3>2. r \in Request
      <4>1. s \in Nat
        BY <1>1
      <4> QED
        BY <2>2, <3>1, <4>1 DEF Request, RsPcs
    <3>3. RequestOK(r)
      BY <1>6, <2>2, <3>1, EarlyOK
    <3> QED
      BY <2>1, <3>2, <3>3
  <2>4. CASE r = [new EXCEPT !.pc = "authed", !.id = rsCache.entry.id] /\ rsCache.entry.id # 0
    <3>1. r = [pc |-> "authed", obj |-> o, body |-> b, secret |-> 0, id |-> rsCache.entry.id, reserved |-> FALSE,
               freed |-> 0, rows |-> NoEntry]
      BY <2>4 DEF RsIdle
    <3>2. NoEntry \in [id : Nat, secret : Nat, revoked : BOOLEAN] /\ NoEntry.id = 0 /\ NoEntry.secret = 0
      BY DEF NoEntry
    <3>3. r \in Request
      <4>1. rsCache.entry.id \in Nat
        BY <1>1, <2>2
      <4> QED
        BY <3>1, <3>2, <4>1 DEF Request, RsPcs
    <3>4. rsCache.entry.id \in 1..rsIds /\ 0 \in 0..rsIds
      BY <1>1, <2>2, <2>4
    <3>5. RequestOK(r)
      BY <1>6, <3>1, <3>2, <3>4, EarlyOK
    <3> QED
      BY <2>1, <3>3, <3>5
  <2> QED
    BY <2>1, <2>3, <2>4
<1>7. CASE RsRefresh(c)
  <2>1. CASE Answered(c)
    BY <1>2, <1>3, <2>1
  <2>2. CASE ~Answered(c)
    <3>1. rsReq[c].pc = "refresh" /\ rsReq[c].rows.id # 0
      BY <1>7, <2>2 DEF RsRefresh, Matches
    <3>2. PICK r : r = [rsReq[c] EXCEPT !.pc = "authed", !.id = rsReq[c].rows.id, !.secret = 0, !.rows = NoEntry]
      OBVIOUS
    <3>3. rsReq' = [rsReq EXCEPT ![c] = r]
      BY <1>1, <1>7, <2>2, <3>2 DEF RsRefresh
    <3>4. NoEntry \in [id : Nat, secret : Nat, revoked : BOOLEAN] /\ NoEntry.id = 0 /\ NoEntry.secret = 0
      BY DEF NoEntry
    <3>5. r \in Request
      BY <1>1, <3>2, <3>4 DEF Request, RsPcs
    <3>6. /\ r.pc = "authed" /\ r.obj = rsReq[c].obj /\ r.body = rsReq[c].body /\ r.reserved = rsReq[c].reserved
          /\ r.rows = NoEntry /\ r.id = rsReq[c].rows.id
      BY <1>1, <3>2 DEF Request
    <3>7. rsReq[c].rows.id \in 1..rsIds /\ 0 \in 0..rsIds
      BY <1>1, <3>1 DEF RequestOK
    <3>8. RequestOK(r)
      BY <1>1, <3>1, <3>4, <3>6, <3>7, EarlyOK DEF RequestOK
    <3> QED
      BY <3>3, <3>5, <3>8
  <2> QED
    BY <2>1, <2>2
<1>8. CASE RsReserve(c)
  <2> DEFINE made == [rsReq[c] EXCEPT !.pc = "create", !.reserved = TRUE]
  <2>1. \/ rsReq' = [rsReq EXCEPT ![c] = made]
        \/ Go(c, "stat")
        \/ Answered(c)
    BY <1>1, <1>8 DEF RsReserve
  <2>2. rsReq[c].pc = "authed" /\ rsReq[c].body # "delete"
    BY <1>8 DEF RsReserve
  <2>3. made \in Request /\ RequestOK(made) /\ go("stat") \in Request /\ RequestOK(go("stat"))
    BY <1>1, <2>2 DEF Request, RequestOK, RsPcs
  <2> HIDE DEF made
  <2> QED
    BY <1>2, <1>3, <1>4, <2>1, <2>3
<1>9. CASE RsStat(c)
  <2>1. rsReq[c].pc = "stat" /\ (Answered(c) \/ Go(c, "create"))
    BY <1>9 DEF RsStat
  <2>2. go("create") \in Request /\ RequestOK(go("create"))
    BY <1>1, <2>1 DEF Request, RequestOK, RsPcs
  <2> QED
    BY <1>2, <1>3, <1>4, <2>1, <2>2
<1>10. CASE RsCreate(c) \/ RsCommit(c)
  <2>1. rsReq[c].pc \in {"create", "commit"}
    BY <1>10 DEF RsCreate, RsCommit
  <2>2. \/ Answered(c)
        \/ Go(c, "release") /\ rsReq[c].reserved
        \/ Go(c, "commit") /\ rsReq[c].pc = "create" /\ (rsBackend = "s3plain" => rsReq[c].obj \in RsLocks)
        \/ Go(c, "late") /\ ~rsReq[c].reserved
    BY <1>10 DEF RsCreate, RsCommit, Duplicate, Stored, Ambiguous
  <2>3. go("release") \in Request /\ RequestOK(go("release"))
    BY <1>1, <2>1 DEF Request, RequestOK, RsPcs
  <2>4. rsReq[c].pc = "create" /\ (rsBackend = "s3plain" => rsReq[c].obj \in RsLocks) =>
           go("commit") \in Request /\ RequestOK(go("commit"))
    BY <1>1 DEF Request, RequestOK, RsPcs
  <2>5. ~rsReq[c].reserved => go("late") \in Request /\ RequestOK(go("late"))
    BY <1>1, <2>1 DEF Request, RequestOK, RsPcs
  <2> QED
    BY <1>2, <1>3, <1>4, <2>2, <2>3, <2>4, <2>5
<1>11. CASE RsRelease(c) \/ RsLate(c)
  BY <1>2, <1>3, <1>11 DEF RsRelease, RsLate
<1>12. CASE RsDeleteStat(c)
  <2> DEFINE n == IF rsObjs[rsReq[c].obj] = Absent THEN 0 ELSE RsSize[rsReq[c].obj]
             finds == [rsReq[c] EXCEPT !.pc = "unlink", !.freed = n]
  <2>1. rsReq[c].pc = "authed" /\ rsReq[c].body = "delete" /\ rsReq' = [rsReq EXCEPT ![c] = finds]
    BY <1>1, <1>12 DEF RsDeleteStat
  <2>2. rsReq[c].obj \in RsObjects
    BY <1>1, <2>1 DEF RequestOK
  <2>3. n \in {0, RsSize[rsReq[c].obj]} /\ n \in Nat
    BY <2>2, Sizes
  <2>4. finds \in Request /\ RequestOK(finds)
    <3> HIDE DEF n
    <3> QED
      BY <1>1, <2>1, <2>3 DEF Request, RequestOK, RsPcs
  <2> HIDE DEF finds
  <2> QED
    BY <2>1, <2>4
<1>13. CASE RsUnlink(c)
  <2>1. rsReq[c].pc = "unlink" /\ (Answered(c) \/ Go(c, "release"))
    BY <1>13 DEF RsUnlink
  <2>2. go("release") \in Request /\ RequestOK(go("release"))
    BY <1>1, <2>1 DEF Request, RequestOK, RsPcs
  <2> QED
    BY <1>2, <1>3, <1>4, <2>1, <2>2
<1>14. CASE \E o \in RsObjects \ RsLocks, b \in RsContents, s \in 1..rsIds : RsArrive(c, o, b, s)
  BY <1>6, <1>14, Names
<1>15. CASE \E o \in RsLocks, b \in {RsGood, "delete"}, s \in 1..rsIds : RsArrive(c, o, b, s)
  BY <1>6, <1>15, Names
<1> QED
  BY <1>7, <1>8, <1>9, <1>10, <1>11, <1>12, <1>13, <1>14, <1>15 DEF RsRequest

-----------------------------------------------------------------------------
(* What each kind of step leaves alone.                                    *)

LEMMA ClientFrame ==
  ASSUME NEW c \in RsClients, RsRequest(c)
  PROVE  /\ UNCHANGED <<rsBackend, rsIds, rsCeil, rsRaced>>
         /\ rsAdmin' \in {rsAdmin, [rsAdmin EXCEPT !.overlap = rsAdmin.pc \in {"measured", "insert"}]}
<1>1. CASE \E o \in RsObjects : \E b, s : RsArrive(c, o, b, s)
  BY <1>1 DEF RsArrive
<1>2. RsRequest(c) => \/ \E o \in RsObjects : \E b, s : RsArrive(c, o, b, s)
                      \/ RsRefresh(c) \/ RsReserve(c) \/ RsStat(c) \/ RsCreate(c) \/ RsCommit(c) \/ RsRelease(c) \/ RsLate(c)
                      \/ RsDeleteStat(c) \/ RsUnlink(c)
  BY Names DEF RsRequest
<1>3. CASE RsRefresh(c) \/ RsReserve(c) \/ RsStat(c) \/ RsDeleteStat(c)
  BY <1>3 DEF RsRefresh, RsReserve, RsStat, RsDeleteStat, rsHistory
<1>4. CASE RsCreate(c) \/ RsCommit(c)
  BY <1>4 DEF RsCreate, RsCommit
<1>5. CASE RsRelease(c) \/ RsLate(c) \/ RsUnlink(c)
  BY <1>5 DEF RsRelease, RsLate, RsUnlink, rsHistory
<1> QED
  BY <1>1, <1>2, <1>3, <1>4, <1>5

LEMMA OperatorFrame ==
  ASSUME RsOperator
  PROVE  /\ UNCHANGED <<rsBackend, rsObjs, rsReq, rsOwner, rsAcked>>
         /\ rsIds' \in {rsIds, rsIds + 1}
         /\ rsRaced' = rsRaced \/ CredentialChanges
         /\ rsCeil' = rsCeil \/ \E q \in RsQuotas : rsCeil' \in {q, Wider(rsCeil, q)}
         /\ \/ AdminGo("idle") \/ AdminGo("invalidate") \/ AdminGo("delete")
            \/ rsAdmin' = [pc |-> "measured", seen |-> Bytes, overlap |-> Busy # {}]
            \/ rsAdmin' = [pc |-> "insert", seen |-> 0, overlap |-> Busy # {}]
<1>1. CASE RsRevoke \/ RsRotate \/ RsInvalidate
  BY <1>1 DEF RsRevoke, RsRotate, RsInvalidate, rsHistory
<1>2. CASE RsMeasure \/ RsSetUsage \/ RsDeleteCheck
  BY <1>2 DEF RsMeasure, RsSetUsage, RsDeleteCheck, rsHistory
<1>3. CASE RsDelete \/ RsCreateCheck
  BY <1>3 DEF RsDelete, RsCreateCheck, rsHistory
<1>4. CASE \E q \in RsQuotas : RsSetQuota(q) \/ RsInsert(q)
  BY <1>4 DEF RsSetQuota, RsInsert
<1> QED
  BY <1>1, <1>2, <1>3, <1>4 DEF RsOperator

WorldSteps == RsExpire \/ RsCrash \/ (\E o \in RsObjects : RsReclaim(o)) \/ UNCHANGED rsVars

LEMMA WorldFrame ==
  ASSUME WorldSteps
  PROVE  /\ UNCHANGED <<rsBackend, rsIds, rsRow, rsCeil, rsRaced, rsOwner>>
         /\ rsAdmin' \in {rsAdmin, AdminIdle}
         /\ rsCache' \in {rsCache, [fresh |-> FALSE, entry |-> NoEntry]}
<1>1. CASE RsExpire
  BY <1>1 DEF RsExpire, rsHistory
<1>2. CASE RsCrash
  BY <1>2 DEF RsCrash
<1>3. CASE \E o \in RsObjects : RsReclaim(o)
  BY <1>3 DEF RsReclaim
<1>4. CASE UNCHANGED rsVars
  BY <1>4 DEF rsVars
<1> QED
  BY <1>1, <1>2, <1>3, <1>4 DEF WorldSteps

LEMMA Steps ==
  ASSUME [RsNext]_rsVars
  PROVE  (\E c \in RsClients : RsRequest(c)) \/ RsOperator \/ WorldSteps
BY DEF RsNext, WorldSteps

-----------------------------------------------------------------------------
(* Types.                                                                  *)

LEMMA RequestsInvHolds ==
  ASSUME RsTypeOK, RequestsInv, [RsNext]_rsVars
  PROVE  RequestsInv'
<1>1. CASE \E c \in RsClients : RsRequest(c)
  <2>1. PICK c \in RsClients : RsRequest(c)
    BY <1>1
  <2>2. UNCHANGED <<rsIds, rsBackend>>
    BY <2>1 DEF RsRequest, RsArrive, RsRefresh, RsReserve, RsStat, RsCreate, RsCommit, RsRelease, RsLate, RsDeleteStat,
                RsUnlink, rsBounds, rsHistory
  <2> QED
    BY <2>1, <2>2, RequestStep, OneRequest
<1>2. CASE RsCrash
  <2>1. rsReq' = [c \in RsClients |-> RsIdle] /\ UNCHANGED <<rsIds, rsBackend>>
    BY <1>2 DEF RsCrash
  <2>2. RequestOK(RsIdle) /\ RsIdle \in Request
    BY IdleOK, IdleRequest
  <2>3. RequestOK(RsIdle)'
    BY <2>1, <2>2 DEF RequestOK
  <2> QED
    BY <2>1, <2>2, <2>3 DEF RequestsInv
<1>3. CASE UNCHANGED <<rsReq, rsBackend>> /\ rsIds' \in {rsIds, rsIds + 1}
  <2>1. 0..rsIds \subseteq 0..rsIds' /\ 1..rsIds \subseteq 1..rsIds' /\ rsIds' \in Nat
    BY <1>3 DEF RequestsInv
  <2>2. ASSUME NEW c \in RsClients PROVE RequestOK(rsReq[c])'
    <3>1. RequestOK(rsReq[c])
      BY DEF RequestsInv
    <3> QED
      BY <1>3, <2>1, <3>1 DEF RequestOK
  <2> QED
    BY <1>3, <2>1, <2>2 DEF RequestsInv
<1>4. RsOperator \/ RsExpire \/ (\E o \in RsObjects : RsReclaim(o)) \/ UNCHANGED rsVars =>
        UNCHANGED <<rsReq, rsBackend>> /\ rsIds' \in {rsIds, rsIds + 1}
  BY DEF RsOperator, RsRevoke, RsRotate, RsInvalidate, RsMeasure, RsSetUsage, RsDeleteCheck, RsDelete, RsCreateCheck,
         RsSetQuota, RsInsert, RsExpire, RsReclaim, rsVars, rsBounds, rsHistory
<1> QED
  BY <1>1, <1>2, <1>3, <1>4 DEF RsNext

RowType == [id : 0..rsIds, secret : 0..rsIds, revoked : BOOLEAN, quota : RsQuotas, used : Nat]

LEMMA ReservedType ==
  ASSUME rsRow \in RowType, NEW i, NEW n \in Nat
  PROVE  Reserved(i, n) \in RowType /\ Released(i, n) \in RowType
<1>1. \A u \in Nat : u + n \in Nat /\ (u > n => u - n \in Nat)
  OBVIOUS
<1>2. rsRow.used + n \in Nat /\ (rsRow.used > n => rsRow.used - n \in Nat)
  BY <1>1 DEF RowType
<1>3. [rsRow EXCEPT !.used = rsRow.used + n] \in RowType
  BY <1>2 DEF RowType
<1>4. [rsRow EXCEPT !.used = IF rsRow.used > n THEN rsRow.used - n ELSE 0] \in RowType
  BY <1>2 DEF RowType
<1> QED
  BY <1>3, <1>4 DEF Reserved, Released

\* A step of a request leaves the row alone, reserves in it or releases.
LEMMA RowSteps ==
  ASSUME RequestsInv, NEW c \in RsClients, RsRequest(c)
  PROVE  \E n \in Nat : rsRow' \in {rsRow, Reserved(rsReq[c].id, n), Released(rsReq[c].id, n)}
<1>1. rsReq[c].pc # "idle" => RsSize[rsReq[c].obj] \in Nat
  BY Sizes DEF RequestsInv, RequestOK
<1>2. CASE rsRow' = rsRow
  BY <1>2
<1>3. CASE RsReserve(c) \/ RsRelease(c) \/ RsLate(c)
  BY <1>1, <1>3 DEF RsReserve, RsRelease, RsLate
<1>4. RsRequest(c) => rsRow' = rsRow \/ RsReserve(c) \/ RsRelease(c) \/ RsLate(c)
  BY DEF RsRequest, RsArrive, RsRefresh, RsStat, RsCreate, RsCommit, RsDeleteStat, RsUnlink, Duplicate, Stored, Commit,
         Ambiguous
<1> QED
  BY <1>2, <1>3, <1>4

\* What a step of a request does to the store.
LEMMA StoreStep ==
  ASSUME RequestsInv, NEW c \in RsClients, RsRequest(c)
  PROVE  LET r == rsReq[c]
         IN \/ UNCHANGED <<rsObjs, rsOwner>>
            \/ /\ RsCreate(c) \/ RsCommit(c)
               /\ r.obj \in RsObjects /\ r.body \in RsContents
               /\ rsObjs[r.obj] = Absent \/ (rsBackend = "s3plain" /\ r.obj \in RsLocks)
               /\ rsObjs' = [rsObjs EXCEPT ![r.obj] = r.body] /\ rsOwner' = [rsOwner EXCEPT ![r.obj] = r.id]
            \/ /\ RsUnlink(c)
               /\ r.obj \in RsLocks
               /\ rsObjs' = [rsObjs EXCEPT ![r.obj] = Absent] /\ UNCHANGED rsOwner
<1>1. RequestOK(rsReq[c])
  BY DEF RequestsInv
<1>2. CASE RsCreate(c) \/ RsCommit(c)
  <2>1. rsReq[c].pc \in {"create", "commit"}
    BY <1>2 DEF RsCreate, RsCommit
  <2>2. rsReq[c].obj \in RsObjects /\ rsReq[c].body \in RsContents
    BY <1>1, <2>1 DEF RequestOK
  <2>3. rsReq[c].pc = "commit" /\ rsBackend = "s3plain" => rsReq[c].obj \in RsLocks
    BY <1>1 DEF RequestOK
  <2>4. \/ UNCHANGED <<rsObjs, rsOwner>>
        \/ /\ Commit(c)
           /\ rsObjs[rsReq[c].obj] = Absent \/ (rsBackend = "s3plain" /\ rsReq[c].pc = "commit")
    BY <1>2, <2>1 DEF RsCreate, RsCommit, Duplicate, Stored, Ambiguous
  <2> QED
    BY <1>2, <2>2, <2>3, <2>4 DEF Commit
<1>3. CASE RsUnlink(c)
  BY <1>1, <1>3 DEF RsUnlink, RequestOK
<1>4. RsRequest(c) => UNCHANGED <<rsObjs, rsOwner>> \/ RsCreate(c) \/ RsCommit(c) \/ RsUnlink(c)
  BY DEF RsRequest, RsArrive, RsRefresh, RsReserve, RsStat, RsRelease, RsLate, RsDeleteStat, rsHistory
<1> QED
  BY <1>2, <1>3, <1>4

LEMMA HeldType ==
  /\ RsHeld \in [RsObjects -> Int] /\ \A o \in RsObjects : RsHeld[o] \in Nat
  /\ IsFiniteSet(RsObjects)
<1>1. \A o \in RsObjects : RsHeld[o] \in Nat
  BY Sizes DEF RsHeld
<1>2. DOMAIN RsHeld = RsObjects /\ RsHeld = [o \in RsObjects |-> RsHeld[o]]
  BY DEF RsHeld
<1> QED
  BY <1>1, <1>2, RsAssumption

LEMMA BytesType == Bytes \in Nat
<1>1. SumFunction([o \in RsObjects |-> 0]) = 0
  BY HeldType, SumZero
<1>2. Bytes \in Int
  BY HeldType, SumType DEF Bytes
<1>3. 0 <= Bytes
  <2> DEFINE z == [o \in RsObjects |-> 0]
  <2>1. z \in [RsObjects -> Int] /\ \A o \in RsObjects : z[o] <= RsHeld[o]
    BY HeldType
  <2> HIDE DEF z
  <2>2. SumFunction(z) <= SumFunction(RsHeld)
    BY <2>1, HeldType, SumLe
  <2> QED
    BY <1>1, <2>2 DEF z, Bytes
<1> QED
  BY <1>2, <1>3

\* The larger of two quotas bounds both.
LEMMA WiderIs ==
  ASSUME NEW q \in Nat, NEW r \in Nat
  PROVE  /\ Wider(q, r) \in Nat
         /\ Wider(q, r) # 0 => q # 0 /\ r # 0 /\ q <= Wider(q, r) /\ r <= Wider(q, r)
<1>1. PICK m \in {q, r} : q <= m /\ r <= m
  BY DEF Wider
<1>2. \E x \in {q, r} : \A y \in {q, r} : x >= y
  BY <1>1
<1>3. Max({q, r}) \in {q, r} /\ \A y \in {q, r} : Max({q, r}) >= y
  BY <1>2 DEF Max
<1> QED
  BY <1>3 DEF Wider

EntryType == [id : 0..rsIds, secret : 0..rsIds, revoked : BOOLEAN]

LEMMA IdsGrow ==
  ASSUME RequestsInv, [RsNext]_rsVars
  PROVE  /\ rsIds \in Nat /\ rsIds' \in Nat /\ rsIds' \in {rsIds, rsIds + 1} /\ 0..rsIds \subseteq 0..rsIds'
         /\ 0 \in 0..rsIds' /\ rsIds' \in 0..rsIds'
<1>1. rsIds' \in {rsIds, rsIds + 1}
  BY Steps, ClientFrame, OperatorFrame, WorldFrame
<1> QED
  BY <1>1 DEF RequestsInv

LEMMA RowTypeHolds ==
  ASSUME RsTypeOK, RequestsInv, RestInv, [RsNext]_rsVars
  PROVE  rsRow' \in [id : 0..rsIds', secret : 0..rsIds', revoked : BOOLEAN, quota : RsQuotas, used : Nat]
<1> DEFINE Rows == [id : 0..rsIds', secret : 0..rsIds', revoked : BOOLEAN, quota : RsQuotas, used : Nat]
<1>1. rsRow \in RowType /\ rsAdmin.seen \in Nat
  BY DEF RsTypeOK, RowType, RestInv
<1>2. \A r \in RowType : /\ r \in Rows /\ [r EXCEPT !.revoked = TRUE] \in Rows
                         /\ [r EXCEPT !.secret = rsIds', !.revoked = FALSE] \in Rows
                         /\ \A q \in RsQuotas : [r EXCEPT !.quota = q] \in Rows
                         /\ \A n \in Nat : [r EXCEPT !.used = n] \in Rows
  BY IdsGrow DEF RowType
<1>3. NoRow \in Rows /\ \A q \in RsQuotas :
         [id |-> rsIds', secret |-> rsIds', revoked |-> FALSE, quota |-> q, used |-> 0] \in Rows
  BY IdsGrow, RsAssumption DEF NoRow
<1> SUFFICES rsRow' \in Rows
  OBVIOUS
<1> HIDE DEF Rows
<1>4. CASE \E c \in RsClients : RsRequest(c)
  <2>1. PICK c \in RsClients : RsRequest(c)
    BY <1>4
  <2>2. PICK n \in Nat : rsRow' \in {rsRow, Reserved(rsReq[c].id, n), Released(rsReq[c].id, n)}
    BY <2>1, RowSteps
  <2>3. rsRow' \in RowType
    BY <1>1, <2>2, ReservedType
  <2> QED
    BY <1>2, <2>3
<1>5. CASE RsOperator
  <2>1. CASE RsRevoke \/ RsRotate \/ RsInvalidate
    BY <1>1, <1>2, <2>1 DEF RsRevoke, RsRotate, RsInvalidate
  <2>2. CASE RsMeasure \/ RsSetUsage \/ RsDeleteCheck
    BY <1>1, <1>2, <2>2 DEF RsMeasure, RsSetUsage, RsDeleteCheck
  <2>3. CASE RsDelete \/ RsCreateCheck
    BY <1>1, <1>2, <1>3, <2>3 DEF RsDelete, RsCreateCheck
  <2>4. CASE \E q \in RsQuotas : RsSetQuota(q) \/ RsInsert(q)
    BY <1>1, <1>2, <1>3, <2>4 DEF RsSetQuota, RsInsert
  <2> QED
    BY <1>5, <2>1, <2>2, <2>3, <2>4 DEF RsOperator
<1>6. CASE WorldSteps
  BY <1>1, <1>2, <1>6, WorldFrame
<1> QED
  BY <1>4, <1>5, <1>6, Steps

LEMMA CacheTypeHolds ==
  ASSUME RsTypeOK, RequestsInv, RestInv, [RsNext]_rsVars
  PROVE  rsCache'.fresh \in BOOLEAN /\ rsCache'.entry \in EntryType'
         /\ rsCache' = [fresh |-> rsCache'.fresh, entry |-> rsCache'.entry]
<1>1. EntryType' = [id : 0..rsIds', secret : 0..rsIds', revoked : BOOLEAN]
  BY DEF EntryType
<1>2. NoEntry \in EntryType' /\ \A e \in EntryType : e \in EntryType'
  BY IdsGrow, <1>1 DEF NoEntry, EntryType
<1>3. ASSUME NEW c \in RsClients PROVE rsReq[c].rows \in EntryType
  BY DEF RequestsInv, RequestOK, Request, EntryType
<1>4. \/ rsCache' = rsCache
      \/ rsCache' = [fresh |-> FALSE, entry |-> NoEntry]
      \/ \E c \in RsClients : rsCache' = [fresh |-> TRUE, entry |-> rsReq[c].rows]
  BY DEF RsNext, RsRequest, RsArrive, RsRefresh, RsReserve, RsStat, RsCreate, RsCommit, RsRelease, RsLate, RsDeleteStat,
         RsUnlink, RsOperator, RsRevoke, RsRotate, RsInvalidate, RsMeasure, RsSetUsage, RsDeleteCheck, RsDelete,
         RsCreateCheck, RsSetQuota, RsInsert, RsExpire, RsReclaim, RsCrash, rsVars
<1>5. rsCache.fresh \in BOOLEAN /\ rsCache.entry \in EntryType /\ rsCache = [fresh |-> rsCache.fresh, entry |-> rsCache.entry]
  BY DEF RsTypeOK, RestInv, EntryType
<1>6. \A e : [fresh |-> TRUE, entry |-> e].entry = e /\ [fresh |-> FALSE, entry |-> e].entry = e
             /\ [fresh |-> TRUE, entry |-> e].fresh /\ ~[fresh |-> FALSE, entry |-> e].fresh
  OBVIOUS
<1>7. CASE rsCache' = rsCache
  BY <1>2, <1>5, <1>7
<1>8. CASE rsCache' = [fresh |-> FALSE, entry |-> NoEntry]
  BY <1>2, <1>8
<1>9. ASSUME NEW c \in RsClients, rsCache' = [fresh |-> TRUE, entry |-> rsReq[c].rows]
      PROVE  rsCache'.fresh \in BOOLEAN /\ rsCache'.entry \in EntryType'
             /\ rsCache' = [fresh |-> rsCache'.fresh, entry |-> rsCache'.entry]
  BY <1>2, <1>3, <1>9
<1> QED
  BY <1>4, <1>7, <1>8, <1>9

LEMMA StoreTypeHolds ==
  ASSUME RsTypeOK, RequestsInv, RestInv, [RsNext]_rsVars
  PROVE  /\ rsObjs' \in [RsObjects -> RsContents \cup {Absent}]
         /\ rsOwner' \in [RsObjects -> Nat] /\ rsAcked' \in [RsObjects -> SUBSET RsContents]
<1>1. /\ rsObjs \in [RsObjects -> RsContents \cup {Absent}]
      /\ rsOwner \in [RsObjects -> Nat] /\ rsAcked \in [RsObjects -> SUBSET RsContents]
  BY DEF RsTypeOK, RestInv
<1>2. CASE \E c \in RsClients : RsRequest(c)
  <2>1. PICK c \in RsClients : RsRequest(c)
    BY <1>2
  <2>2. rsReq[c].id \in Nat
    BY DEF RequestsInv, Request
  <2>3. rsObjs' \in [RsObjects -> RsContents \cup {Absent}] /\ rsOwner' \in [RsObjects -> Nat]
    <3> HIDE DEF RsRequest
    <3> QED
      BY <1>1, <2>1, <2>2, StoreStep
  <2>4. rsReq[c].pc \in {"create", "commit"} => rsReq[c].body \in RsContents
    BY DEF RequestsInv, RequestOK
  <2>5. \/ rsAcked' = rsAcked
        \/ rsReq[c].body \in RsContents /\ rsAcked' = [rsAcked EXCEPT ![rsReq[c].obj] = @ \cup {rsReq[c].body}]
        \/ rsReq[c].body \in RsContents /\ rsAcked' = [rsAcked EXCEPT ![rsReq[c].obj] = {rsReq[c].body}]
        \/ rsAcked' = [rsAcked EXCEPT ![rsReq[c].obj] = {}]
    BY <2>1, <2>4 DEF RsRequest, RsArrive, RsRefresh, RsReserve, RsStat, RsCreate, RsCommit, RsRelease, RsLate,
       RsDeleteStat, RsUnlink, Duplicate, Stored, Ambiguous, rsHistory
  <2>6. rsAcked' \in [RsObjects -> SUBSET RsContents]
    BY <1>1, <2>5
  <2> QED
    BY <2>3, <2>6
<1>3. CASE \E o \in RsObjects : RsReclaim(o)
  BY <1>1, <1>3 DEF RsReclaim
<1>4. CASE UNCHANGED <<rsObjs, rsOwner, rsAcked>>
  BY <1>1, <1>4
<1>5. RsOperator \/ RsExpire \/ RsCrash \/ UNCHANGED rsVars => UNCHANGED <<rsObjs, rsOwner, rsAcked>>
  BY DEF RsOperator, RsRevoke, RsRotate, RsInvalidate, RsMeasure, RsSetUsage, RsDeleteCheck, RsDelete, RsCreateCheck,
         RsSetQuota, RsInsert, RsExpire, RsCrash, rsVars, rsHistory
<1> QED
  BY <1>2, <1>3, <1>4, <1>5 DEF RsNext

LEMMA AdminTypeHolds ==
  ASSUME RsTypeOK, RequestsInv, RestInv, [RsNext]_rsVars
  PROVE  /\ rsAdmin'.pc \in {"idle", "invalidate", "measured", "delete", "insert"}
         /\ rsAdmin'.seen \in Nat /\ rsAdmin'.overlap \in BOOLEAN
         /\ rsAdmin' = [pc |-> rsAdmin'.pc, seen |-> rsAdmin'.seen, overlap |-> rsAdmin'.overlap]
<1> DEFINE Pcs == {"idle", "invalidate", "measured", "delete", "insert"}
           Typed(a) == /\ a.pc \in Pcs /\ a.seen \in Nat /\ a.overlap \in BOOLEAN
                       /\ a = [pc |-> a.pc, seen |-> a.seen, overlap |-> a.overlap]
<1>1. Typed(rsAdmin)
  BY DEF RsTypeOK, RestInv
<1>2. ASSUME NEW b \in BOOLEAN, rsAdmin' = [rsAdmin EXCEPT !.overlap = b] PROVE Typed(rsAdmin')
  BY <1>1, <1>2
<1>3. ASSUME NEW pc \in Pcs, AdminGo(pc) PROVE Typed(rsAdmin')
  BY <1>3 DEF AdminGo, AdminIdle
<1>4. ASSUME NEW n \in Nat, NEW b \in BOOLEAN, NEW pc \in Pcs, rsAdmin' = [pc |-> pc, seen |-> n, overlap |-> b]
      PROVE  Typed(rsAdmin')
  BY <1>4
<1>5. rsAdmin' = AdminIdle => AdminGo("idle")
  BY DEF AdminIdle, AdminGo
<1>6. \/ rsAdmin' = rsAdmin
      \/ rsAdmin' = [rsAdmin EXCEPT !.overlap = rsAdmin.pc \in {"measured", "insert"}]
      \/ AdminGo("idle") \/ AdminGo("invalidate") \/ AdminGo("delete")
      \/ rsAdmin' = [pc |-> "measured", seen |-> Bytes, overlap |-> Busy # {}]
      \/ rsAdmin' = [pc |-> "insert", seen |-> 0, overlap |-> Busy # {}]
  BY <1>5, Steps, ClientFrame, OperatorFrame, WorldFrame
<1>7. Typed(rsAdmin')
  <2>1. (Busy # {}) \in BOOLEAN /\ (rsAdmin.pc \in {"measured", "insert"}) \in BOOLEAN /\ Bytes \in Nat /\ 0 \in Nat
    BY BytesType
  <2> HIDE DEF Typed
  <2> QED
    BY <1>1, <1>2, <1>3, <1>4, <1>6, <2>1
<1> QED
  BY <1>7

LEMMA TypesHold ==
  ASSUME RsTypeOK, RequestsInv, RestInv, [RsNext]_rsVars
  PROVE  RsTypeOK' /\ RequestsInv' /\ RestInv'
<1>1. rsBackend' = rsBackend
  BY Steps, ClientFrame, OperatorFrame, WorldFrame
<1>2. RequestsInv'
  BY RequestsInvHolds
<1>3. \A c \in RsClients : rsReq'[c].pc \in RsPcs /\ (rsReq'[c].pc \notin {"idle", "refresh"} => rsReq'[c].id \in 1..rsIds')
  BY <1>2 DEF RequestsInv, RequestOK, Request
<1>4. rsRaced' \in BOOLEAN
  <2>1. rsRaced' = rsRaced \/ CredentialChanges
    BY Steps, ClientFrame, OperatorFrame, WorldFrame
  <2>2. rsRaced \in BOOLEAN
    BY DEF RestInv
  <2> QED
    BY <2>1, <2>2 DEF CredentialChanges
<1>5. rsCeil' \in Nat
  <2>1. \/ rsCeil' = rsCeil
        \/ \E q \in RsQuotas : rsCeil' \in {q, Wider(rsCeil, q)}
    BY Steps, ClientFrame, OperatorFrame, WorldFrame
  <2>2. rsCeil \in Nat /\ RsQuotas \subseteq Nat
    BY RsAssumption DEF RestInv
  <2> QED
    BY <2>1, <2>2, WiderIs
<1> QED
  BY <1>1, <1>2, <1>3, <1>4, <1>5, RowTypeHolds, CacheTypeHolds, StoreTypeHolds, AdminTypeHolds
     DEF RsTypeOK, RestInv, RowType, EntryType

-----------------------------------------------------------------------------
(* Credentials, the row a request works for, and what is stored.           *)

LEMMA IdlePc == RsIdle.pc = "idle" /\ ~RsIdle.reserved /\ RsIdle.id = 0
BY DEF RsIdle

\* Where a request comes from and where it goes.
LEMMA Moves ==
  ASSUME RsTypeOK, RequestsInv, NEW c \in RsClients, RsRequest(c)
  PROVE  LET r == rsReq[c]
             s == rsReq'[c]
         IN /\ \A d \in RsClients \ {c} : rsReq'[d] = rsReq[d]
            /\ \/ /\ r.pc = "idle" /\ ~s.reserved /\ UNCHANGED <<rsCache, rsRow, rsObjs, rsCauses>>
                  /\ rsAdmin' = [rsAdmin EXCEPT !.overlap = rsAdmin.pc \in {"measured", "insert"}]
                  /\ rsCaught' = rsCaught \ {c}
                  /\ \/ s.pc = "refresh" /\ s.rows = Entry
                     \/ s.pc = "authed" /\ rsCache.fresh /\ s.id = rsCache.entry.id /\ s.id # 0
               \/ /\ r.pc = "refresh" /\ ~s.reserved /\ UNCHANGED <<rsAdmin, rsCaught, rsRow, rsObjs, rsCauses>>
                  /\ rsCache' = [fresh |-> TRUE, entry |-> r.rows]
                  /\ s = RsIdle \/ (s.pc = "authed" /\ s.id = r.rows.id /\ s.id # 0)
               \/ /\ r.pc \notin {"idle", "refresh"} /\ UNCHANGED <<rsAdmin, rsCaught, rsCache>>
                  /\ s = RsIdle \/ (s.pc \notin {"idle", "refresh"} /\ s.id = r.id /\ s.obj = r.obj)
                  /\ RsReserve(c) \/ (s.reserved => r.reserved)
<1>1. rsReq[c] \in Request /\ RequestOK(rsReq[c]) /\ rsReq \in [RsClients -> Request]
  BY DEF RequestsInv
<1>2. \A d \in RsClients \ {c} : rsReq'[d] = rsReq[d]
  <2>1. PICK r \in Request : rsReq' = [rsReq EXCEPT ![c] = r]
    BY RequestStep
  <2> QED
    BY <1>1, <2>1
<1>3. ASSUME Answered(c) PROVE rsReq'[c] = RsIdle
  BY <1>1, <1>3 DEF Answered
<1>4. ASSUME NEW pc, Go(c, pc)
      PROVE  /\ rsReq'[c].pc = pc /\ rsReq'[c].id = rsReq[c].id /\ rsReq'[c].obj = rsReq[c].obj
             /\ rsReq'[c].reserved = rsReq[c].reserved
  BY <1>1, <1>4 DEF Go, Request
<1>5. ASSUME NEW o, NEW b, NEW s, RsArrive(c, o, b, s)
      PROVE  /\ rsReq[c].pc = "idle" /\ ~rsReq'[c].reserved /\ UNCHANGED <<rsCache, rsRow, rsObjs, rsCauses>>
             /\ rsAdmin' = [rsAdmin EXCEPT !.overlap = rsAdmin.pc \in {"measured", "insert"}]
             /\ rsCaught' = rsCaught \ {c}
             /\ \/ rsReq'[c].pc = "refresh" /\ rsReq'[c].rows = Entry
                \/ rsReq'[c].pc = "authed" /\ rsCache.fresh /\ rsReq'[c].id = rsCache.entry.id /\ rsReq'[c].id # 0
  <2> DEFINE new == [RsIdle EXCEPT !.obj = o, !.body = b]
  <2>1. \/ rsReq'[c] = [new EXCEPT !.pc = "refresh", !.secret = s, !.rows = Entry]
        \/ /\ rsReq'[c] = [new EXCEPT !.pc = "authed", !.id = rsCache.entry.id]
           /\ rsCache.fresh /\ rsCache.entry.id # 0
    BY <1>1, <1>5 DEF RsArrive, Matches
  <2>2. ~rsReq'[c].reserved
        /\ \/ rsReq'[c].pc = "refresh" /\ rsReq'[c].rows = Entry
           \/ rsReq'[c].pc = "authed" /\ rsCache.fresh /\ rsReq'[c].id = rsCache.entry.id /\ rsReq'[c].id # 0
    BY <2>1 DEF RsIdle
  <2> QED
    BY <1>5, <2>2 DEF RsArrive
<1>6. ASSUME RsRefresh(c)
      PROVE  /\ rsReq[c].pc = "refresh" /\ ~rsReq'[c].reserved /\ UNCHANGED <<rsAdmin, rsCaught, rsRow, rsObjs, rsCauses>>
             /\ rsCache' = [fresh |-> TRUE, entry |-> rsReq[c].rows]
             /\ rsReq'[c] = RsIdle \/ (rsReq'[c].pc = "authed" /\ rsReq'[c].id = rsReq[c].rows.id /\ rsReq'[c].id # 0)
  <2>1. ~rsReq[c].reserved /\ rsReq[c].pc = "refresh"
    BY <1>1, <1>6 DEF RequestOK, RsRefresh
  <2>2. \/ Answered(c)
        \/ /\ rsReq'[c] = [rsReq[c] EXCEPT !.pc = "authed", !.id = rsReq[c].rows.id, !.secret = 0, !.rows = NoEntry]
           /\ rsReq[c].rows.id # 0
    BY <1>1, <1>6 DEF RsRefresh, Matches
  <2>3. \/ rsReq'[c] = RsIdle
        \/ /\ rsReq'[c].pc = "authed" /\ rsReq'[c].id = rsReq[c].rows.id /\ rsReq'[c].id # 0
           /\ rsReq'[c].reserved = rsReq[c].reserved
    BY <1>1, <1>3, <2>2 DEF Request
  <2> QED
    BY <1>6, <2>1, <2>3, IdlePc DEF RsRefresh, rsHistory
<1> DEFINE works ==
      /\ rsReq[c].pc \notin {"idle", "refresh"} /\ UNCHANGED <<rsAdmin, rsCaught, rsCache>>
      /\ rsReq'[c] = RsIdle \/ (rsReq'[c].pc \notin {"idle", "refresh"} /\ rsReq'[c].id = rsReq[c].id /\ rsReq'[c].obj = rsReq[c].obj)
      /\ RsReserve(c) \/ (rsReq'[c].reserved => rsReq[c].reserved)
<1>7. ASSUME RsReserve(c) PROVE works
  <2>1. rsReq[c].pc = "authed" /\ UNCHANGED <<rsAdmin, rsCaught, rsCache>>
    BY <1>7 DEF RsReserve, rsHistory
  <2>2. \/ Answered(c) \/ Go(c, "stat")
        \/ rsReq'[c] = [rsReq[c] EXCEPT !.pc = "create", !.reserved = TRUE]
    BY <1>1, <1>7 DEF RsReserve
  <2>3. CASE rsReq'[c] = [rsReq[c] EXCEPT !.pc = "create", !.reserved = TRUE]
    BY <1>1, <1>7, <2>1, <2>3 DEF Request
  <2> QED
    BY <1>3, <1>4, <1>7, <2>1, <2>2, <2>3
<1>8. ASSUME RsDeleteStat(c) PROVE works
  <2>1. rsReq[c].pc = "authed" /\ UNCHANGED <<rsAdmin, rsCaught, rsCache>>
    BY <1>8 DEF RsDeleteStat, rsHistory
  <2>2. \E n : rsReq'[c] = [rsReq[c] EXCEPT !.pc = "unlink", !.freed = n]
    BY <1>1, <1>8 DEF RsDeleteStat
  <2>3. rsReq'[c].pc = "unlink" /\ rsReq'[c].id = rsReq[c].id /\ rsReq'[c].obj = rsReq[c].obj /\ rsReq'[c].reserved = rsReq[c].reserved
    BY <1>1, <2>2 DEF Request
  <2> QED
    BY <2>1, <2>3
<1>9. ASSUME RsStat(c) \/ RsCreate(c) \/ RsCommit(c) \/ RsRelease(c) \/ RsLate(c) \/ RsUnlink(c) PROVE works
  <2>1. rsReq[c].pc \in {"stat", "create", "commit", "release", "late", "unlink"}
    BY <1>9 DEF RsStat, RsCreate, RsCommit, RsRelease, RsLate, RsUnlink
  <2>2. CASE RsStat(c) \/ RsRelease(c) \/ RsLate(c) \/ RsUnlink(c)
    <3>1. UNCHANGED <<rsAdmin, rsCaught, rsCache>>
      BY <2>2 DEF RsStat, RsRelease, RsLate, RsUnlink, rsHistory
    <3>2. Answered(c) \/ Go(c, "create") \/ Go(c, "release")
      BY <2>2 DEF RsStat, RsRelease, RsLate, RsUnlink
    <3> QED
      BY <1>3, <1>4, <2>1, <3>1, <3>2, IdlePc
  <2>3. CASE RsCreate(c) \/ RsCommit(c)
    <3>1. UNCHANGED <<rsAdmin, rsCaught, rsCache>>
      BY <2>3 DEF RsCreate, RsCommit
    <3>2. Answered(c) \/ Go(c, "commit") \/ Go(c, "release") \/ Go(c, "late")
      BY <2>3 DEF RsCreate, RsCommit, Duplicate, Stored, Ambiguous
    <3> QED
      BY <1>3, <1>4, <2>1, <3>1, <3>2, IdlePc
  <2> QED
    BY <1>9, <2>2, <2>3
<1>10. (\E o, b, s : RsArrive(c, o, b, s)) \/ RsRefresh(c) \/ works
  <2> HIDE DEF works
  <2> QED
    BY <1>7, <1>8, <1>9 DEF RsRequest
<1> QED
  BY <1>2, <1>5, <1>6, <1>10

\* A request changes nothing of the row but its usage.
LEMMA RowKept ==
  ASSUME RsTypeOK, RequestsInv, NEW c \in RsClients, RsRequest(c)
  PROVE  /\ rsRow'.id = rsRow.id /\ rsRow'.secret = rsRow.secret /\ rsRow'.revoked = rsRow.revoked
         /\ rsRow'.quota = rsRow.quota /\ Entry' = Entry
<1>1. rsRow \in RowType
  BY DEF RsTypeOK, RowType
<1>2. PICK n \in Nat : rsRow' \in {rsRow, Reserved(rsReq[c].id, n), Released(rsReq[c].id, n)}
  BY RowSteps
<1>3. \/ rsRow' = rsRow
      \/ \E u : rsRow' = [rsRow EXCEPT !.used = u]
  BY <1>2 DEF Reserved, Released
<1>4. /\ rsRow'.id = rsRow.id /\ rsRow'.secret = rsRow.secret /\ rsRow'.revoked = rsRow.revoked
      /\ rsRow'.quota = rsRow.quota
  BY <1>1, <1>3 DEF RowType
<1> QED
  BY <1>4 DEF Entry

LEMMA AdminIs ==
  ASSUME NEW pc, AdminGo(pc)
  PROVE  rsAdmin'.pc = pc /\ ~rsAdmin'.overlap
BY DEF AdminGo, AdminIdle

\* What an operator's step does to the row, the cache and the credentials.
LEMMA OperatorSteps ==
  ASSUME RsTypeOK, RestInv, RsOperator
  PROVE  \/ /\ rsRow.id # 0 /\ rsRow'.id = rsRow.id /\ rsRow'.secret = rsRow.secret /\ rsRow'.revoked
            /\ rsAdmin'.pc = "invalidate" /\ CredentialChanges /\ UNCHANGED <<rsCache, rsCauses>>
            /\ rsCaught' = {c \in Busy : rsReq[c].reserved}
         \/ /\ rsRow.id # 0 /\ rsRow'.id = rsRow.id /\ ~rsRow'.revoked
            /\ rsAdmin'.pc = "invalidate" /\ CredentialChanges /\ UNCHANGED <<rsCache, rsCauses>>
         \/ /\ Entry' = Entry /\ rsRow'.id = rsRow.id /\ rsRow'.revoked = rsRow.revoked /\ UNCHANGED <<rsRaced, rsCaught>>
            /\ rsCache' \in {rsCache, [fresh |-> FALSE, entry |-> NoEntry]}
            /\ rsCauses' \in {rsCauses, rsCauses \cup {"measured"}}
            /\ rsAdmin'.pc \in {"idle", "invalidate", "measured", "delete"}
            /\ rsAdmin.pc = "invalidate" => ~rsCache'.fresh
         \/ /\ RsDelete /\ rsRow'.id = 0 /\ ~rsRow'.revoked /\ rsAdmin'.pc = "invalidate" /\ CredentialChanges
            /\ UNCHANGED <<rsCache, rsCauses>>
         \/ /\ RsCreateCheck /\ UNCHANGED <<rsRow, rsCache, rsRaced, rsCaught, rsCauses>> /\ rsRow.id = 0
            /\ rsAdmin.pc = "idle" /\ rsAdmin'.pc = "insert" /\ rsAdmin'.overlap = (Busy # {})
            /\ \A o \in RsObjects : rsObjs[o] = Absent
         \/ /\ rsAdmin.pc = "insert" /\ rsRow'.id = rsIds + 1 /\ ~rsRow'.revoked /\ rsAdmin'.pc = "invalidate"
            /\ CredentialChanges /\ UNCHANGED rsCache
            /\ rsCauses' = IF rsAdmin.overlap THEN rsCauses \cup {"created"} ELSE rsCauses
<1>1. rsRow \in RowType
  BY DEF RsTypeOK, RowType
<1>2. CASE RsRevoke
  <2>1. rsRow' = [rsRow EXCEPT !.revoked = TRUE]
    BY <1>2 DEF RsRevoke
  <2>2. rsRow'.id = rsRow.id /\ rsRow'.secret = rsRow.secret /\ rsRow'.revoked
    BY <1>1, <2>1 DEF RowType
  <2> QED
    BY <1>2, <2>2, AdminIs DEF RsRevoke
<1>3. CASE RsRotate
  <2>1. rsRow' = [rsRow EXCEPT !.secret = rsIds', !.revoked = FALSE]
    BY <1>3 DEF RsRotate
  <2>2. rsRow'.id = rsRow.id /\ ~rsRow'.revoked
    BY <1>1, <2>1 DEF RowType
  <2> QED
    BY <1>3, <2>2, AdminIs DEF RsRotate
<1>4. ASSUME NEW q, RsSetQuota(q) PROVE
         /\ Entry' = Entry /\ rsRow'.id = rsRow.id /\ rsRow'.revoked = rsRow.revoked /\ UNCHANGED <<rsRaced, rsCaught, rsCache, rsCauses>>
         /\ rsAdmin'.pc = "invalidate" /\ rsAdmin.pc # "invalidate"
  <2>1. rsRow' = [rsRow EXCEPT !.quota = q]
    BY <1>4 DEF RsSetQuota
  <2>2. rsRow'.id = rsRow.id /\ rsRow'.secret = rsRow.secret /\ rsRow'.revoked = rsRow.revoked
    BY <1>1, <2>1 DEF RowType
  <2> QED
    BY <1>4, <2>2, AdminIs DEF RsSetQuota, AdminBegins, Entry
<1>5. CASE RsSetUsage
  <2>1. rsRow' = [rsRow EXCEPT !.used = rsAdmin.seen]
    BY <1>5 DEF RsSetUsage
  <2>2. rsRow'.id = rsRow.id /\ rsRow'.secret = rsRow.secret /\ rsRow'.revoked = rsRow.revoked
    BY <1>1, <2>1 DEF RowType
  <2> QED
    BY <1>5, <2>2, AdminIs DEF RsSetUsage, Entry
<1>6. CASE RsInvalidate
  BY <1>6, AdminIs DEF RsInvalidate, Entry, rsHistory
<1>7. CASE RsMeasure \/ RsDeleteCheck
  BY <1>7, AdminIs DEF RsMeasure, RsDeleteCheck, Entry, rsHistory, AdminBegins
<1>8. CASE RsDelete
  BY <1>8, AdminIs DEF RsDelete, NoRow
<1>9. CASE RsCreateCheck
  BY <1>9 DEF RsCreateCheck, rsHistory
<1>10. ASSUME NEW q, RsInsert(q) PROVE
         /\ rsAdmin.pc = "insert" /\ rsRow'.id = rsIds + 1 /\ ~rsRow'.revoked /\ rsAdmin'.pc = "invalidate"
         /\ CredentialChanges /\ UNCHANGED rsCache
         /\ rsCauses' = IF rsAdmin.overlap THEN rsCauses \cup {"created"} ELSE rsCauses
  BY <1>10, AdminIs DEF RsInsert
<1>11. CASE \E q \in RsQuotas : RsSetQuota(q)
  BY <1>4, <1>11
<1>12. CASE \E q \in RsQuotas : RsInsert(q)
  BY <1>10, <1>12
<1> QED
  BY <1>2, <1>3, <1>5, <1>6, <1>7, <1>8, <1>9, <1>11, <1>12 DEF RsOperator

LEMMA CrashOrNot ==
  ASSUME WorldSteps
  PROVE  \/ /\ UNCHANGED <<rsReq, rsAdmin, rsCauses, rsCaught>>
         \/ /\ RsCrash /\ rsReq' = [c \in RsClients |-> RsIdle] /\ rsAdmin' = AdminIdle /\ ~rsCache'.fresh
            /\ UNCHANGED <<rsObjs, rsAcked, rsCaught>>
<1>1. CASE RsCrash
  BY <1>1 DEF RsCrash
<1>2. CASE RsExpire \/ (\E o \in RsObjects : RsReclaim(o)) \/ UNCHANGED rsVars
  BY <1>2 DEF RsExpire, RsReclaim, rsVars, rsHistory
<1> QED
  BY <1>1, <1>2 DEF WorldSteps

\* Nothing in the world puts an object into the store; only reclaiming takes one out.
LEMMA ReclaimOnly ==
  ASSUME RsTypeOK, RestInv, WorldSteps
  PROVE  \/ UNCHANGED <<rsObjs, rsAcked>>
         \/ \E o \in RsObjects : /\ RsReclaim(o) /\ UNCHANGED <<rsReq, rsCauses, rsAdmin>>
                                 /\ rsObjs' = [rsObjs EXCEPT ![o] = Absent]
                                 /\ rsAcked' = [rsAcked EXCEPT ![o] = {}]
<1>1. CASE \E o \in RsObjects : RsReclaim(o)
  BY <1>1 DEF RsReclaim
<1>2. CASE RsExpire \/ RsCrash \/ UNCHANGED rsVars
  BY <1>2 DEF RsExpire, RsCrash, rsVars, rsHistory
<1> QED
  BY <1>1, <1>2 DEF WorldSteps

\* What has once broken the books stays known.
LEMMA CausesGrow ==
  ASSUME [RsNext]_rsVars
  PROVE  rsCauses \subseteq rsCauses'
<1>1. ASSUME NEW c \in RsClients, RsRequest(c) PROVE rsCauses \subseteq rsCauses'
  <2>1. CASE RsCreate(c) \/ RsCommit(c)
    BY <2>1 DEF RsCreate, RsCommit, Duplicate, Stored, Ambiguous
  <2>2. CASE RsLate(c) \/ RsUnlink(c)
    BY <2>2 DEF RsLate, RsUnlink
  <2>3. RsRequest(c) => UNCHANGED rsCauses \/ RsCreate(c) \/ RsCommit(c) \/ RsLate(c) \/ RsUnlink(c)
    BY DEF RsRequest, RsArrive, RsRefresh, RsReserve, RsStat, RsRelease, RsDeleteStat, rsHistory
  <2> QED
    BY <1>1, <2>1, <2>2, <2>3
<1>2. CASE RsOperator
  BY <1>2 DEF RsOperator, RsRevoke, RsRotate, RsInvalidate, RsMeasure, RsSetUsage, RsDeleteCheck, RsDelete,
     RsCreateCheck, RsSetQuota, RsInsert, rsHistory
<1>3. CASE WorldSteps
  BY <1>3 DEF WorldSteps, RsExpire, RsCrash, RsReclaim, rsVars, rsHistory
<1> QED
  BY <1>1, <1>2, <1>3, Steps

LEMMA CredentialsHold ==
  ASSUME RsTypeOK, RequestsInv, RestInv, CredentialsInv, InsertInv, [RsNext]_rsVars
  PROVE  CredentialsInv'
<1>1. rsRaced' = rsRaced \/ CredentialChanges
  BY Steps, ClientFrame, OperatorFrame, WorldFrame
<1> SUFFICES ASSUME ~rsRaced', ~rsRaced
             PROVE  /\ rsCache'.fresh /\ rsAdmin'.pc # "invalidate" => rsCache'.entry = Entry'
                    /\ \A d \in RsClients : rsReq'[d].pc = "refresh" => rsReq'[d].rows = Entry'
                    /\ rsCache'.fresh /\ rsRow'.id # 0 => rsCache'.entry.id \in {0, rsRow'.id}
  BY <1>1 DEF CredentialsInv, CredentialChanges
<1>2. /\ rsCache.fresh /\ rsAdmin.pc # "invalidate" => rsCache.entry = Entry
      /\ \A d \in RsClients : rsReq[d].pc = "refresh" => rsReq[d].rows = Entry
      /\ rsCache.fresh /\ rsRow.id # 0 => rsCache.entry.id \in {0, rsRow.id}
  BY DEF CredentialsInv
<1>3. Entry.id = rsRow.id /\ Entry'.id = rsRow'.id
  BY DEF Entry
<1>4. \A e : ~[fresh |-> FALSE, entry |-> e].fresh /\ [fresh |-> TRUE, entry |-> e].entry = e
  OBVIOUS
<1>5. ASSUME NEW c \in RsClients, RsRequest(c)
      PROVE  /\ rsCache'.fresh /\ rsAdmin'.pc # "invalidate" => rsCache'.entry = Entry'
             /\ \A d \in RsClients : rsReq'[d].pc = "refresh" => rsReq'[d].rows = Entry'
             /\ rsCache'.fresh /\ rsRow'.id # 0 => rsCache'.entry.id \in {0, rsRow'.id}
  <2>1. Entry' = Entry /\ rsRow'.id = rsRow.id
    BY <1>5, RowKept
  <2>2. rsAdmin'.pc = rsAdmin.pc
    BY <1>5, ClientFrame DEF RestInv
  <2>3. rsCache' = rsCache \/ (rsReq[c].pc = "refresh" /\ rsCache' = [fresh |-> TRUE, entry |-> rsReq[c].rows])
    BY <1>5, Moves
  <2>4. \A d \in RsClients \ {c} : rsReq'[d] = rsReq[d]
    BY <1>5, Moves
  <2>5. rsReq'[c].pc = "refresh" => rsReq'[c].rows = Entry
    BY <1>5, Moves, IdlePc
  <2> QED
    BY <1>2, <1>3, <1>4, <2>1, <2>2, <2>3, <2>4, <2>5
<1>6. CASE RsOperator
  <2>1. UNCHANGED rsReq
    BY <1>6, OperatorFrame
  <2>2. CredentialChanges => \A d \in RsClients : rsReq[d].pc # "refresh"
    BY DEF CredentialChanges
  <2>3. Entry' = Entry \/ (CredentialChanges /\ rsAdmin'.pc = "invalidate")
    BY <1>6, OperatorSteps DEF Entry
  <2>4. rsCache'.fresh => rsCache' = rsCache
    BY <1>4, <1>6, OperatorSteps
  <2>5. rsCache'.fresh /\ rsAdmin'.pc # "invalidate" => rsAdmin.pc # "invalidate"
    BY <1>6, OperatorSteps DEF RsDelete
  <2>6. \/ rsRow'.id \in {0, rsRow.id}
        \/ rsAdmin.pc = "insert" /\ UNCHANGED rsCache
    BY <1>6, OperatorSteps
  <2>7. rsAdmin.pc = "insert" => rsRow.id = 0
    BY DEF InsertInv
  <2>8. rsCache'.fresh /\ rsAdmin'.pc # "invalidate" => rsCache'.entry = Entry'
    BY <1>2, <2>3, <2>4, <2>5
  <2>9. \A d \in RsClients : rsReq'[d].pc = "refresh" => rsReq'[d].rows = Entry'
    BY <1>2, <2>1, <2>2, <2>3
  <2>10. rsCache'.fresh /\ rsRow'.id # 0 => rsCache'.entry.id \in {0, rsRow'.id}
    BY <1>2, <1>3, <2>4, <2>6, <2>7
  <2> QED
    BY <2>8, <2>9, <2>10
<1>7. CASE WorldSteps
  <2>1. Entry' = Entry /\ rsRow'.id = rsRow.id
    BY <1>7, WorldFrame DEF Entry
  <2>2. rsCache'.fresh => rsCache' = rsCache /\ rsAdmin' = rsAdmin
    BY <1>4, <1>7, WorldFrame, CrashOrNot
  <2>3. \A d \in RsClients : rsReq'[d].pc = "refresh" => rsReq'[d] = rsReq[d]
    BY <1>7, CrashOrNot, IdlePc
  <2> QED
    BY <1>2, <2>1, <2>2, <2>3
<1> QED
  BY <1>5, <1>6, <1>7, Steps

LEMMA BusyIs == \A c \in RsClients : c \in Busy <=> rsReq[c].pc # "idle"
BY DEF Busy

LEMMA InsertHolds ==
  ASSUME RsTypeOK, RequestsInv, RestInv, CredentialsInv, InsertInv, [RsNext]_rsVars
  PROVE  InsertInv'
<1>1. rsRaced' = rsRaced \/ CredentialChanges
  BY Steps, ClientFrame, OperatorFrame, WorldFrame
<1>2. ~rsRaced' => ~rsRaced
  BY <1>1 DEF CredentialChanges
<1> DEFINE Ready == Busy = {} /\ \A o \in RsObjects : rsObjs[o] = Absent
           Mine == rsRow.id # 0 /\ "created" \notin rsCauses /\ ~rsRaced =>
                     \A c \in RsClients : Works(c) => rsReq[c].id = rsRow.id
<1>3. /\ rsAdmin.pc = "insert" => rsRow.id = 0
      /\ rsAdmin.pc = "insert" /\ ~rsAdmin.overlap => Ready
      /\ Mine
  BY DEF InsertInv
<1> SUFFICES /\ rsAdmin'.pc = "insert" => rsRow'.id = 0
             /\ rsAdmin'.pc = "insert" /\ ~rsAdmin'.overlap => Ready'
             /\ Mine'
  BY DEF InsertInv
<1>4. ASSUME NEW c \in RsClients, RsRequest(c)
      PROVE  /\ rsAdmin'.pc = "insert" => rsRow'.id = 0
             /\ rsAdmin'.pc = "insert" /\ ~rsAdmin'.overlap => Ready'
             /\ Mine'
  <2>1. rsRow'.id = rsRow.id /\ rsAdmin'.pc = rsAdmin.pc
    BY <1>4, RowKept, ClientFrame DEF RestInv
  <2>2. rsAdmin'.pc = "insert" /\ ~rsAdmin'.overlap => FALSE
    <3>1. CASE rsReq[c].pc = "idle"
      <4>1. rsAdmin' = [rsAdmin EXCEPT !.overlap = rsAdmin.pc \in {"measured", "insert"}]
        BY <1>4, <3>1, Moves
      <4>2. rsAdmin'.overlap = (rsAdmin.pc \in {"measured", "insert"})
        BY <4>1 DEF RestInv
      <4> QED
        BY <2>1, <4>2
    <3>2. CASE rsReq[c].pc # "idle"
      <4>1. rsAdmin' = rsAdmin
        BY <1>4, <3>2, Moves
      <4>2. Busy # {}
        BY <3>2, BusyIs
      <4> QED
        BY <1>3, <4>1, <4>2
    <3> QED
      BY <3>1, <3>2
  <2>3. "created" \in rsCauses => "created" \in rsCauses'
    BY <1>4, CausesGrow
  <2>4. Mine'
    <3>1. \A d \in RsClients \ {c} : rsReq'[d] = rsReq[d]
      BY <1>4, Moves
    <3>2. rsRow.id # 0 /\ "created" \notin rsCauses /\ ~rsRaced /\ Works(c)' => rsReq'[c].id = rsRow.id
      <4>1. rsReq'[c].pc \in {"idle", "refresh"} \/ rsReq'[c].id \in {rsCache.entry.id, rsReq[c].rows.id, rsReq[c].id}
        BY <1>4, Moves, IdlePc
      <4> SUFFICES ASSUME rsRow.id # 0, "created" \notin rsCauses, ~rsRaced, rsReq'[c].pc \notin {"idle", "refresh"}
                   PROVE  rsReq'[c].id = rsRow.id
        BY DEF Works
      <4>2. CASE rsReq[c].pc = "idle"
        <5>1. rsCache.fresh /\ rsReq'[c].id = rsCache.entry.id /\ rsReq'[c].id # 0
          BY <1>4, <4>2, Moves
        <5> QED
          BY <5>1 DEF CredentialsInv
      <4>3. CASE rsReq[c].pc = "refresh"
        <5>1. rsReq'[c].id = rsReq[c].rows.id
          BY <1>4, <4>3, Moves, IdlePc
        <5> QED
          BY <4>3, <5>1 DEF CredentialsInv, Entry
      <4>4. CASE rsReq[c].pc \notin {"idle", "refresh"}
        <5>1. rsReq'[c].id = rsReq[c].id
          BY <1>4, <4>4, Moves, IdlePc
        <5> QED
          BY <1>3, <4>4, <5>1 DEF Works
      <4> QED
        BY <4>2, <4>3, <4>4
    <3> QED
      BY <1>2, <1>3, <2>1, <2>3, <3>1, <3>2 DEF Works
  <2> QED
    BY <1>3, <2>1, <2>2, <2>4
<1>5. CASE RsOperator
  <2>1. UNCHANGED <<rsReq, rsObjs>>
    BY <1>5, OperatorFrame
  <2>2. Busy' = Busy /\ \A c \in RsClients : Works(c)' = Works(c)
    BY <2>1 DEF Busy, Works
  <2>3. rsAdmin.pc = "insert" /\ ~rsAdmin.overlap => \A c \in RsClients : ~Works(c)
    BY <1>3, BusyIs DEF Works
  <2> QED
    BY <1>2, <1>3, <1>5, <2>1, <2>2, <2>3, OperatorSteps
<1>6. CASE WorldSteps
  <2>1. rsRow' = rsRow
    BY <1>6, WorldFrame
  <2>2. CASE UNCHANGED <<rsReq, rsAdmin, rsCauses>>
    <3>1. \A o \in RsObjects : rsObjs[o] = Absent => rsObjs'[o] = Absent
      BY <1>6, ReclaimOnly DEF RsTypeOK
    <3>2. Busy' = Busy /\ \A c \in RsClients : Works(c)' = Works(c)
      BY <2>2 DEF Busy, Works
    <3> QED
      BY <1>2, <1>3, <2>1, <2>2, <3>1, <3>2
  <2>3. CASE rsReq' = [c \in RsClients |-> RsIdle] /\ rsAdmin' = AdminIdle
    BY <2>3, IdlePc DEF AdminIdle, Works
  <2> QED
    BY <1>6, <2>2, <2>3, CrashOrNot
<1> QED
  BY <1>4, <1>5, <1>6, Steps

LEMMA OwnersHold ==
  ASSUME RsTypeOK, RequestsInv, RestInv, InsertInv, NoRebinding, [RsNext]_rsVars
  PROVE  NoRebinding'
<1>1. rsRaced' = rsRaced \/ CredentialChanges
  BY Steps, ClientFrame, OperatorFrame, WorldFrame
<1>2. rsCauses \subseteq rsCauses'
  BY CausesGrow
<1>9. ~rsRaced' => ~rsRaced
  BY <1>1 DEF CredentialChanges
<1> SUFFICES ASSUME rsRow'.id # 0, "created" \notin rsCauses', "created" \notin rsCauses, ~rsRaced, NEW o \in RsObjects,
                    rsObjs'[o] # Absent
             PROVE  rsOwner'[o] = rsRow'.id
  BY <1>2, <1>9 DEF NoRebinding
<1>3. rsRow.id # 0 /\ rsObjs[o] # Absent => rsOwner[o] = rsRow.id
  BY DEF NoRebinding
<1>4. rsObjs \in [RsObjects -> RsContents \cup {Absent}] /\ rsOwner \in [RsObjects -> Nat]
  BY DEF RsTypeOK, RestInv
<1>5. ASSUME NEW c \in RsClients, RsRequest(c) PROVE rsOwner'[o] = rsRow'.id
  <2>1. rsRow'.id = rsRow.id
    BY <1>5, RowKept
  <2>2. CASE UNCHANGED <<rsObjs, rsOwner>>
    BY <1>3, <2>1, <2>2
  <2>3. CASE /\ RsCreate(c) \/ RsCommit(c)
             /\ rsObjs' = [rsObjs EXCEPT ![rsReq[c].obj] = rsReq[c].body]
             /\ rsOwner' = [rsOwner EXCEPT ![rsReq[c].obj] = rsReq[c].id]
    <3>1. Works(c)
      BY <2>3 DEF RsCreate, RsCommit, Works
    <3>2. rsReq[c].id = rsRow.id
      BY <2>1, <3>1 DEF InsertInv
    <3> QED
      BY <1>3, <1>4, <2>1, <2>3, <3>2
  <2>4. CASE rsObjs' = [rsObjs EXCEPT ![rsReq[c].obj] = Absent] /\ UNCHANGED rsOwner
    BY <1>3, <1>4, <2>1, <2>4
  <2> QED
    BY <1>5, <2>2, <2>3, <2>4, StoreStep
<1>6. CASE RsOperator
  <2>1. UNCHANGED <<rsObjs, rsOwner>>
    BY <1>6, OperatorFrame
  <2>2. rsRow'.id \in {0, rsRow.id} \/ (rsAdmin.pc = "insert" /\ ~rsAdmin.overlap)
    BY <1>6, OperatorSteps
  <2>3. ~(rsAdmin.pc = "insert" /\ ~rsAdmin.overlap)
    BY <2>1 DEF InsertInv
  <2> QED
    BY <1>3, <2>1, <2>2, <2>3
<1>7. CASE WorldSteps
  <2>1. UNCHANGED <<rsRow, rsOwner>>
    BY <1>7, WorldFrame
  <2>2. rsObjs[o] # Absent
    BY <1>4, <1>7, ReclaimOnly
  <2> QED
    BY <1>3, <2>1, <2>2
<1> QED
  BY <1>5, <1>6, <1>7, Steps

LEMMA RevokedHolds ==
  ASSUME RsTypeOK, RequestsInv, RestInv, RevokedInv, [RsNext]_rsVars
  PROVE  RevokedInv'
<1> DEFINE Owes(d) == rsReq[d].reserved /\ rsReq[d].id = rsRow.id /\ RsSize[rsReq[d].obj] > 0
<1> SUFFICES ASSUME rsRow'.revoked, NEW d \in RsClients, Owes(d)'
             PROVE  d \in rsCaught'
  BY DEF RevokedInv
<1>1. rsRow.revoked /\ Owes(d) => d \in rsCaught
  BY DEF RevokedInv
<1>2. ASSUME NEW c \in RsClients, RsRequest(c) PROVE d \in rsCaught'
  <2>1. rsRow'.id = rsRow.id /\ rsRow.revoked
    BY <1>2, RowKept
  <2>2. CASE d # c
    <3>1. rsReq'[d] = rsReq[d] /\ rsCaught' \in {rsCaught, rsCaught \ {c}}
      BY <1>2, <2>2, Moves
    <3> QED
      BY <1>1, <2>1, <2>2, <3>1
  <2>3. CASE d = c
    <3>1. rsReq[c].pc \notin {"idle", "refresh"} /\ rsCaught' = rsCaught
          /\ rsReq'[c].id = rsReq[c].id /\ rsReq'[c].obj = rsReq[c].obj
          /\ (RsReserve(c) \/ rsReq[c].reserved)
      BY <1>2, <2>3, Moves, IdlePc
    <3>2. CASE RsReserve(c)
      <4>1. rsReq[c].obj \in RsObjects /\ rsReq[c] \in Request /\ rsReq \in [RsClients -> Request]
        BY <3>1 DEF RequestsInv, RequestOK
      <4>2. ~Grants(rsReq[c].id, RsSize[rsReq[c].obj])
        <5>1. RsSize[rsReq[c].obj] # 0
          BY <2>3, <3>1
        <5> QED
          BY <2>1, <5>1 DEF Grants, Admits
      <4>3. Answered(c) \/ Go(c, "stat")
        BY <3>2, <4>2 DEF RsReserve
      <4>4. rsReq[c].reserved
        <5>1. CASE Answered(c)
          BY <2>3, <4>1, <5>1, IdlePc DEF Answered
        <5>2. CASE Go(c, "stat")
          <6>1. rsReq'[c].reserved = rsReq[c].reserved
            BY <4>1, <5>2 DEF Go, Request
          <6> QED
            BY <2>3, <6>1
        <5> QED
          BY <4>3, <5>1, <5>2
      <4> QED
        BY <1>1, <2>1, <2>3, <3>1, <4>4
    <3>3. CASE rsReq[c].reserved
      BY <1>1, <2>1, <2>3, <3>1, <3>3
    <3> QED
      BY <3>1, <3>2, <3>3
  <2> QED
    BY <2>2, <2>3
<1>3. CASE RsOperator
  <2>1. rsReq' = rsReq
    BY <1>3, OperatorFrame
  <2>2. \/ rsCaught' = {c \in Busy : rsReq[c].reserved}
        \/ rsRow.revoked /\ rsRow'.id = rsRow.id /\ rsCaught' = rsCaught
    BY <1>3, OperatorSteps
  <2>3. rsReq[d].reserved => d \in Busy
    BY BusyIs, IdlePc DEF RequestsInv, RequestOK
  <2> QED
    BY <1>1, <2>1, <2>2, <2>3
<1>4. CASE WorldSteps
  <2>1. UNCHANGED <<rsRow, rsCaught>> /\ rsReq'[d] \in {rsReq[d], RsIdle}
    BY <1>4, WorldFrame, CrashOrNot
  <2>2. rsReq'[d] = rsReq[d]
    BY <2>1, IdlePc
  <2> QED
    BY <1>1, <2>1, <2>2
<1> QED
  BY <1>2, <1>3, <1>4, Steps

\* An answer of success, or a name that is taken away, is all that changes what is acknowledged.
LEMMA AckSteps ==
  ASSUME RequestsInv, NEW c \in RsClients, RsRequest(c), rsBackend = "disk"
  PROVE  LET r == rsReq[c]
         IN \/ UNCHANGED <<rsObjs, rsAcked>>
            \/ rsObjs' = rsObjs /\ rsObjs[r.obj] = r.body /\ rsAcked' = [rsAcked EXCEPT ![r.obj] = @ \cup {r.body}]
            \/ rsObjs' = [rsObjs EXCEPT ![r.obj] = r.body] /\ rsAcked' = [rsAcked EXCEPT ![r.obj] = {r.body}]
            \/ rsObjs' = [rsObjs EXCEPT ![r.obj] = Absent] /\ rsAcked' = [rsAcked EXCEPT ![r.obj] = {}]
<1>1. CASE RsCreate(c)
  BY <1>1 DEF RsCreate, Duplicate, Identical, Ambiguous
<1>2. CASE RsCommit(c)
  BY <1>2 DEF RsCommit, Duplicate, Identical, Ambiguous, Stored, Commit
<1>3. CASE RsUnlink(c)
  BY <1>3 DEF RsUnlink
<1>4. RsRequest(c) => UNCHANGED <<rsObjs, rsAcked>> \/ RsCreate(c) \/ RsCommit(c) \/ RsUnlink(c)
  BY DEF RsRequest, RsArrive, RsRefresh, RsReserve, RsStat, RsRelease, RsLate, RsDeleteStat, rsHistory
<1> QED
  BY <1>1, <1>2, <1>3, <1>4

LEMMA AckedHolds ==
  ASSUME RsTypeOK, RequestsInv, RestInv, AckedIsStored, [RsNext]_rsVars
  PROVE  AckedIsStored'
<1>1. rsBackend' = rsBackend
  BY Steps, ClientFrame, OperatorFrame, WorldFrame
<1>2. rsObjs \in [RsObjects -> RsContents \cup {Absent}] /\ rsAcked \in [RsObjects -> SUBSET RsContents]
  BY DEF RsTypeOK, RestInv
<1> SUFFICES ASSUME rsBackend = "disk", NEW o \in RsObjects PROVE rsAcked'[o] \subseteq {rsObjs'[o]}
  BY <1>1 DEF AckedIsStored
<1>3. rsAcked[o] \subseteq {rsObjs[o]}
  BY DEF AckedIsStored
<1>4. CASE \E c \in RsClients : RsRequest(c)
  BY <1>2, <1>3, <1>4, AckSteps
<1>5. CASE RsOperator
  BY <1>3, <1>5, OperatorFrame
<1>6. CASE WorldSteps
  BY <1>2, <1>3, <1>6, ReclaimOnly
<1> QED
  BY <1>4, <1>5, <1>6, Steps

-----------------------------------------------------------------------------
(* Usage.                                                                  *)

LEMMA Dues ==
  ASSUME RequestsInv, NEW c \in RsClients
  PROVE  LET r == rsReq[c]
             n == RsSize[r.obj]
         IN /\ Due(c) \in Int
            /\ r.pc \in {"idle", "refresh", "authed", "stat", "unlink"} => Due(c) = 0
            /\ r.pc # "idle" => n \in Nat
            /\ r.pc \in {"create", "commit"} => Due(c) = IF r.reserved THEN n ELSE 0
            /\ r.pc = "late" => Due(c) = -n
            /\ r.pc # "late" => Due(c) \in Nat
<1>1. RequestOK(rsReq[c]) /\ rsReq[c] \in Request
  BY DEF RequestsInv
<1>2. rsReq[c].pc # "idle" => RsSize[rsReq[c].obj] \in Nat
  BY <1>1, Sizes DEF RequestOK
<1>3. rsReq[c].pc \in {"idle", "refresh", "authed", "stat", "unlink"} => ~rsReq[c].reserved
  BY <1>1 DEF RequestOK
<1>4. rsReq[c].pc \in {"idle", "refresh", "authed", "stat", "unlink"} => Due(c) = 0
  BY <1>3 DEF Due
<1>5. \A n \in Nat : -n \in Int /\ n \in Int
  OBVIOUS
<1>6. rsReq[c].pc = "late" => Due(c) = -RsSize[rsReq[c].obj]
  BY DEF Due
<1>7. rsReq[c].pc \in {"create", "commit"} => Due(c) = IF rsReq[c].reserved THEN RsSize[rsReq[c].obj] ELSE 0
  BY DEF Due
<1>8. rsReq[c].pc # "late" => Due(c) \in Nat
  <2>1. CASE rsReq[c].pc = "idle"
    BY <1>4, <2>1
  <2>2. CASE rsReq[c].pc # "idle"
    BY <1>2, <2>2 DEF Due
  <2> QED
    BY <2>1, <2>2
<1>9. Due(c) \in Int
  BY <1>2, <1>5, <1>6, <1>8
<1> QED
  BY <1>2, <1>4, <1>6, <1>7, <1>8, <1>9

LEMMA DuesInt == RequestsInv => \A c \in RsClients : Due(c) \in Int
BY Dues

LEMMA DuesIntNext == RequestsInv' => \A c \in RsClients : Due(c)' \in Int
<1>1. (RequestsInv => \A c \in RsClients : Due(c) \in Int)'
  BY DuesInt, PTL
<1> QED
  BY <1>1

LEMMA DueType ==
  ASSUME RequestsInv
  PROVE  RsDue \in [RsClients -> Int] /\ IsFiniteSet(RsClients) /\ DueSum \in Int
<1>1. \A c \in RsClients : Due(c) \in Int
  BY Dues
<1>2. RsDue \in [RsClients -> Int] /\ IsFiniteSet(RsClients)
  BY <1>1, RsAssumption DEF RsDue
<1> QED
  BY <1>2, SumType DEF DueSum

\* With nobody at work nothing is due; without late accounting nothing is due back.
LEMMA DueSigns ==
  ASSUME RequestsInv
  PROVE  /\ Busy = {} => DueSum = 0
         /\ (\A c \in RsClients : rsReq[c].pc # "late") => 0 <= DueSum
<1> DEFINE z == [c \in RsClients |-> 0]
<1>1. SumFunction(z) = 0 /\ z \in [RsClients -> Int] /\ \A c \in RsClients : z[c] = 0
  BY DueType, SumZero
<1>2. \A c \in RsClients : RsDue[c] = Due(c)
  BY DEF RsDue
<1>3. ASSUME Busy = {} PROVE DueSum = 0
  <2>1. \A c \in RsClients : Due(c) = 0
    BY <1>3, BusyIs, Dues
  <2>2. RsDue = z
    BY <2>1 DEF RsDue
  <2> QED
    BY <1>1, <2>2 DEF DueSum
<1>4. ASSUME \A c \in RsClients : rsReq[c].pc # "late" PROVE 0 <= DueSum
  <2>1. \A c \in RsClients : Due(c) \in Nat
    BY <1>4, Dues
  <2>2. \A c \in RsClients : z[c] <= RsDue[c]
    BY <1>1, <1>2, <2>1
  <2> HIDE DEF z
  <2>3. SumFunction(z) <= SumFunction(RsDue)
    BY <1>1, <2>2, DueType, SumLe
  <2> QED
    BY <1>1, <2>3 DEF DueSum
<1> QED
  BY <1>3, <1>4

LEMMA DueMoves ==
  ASSUME RequestsInv, RequestsInv', NEW c \in RsClients, \A d \in RsClients \ {c} : rsReq'[d] = rsReq[d],
         rsRow'.id = rsRow.id
  PROVE  DueSum' = DueSum - Due(c) + Due(c)'
<1>1. RsDue \in [RsClients -> Int] /\ RsDue' \in [RsClients -> Int] /\ IsFiniteSet(RsClients)
  <2>1. \A d \in RsClients : Due(d)' \in Int
    BY DuesIntNext
  <2>2. RsDue' \in [RsClients -> Int]
    BY <2>1 DEF RsDue
  <2> QED
    BY <2>2, DueType
<1>2. \A d \in RsClients : d # c => RsDue'[d] = RsDue[d]
  BY DEF RsDue, Due
<1>3. RsDue[c] = Due(c) /\ RsDue'[c] = Due(c)'
  BY DEF RsDue, Due
<1>4. SumFunction(RsDue') = SumFunction(RsDue) - RsDue[c] + RsDue'[c]
  <2>1. \A v, w \in [RsClients -> Int] : (\A d \in RsClients : d # c => w[d] = v[d]) =>
           SumFunction(w) = SumFunction(v) - v[c] + w[c]
    BY <1>1, SumUpdate
  <2> QED
    BY <1>1, <1>2, <2>1
<1> QED
  BY <1>3, <1>4 DEF DueSum

\* A row that goes away or is new owes no more.
LEMMA DueOfRow ==
  ASSUME RequestsInv, rsReq' = rsReq, rsIds' \in {rsIds, rsIds + 1}, rsRow'.id \in {0, rsRow.id, rsIds + 1},
         RequestsInv'
  PROVE  DueSum' <= DueSum /\ (rsRow'.id = rsRow.id => DueSum' = DueSum)
<1>1. RsDue \in [RsClients -> Int] /\ RsDue' \in [RsClients -> Int] /\ IsFiniteSet(RsClients)
  <2>1. \A d \in RsClients : Due(d)' \in Int
    BY DuesIntNext
  <2>2. RsDue' \in [RsClients -> Int]
    BY <2>1 DEF RsDue
  <2> QED
    BY <2>2, DueType
<1>2. \A d \in RsClients : RsDue[d] = Due(d) /\ RsDue'[d] = Due(d)'
  BY DEF RsDue, Due
<1>3. ASSUME NEW d \in RsClients PROVE Due(d)' <= Due(d) /\ (rsRow'.id = rsRow.id => Due(d)' = Due(d))
  <2>1. Due(d) \in Int /\ (rsReq[d].pc # "late" => Due(d) \in Nat)
    BY Dues
  <2>2. rsReq[d].pc # "idle" => RsSize[rsReq[d].obj] \in Nat
    BY Dues
  <2>3. rsReq[d].pc = "release" => rsReq[d].id \in 1..rsIds /\ rsIds \in Nat
    BY DEF RequestsInv, RequestOK
  <2>4. rsReq[d].pc = "release" /\ rsReq'[d].id = rsRow'.id => rsReq[d].id = rsRow.id
    BY <2>3
  <2>5. Due(d)' \in {Due(d), 0} /\ (rsReq[d].pc = "late" => Due(d)' = Due(d)) /\ (rsRow'.id = rsRow.id => Due(d)' = Due(d))
    BY <2>4 DEF Due
  <2> QED
    BY <2>1, <2>5
<1>4. DueSum' <= DueSum
  <2>1. \A v, w \in [RsClients -> Int] : (\A d \in RsClients : v[d] <= w[d]) => SumFunction(v) <= SumFunction(w)
    BY <1>1, SumLe
  <2>2. SumFunction(RsDue') <= SumFunction(RsDue)
    BY <1>1, <1>2, <1>3, <2>1
  <2> QED
    BY <2>2 DEF DueSum
<1>5. rsRow'.id = rsRow.id => DueSum' = DueSum
  <2>1. rsRow'.id = rsRow.id => RsDue' = RsDue
    BY DEF RsDue, Due
  <2> QED
    BY <2>1 DEF DueSum
<1> QED
  BY <1>4, <1>5

LEMMA BytesMove ==
  ASSUME NEW o \in RsObjects, \A p \in RsObjects \ {o} : rsObjs'[p] = rsObjs[p]
  PROVE  Bytes' = Bytes - RsHeld[o] + RsHeld'[o]
<1>1. RsHeld \in [RsObjects -> Int] /\ RsHeld' \in [RsObjects -> Int] /\ IsFiniteSet(RsObjects)
  <2>1. \A p \in RsObjects : RsHeld'[p] \in Nat
    BY Sizes DEF RsHeld
  <2>2. DOMAIN RsHeld' = RsObjects /\ RsHeld' = [p \in RsObjects |-> RsHeld'[p]]
    BY DEF RsHeld
  <2> QED
    BY <2>1, <2>2, HeldType
<1>2. \A p \in RsObjects : p # o => RsHeld'[p] = RsHeld[p]
  BY DEF RsHeld
<1>3. \A v, w \in [RsObjects -> Int] : (\A p \in RsObjects : p # o => w[p] = v[p]) =>
           SumFunction(w) = SumFunction(v) - v[o] + w[o]
  BY <1>1, SumUpdate
<1>4. SumFunction(RsHeld') = SumFunction(RsHeld) - RsHeld[o] + RsHeld'[o]
  BY <1>1, <1>2, <1>3
<1> QED
  BY <1>4 DEF Bytes

LEMMA BytesNext == Bytes' \in Nat
<1>1. (Bytes \in Nat)'
  BY BytesType, PTL
<1> QED
  BY <1>1

\* A step of a request that leaves the store alone and changes only what is due.
LEMMA CoverMoves ==
  ASSUME RsTypeOK, RequestsInv, RequestsInv', NEW c \in RsClients, RsRequest(c)
  PROVE  /\ DueSum' = DueSum - Due(c) + Due(c)'
         /\ Due(c) \in Int /\ Due(c)' \in Int /\ DueSum \in Int /\ DueSum' \in Int /\ Bytes \in Nat /\ Bytes' \in Nat
         /\ rsObjs' = rsObjs => Bytes' = Bytes
         /\ \A o \in RsObjects : \A b : rsObjs' = [rsObjs EXCEPT ![o] = b] =>
               /\ b # Absent => Bytes' = Bytes - RsHeld[o] + RsSize[o]
               /\ b = Absent => Bytes' = Bytes - RsHeld[o]
         /\ \A o \in RsObjects : RsHeld[o] \in Nat /\ RsHeld[o] = IF rsObjs[o] = Absent THEN 0 ELSE RsSize[o]
<1>1. \A d \in RsClients \ {c} : rsReq'[d] = rsReq[d]
  BY Moves
<1>2. DueSum' = DueSum - Due(c) + Due(c)'
  BY <1>1, DueMoves, RowKept
<1>3. Due(c) \in Int /\ Due(c)' \in Int /\ DueSum \in Int
  BY DuesInt, DuesIntNext, DueType
<1>4. DueSum' \in Int
  BY <1>2, <1>3
<1>5. Bytes' \in Nat
  BY BytesNext
<1>6. rsObjs' = rsObjs => Bytes' = Bytes
  BY DEF Bytes, RsHeld
<1>7. ASSUME NEW o \in RsObjects, NEW b, rsObjs' = [rsObjs EXCEPT ![o] = b]
      PROVE  /\ b # Absent => Bytes' = Bytes - RsHeld[o] + RsSize[o]
             /\ b = Absent => Bytes' = Bytes - RsHeld[o]
  <2>1. rsObjs'[o] = b /\ \A p \in RsObjects \ {o} : rsObjs'[p] = rsObjs[p]
    BY <1>7 DEF RsTypeOK
  <2>2. Bytes' = Bytes - RsHeld[o] + RsHeld'[o]
    BY <2>1, BytesMove
  <2>3. RsHeld'[o] = IF b = Absent THEN 0 ELSE RsSize[o]
    BY <2>1 DEF RsHeld
  <2>4. Bytes \in Int /\ RsHeld[o] \in Int
    BY BytesType, HeldType
  <2> QED
    BY <2>2, <2>3, <2>4
<1>8. \A o \in RsObjects : RsHeld[o] \in Nat /\ RsHeld[o] = IF rsObjs[o] = Absent THEN 0 ELSE RsSize[o]
  BY HeldType DEF RsHeld
<1> QED
  BY <1>2, <1>3, <1>4, <1>5, <1>6, <1>7, <1>8, BytesType

\* How a request's step moves the usage and what it has to cover.
Booked(c) ==
    \/ rsRow' = rsRow /\ Cover' <= Cover
    \/ /\ Works(c)
       /\ \E n \in Nat : Admits(rsReq[c].id, n) /\ rsRow' = [rsRow EXCEPT !.used = @ + n] /\ Cover' <= Cover + n
    \/ \E n \in Nat : rsRow' = [rsRow EXCEPT !.used = IF @ > n THEN @ - n ELSE 0] /\ Cover' <= Cover - n

LEMMA BookedReserve ==
  ASSUME RsTypeOK, RequestsInv, RequestsInv', NEW c \in RsClients, RsRequest(c), RsReserve(c)
  PROVE  Booked(c)
<1> DEFINE r == rsReq[c]
           n == RsSize[r.obj]
<1>1. r.pc = "authed" /\ UNCHANGED rsObjs /\ rsReq \in [RsClients -> Request] /\ r \in Request
  BY DEF RsReserve, RequestsInv, rsHistory
<1>2. Due(c) = 0 /\ n \in Nat
  BY <1>1, Dues
<1>3. Bytes' = Bytes
  BY <1>1, CoverMoves
<1>4. CASE Grants(r.id, n)
  <2>1. rsRow' = Reserved(r.id, n) /\ rsReq' = [rsReq EXCEPT ![c].pc = "create", ![c].reserved = TRUE]
    BY <1>4 DEF RsReserve
  <2>2. rsReq'[c] = [r EXCEPT !.pc = "create", !.reserved = TRUE]
    BY <1>1, <2>1
  <2>3. rsReq'[c].pc = "create" /\ rsReq'[c].reserved /\ rsReq'[c].obj = r.obj
    BY <1>1, <2>2 DEF Request
  <2>4. Due(c)' = n
    BY <2>3 DEF Due
  <2>5. Cover' = Cover + n
    BY <1>2, <1>3, <2>4, CoverMoves DEF Cover
  <2>6. Cover \in Int
    BY CoverMoves DEF Cover
  <2>7. CASE n = 0
    <3>1. rsRow' = rsRow
      BY <2>1, <2>7 DEF Reserved
    <3> QED
      BY <2>5, <2>6, <2>7, <3>1 DEF Booked, Works
  <2>8. CASE n # 0
    <3>1. Admits(r.id, n) /\ n > 0
      BY <1>2, <1>4, <2>8 DEF Grants
    <3>2. rsRow' = [rsRow EXCEPT !.used = @ + n]
      BY <2>1, <3>1 DEF Reserved
    <3>3. Cover' <= Cover + n
      BY <1>2, <2>5, <2>6
    <3> QED
      BY <1>1, <1>2, <3>1, <3>2, <3>3 DEF Booked, Works
  <2> QED
    BY <2>7, <2>8
<1>5. CASE ~Grants(r.id, n)
  <2>1. rsRow' = rsRow /\ (Go(c, "stat") \/ Answered(c))
    BY <1>5 DEF RsReserve
  <2>2. ~r.reserved
    BY <1>1 DEF RequestsInv, RequestOK
  <2>3. ~rsReq'[c].reserved /\ rsReq'[c].pc \in {"stat", "idle"}
    <3>1. CASE Go(c, "stat")
      BY <1>1, <2>2, <3>1 DEF Go, Request
    <3>2. CASE Answered(c)
      BY <1>1, <3>2, IdlePc DEF Answered
    <3> QED
      BY <2>1, <3>1, <3>2
  <2>4. Due(c)' = 0
    BY <2>3 DEF Due
  <2>5. Cover' = Cover /\ Cover \in Int
    BY <1>2, <1>3, <2>4, CoverMoves DEF Cover
  <2> QED
    BY <2>1, <2>5 DEF Booked, Works
<1> QED
  BY <1>4, <1>5

\* What an upload's attempt to create does: nothing is stored and no more is due, or it
\* stores its object and the object is accounted for.
LEMMA CreateSteps ==
  ASSUME RequestsInv, NEW c \in RsClients, RsCreate(c) \/ RsCommit(c), rsCauses' = {}
  PROVE  /\ rsRow' = rsRow
         /\ \/ rsObjs' = rsObjs /\ (Answered(c) \/ (Go(c, "release") /\ rsReq[c].reserved) \/ Go(c, "commit"))
            \/ /\ rsObjs' = [rsObjs EXCEPT ![rsReq[c].obj] = rsReq[c].body]
               /\ (Answered(c) /\ rsReq[c].reserved) \/ (Go(c, "late") /\ ~rsReq[c].reserved)
<1>1. CASE RsCreate(c)
  BY <1>1 DEF RsCreate, Duplicate, Stored, Commit, Ambiguous
<1>2. CASE RsCommit(c)
  BY <1>2 DEF RsCommit, Duplicate, Stored, Commit, Ambiguous
<1> QED
  BY <1>1, <1>2

LEMMA BookedCreate ==
  ASSUME RsTypeOK, RequestsInv, RequestsInv', NEW c \in RsClients, RsRequest(c), RsCreate(c) \/ RsCommit(c),
         rsCauses' = {}
  PROVE  Booked(c)
<1> DEFINE r == rsReq[c]
           n == RsSize[r.obj]
<1>1. r.pc \in {"create", "commit"} /\ rsReq \in [RsClients -> Request] /\ r \in Request
  BY DEF RsCreate, RsCommit, RequestsInv
<1>2. Due(c) = (IF r.reserved THEN n ELSE 0) /\ n \in Nat
  BY <1>1, Dues
<1>3. r.obj \in RsObjects /\ r.body \in RsContents
  BY <1>1 DEF RequestsInv, RequestOK
<1>4. Answered(c) => Due(c)' = 0
  <2>1. Answered(c) => rsReq'[c] = RsIdle
    BY <1>1 DEF Answered
  <2> QED
    BY <2>1, IdlePc DEF Due
<1>5. ASSUME NEW pc, Go(c, pc)
      PROVE  rsReq'[c].pc = pc /\ rsReq'[c].obj = r.obj /\ rsReq'[c].reserved = r.reserved /\ rsReq'[c].id = r.id
  BY <1>1, <1>5 DEF Go, Request
<1>6. Cover \in Int /\ Cover' \in Int
  BY CoverMoves DEF Cover
<1>7. CASE rsObjs' = rsObjs /\ (Answered(c) \/ (Go(c, "release") /\ r.reserved) \/ Go(c, "commit"))
  <2>1. Bytes' = Bytes
    BY <1>7, CoverMoves
  <2>2. Go(c, "release") /\ r.reserved => Due(c)' = n
    <3>1. Go(c, "release") => rsReq'[c].pc = "release" /\ rsReq'[c].obj = r.obj /\ rsReq'[c].reserved = r.reserved
      BY <1>5
    <3> QED
      BY <3>1 DEF Due
  <2>3. Go(c, "commit") => Due(c)' = IF r.reserved THEN n ELSE 0
    <3>1. Go(c, "commit") => rsReq'[c].pc = "commit" /\ rsReq'[c].obj = r.obj /\ rsReq'[c].reserved = r.reserved
      BY <1>5
    <3> QED
      BY <3>1 DEF Due
  <2>4. Due(c)' <= Due(c)
    BY <1>2, <1>4, <1>7, <2>2, <2>3
  <2>5. Cover' <= Cover
    BY <2>1, <2>4, CoverMoves DEF Cover
  <2> QED
    BY <2>5, CreateSteps DEF Booked, Works
<1>8. CASE /\ rsObjs' = [rsObjs EXCEPT ![r.obj] = r.body]
           /\ (Answered(c) /\ r.reserved) \/ (Go(c, "late") /\ ~r.reserved)
  <2>1. r.body # Absent
    BY <1>3, Names
  <2>2. Bytes' = Bytes - RsHeld[r.obj] + n /\ RsHeld[r.obj] \in Nat
    BY <1>3, <1>8, <2>1, CoverMoves
  <2>3. Go(c, "late") => Due(c)' = -n
    BY <1>5 DEF Due
  <2>4. Due(c)' = Due(c) - n
    BY <1>2, <1>4, <1>8, <2>3
  <2>5. Cover' <= Cover
    BY <1>2, <2>2, <2>4, CoverMoves DEF Cover
  <2> QED
    BY <2>5, CreateSteps DEF Booked, Works
<1> QED
  BY <1>7, <1>8, CreateSteps

LEMMA BookedRelease ==
  ASSUME RsTypeOK, RequestsInv, RequestsInv', NEW c \in RsClients, RsRequest(c), RsRelease(c)
  PROVE  Booked(c)
<1> DEFINE r == rsReq[c]
           n == RsSize[r.obj]
<1>1. r.pc = "release" /\ rsObjs' = rsObjs /\ rsReq \in [RsClients -> Request] /\ Answered(c)
  BY DEF RsRelease, RequestsInv, rsHistory
<1>2. n \in Nat /\ Due(c) \in Nat /\ (r.id = rsRow.id => Due(c) = n)
  BY <1>1, Dues DEF Due
<1>3. Due(c)' = 0
  <2>1. rsReq'[c] = RsIdle
    BY <1>1 DEF Answered
  <2> QED
    BY <2>1, IdlePc DEF Due
<1>4. Bytes' = Bytes
  BY <1>1, CoverMoves
<1>5. Cover' = Cover - Due(c) /\ Cover \in Int
  BY <1>3, <1>4, CoverMoves DEF Cover
<1>6. CASE rsRow' = rsRow
  <2>1. Cover' <= Cover
    BY <1>2, <1>5
  <2> QED
    BY <1>6, <2>1 DEF Booked
<1>7. CASE rsRow' # rsRow
  <2>1. r.id = rsRow.id /\ rsRow' = [rsRow EXCEPT !.used = IF @ > n THEN @ - n ELSE 0]
    BY <1>7 DEF RsRelease, Released
  <2>2. Cover' <= Cover - n
    BY <1>2, <1>5, <2>1
  <2> QED
    BY <1>2, <2>1, <2>2 DEF Booked
<1> QED
  BY <1>6, <1>7

LEMMA BookedLate ==
  ASSUME RsTypeOK, RequestsInv, RequestsInv', NEW c \in RsClients, RsRequest(c), RsLate(c), rsCauses' = {}
  PROVE  Booked(c)
<1> DEFINE r == rsReq[c]
           n == RsSize[r.obj]
<1>1. r.pc = "late" /\ rsObjs' = rsObjs /\ rsReq \in [RsClients -> Request] /\ Answered(c)
      /\ rsRow' = Reserved(r.id, n) /\ Grants(r.id, n)
  BY DEF RsLate, RequestsInv, rsHistory, rsBounds
<1>2. n \in Nat /\ Due(c) = -n
  BY <1>1, Dues
<1>3. Due(c)' = 0
  <2>1. rsReq'[c] = RsIdle
    BY <1>1 DEF Answered
  <2> QED
    BY <2>1, IdlePc DEF Due
<1>4. Bytes' = Bytes
  BY <1>1, CoverMoves
<1>5. Cover' = Cover + n /\ Cover \in Int
  BY <1>2, <1>3, <1>4, CoverMoves DEF Cover
<1>6. CASE n = 0
  <2>1. rsRow' = rsRow
    BY <1>1, <1>6 DEF Reserved
  <2> QED
    BY <1>5, <1>6, <2>1 DEF Booked
<1>7. CASE n # 0
  <2>1. Admits(r.id, n) /\ n > 0
    BY <1>1, <1>2, <1>7 DEF Grants
  <2>2. rsRow' = [rsRow EXCEPT !.used = @ + n]
    BY <1>1, <2>1 DEF Reserved
  <2>3. Cover' <= Cover + n
    BY <1>2, <1>5
  <2> QED
    BY <1>1, <1>2, <2>1, <2>2, <2>3 DEF Booked, Works
<1> QED
  BY <1>6, <1>7

LEMMA BookedUnlink ==
  ASSUME RsTypeOK, RequestsInv, RequestsInv', NEW c \in RsClients, RsRequest(c), RsUnlink(c), rsCauses' = {}
  PROVE  Booked(c)
<1> DEFINE r == rsReq[c]
           n == RsSize[r.obj]
<1>1. r.pc = "unlink" /\ rsReq \in [RsClients -> Request] /\ r \in Request /\ rsRow' = rsRow
      /\ rsObjs' = [rsObjs EXCEPT ![r.obj] = Absent]
  BY DEF RsUnlink, RequestsInv
<1>2. n \in Nat /\ Due(c) = 0 /\ r.obj \in RsObjects /\ ~r.reserved /\ r.freed \in {0, n}
  BY <1>1, Dues, Names DEF RequestsInv, RequestOK
<1>3. Bytes' = Bytes - RsHeld[r.obj] /\ RsHeld[r.obj] \in Nat /\ RsHeld[r.obj] = IF rsObjs[r.obj] = Absent THEN 0 ELSE n
  BY <1>1, <1>2, CoverMoves
<1>4. CASE Answered(c)
  <2>1. rsReq'[c] = RsIdle
    BY <1>1, <1>4 DEF Answered
  <2>2. Due(c)' = 0
    BY <2>1, IdlePc DEF Due
  <2>3. Cover' <= Cover
    BY <1>2, <1>3, <2>2, CoverMoves DEF Cover
  <2> QED
    BY <1>1, <2>3 DEF Booked
<1>5. CASE ~Answered(c)
  <2>1. Go(c, "release") /\ rsObjs[r.obj] # Absent /\ r.freed > 0
    BY <1>5 DEF RsUnlink
  <2>2. rsReq'[c].pc = "release" /\ ~rsReq'[c].reserved /\ rsReq'[c].obj = r.obj
    BY <1>1, <1>2, <2>1 DEF Go, Request
  <2>3. Due(c)' <= n
    BY <1>2, <2>2 DEF Due
  <2>4. RsHeld[r.obj] = n
    BY <1>3, <2>1
  <2>5. Cover' <= Cover
    BY <1>2, <1>3, <2>3, <2>4, CoverMoves DEF Cover
  <2> QED
    BY <1>1, <2>5 DEF Booked
<1> QED
  BY <1>4, <1>5

\* Steps before a reservation and outside the store change no account.
LEMMA BookedQuiet ==
  ASSUME RsTypeOK, RequestsInv, RequestsInv', NEW c \in RsClients, RsRequest(c),
         rsReq[c].pc \in {"idle", "refresh"} \/ RsStat(c) \/ RsDeleteStat(c)
  PROVE  Booked(c)
<1> DEFINE r == rsReq[c]
<1>1. r.pc \in {"idle", "refresh", "authed", "stat"} /\ UNCHANGED <<rsRow, rsObjs>>
  BY Moves DEF RsStat, RsDeleteStat, rsHistory
<1>2. Due(c) = 0
  BY <1>1, Dues
<1>3. ~rsReq'[c].reserved /\ rsReq'[c].pc \in {"idle", "refresh", "authed", "unlink", "create"}
  <2>1. CASE r.pc \in {"idle", "refresh"}
    BY <2>1, Moves, IdlePc
  <2>2. CASE RsStat(c) \/ RsDeleteStat(c)
    <3>1. rsReq \in [RsClients -> Request] /\ r \in Request /\ ~r.reserved
      BY <1>1 DEF RequestsInv, RequestOK
    <3>2. Answered(c) \/ Go(c, "create") \/ \E n : rsReq' = [rsReq EXCEPT ![c].pc = "unlink", ![c].freed = n]
      BY <2>2 DEF RsStat, RsDeleteStat
    <3>3. CASE Answered(c)
      BY <3>1, <3>3, IdlePc DEF Answered
    <3>4. CASE Go(c, "create")
      BY <3>1, <3>4 DEF Go, Request
    <3>5. CASE \E n : rsReq' = [rsReq EXCEPT ![c].pc = "unlink", ![c].freed = n]
      <4>1. PICK n : rsReq' = [rsReq EXCEPT ![c].pc = "unlink", ![c].freed = n]
        BY <3>5
      <4>2. rsReq'[c] = [r EXCEPT !.pc = "unlink", !.freed = n]
        BY <3>1, <4>1
      <4>3. rsReq'[c].pc = "unlink" /\ rsReq'[c].reserved = r.reserved
        BY <3>1, <4>2 DEF Request
      <4> QED
        BY <3>1, <4>3
    <3> QED
      BY <3>2, <3>3, <3>4, <3>5
  <2> QED
    BY <2>1, <2>2
<1>4. Due(c)' = 0
  BY <1>3 DEF Due
<1>5. Cover' = Cover /\ Cover \in Int
  BY <1>1, <1>2, <1>4, CoverMoves DEF Cover
<1> QED
  BY <1>1, <1>5 DEF Booked

LEMMA BookedAll ==
  ASSUME RsTypeOK, RequestsInv, RequestsInv', NEW c \in RsClients, RsRequest(c), rsCauses' = {}
  PROVE  Booked(c)
<1>1. \/ rsReq[c].pc \in {"idle", "refresh"} \/ RsReserve(c) \/ RsStat(c) \/ RsCreate(c) \/ RsCommit(c) \/ RsRelease(c)
      \/ RsLate(c) \/ RsDeleteStat(c) \/ RsUnlink(c)
  BY DEF RsRequest, RsArrive, RsRefresh
<1> QED
  BY <1>1, BookedReserve, BookedCreate, BookedRelease, BookedLate, BookedUnlink, BookedQuiet

LEMMA ClientOverlaps ==
  ASSUME RsTypeOK, RequestsInv, RestInv, NEW c \in RsClients, RsRequest(c),
         rsAdmin.pc = "measured" /\ ~rsAdmin.overlap => Busy = {}
  PROVE  ~(rsAdmin'.pc = "measured" /\ ~rsAdmin'.overlap)
<1>1. CASE rsReq[c].pc = "idle"
  <2>1. rsAdmin' = [rsAdmin EXCEPT !.overlap = rsAdmin.pc \in {"measured", "insert"}]
    BY <1>1, Moves
  <2>2. rsAdmin'.overlap = (rsAdmin.pc \in {"measured", "insert"}) /\ rsAdmin'.pc = rsAdmin.pc
    BY <2>1 DEF RestInv
  <2> QED
    BY <2>2
<1>2. CASE rsReq[c].pc # "idle"
  <2>1. rsAdmin' = rsAdmin
    BY <1>2, Moves
  <2> QED
    BY <1>2, <2>1, BusyIs
<1> QED
  BY <1>1, <1>2

LEMMA UsageOfClients ==
  ASSUME RsTypeOK, RequestsInv, RequestsInv', RestInv, UsageCovers, NEW c \in RsClients, RsRequest(c), [RsNext]_rsVars
  PROVE  UsageCovers'
<1> SUFFICES ASSUME rsCauses' = {}, rsCauses = {}
             PROVE  /\ rsRow'.id # 0 => Cover' <= rsRow'.used
                    /\ rsRow'.id # 0 /\ rsCeil' # 0 => rsRow'.used <= rsCeil' /\ rsRow'.quota # 0 /\ rsRow'.quota <= rsCeil'
                    /\ rsRow'.id = 0 /\ rsCeil' # 0 => Cover' <= rsCeil'
                    /\ ~(rsAdmin'.pc = "measured" /\ ~rsAdmin'.overlap)
  BY CausesGrow DEF UsageCovers
<1>1. ~(rsAdmin'.pc = "measured" /\ ~rsAdmin'.overlap)
  BY ClientOverlaps DEF UsageCovers
<1>2. /\ rsRow.id # 0 => Cover <= rsRow.used
      /\ rsRow.id # 0 /\ rsCeil # 0 => rsRow.used <= rsCeil /\ rsRow.quota # 0 /\ rsRow.quota <= rsCeil
      /\ rsRow.id = 0 /\ rsCeil # 0 => Cover <= rsCeil
  BY DEF UsageCovers
<1>3. rsRow'.id = rsRow.id /\ rsRow'.quota = rsRow.quota /\ rsCeil' = rsCeil
  BY RowKept, ClientFrame
<1>4. Cover \in Int /\ Cover' \in Int /\ rsRow.used \in Nat /\ rsCeil \in Nat /\ rsRow.quota \in Nat
  BY CoverMoves, RsAssumption DEF Cover, RsTypeOK, RestInv
<1>5. rsRow \in RowType
  BY DEF RsTypeOK, RowType
<1>6. CASE rsRow' = rsRow /\ Cover' <= Cover
  BY <1>1, <1>2, <1>3, <1>4, <1>6
<1>7. ASSUME NEW n \in Nat, Works(c), Admits(rsReq[c].id, n), rsRow' = [rsRow EXCEPT !.used = @ + n], Cover' <= Cover + n
      PROVE  /\ rsRow'.id # 0 => Cover' <= rsRow'.used
             /\ rsRow'.id # 0 /\ rsCeil' # 0 => rsRow'.used <= rsCeil' /\ rsRow'.quota # 0 /\ rsRow'.quota <= rsCeil'
             /\ rsRow'.id = 0 /\ rsCeil' # 0 => Cover' <= rsCeil'
  <2>1. rsRow'.used = rsRow.used + n
    BY <1>5, <1>7 DEF RowType
  <2>2. rsRow.id # 0
    <3>1. rsReq[c].id = rsRow.id
      BY <1>7 DEF Admits
    <3>2. RequestOK(rsReq[c])
      BY DEF RequestsInv
    <3>3. rsReq[c].id \in 1..rsIds /\ rsIds \in Nat
      BY <1>7, <3>2 DEF RequestOK, RequestsInv, Works
    <3> QED
      BY <3>1, <3>3
  <2>3. rsRow.quota = 0 \/ rsRow.used + n <= rsRow.quota
    BY <1>7 DEF Admits
  <2> QED
    BY <1>2, <1>3, <1>4, <1>7, <2>1, <2>2, <2>3
<1>8. ASSUME NEW n \in Nat, rsRow' = [rsRow EXCEPT !.used = IF @ > n THEN @ - n ELSE 0], Cover' <= Cover - n
      PROVE  /\ rsRow'.id # 0 => Cover' <= rsRow'.used
             /\ rsRow'.id # 0 /\ rsCeil' # 0 => rsRow'.used <= rsCeil' /\ rsRow'.quota # 0 /\ rsRow'.quota <= rsCeil'
             /\ rsRow'.id = 0 /\ rsCeil' # 0 => Cover' <= rsCeil'
  <2>1. rsRow'.used = IF rsRow.used > n THEN rsRow.used - n ELSE 0
    BY <1>5, <1>8 DEF RowType
  <2> QED
    BY <1>2, <1>3, <1>4, <1>8, <2>1
<1> QED
  BY <1>1, <1>6, <1>7, <1>8, BookedAll DEF Booked

\* What UsageCovers says once no cause has been met.
Accounts ==
    /\ rsRow.id # 0 => Cover <= rsRow.used
    /\ rsRow.id # 0 /\ rsCeil # 0 => rsRow.used <= rsCeil /\ rsRow.quota # 0 /\ rsRow.quota <= rsCeil
    /\ rsRow.id = 0 /\ rsCeil # 0 => Cover <= rsCeil

Measured ==
    rsAdmin.pc = "measured" /\ ~rsAdmin.overlap =>
        Busy = {} /\ Bytes <= rsAdmin.seen /\ (rsCeil # 0 => rsAdmin.seen <= rsCeil)

LEMMA UsageIs == UsageCovers <=> (rsCauses = {} => Accounts /\ Measured)
BY DEF UsageCovers, Accounts, Measured

LEMMA CoverType ==
  ASSUME RsTypeOK, RequestsInv, RestInv
  PROVE  Cover \in Int /\ Bytes \in Nat /\ DueSum \in Int /\ rsRow.used \in Nat /\ rsRow.quota \in Nat /\ rsCeil \in Nat
<1>1. Bytes \in Nat /\ DueSum \in Int
  BY BytesType, DueType
<1>2. rsRow.used \in Nat /\ rsRow.quota \in RsQuotas /\ rsCeil \in Nat
  BY DEF RsTypeOK, RestInv
<1>3. rsRow.quota \in Nat
  BY <1>2, RsAssumption
<1>4. Bytes + DueSum \in Int
  BY <1>1
<1> QED
  BY <1>1, <1>2, <1>3, <1>4 DEF Cover

LEMMA CoverTypeNext ==
  ASSUME RsTypeOK', RequestsInv', RestInv'
  PROVE  Cover' \in Int /\ Bytes' \in Nat /\ DueSum' \in Int
<1>1. RsDue' \in [RsClients -> Int]
  <2>1. \A d \in RsClients : Due(d)' \in Int
    BY DuesIntNext
  <2> QED
    BY <2>1 DEF RsDue
<1>2. DueSum' \in Int
  <2>1. \A w \in [RsClients -> Int] : SumFunction(w) \in Int
    BY SumType, RsAssumption
  <2> QED
    BY <1>1, <2>1 DEF DueSum
<1> QED
  BY <1>2, BytesNext DEF Cover

\* An empty repository nobody works for has nothing to cover.
LEMMA EmptyCover ==
  ASSUME RequestsInv, \A o \in RsObjects : rsObjs[o] = Absent
  PROVE  Bytes = 0
<1>1. RsHeld = [o \in RsObjects |-> 0]
  BY DEF RsHeld
<1> QED
  BY <1>1, SumZero, RsAssumption DEF Bytes

\* An operator's step leaves the store and the requests alone: what is due only shrinks.
LEMMA OperatorCover ==
  ASSUME RsTypeOK, RequestsInv, RestInv, RsTypeOK', RequestsInv', RestInv', RsOperator
  PROVE  /\ UNCHANGED <<Bytes, Busy>> /\ Cover' <= Cover
         /\ rsRow'.id = rsRow.id => Cover' = Cover
<1>1. rsReq' = rsReq /\ rsObjs' = rsObjs /\ rsIds' \in {rsIds, rsIds + 1}
  BY OperatorFrame
<1>2. rsRow'.id \in {0, rsRow.id, rsIds + 1}
  BY OperatorSteps
<1>3. DueSum' <= DueSum /\ (rsRow'.id = rsRow.id => DueSum' = DueSum)
  BY <1>1, <1>2, DueOfRow
<1>4. Bytes' = Bytes /\ Busy' = Busy
  BY <1>1 DEF Bytes, RsHeld, Busy
<1>5. Bytes \in Nat /\ DueSum \in Int /\ DueSum' \in Int
  BY CoverType, CoverTypeNext
<1>6. Bytes' + DueSum' <= Bytes + DueSum /\ (rsRow'.id = rsRow.id => Bytes' + DueSum' = Bytes + DueSum)
  <2>1. \A b \in Nat, d, e \in Int : e <= d => b + e <= b + d
    OBVIOUS
  <2>2. Bytes + DueSum' <= Bytes + DueSum
    BY <1>3, <1>5, <2>1
  <2> QED
    BY <1>3, <1>4, <2>2, Zenon
<1> QED
  BY <1>4, <1>6 DEF Cover

LEMMA UsageSetQuota ==
  ASSUME RsTypeOK, RequestsInv, RestInv, RsTypeOK', RequestsInv', RestInv', RsOperator,
         NEW q \in RsQuotas, RsSetQuota(q), Accounts
  PROVE  Accounts' /\ Measured'
<1>1. rsRow \in RowType /\ rsRow' = [rsRow EXCEPT !.quota = q] /\ rsCeil' = Wider(rsCeil, q) /\ rsRow.id # 0
  BY DEF RsTypeOK, RowType, RsSetQuota
<1>2. rsRow'.id = rsRow.id /\ rsRow'.used = rsRow.used /\ rsRow'.quota = q
  BY <1>1 DEF RowType
<1>3. q \in Nat
  BY RsAssumption
<1>4. rsCeil' # 0 => rsCeil # 0 /\ q # 0 /\ q <= rsCeil' /\ rsCeil <= rsCeil'
  BY <1>1, <1>3, CoverType, WiderIs
<1>5. rsCeil' \in Nat
  BY DEF RestInv
<1>6. Cover' = Cover
  BY <1>2, OperatorCover
<1>7. Measured'
  BY AdminIs DEF RsSetQuota, Measured
<1>8. Cover <= rsRow.used /\ (rsCeil # 0 => rsRow.used <= rsCeil)
  BY <1>1 DEF Accounts
<1>9. rsCeil' # 0 => rsRow'.used <= rsCeil'
  BY <1>2, <1>4, <1>5, <1>8, CoverType
<1> QED
  BY <1>1, <1>2, <1>4, <1>6, <1>7, <1>8, <1>9 DEF Accounts

LEMMA UsageMeasure ==
  ASSUME RsTypeOK, RequestsInv, RestInv, RsMeasure, Accounts
  PROVE  Measured'
<1> SUFFICES ASSUME ~rsAdmin'.overlap
             PROVE  Busy' = {} /\ Bytes' <= rsAdmin'.seen /\ (rsCeil' # 0 => rsAdmin'.seen <= rsCeil')
  BY DEF Measured
<1>1. rsAdmin'.seen = Bytes /\ rsAdmin'.overlap = (Busy # {}) /\ UNCHANGED <<rsObjs, rsReq, rsCeil, rsRow>>
      /\ rsRow.id # 0
  BY DEF RsMeasure, rsHistory
<1>2. Busy = {} /\ Busy' = Busy /\ Bytes' = Bytes
  BY <1>1 DEF Busy, Bytes, RsHeld
<1>3. DueSum = 0
  BY <1>2, DueSigns
<1>4. Bytes <= rsRow.used /\ (rsCeil # 0 => rsRow.used <= rsCeil)
  <2>1. Cover = Bytes
    BY <1>3, CoverType DEF Cover
  <2> QED
    BY <1>1, <2>1 DEF Accounts
<1> QED
  BY <1>1, <1>2, <1>4, CoverType

LEMMA UsageSetUsage ==
  ASSUME RsTypeOK, RequestsInv, RestInv, RsTypeOK', RequestsInv', RestInv', RsOperator, RsSetUsage, Accounts, Measured,
         rsCauses' = {}
  PROVE  Accounts' /\ Measured'
<1>1. rsAdmin.pc = "measured" /\ ~rsAdmin.overlap /\ UNCHANGED <<rsCeil, rsReq, rsObjs>>
  BY DEF RsSetUsage
<1>2. Busy = {} /\ Bytes <= rsAdmin.seen /\ (rsCeil # 0 => rsAdmin.seen <= rsCeil)
  BY <1>1 DEF Measured
<1>3. rsRow \in RowType /\ rsRow' = [rsRow EXCEPT !.used = rsAdmin.seen]
  BY DEF RsTypeOK, RowType, RsSetUsage
<1>4. rsRow'.id = rsRow.id /\ rsRow'.used = rsAdmin.seen /\ rsRow'.quota = rsRow.quota
  BY <1>3 DEF RowType
<1>5. Cover' = Cover
  BY <1>4, OperatorCover
<1>6. Cover = Bytes
  <2>1. DueSum = 0
    BY <1>2, DueSigns
  <2> QED
    BY <2>1, CoverType DEF Cover
<1>7. Measured'
  BY AdminIs DEF RsSetUsage, Measured
<1> QED
  BY <1>1, <1>2, <1>4, <1>5, <1>6, <1>7 DEF Accounts

LEMMA UsageDelete ==
  ASSUME RsTypeOK, RequestsInv, RestInv, RsTypeOK', RequestsInv', RestInv', RsOperator, RsDelete, Accounts
  PROVE  Accounts' /\ Measured'
<1>1. rsRow'.id = 0 /\ rsCeil' = rsCeil
  BY DEF RsDelete, NoRow
<1>2. Cover' <= Cover
  BY OperatorCover
<1>3. Measured'
  BY AdminIs DEF RsDelete, Measured
<1>4. rsCeil # 0 => Cover <= rsCeil
  BY CoverType DEF Accounts
<1>5. rsCeil' # 0 => Cover' <= rsCeil'
  BY <1>1, <1>2, <1>4, CoverType, CoverTypeNext
<1> QED
  BY <1>1, <1>3, <1>5 DEF Accounts

LEMMA UsageInsert ==
  ASSUME RsTypeOK, RequestsInv, RestInv, RsTypeOK', RequestsInv', RestInv', RsOperator, InsertInv,
         NEW q \in RsQuotas, RsInsert(q), rsCauses' = {}
  PROVE  Accounts' /\ Measured'
<1>1. rsAdmin.pc = "insert" /\ ~rsAdmin.overlap /\ rsCeil' = q
      /\ rsRow' = [id |-> rsIds', secret |-> rsIds', revoked |-> FALSE, quota |-> q, used |-> 0] /\ rsIds' = rsIds + 1
  BY DEF RsInsert
<1>2. Busy = {} /\ \A o \in RsObjects : rsObjs[o] = Absent
  BY <1>1 DEF InsertInv
<1>3. Bytes = 0 /\ DueSum = 0
  BY <1>2, EmptyCover, DueSigns
<1>4. Cover' <= 0
  <2>1. Cover = 0
    BY <1>3 DEF Cover
  <2> QED
    BY <2>1, OperatorCover
<1>5. Measured'
  BY AdminIs DEF RsInsert, Measured
<1>6. rsRow'.id # 0 /\ rsRow'.used = 0 /\ rsRow'.quota = q /\ q \in Nat
  <2>1. rsIds \in Nat
    BY DEF RequestsInv
  <2> QED
    BY <1>1, <2>1, RsAssumption
<1>7. 0 <= q /\ q <= q
  BY <1>6
<1> QED
  BY <1>1, <1>4, <1>5, <1>6, <1>7 DEF Accounts

\* Every other step of the operator keeps usage, quota and ceiling.
LEMMA UsageOthers ==
  ASSUME RsTypeOK, RequestsInv, RestInv, RsTypeOK', RequestsInv', RestInv', RsOperator, Accounts,
         RsRevoke \/ RsRotate \/ RsInvalidate \/ RsMeasure \/ RsDeleteCheck \/ RsCreateCheck
  PROVE  Accounts' /\ (RsMeasure \/ Measured')
<1>1. rsRow \in RowType
  BY DEF RsTypeOK, RowType
<1>2. rsRow' = rsRow \/ rsRow' = [rsRow EXCEPT !.revoked = TRUE] \/ rsRow' = [rsRow EXCEPT !.secret = rsIds', !.revoked = FALSE]
  BY DEF RsRevoke, RsRotate, RsInvalidate, RsMeasure, RsDeleteCheck, RsCreateCheck
<1>3. rsRow'.id = rsRow.id /\ rsRow'.used = rsRow.used /\ rsRow'.quota = rsRow.quota
  BY <1>1, <1>2 DEF RowType
<1>4. rsCeil' = rsCeil
  BY DEF RsRevoke, RsRotate, RsInvalidate, RsMeasure, RsDeleteCheck, RsCreateCheck, rsHistory
<1>5. Cover' = Cover
  BY <1>3, OperatorCover
<1>6. RsMeasure \/ rsAdmin'.pc # "measured"
  BY AdminIs DEF RsRevoke, RsRotate, RsInvalidate, RsDeleteCheck, RsCreateCheck
<1> QED
  BY <1>3, <1>4, <1>5, <1>6 DEF Accounts, Measured

LEMMA UsageOfOperator ==
  ASSUME RsTypeOK, RequestsInv, RestInv, RsTypeOK', RequestsInv', RestInv', RsOperator, InsertInv, UsageCovers,
         [RsNext]_rsVars
  PROVE  UsageCovers'
<1> SUFFICES ASSUME rsCauses' = {}, Accounts, Measured PROVE Accounts' /\ Measured'
  <2>1. UsageCovers' <=> (rsCauses' = {} => Accounts' /\ Measured')
    BY DEF UsageCovers, Accounts, Measured
  <2>2. rsCauses' = {} => rsCauses = {}
    BY CausesGrow
  <2> QED
    BY <2>1, <2>2, UsageIs
<1>1. CASE \E q \in RsQuotas : RsSetQuota(q) \/ RsInsert(q)
  BY <1>1, UsageSetQuota, UsageInsert
<1>2. CASE RsSetUsage
  BY <1>2, UsageSetUsage
<1>3. CASE RsDelete
  BY <1>3, UsageDelete
<1>4. CASE RsRevoke \/ RsRotate \/ RsInvalidate \/ RsMeasure \/ RsDeleteCheck \/ RsCreateCheck
  BY <1>4, UsageOthers, UsageMeasure
<1> QED
  BY <1>1, <1>2, <1>3, <1>4 DEF RsOperator

LEMMA UsageOfWorld ==
  ASSUME RsTypeOK, RequestsInv, RestInv, RsTypeOK', RequestsInv', RestInv', WorldSteps, UsageCovers, [RsNext]_rsVars
  PROVE  UsageCovers'
<1> SUFFICES ASSUME rsCauses' = {}, Accounts, Measured PROVE Accounts' /\ Measured'
  <2>1. UsageCovers' <=> (rsCauses' = {} => Accounts' /\ Measured')
    BY DEF UsageCovers, Accounts, Measured
  <2>2. rsCauses' = {} => rsCauses = {}
    BY CausesGrow
  <2> QED
    BY <2>1, <2>2, UsageIs
<1>1. rsRow' = rsRow /\ rsCeil' = rsCeil
  BY WorldFrame
<1>2. Bytes' <= Bytes
  <2>1. CASE rsObjs' = rsObjs
    <3>1. Bytes' = Bytes
      BY <2>1 DEF Bytes, RsHeld
    <3> QED
      BY <3>1, CoverType
  <2>2. ASSUME NEW o \in RsObjects, rsObjs' = [rsObjs EXCEPT ![o] = Absent]
        PROVE  Bytes' <= Bytes
    <3>1. rsObjs'[o] = Absent /\ \A p \in RsObjects \ {o} : rsObjs'[p] = rsObjs[p]
      BY <2>2 DEF RsTypeOK
    <3>2. Bytes' = Bytes - RsHeld[o] + RsHeld'[o]
      BY <3>1, BytesMove
    <3>3. RsHeld'[o] = 0 /\ RsHeld[o] \in Nat
      BY <3>1, HeldType DEF RsHeld
    <3> QED
      BY <3>2, <3>3, CoverType
  <2> QED
    BY <2>1, <2>2, ReclaimOnly
<1>3. DueSum' <= DueSum /\ (Busy = {} => Busy' = {})
  <2>1. CASE rsReq' = rsReq
    <3>1. DueSum' = DueSum /\ Busy' = Busy
      BY <1>1, <2>1 DEF DueSum, RsDue, Due, Busy
    <3> QED
      BY <3>1, CoverType
  <2>2. CASE RsCrash /\ rsReq' = [c \in RsClients |-> RsIdle]
    <3>1. \A c \in RsClients : rsReq[c].pc # "late"
      BY <2>2 DEF RsCrash
    <3>2. 0 <= DueSum
      BY <3>1, DueSigns
    <3>3. Busy' = {} /\ RsDue' = [c \in RsClients |-> 0]
      BY <2>2, IdlePc DEF Busy, RsDue, Due
    <3>4. DueSum' = 0
      BY <3>3, SumZero, RsAssumption DEF DueSum
    <3> QED
      BY <3>2, <3>3, <3>4
  <2> QED
    BY <2>1, <2>2, CrashOrNot
<1>4. Cover' <= Cover
  BY <1>2, <1>3, CoverType, CoverTypeNext DEF Cover
<1>5. Accounts'
  BY <1>1, <1>4, CoverType, CoverTypeNext DEF Accounts
<1>6. Measured'
  <2>1. CASE rsAdmin' = rsAdmin
    <3>1. rsAdmin.seen \in Nat
      BY DEF RestInv
    <3> QED
      BY <1>1, <1>2, <1>3, <2>1, <3>1, CoverType, BytesNext DEF Measured
  <2>2. CASE rsAdmin' = AdminIdle
    BY <2>2 DEF AdminIdle, Measured
  <2> QED
    BY <2>1, <2>2, WorldFrame
<1> QED
  BY <1>5, <1>6

-----------------------------------------------------------------------------
(* The theorems.                                                           *)

LEMMA InitHolds == RsInit => RsIInv
<1> SUFFICES ASSUME RsInit PROVE RsIInv
  OBVIOUS
<1>1. rsRow \in [id : {1}, secret : {1}, revoked : {FALSE}, quota : RsQuotas, used : {Bytes}] /\ rsIds = 1
      /\ rsReq = [c \in RsClients |-> RsIdle] /\ rsAdmin = AdminIdle /\ rsCache = [fresh |-> FALSE, entry |-> NoEntry]
      /\ rsRaced = FALSE /\ rsCeil = rsRow.quota
  BY DEF RsInit
<1>2. rsRow \in RowType
  <2>1. Bytes \in Nat /\ 1 \in 0..1 /\ FALSE \in BOOLEAN
    BY BytesType
  <2>2. PICK q \in RsQuotas : rsRow = [id |-> 1, secret |-> 1, revoked |-> FALSE, quota |-> q, used |-> Bytes]
    BY <1>1
  <2>3. rsRow.id \in 0..rsIds /\ rsRow.secret \in 0..rsIds
    BY <1>1, <2>1, <2>2
  <2> QED
    BY <1>1, <2>1, <2>2, <2>3 DEF RowType
<1>3. rsRow.id = 1 /\ rsRow.secret = 1 /\ ~rsRow.revoked /\ rsRow.used = Bytes /\ rsRow.quota \in Nat
  BY <1>1, RsAssumption
<1>4. \A c \in RsClients : rsReq[c] = RsIdle
  BY <1>1
<1>5. RsTypeOK
  <2>1. rsObjs \in [RsObjects -> RsContents \cup {Absent}] /\ rsBackend \in RsBackends
    BY Names DEF RsInit
  <2>2. rsCache.fresh \in BOOLEAN /\ rsCache.entry \in [id : 0..rsIds, secret : 0..rsIds, revoked : BOOLEAN]
    BY <1>1 DEF NoEntry
  <2>3. rsAdmin.pc = "idle"
    BY <1>1 DEF AdminIdle
  <2>4. \A c \in RsClients : rsReq[c].pc = "idle"
    BY <1>4, IdlePc
  <2> QED
    BY <1>2, <2>1, <2>2, <2>3, <2>4 DEF RsTypeOK, RowType, RsPcs
<1>6. RequestsInv
  <2>1. rsIds \in Nat
    BY <1>1
  <2>2. RequestOK(RsIdle)
    <3>1. RsIdle.pc = "idle" /\ ~RsIdle.reserved /\ RsIdle.body = "" /\ RsIdle.rows.id = 0 /\ RsIdle.rows.secret = 0
      BY DEF RsIdle, NoEntry
    <3>2. "" # "delete" /\ 0 \in 0..rsIds
      BY <1>1
    <3> QED
      BY <3>1, <3>2 DEF RequestOK
  <2> QED
    BY <1>1, <1>4, <2>1, <2>2, IdleRequest DEF RequestsInv
<1>7. RestInv
  <2>1. rsAdmin = [pc |-> rsAdmin.pc, seen |-> rsAdmin.seen, overlap |-> rsAdmin.overlap] /\ rsAdmin.seen = 0
        /\ rsAdmin.overlap = FALSE
    BY <1>1 DEF AdminIdle
  <2>2. rsOwner \in [RsObjects -> Nat]
    BY DEF RsInit
  <2>3. rsAcked \in [RsObjects -> SUBSET RsContents]
    BY Names DEF RsInit
  <2>4. rsCache = [fresh |-> rsCache.fresh, entry |-> rsCache.entry]
    BY <1>1
  <2>5. rsRaced \in BOOLEAN /\ rsCeil \in Nat
    BY <1>1, <1>3
  <2>6. rsAdmin.seen \in Nat /\ rsAdmin.overlap \in BOOLEAN
    <3>1. rsAdmin.seen \in Nat
      BY <2>1, SMT
    <3>2. rsAdmin.overlap \in BOOLEAN
      BY <2>1, Zenon
    <3> QED
      BY <3>1, <3>2
  <2> QED
    BY <2>1, <2>2, <2>3, <2>4, <2>5, <2>6, Zenon DEF RestInv
<1>8. Busy = {} /\ \A c \in RsClients : ~Works(c) /\ ~rsReq[c].reserved /\ rsReq[c].pc = "idle"
  BY <1>4, IdlePc DEF Busy, Works
<1>9. CredentialsInv /\ InsertInv /\ RevokedInv
  BY <1>1, <1>3, <1>8 DEF CredentialsInv, InsertInv, RevokedInv, AdminIdle
<1>10. NoRebinding
  BY <1>3 DEF NoRebinding, RsInit
<1>11. AckedIsStored
  BY DEF AckedIsStored, RsInit
<1>12. UsageCovers
  <2>1. Cover = Bytes
    <3>1. DueSum = 0
      BY <1>6, <1>8, DueSigns
    <3> QED
      BY <3>1, BytesType DEF Cover
  <2>2. rsRow.quota = 0 \/ rsRow.used <= rsRow.quota
    BY DEF RsInit
  <2>3. Bytes \in Nat
    BY BytesType
  <2>4. Accounts
    BY <1>1, <1>3, <2>1, <2>2, <2>3 DEF Accounts
  <2>5. Measured
    BY <1>1 DEF Measured, AdminIdle
  <2> QED
    BY <2>4, <2>5, UsageIs
<1> QED
  BY <1>5, <1>6, <1>7, <1>9, <1>10, <1>11, <1>12 DEF RsIInv

LEMMA StepHolds == RsIInv /\ [RsNext]_rsVars => RsIInv'
<1> SUFFICES ASSUME RsTypeOK, RequestsInv, RestInv, CredentialsInv, InsertInv, RevokedInv, NoRebinding,
                    AckedIsStored, UsageCovers, [RsNext]_rsVars
             PROVE  RsIInv'
  BY DEF RsIInv
<1>1. RsTypeOK' /\ RequestsInv' /\ RestInv'
  BY TypesHold
<1>2. CredentialsInv' /\ InsertInv' /\ RevokedInv'
  BY CredentialsHold, InsertHolds, RevokedHolds
<1>3. NoRebinding' /\ AckedIsStored'
  BY OwnersHold, AckedHolds
<1>4. UsageCovers'
  BY <1>1, UsageOfClients, UsageOfOperator, UsageOfWorld, Steps
<1> QED
  BY <1>1, <1>2, <1>3, <1>4 DEF RsIInv

\* The inductive invariant gives what the run checks: what is owed to the row
\* is part of what its usage covers, once no object waits for its late account.
LEMMA InvariantIsEnough == RsIInv => StoreInv
<1> SUFFICES ASSUME RsTypeOK, RequestsInv, RestInv, CredentialsInv, NoRebinding, AckedIsStored, UsageCovers
             PROVE  StoreInv
  BY DEF RsIInv
<1>1. CacheIsCurrent
  BY DEF CacheIsCurrent, CredentialsInv
<1>2. ASSUME \A c \in RsClients : rsReq[c].pc # "late" PROVE InFlight <= DueSum /\ InFlight \in Int
  <2>1. ASSUME NEW c \in RsClients PROVE RsOwed[c] \in Int /\ RsOwed[c] <= RsDue[c]
    <3>1. RequestOK(rsReq[c]) /\ (rsReq[c].pc # "idle" => RsSize[rsReq[c].obj] \in Nat) /\ Due(c) \in Nat
      BY <1>2, Dues DEF RequestsInv
    <3>2. rsReq[c].reserved => rsReq[c].pc # "idle"
      BY <3>1 DEF RequestOK
    <3>3. RsOwed[c] = (IF rsReq[c].id = rsRow.id /\ rsReq[c].reserved THEN RsSize[rsReq[c].obj] ELSE 0)
          /\ RsDue[c] = Due(c)
      BY DEF RsOwed, RsDue
    <3>4. rsReq[c].reserved => Due(c) = RsSize[rsReq[c].obj]
      BY <1>2 DEF Due
    <3> QED
      BY <3>1, <3>2, <3>3, <3>4
  <2>2. RsOwed \in [RsClients -> Int]
    BY <2>1 DEF RsOwed
  <2>3. \A v, w \in [RsClients -> Int] : (\A c \in RsClients : v[c] <= w[c]) => SumFunction(v) <= SumFunction(w)
    BY DueType, SumLe
  <2>4. SumFunction(RsOwed) <= SumFunction(RsDue)
    BY <2>1, <2>2, <2>3, DueType
  <2>5. SumFunction(RsOwed) \in Int
    BY <2>2, DueType, SumType
  <2> QED
    BY <2>4, <2>5 DEF InFlight, DueSum
<1>3. rsCauses = {} => Accounts
  BY UsageIs
<1>4. UsageCoversStore
  <2> SUFFICES ASSUME rsRow.id # 0, rsCauses = {}, \A c \in RsClients : rsReq[c].pc # "late"
               PROVE  rsRow.used >= Bytes + InFlight
    BY DEF UsageCoversStore
  <2>1. Bytes + DueSum <= rsRow.used
    BY <1>3 DEF Accounts, Cover
  <2> QED
    BY <1>2, <2>1, CoverType
<1>5. QuotaHolds
  <2> SUFFICES ASSUME rsCeil # 0, rsCauses = {}, \A c \in RsClients : rsReq[c].pc # "late"
               PROVE  Bytes <= rsCeil
    BY DEF QuotaHolds
  <2>1. Cover <= rsCeil
    BY <1>3, CoverType DEF Accounts
  <2>2. 0 <= DueSum
    BY DueSigns
  <2>3. Bytes + DueSum <= rsCeil
    BY <2>1 DEF Cover
  <2> QED
    BY <2>2, <2>3, CoverType
<1> QED
  BY <1>1, <1>4, <1>5 DEF StoreInv

LEMMA AppendOnlyHolds ==
  ASSUME RsTypeOK, RequestsInv, RestInv, [RsNext]_rsVars
  PROVE  AppendOnly
<1> SUFFICES ASSUME NEW o \in RsObjects, o \notin RsLocks, rsObjs[o] # Absent
             PROVE  rsObjs'[o] = rsObjs[o] \/ RsReclaim(o)
  BY DEF AppendOnly
<1>1. rsObjs \in [RsObjects -> RsContents \cup {Absent}]
  BY DEF RsTypeOK
<1>2. ASSUME NEW c \in RsClients, RsRequest(c) PROVE rsObjs'[o] = rsObjs[o]
  <2>1. \/ rsObjs' = rsObjs
        \/ \E p, b : (rsObjs[p] = Absent \/ p \in RsLocks) /\ rsObjs' = [rsObjs EXCEPT ![p] = b]
    BY <1>2, StoreStep
  <2> QED
    BY <1>1, <2>1
<1>3. CASE RsOperator
  BY <1>3, OperatorFrame
<1>4. CASE WorldSteps
  <2>1. \/ rsObjs' = rsObjs
        \/ \E p \in RsObjects : RsReclaim(p) /\ rsObjs' = [rsObjs EXCEPT ![p] = Absent]
    BY <1>4, ReclaimOnly
  <2> QED
    BY <1>1, <2>1
<1> QED
  BY <1>2, <1>3, <1>4, Steps

LEMMA RevokeHolds ==
  ASSUME RevokedInv
  PROVE  RevokeStopsUploads
<1> SUFFICES ASSUME NEW c \in RsClients, rsRow.revoked, rsReq[c].reserved, RsSize[rsReq[c].obj] > 0,
                    rsReq[c].id = rsRow.id
             PROVE  c \in rsCaught
  BY DEF RevokeStopsUploads
<1> QED
  BY DEF RevokedInv

\* The inductive invariant of the repository endpoint: every step of a
\* request, of the operator and of the world keeps it.
THEOREM RsIInvHolds == RsSpec => []RsIInv
<1>1. RsInit => RsIInv
  BY InitHolds
<1>2. RsIInv /\ [RsNext]_rsVars => RsIInv'
  BY StepHolds
<1> QED
  BY <1>1, <1>2, PTL DEF RsSpec

\* Usage covers what is stored and reserved, concurrent uploads stay inside the
\* quota, an acknowledged upload is what a directory holds, a new repository
\* finds no objects of an earlier one, and the cache holds the row's credential.
THEOREM StoreCorrect == RsSpec => []StoreInv
<1>1. RsIInv => StoreInv
  BY InvariantIsEnough
<1> QED
  BY <1>1, RsIInvHolds, PTL

\* No step changes or removes stored data or configuration, and revoking a row
\* leaves it only the uploads that had reserved before.
THEOREM StoreStepsHold == RsSpec => StoreSteps
<1>1. RsIInv /\ [RsNext]_rsVars => [AppendOnly /\ RevokeStopsUploads]_rsVars
  BY AppendOnlyHolds, RevokeHolds DEF RsIInv
<1> QED
  BY <1>1, RsIInvHolds, PTL DEF RsSpec, StoreSteps
=============================================================================
