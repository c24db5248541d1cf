----------------------------- MODULE FleetProofs -----------------------------
(*****************************************************************************)
(* Proofs about what the server shares with the agents of the fleet: the jobs*)
(* that browse a snapshot, the peers of the backup tunnel, the upgrade of an *)
(* agent, and the ban policy as a host carries it out.                       *)
(*****************************************************************************)
EXTENDS BrowseJobs, TunnelPeers, SelfUpgrade, IPBanAgent, FiniteSetTheorems,
        SequenceTheorems, WellFoundedInduction, TLAPS

-----------------------------------------------------------------------------
(*****************************************************************************)
(* Browsing a snapshot, for any number of hosts, questions, jobs and agents. *)
(*                                                                           *)
(* That nobody answers for another (BwWanted) is what connects the list an   *)
(* agent works through to the store it came from, over timeouts, restarts of *)
(* the server and lost answers.                                              *)
(*****************************************************************************)

\* The records of a job and of an agent's answer.
BwJob == [host : BwHosts, key : BwKeys, state : BwActive \cup BwFinished, result : BwResults, age : 0..BwOldest]
BwPost == [host : BwHosts, id : Nat, result : {"entries", "error", "timed_out"}]
\* The jobs of a host that are not settled.
BwActiveOf(jobs, h) == {id \in DOMAIN jobs : jobs[id].host = h /\ jobs[id].state \in BwActive}

\* A job that is not finished has no result yet.
BwFormed(jobs, count) ==
    /\ count \in Nat /\ DOMAIN jobs \subseteq 1..count /\ jobs \in [DOMAIN jobs -> BwJob]
    /\ \A id \in DOMAIN jobs : jobs[id].state \in BwActive => jobs[id].result = "none"

\* The caps on jobs, over all hosts and per host.
BwLimited(jobs) ==
    /\ Cardinality(DOMAIN jobs) <= BwGlobalCap
    /\ \A h \in BwHosts : Cardinality(BwActiveOf(jobs, h)) <= BwHostCap

\* No question of a host is asked twice at a time.
BwUnique(jobs) ==
    \A i, j \in DOMAIN jobs :
        /\ jobs[i].state \in BwActive /\ jobs[j].state \in BwActive
        /\ jobs[i].host = jobs[j].host /\ jobs[i].key = jobs[j].key
        => i = j

\* A job is handed out once: what is on one agent's list is on no other's, is not
\* to be had from the store again, and has not been answered yet.
BwWanted(jobs, count, agent, posts) ==
    /\ agent \in [BwHosts -> [pc : {"idle", "fetch"}, todo : SUBSET (1..count)]]
    /\ \A h \in BwHosts : \A id \in agent[h].todo :
           id \in DOMAIN jobs => jobs[id].host = h /\ (jobs[id].state = "running" \/ jobs[id].result = "timed_out")
    /\ \A h, g \in BwHosts : h # g => agent[h].todo \cap agent[g].todo = {}
    /\ \A p \in posts : /\ p \in BwPost /\ p.id \in 1..count
                        /\ p.id \in DOMAIN jobs => jobs[p.id].state # "queued"
                        /\ \A h \in BwHosts : p.id \notin agent[h].todo

\* The invariant of a store, its counter, the agents and the answers on their way.
BwGood(jobs, count, agent, posts) ==
    BwFormed(jobs, count) /\ BwLimited(jobs) /\ BwUnique(jobs) /\ BwWanted(jobs, count, agent, posts)

\* The inductive invariant of the browse jobs.
BwIInv == BwGood(bwJobs, bwCount, bwAgent, bwPosts)

\* The oldest job of a list is on it.
LEMMA LeastIsMember ==
  ASSUME NEW S \in SUBSET Nat, S # {}
  PROVE  Min(S) \in S
<1> DEFINE R == OpToRel(<, Nat)
<1>1. IsWellFoundedOn(R, Nat)
  BY NatLessThanWellFounded
<1>2. \A x, y \in Nat : y < x => <<y, x>> \in R
  BY DEF OpToRel
<1> HIDE DEF R
<1>3. PICK x \in S : \A y \in S : ~(<<y, x>> \in R)
  BY <1>1, WFMin
<1>4. ASSUME NEW y \in S PROVE x <= y
  <2>1. x \in Nat /\ y \in Nat
    OBVIOUS
  <2>2. ~(y < x)
    BY <1>2, <1>3, <2>1
  <2> QED
    BY <2>1, <2>2
<1> QED
  BY <1>4 DEF Min

\* Ages are numbers.
LEMMA BwOldestIsNat == BwOldest \in Nat \ {0} /\ {BwQueuedTTL, BwRunningTTL, BwResultTTL} \subseteq Nat
<1>1. BwQueuedTTL \in Nat /\ BwRunningTTL \in Nat /\ BwResultTTL \in Nat
  BY BwAssumption
<1>2. \E g \in {BwQueuedTTL, BwRunningTTL, BwResultTTL} : \A y \in {BwQueuedTTL, BwRunningTTL, BwResultTTL} : g >= y
  BY <1>1
<1>3. Max({BwQueuedTTL, BwRunningTTL, BwResultTTL}) \in {BwQueuedTTL, BwRunningTTL, BwResultTTL}
  BY <1>2 DEF Max
<1> QED
  BY <1>1, <1>3 DEF BwOldest

\* A job whose state changes is a job.
LEMMA BwChanged ==
  ASSUME NEW job \in BwJob, NEW s \in BwActive \cup BwFinished, NEW r \in BwResults
  PROVE  /\ Change(job, s, r) \in BwJob
         /\ Change(job, s, r).host = job.host /\ Change(job, s, r).key = job.key
         /\ Change(job, s, r).state = s /\ Change(job, s, r).result = r
<1>1. 0 \in 0..BwOldest
  BY BwOldestIsNat
<1> SUFFICES ASSUME NEW c, c = Change(job, s, r)
             PROVE  c \in BwJob /\ c.host = job.host /\ c.key = job.key /\ c.state = s /\ c.result = r
  OBVIOUS
<1>2. c = [job EXCEPT !.state = s, !.result = r, !.age = 0]
  BY DEF Change
<1>3. c \in BwJob
  BY <1>1, <1>2 DEF BwJob
<1> QED
  BY <1>2, <1>3 DEF BwJob

\* cleanupLocked drops and gives up jobs, and leaves alone what it neither drops nor gives up.
LEMMA BwCleaned ==
  ASSUME NEW jobs, jobs \in [DOMAIN jobs -> BwJob]
  PROVE  /\ DOMAIN Cleanup(jobs) \subseteq DOMAIN jobs /\ Cleanup(jobs) \in [DOMAIN Cleanup(jobs) -> BwJob]
         /\ \A id \in DOMAIN Cleanup(jobs) :
              /\ Cleanup(jobs)[id].host = jobs[id].host /\ Cleanup(jobs)[id].key = jobs[id].key
              /\ \/ Cleanup(jobs)[id] = jobs[id]
                 \/ /\ Cleanup(jobs)[id].state = "failed"
                    /\ \/ jobs[id].state = "queued" /\ Cleanup(jobs)[id].result = "unreachable"
                       \/ jobs[id].state = "running" /\ Cleanup(jobs)[id].result = "timed_out"
<1> DEFINE kept == {id \in DOMAIN jobs : ~(jobs[id].state \in BwFinished /\ jobs[id].age > BwResultTTL)}
           new(job) == CASE job.state = "queued" /\ job.age > BwQueuedTTL -> Change(job, "failed", "unreachable")
                         [] job.state = "running" /\ job.age > BwRunningTTL -> Change(job, "failed", "timed_out")
                         [] OTHER -> job
<1>1. Cleanup(jobs) = [id \in kept |-> new(jobs[id])]
  BY DEF Cleanup
<1>2. \A id \in kept : /\ new(jobs[id]) \in BwJob
                       /\ new(jobs[id]).host = jobs[id].host /\ new(jobs[id]).key = jobs[id].key
                       /\ \/ new(jobs[id]) = jobs[id]
                          \/ /\ new(jobs[id]).state = "failed"
                             /\ \/ jobs[id].state = "queued" /\ new(jobs[id]).result = "unreachable"
                                \/ jobs[id].state = "running" /\ new(jobs[id]).result = "timed_out"
  <2> SUFFICES ASSUME NEW id \in kept, NEW job, job = jobs[id]
               PROVE  /\ new(job) \in BwJob /\ new(job).host = job.host /\ new(job).key = job.key
                      /\ \/ new(job) = job
                         \/ /\ new(job).state = "failed"
                            /\ \/ job.state = "queued" /\ new(job).result = "unreachable"
                               \/ job.state = "running" /\ new(job).result = "timed_out"
    OBVIOUS
  <2>1. job \in BwJob
    OBVIOUS
  <2>2. "failed" \in BwActive \cup BwFinished /\ "unreachable" \in BwResults /\ "timed_out" \in BwResults
    BY DEF BwFinished, BwResults
  <2>3. CASE job.state = "queued" /\ job.age > BwQueuedTTL
    <3>1. new(job) = Change(job, "failed", "unreachable")
      BY <2>3
    <3> QED
      BY <2>1, <2>2, <2>3, <3>1, BwChanged
  <2>4. CASE job.state = "running" /\ job.age > BwRunningTTL
    <3>1. new(job) = Change(job, "failed", "timed_out")
      BY <2>4
    <3> QED
      BY <2>1, <2>2, <2>4, <3>1, BwChanged
  <2>5. CASE ~(job.state = "queued" /\ job.age > BwQueuedTTL) /\ ~(job.state = "running" /\ job.age > BwRunningTTL)
    <3>1. new(job) = job
      BY <2>5
    <3> QED
      BY <2>1, <3>1
  <2> QED
    BY <2>3, <2>4, <2>5
<1>3. kept \subseteq DOMAIN jobs
  OBVIOUS
<1> HIDE DEF kept, new
<1> QED
  BY <1>1, <1>2, <1>3

\* Nothing gets worse where jobs are dropped or stop being active.
LEMMA BwFewer ==
  ASSUME NEW jobs, NEW count, BwFormed(jobs, count), BwLimited(jobs),
         NEW less, DOMAIN less \subseteq DOMAIN jobs,
         \A id \in DOMAIN less : less[id].host = jobs[id].host /\ (less[id].state \in BwActive => jobs[id].state \in BwActive)
  PROVE  /\ IsFiniteSet(DOMAIN less) /\ Cardinality(DOMAIN less) \in Nat /\ Cardinality(DOMAIN less) <= Cardinality(DOMAIN jobs)
         /\ \A h \in BwHosts : IsFiniteSet(BwActiveOf(less, h)) /\ BwActiveOf(less, h) \subseteq BwActiveOf(jobs, h)
         /\ BwLimited(less)
<1>1. IsFiniteSet(DOMAIN jobs)
  <2>1. IsFiniteSet(1..count)
    BY FS_Interval DEF BwFormed
  <2> QED
    BY <2>1, FS_Subset DEF BwFormed
<1>2. \A T \in SUBSET DOMAIN jobs : IsFiniteSet(T) /\ Cardinality(T) \in Nat
  BY <1>1, FS_Subset, FS_CardinalityType
<1>3. \A h : BwActiveOf(less, h) \subseteq BwActiveOf(jobs, h) /\ BwActiveOf(jobs, h) \subseteq DOMAIN jobs
  BY DEF BwActiveOf
<1>4. \A S, T \in SUBSET DOMAIN jobs : S \subseteq T => Cardinality(S) <= Cardinality(T)
  BY <1>2, FS_Subset
<1>5. Cardinality(DOMAIN less) <= Cardinality(DOMAIN jobs)
  BY <1>4
<1>6. \A h : /\ BwActiveOf(less, h) \in SUBSET DOMAIN jobs /\ BwActiveOf(jobs, h) \in SUBSET DOMAIN jobs
             /\ Cardinality(BwActiveOf(less, h)) <= Cardinality(BwActiveOf(jobs, h))
  <2> TAKE h
  <2>1. BwActiveOf(less, h) \in SUBSET DOMAIN jobs /\ BwActiveOf(jobs, h) \in SUBSET DOMAIN jobs
    BY <1>3, Zenon
  <2> QED
    BY <1>3, <1>4, <2>1
<1>7. BwGlobalCap \in Nat /\ BwHostCap \in Nat
  BY BwAssumption
<1>8. DOMAIN less \in SUBSET DOMAIN jobs /\ DOMAIN jobs \in SUBSET DOMAIN jobs
  OBVIOUS
<1>9. Cardinality(DOMAIN less) \in Nat /\ Cardinality(DOMAIN jobs) \in Nat /\ IsFiniteSet(DOMAIN less)
  BY <1>2, <1>8
<1>10. Cardinality(DOMAIN less) <= BwGlobalCap
  BY <1>5, <1>7, <1>9 DEF BwLimited
<1>11. ASSUME NEW h \in BwHosts
       PROVE  /\ Cardinality(BwActiveOf(less, h)) <= BwHostCap /\ IsFiniteSet(BwActiveOf(less, h))
              /\ BwActiveOf(less, h) \subseteq BwActiveOf(jobs, h)
  <2>1. Cardinality(BwActiveOf(less, h)) \in Nat /\ Cardinality(BwActiveOf(jobs, h)) \in Nat /\ IsFiniteSet(BwActiveOf(less, h))
    BY <1>2, <1>6
  <2>2. Cardinality(BwActiveOf(jobs, h)) <= BwHostCap /\ Cardinality(BwActiveOf(less, h)) <= Cardinality(BwActiveOf(jobs, h))
    BY <1>6 DEF BwLimited
  <2> QED
    BY <1>3, <1>7, <2>1, <2>2
<1> QED
  BY <1>5, <1>9, <1>10, <1>11 DEF BwLimited

\* Cleaning up keeps the invariant.
LEMMA BwCleanGood ==
  ASSUME NEW jobs, NEW count, NEW agent, NEW posts, BwGood(jobs, count, agent, posts)
  PROVE  BwGood(Cleanup(jobs), count, agent, posts)
<1> DEFINE new == Cleanup(jobs)
<1>1. BwFormed(jobs, count) /\ BwLimited(jobs) /\ BwUnique(jobs) /\ BwWanted(jobs, count, agent, posts)
  BY DEF BwGood
<1>2. /\ DOMAIN new \subseteq DOMAIN jobs /\ new \in [DOMAIN new -> BwJob]
      /\ \A id \in DOMAIN new :
              /\ new[id].host = jobs[id].host /\ new[id].key = jobs[id].key
              /\ \/ new[id] = jobs[id]
                 \/ /\ new[id].state = "failed"
                    /\ \/ jobs[id].state = "queued" /\ new[id].result = "unreachable"
                       \/ jobs[id].state = "running" /\ new[id].result = "timed_out"
  BY <1>1, BwCleaned DEF BwFormed
<1> HIDE DEF new
<1>3. \A id \in DOMAIN new : new[id].state \in BwActive => new[id] = jobs[id]
  BY <1>2 DEF BwActive
<1>4. BwFormed(new, count)
  BY <1>1, <1>2, <1>3 DEF BwFormed
<1>5. BwLimited(new)
  BY <1>1, <1>2, <1>3, BwFewer
<1>6. BwUnique(new)
  BY <1>1, <1>2, <1>3 DEF BwUnique
<1>7. BwWanted(new, count, agent, posts)
  <2>1. \A h \in BwHosts : \A id \in agent[h].todo :
           id \in DOMAIN new => new[id].host = h /\ (new[id].state = "running" \/ new[id].result = "timed_out")
    <3> SUFFICES ASSUME NEW h \in BwHosts, NEW id \in agent[h].todo, id \in DOMAIN new
                 PROVE  new[id].host = h /\ (new[id].state = "running" \/ new[id].result = "timed_out")
      OBVIOUS
    <3>1. jobs[id].host = h /\ (jobs[id].state = "running" \/ jobs[id].result = "timed_out")
      BY <1>1, <1>2 DEF BwWanted
    <3>2. jobs[id].state # "queued"
      <4>1. jobs[id].state = "queued" => jobs[id].result = "none"
        BY <1>1, <1>2 DEF BwFormed, BwActive
      <4> QED
        BY <3>1, <4>1
    <3> QED
      BY <1>2, <3>1, <3>2
  <2>2. \A p \in posts : p.id \in DOMAIN new => new[p.id].state # "queued"
    BY <1>1, <1>2 DEF BwWanted
  <2> QED
    BY <1>1, <2>1, <2>2 DEF BwWanted
<1> QED
  BY <1>4, <1>5, <1>6, <1>7 DEF BwGood, new

\* The store starts in the invariant.
LEMMA BwInitGood == BwInit => BwIInv
<1> SUFFICES ASSUME BwInit
             PROVE  BwIInv
  OBVIOUS
<1>1. DOMAIN bwJobs = {} /\ bwCount = 0 /\ bwPosts = {} /\ bwAgent = [h \in BwHosts |-> [pc |-> "idle", todo |-> {}]]
  BY DEF BwInit, NoJobs
<1>2. bwJobs \in [DOMAIN bwJobs -> BwJob]
  BY <1>1 DEF BwInit, NoJobs
<1>3. BwFormed(bwJobs, bwCount) /\ BwUnique(bwJobs)
  BY <1>1, <1>2 DEF BwFormed, BwUnique
<1>4. BwLimited(bwJobs)
  <2>1. \A h : BwActiveOf(bwJobs, h) = {}
    BY <1>1 DEF BwActiveOf
  <2>2. Cardinality({}) = 0
    BY FS_EmptySet
  <2>3. Cardinality(DOMAIN bwJobs) = 0 /\ \A h : Cardinality(BwActiveOf(bwJobs, h)) = 0
    BY <1>1, <2>1, <2>2
  <2>4. BwGlobalCap \in Nat /\ BwHostCap \in Nat
    BY BwAssumption
  <2> QED
    BY <2>3, <2>4 DEF BwLimited
<1>5. BwWanted(bwJobs, bwCount, bwAgent, bwPosts)
  <2>1. bwAgent \in [BwHosts -> [pc : {"idle", "fetch"}, todo : SUBSET (1..bwCount)]]
    BY <1>1
  <2> QED
    BY <1>1, <2>1 DEF BwWanted
<1> QED
  BY <1>3, <1>4, <1>5 DEF BwIInv, BwGood

\* A request that is not refused adds one job, where there is room.
LEMMA BwAskGood ==
  ASSUME BwIInv, NEW h \in BwHosts, NEW k \in BwKeys, BwAsk(h, k)
  PROVE  BwIInv'
<1> DEFINE jobs == Cleanup(bwJobs)
           active == {id \in DOMAIN jobs : jobs[id].host = h /\ jobs[id].state \in BwActive}
           refused == Reusable(jobs, h, k) # {} \/ Cardinality(active) >= BwHostCap \/ Rooms(jobs) = {}
           n == bwCount + 1
<1>1. BwGood(jobs, bwCount, bwAgent, bwPosts) /\ bwAgent' = bwAgent /\ bwPosts' = bwPosts
  BY BwCleanGood DEF BwIInv, BwAsk
<1>2. \/ refused /\ bwJobs' = jobs /\ UNCHANGED bwCount
      \/ /\ ~refused /\ bwCount' = n
         /\ \E room \in Rooms(jobs) :
              bwJobs' = [id \in room \cup {n} |->
                 IF id \in room THEN jobs[id] ELSE [host |-> h, key |-> k, state |-> "queued", result |-> "none", age |-> 0]]
  BY DEF BwAsk
<1> HIDE DEF jobs
<1>3. CASE bwJobs' = jobs /\ UNCHANGED bwCount
  BY <1>1, <1>3 DEF BwIInv
<1>4. ASSUME ~refused, bwCount' = n, NEW room \in Rooms(jobs),
             bwJobs' = [id \in room \cup {n} |->
                 IF id \in room THEN jobs[id] ELSE [host |-> h, key |-> k, state |-> "queued", result |-> "none", age |-> 0]]
      PROVE  BwIInv'
  <2> DEFINE job == [host |-> h, key |-> k, state |-> "queued", result |-> "none", age |-> 0]
             kept == [id \in room |-> jobs[id]]
  <2>1. BwFormed(jobs, bwCount) /\ BwLimited(jobs) /\ BwUnique(jobs) /\ BwWanted(jobs, bwCount, bwAgent, bwPosts)
    BY <1>1 DEF BwGood
  <2>2. bwCount \in Nat /\ n \in Nat /\ n \notin 1..bwCount /\ 1..bwCount \subseteq 1..n /\ n \in 1..n
    BY <2>1 DEF BwFormed
  <2>3. job \in BwJob
    BY BwOldestIsNat DEF BwJob, BwActive, BwResults
  <2>4. room \subseteq DOMAIN jobs
    BY <1>4 DEF Rooms
  <2>5. /\ DOMAIN bwJobs' = room \cup {n} /\ n \notin room
        /\ bwJobs'[n] = job /\ \A id \in room : bwJobs'[id] = jobs[id]
    <3>1. n \notin room
      BY <2>1, <2>2, <2>4 DEF BwFormed
    <3> QED
      BY <1>4, <3>1
  <2>6. /\ DOMAIN kept = room
        /\ \A id \in DOMAIN kept : kept[id].host = jobs[id].host /\ (kept[id].state \in BwActive => jobs[id].state \in BwActive)
    OBVIOUS
  <2>7. /\ IsFiniteSet(room) /\ Cardinality(room) \in Nat /\ Cardinality(room) <= Cardinality(DOMAIN jobs)
        /\ \A g \in BwHosts : IsFiniteSet(BwActiveOf(kept, g)) /\ BwActiveOf(kept, g) \subseteq BwActiveOf(jobs, g)
        /\ BwLimited(kept)
    <3> HIDE DEF kept
    <3> QED
      BY <2>1, <2>4, <2>6, BwFewer
  <2>8. Cardinality(room) < BwGlobalCap
    <3>1. CASE Cardinality(DOMAIN jobs) < BwGlobalCap /\ room = DOMAIN jobs
      BY <3>1
    <3>2. ASSUME NEW id \in DOMAIN jobs, room = DOMAIN jobs \ {id}
          PROVE  Cardinality(room) < BwGlobalCap
      <4>1. DOMAIN jobs = room \cup {id} /\ id \notin room
        BY <3>2
      <4>2. Cardinality(DOMAIN jobs) = Cardinality(room) + 1
        BY <2>7, <4>1, FS_AddElement
      <4>3. Cardinality(DOMAIN jobs) <= BwGlobalCap /\ BwGlobalCap \in Nat
        BY <2>1, BwAssumption DEF BwLimited
      <4> QED
        BY <2>7, <4>2, <4>3
    <3> QED
      BY <1>4, <3>1, <3>2 DEF Rooms
  <2> HIDE DEF job, kept
  <2>9. \A id \in room : bwJobs'[id] = kept[id]
    BY <2>5 DEF kept
  <2>10. job.host = h /\ job.key = k /\ job.state = "queued" /\ job.result = "none"
    BY DEF job
  <2>11. BwFormed(bwJobs', n)
    <3>1. bwJobs' \in [DOMAIN bwJobs' -> BwJob]
      <4>1. \A id \in DOMAIN bwJobs' : bwJobs'[id] \in BwJob
        BY <2>1, <2>3, <2>4, <2>5 DEF BwFormed
      <4>2. bwJobs' = [id \in DOMAIN bwJobs' |-> bwJobs'[id]]
        BY <1>4
      <4> QED
        BY <4>1, <4>2
    <3>2. \A id \in DOMAIN bwJobs' : bwJobs'[id].state \in BwActive => bwJobs'[id].result = "none"
      BY <2>1, <2>4, <2>5, <2>10 DEF BwFormed
    <3>3. DOMAIN bwJobs' \subseteq 1..n
      BY <2>1, <2>2, <2>4, <2>5 DEF BwFormed
    <3> QED
      BY <2>2, <3>1, <3>2, <3>3 DEF BwFormed
  <2>12. BwLimited(bwJobs')
    <3>1. Cardinality(DOMAIN bwJobs') <= BwGlobalCap
      <4>1. Cardinality(DOMAIN bwJobs') = Cardinality(room) + 1
        BY <2>5, <2>7, FS_AddElement
      <4> QED
        BY <2>7, <2>8, <4>1, BwAssumption
    <3>2. ASSUME NEW g \in BwHosts
          PROVE  Cardinality(BwActiveOf(bwJobs', g)) <= BwHostCap
      <4>1. CASE g = h
        <5>1. BwActiveOf(bwJobs', g) = BwActiveOf(kept, g) \cup {n}
          <6>1. n \in BwActiveOf(bwJobs', g)
            BY <2>5, <2>10, <4>1 DEF BwActiveOf, BwActive
          <6>2. \A id \in room : id \in BwActiveOf(bwJobs', g) <=> id \in BwActiveOf(kept, g)
            BY <2>5, <2>6, <2>9 DEF BwActiveOf
          <6>3. BwActiveOf(bwJobs', g) \subseteq room \cup {n} /\ BwActiveOf(kept, g) \subseteq room
            BY <2>5, <2>6 DEF BwActiveOf
          <6> QED
            BY <6>1, <6>2, <6>3
        <5>2. n \notin BwActiveOf(kept, g)
          BY <2>5, <2>6 DEF BwActiveOf
        <5>3. Cardinality(BwActiveOf(bwJobs', g)) = Cardinality(BwActiveOf(kept, g)) + 1 /\ Cardinality(BwActiveOf(kept, g)) \in Nat
          BY <2>7, <5>1, <5>2, FS_AddElement, FS_CardinalityType
        <5>4. active = BwActiveOf(jobs, g)
          BY <4>1 DEF BwActiveOf
        <5>5. IsFiniteSet(BwActiveOf(jobs, g))
          <6>1. IsFiniteSet(1..bwCount)
            BY <2>2, FS_Interval
          <6>2. BwActiveOf(jobs, g) \subseteq 1..bwCount
            BY <2>1 DEF BwActiveOf, BwFormed
          <6> QED
            BY <6>1, <6>2, FS_Subset
        <5>6. Cardinality(BwActiveOf(kept, g)) <= Cardinality(BwActiveOf(jobs, g)) /\ Cardinality(BwActiveOf(jobs, g)) \in Nat
          BY <2>7, <5>5, FS_Subset, FS_CardinalityType
        <5>7. ~(Cardinality(BwActiveOf(jobs, g)) >= BwHostCap)
          BY <1>4, <5>4
        <5> HIDE DEF active, refused
        <5> QED
          BY <5>3, <5>6, <5>7, BwAssumption
      <4>2. CASE g # h
        <5>1. BwActiveOf(bwJobs', g) = BwActiveOf(kept, g)
          <6>1. n \notin BwActiveOf(bwJobs', g)
            BY <2>5, <2>10, <4>2 DEF BwActiveOf
          <6>2. \A id \in room : id \in BwActiveOf(bwJobs', g) <=> id \in BwActiveOf(kept, g)
            BY <2>5, <2>6, <2>9 DEF BwActiveOf
          <6>3. BwActiveOf(bwJobs', g) \subseteq room \cup {n} /\ BwActiveOf(kept, g) \subseteq room
            BY <2>5, <2>6 DEF BwActiveOf
          <6> QED
            BY <6>1, <6>2, <6>3
        <5> QED
          BY <2>7, <5>1 DEF BwLimited
      <4> QED
        BY <4>1, <4>2
    <3> QED
      BY <3>1, <3>2 DEF BwLimited
  <2>13. BwUnique(bwJobs')
    <3>1. \A id \in room : ~(jobs[id].state \in BwActive /\ jobs[id].host = h /\ jobs[id].key = k)
      BY <1>4, <2>4 DEF Reusable, BwActive
    <3> QED
      BY <2>1, <2>4, <2>5, <2>10, <3>1 DEF BwUnique
  <2>14. BwWanted(bwJobs', n, bwAgent, bwPosts)
    <3>1. bwAgent \in [BwHosts -> [pc : {"idle", "fetch"}, todo : SUBSET (1..n)]]
      <4>1. SUBSET (1..bwCount) \subseteq SUBSET (1..n)
        BY <2>2
      <4>2. bwAgent = [g \in BwHosts |-> bwAgent[g]] /\ \A g \in BwHosts : bwAgent[g] \in [pc : {"idle", "fetch"}, todo : SUBSET (1..bwCount)]
        BY <2>1 DEF BwWanted
      <4>3. \A g \in BwHosts : bwAgent[g] \in [pc : {"idle", "fetch"}, todo : SUBSET (1..n)]
        BY <4>1, <4>2
      <4> QED
        BY <4>2, <4>3
    <3>2. \A g \in BwHosts : n \notin bwAgent[g].todo
      <4>1. \A g \in BwHosts : bwAgent[g].todo \in SUBSET (1..bwCount)
        BY <2>1 DEF BwWanted
      <4> QED
        BY <2>2, <4>1
    <3>3. \A g \in BwHosts : \A id \in bwAgent[g].todo :
           id \in DOMAIN bwJobs' => bwJobs'[id].host = g /\ (bwJobs'[id].state = "running" \/ bwJobs'[id].result = "timed_out")
      BY <2>1, <2>4, <2>5, <3>2 DEF BwWanted
    <3>4. \A p \in bwPosts : p.id \in 1..bwCount /\ p.id # n
      BY <2>1, <2>2 DEF BwWanted
    <3>5. \A p \in bwPosts : p.id \in 1..n /\ (p.id \in DOMAIN bwJobs' => bwJobs'[p.id].state # "queued")
      BY <2>1, <2>2, <2>4, <2>5, <3>4 DEF BwWanted
    <3> QED
      BY <2>1, <3>1, <3>3, <3>5 DEF BwWanted
  <2> QED
    BY <1>1, <1>4, <2>11, <2>12, <2>13, <2>14 DEF BwIInv, BwGood
<1> HIDE DEF refused, n
<1> QED
  BY <1>2, <1>3, <1>4

\* What every step but a new request does: no job is added, and none becomes active again.
LEMMA BwMoved ==
  ASSUME NEW jobs, NEW count, NEW agent, NEW posts, BwGood(jobs, count, agent, posts),
         NEW new, DOMAIN new \subseteq DOMAIN jobs, new \in [DOMAIN new -> BwJob],
         \A id \in DOMAIN new :
            /\ new[id].host = jobs[id].host /\ new[id].key = jobs[id].key
            /\ new[id].state \in BwActive => jobs[id].state \in BwActive /\ new[id].result = "none"
  PROVE  BwFormed(new, count) /\ BwLimited(new) /\ BwUnique(new)
<1>1. BwFormed(jobs, count) /\ BwLimited(jobs) /\ BwUnique(jobs)
  BY DEF BwGood
<1>2. BwFormed(new, count)
  BY <1>1 DEF BwFormed
<1>3. BwLimited(new)
  BY <1>1, BwFewer
<1>4. BwUnique(new)
  BY <1>1 DEF BwUnique
<1> QED
  BY <1>2, <1>3, <1>4

\* A poll of the status endpoint keeps the invariant.
LEMMA BwPollGood == BwIInv /\ BwPoll => BwIInv'
BY BwCleanGood DEF BwIInv, BwPoll

\* A wake-up of an agent keeps the invariant.
LEMMA BwSignalGood == ASSUME BwIInv, NEW h \in BwHosts, BwSignal(h) PROVE BwIInv'
<1>1. BwGood(bwJobs', bwCount, bwAgent, bwPosts) /\ bwCount' = bwCount /\ bwPosts' = bwPosts
  BY BwCleanGood DEF BwIInv, BwSignal
<1>2. bwAgent \in [BwHosts -> [pc : {"idle", "fetch"}, todo : SUBSET (1..bwCount)]]
  BY <1>1 DEF BwGood, BwWanted
<1>3. bwAgent' = [bwAgent EXCEPT ![h].pc = "fetch"]
  BY DEF BwSignal
<1>4. /\ bwAgent' \in [BwHosts -> [pc : {"idle", "fetch"}, todo : SUBSET (1..bwCount)]]
      /\ \A g \in BwHosts : bwAgent'[g].todo = bwAgent[g].todo
  BY <1>2, <1>3
<1>5. BwWanted(bwJobs', bwCount, bwAgent', bwPosts)
  BY <1>1, <1>4 DEF BwGood, BwWanted
<1> QED
  BY <1>1, <1>5 DEF BwGood, BwIInv

\* An agent that goes back to waiting keeps the invariant.
LEMMA BwRestGood == ASSUME BwIInv, NEW h \in BwHosts, BwRest(h) PROVE BwIInv'
<1>1. BwGood(bwJobs', bwCount, bwAgent, bwPosts) /\ bwCount' = bwCount /\ bwPosts' = bwPosts
  BY DEF BwIInv, BwRest
<1>2. bwAgent \in [BwHosts -> [pc : {"idle", "fetch"}, todo : SUBSET (1..bwCount)]]
  BY <1>1 DEF BwGood, BwWanted
<1>3. bwAgent' = [bwAgent EXCEPT ![h].pc = "idle"]
  BY DEF BwRest
<1>4. /\ bwAgent' \in [BwHosts -> [pc : {"idle", "fetch"}, todo : SUBSET (1..bwCount)]]
      /\ \A g \in BwHosts : bwAgent'[g].todo = bwAgent[g].todo
  BY <1>2, <1>3
<1>5. BwWanted(bwJobs', bwCount, bwAgent', bwPosts)
  BY <1>1, <1>4 DEF BwGood, BwWanted
<1> QED
  BY <1>1, <1>5 DEF BwGood, BwIInv

\* What an agent forgets, by dying or by having done it, harms nothing.
LEMMA BwForgets ==
  ASSUME NEW jobs, NEW count, NEW agent, NEW posts, BwWanted(jobs, count, agent, posts),
         NEW h \in BwHosts, NEW left \in SUBSET agent[h].todo, NEW pc \in {"idle", "fetch"},
         NEW new, new = [agent EXCEPT ![h] = [pc |-> pc, todo |-> left]]
  PROVE  BwWanted(jobs, count, new, posts)
<1>1. agent \in [BwHosts -> [pc : {"idle", "fetch"}, todo : SUBSET (1..count)]]
  BY DEF BwWanted
<1>2. left \in SUBSET (1..count)
  BY <1>1
<1>3. /\ new \in [BwHosts -> [pc : {"idle", "fetch"}, todo : SUBSET (1..count)]]
      /\ \A g \in BwHosts : new[g].todo \subseteq agent[g].todo
  BY <1>1, <1>2
<1> QED
  BY <1>3 DEF BwWanted

\* An agent that dies keeps the invariant.
LEMMA BwAgentCrashGood == ASSUME BwIInv, NEW h \in BwHosts, BwAgentCrash(h) PROVE BwIInv'
<1>1. BwGood(bwJobs', bwCount', bwAgent, bwPosts') /\ bwAgent' = [bwAgent EXCEPT ![h] = [pc |-> "idle", todo |-> {}]]
  BY DEF BwIInv, BwAgentCrash
<1>2. BwWanted(bwJobs', bwCount', bwAgent', bwPosts')
  BY <1>1, BwForgets DEF BwGood
<1> QED
  BY <1>1, <1>2 DEF BwGood, BwIInv

\* The job an agent has just run is on its list no more when its result travels.
LEMMA BwWorkGood == ASSUME BwIInv, NEW h \in BwHosts, BwWork(h) PROVE BwIInv'
<1> DEFINE id == Min(bwAgent[h].todo)
<1>1. BwGood(bwJobs, bwCount, bwAgent, bwPosts) /\ bwJobs' = bwJobs /\ bwCount' = bwCount
  BY DEF BwIInv, BwWork
<1>2. BwFormed(bwJobs, bwCount) /\ BwWanted(bwJobs, bwCount, bwAgent, bwPosts)
  BY <1>1 DEF BwGood
<1>3. bwAgent \in [BwHosts -> [pc : {"idle", "fetch"}, todo : SUBSET (1..bwCount)]]
  BY <1>2 DEF BwWanted
<1>4. id \in bwAgent[h].todo /\ id \in 1..bwCount
  <2>1. bwAgent[h].todo \in SUBSET (1..bwCount) /\ bwAgent[h].todo # {}
    BY <1>3 DEF BwWork
  <2>2. bwAgent[h].todo \in SUBSET Nat
    BY <2>1
  <2> QED
    BY <2>1, <2>2, LeastIsMember
<1>5. /\ bwAgent' = [bwAgent EXCEPT ![h].todo = @ \ {id}]
      /\ \/ bwPosts' = bwPosts
         \/ \E r \in {"entries", "error", "timed_out"} : bwPosts' = bwPosts \cup {[host |-> h, id |-> id, result |-> r]}
  BY DEF BwWork
<1> HIDE DEF id
<1>6. bwAgent' = [bwAgent EXCEPT ![h] = [pc |-> bwAgent[h].pc, todo |-> bwAgent[h].todo \ {id}]]
  <2>1. bwAgent[h] \in [pc : {"idle", "fetch"}, todo : SUBSET (1..bwCount)]
    BY <1>3
  <2>2. [bwAgent[h] EXCEPT !.todo = bwAgent[h].todo \ {id}] = [pc |-> bwAgent[h].pc, todo |-> bwAgent[h].todo \ {id}]
    BY <2>1
  <2> QED
    BY <1>5, <2>2
<1>7. BwWanted(bwJobs, bwCount, bwAgent', bwPosts)
  <2>1. bwAgent[h].pc \in {"idle", "fetch"} /\ bwAgent[h].todo \ {id} \in SUBSET bwAgent[h].todo
    BY <1>3
  <2> QED
    BY <1>2, <1>6, <2>1, BwForgets
<1>8. CASE bwPosts' = bwPosts
  BY <1>1, <1>7, <1>8 DEF BwGood, BwIInv
<1>9. ASSUME NEW r \in {"entries", "error", "timed_out"}, bwPosts' = bwPosts \cup {[host |-> h, id |-> id, result |-> r]}
      PROVE  BwIInv'
  <2> DEFINE p == [host |-> h, id |-> id, result |-> r]
  <2>1. p \in BwPost /\ p.id = id
    BY <1>2, <1>4 DEF BwPost, BwFormed
  <2>2. id \in DOMAIN bwJobs => bwJobs[id].state # "queued"
    <3>1. id \in DOMAIN bwJobs => (bwJobs[id].state = "running" \/ bwJobs[id].result = "timed_out")
      BY <1>2, <1>4 DEF BwWanted
    <3>2. id \in DOMAIN bwJobs /\ bwJobs[id].state = "queued" => bwJobs[id].result = "none"
      BY <1>2 DEF BwFormed, BwActive
    <3> QED
      BY <3>1, <3>2
  <2>3. \A g \in BwHosts : id \notin bwAgent'[g].todo
    <3>1. id \notin bwAgent'[h].todo
      BY <1>3, <1>6
    <3>2. \A g \in BwHosts \ {h} : bwAgent'[g].todo = bwAgent[g].todo
      BY <1>3, <1>6
    <3>3. \A g \in BwHosts \ {h} : id \notin bwAgent[g].todo
      BY <1>2, <1>4 DEF BwWanted
    <3> QED
      BY <3>1, <3>2, <3>3
  <2>4. bwPosts' = bwPosts \cup {p}
    BY <1>9
  <2> HIDE DEF p
  <2>5. BwWanted(bwJobs, bwCount, bwAgent', bwPosts')
    BY <1>4, <1>7, <2>1, <2>2, <2>3, <2>4 DEF BwWanted
  <2> QED
    BY <1>1, <2>5 DEF BwGood, BwIInv
<1> QED
  BY <1>5, <1>8, <1>9

\* pick takes what is queued, which no agent has and nobody has answered.
LEMMA BwFetchGood == ASSUME BwIInv, NEW h \in BwHosts, BwFetch(h) PROVE BwIInv'
<1> DEFINE jobs == Cleanup(bwJobs)
           picked == Queued(jobs, h)
<1>1. BwGood(jobs, bwCount, bwAgent, bwPosts) /\ bwCount' = bwCount /\ bwPosts' = bwPosts /\ bwAgent[h].todo = {}
  BY BwCleanGood DEF BwIInv, BwFetch
<1>2. /\ bwJobs' = [id \in DOMAIN jobs |-> IF id \in picked THEN Change(jobs[id], "running", "none") ELSE jobs[id]]
      /\ bwAgent' = bwAgent \/ bwAgent' = [bwAgent EXCEPT ![h].todo = picked]
  BY DEF BwFetch
<1> HIDE DEF jobs
<1>3. BwFormed(jobs, bwCount) /\ BwLimited(jobs) /\ BwUnique(jobs) /\ BwWanted(jobs, bwCount, bwAgent, bwPosts)
  BY <1>1 DEF BwGood
<1>4. \A id : id \in picked <=> id \in DOMAIN jobs /\ jobs[id].host = h /\ jobs[id].state = "queued"
  BY DEF Queued
<1> HIDE DEF picked
<1>5. jobs \in [DOMAIN jobs -> BwJob]
  BY <1>3 DEF BwFormed
<1>6. DOMAIN bwJobs' = DOMAIN jobs
  BY <1>2
<1>7. ASSUME NEW id \in DOMAIN jobs
      PROVE  /\ bwJobs'[id] \in BwJob /\ bwJobs'[id].host = jobs[id].host /\ bwJobs'[id].key = jobs[id].key
             /\ id \in picked => bwJobs'[id].state = "running" /\ bwJobs'[id].result = "none"
             /\ id \notin picked => bwJobs'[id] = jobs[id]
  <2>1. CASE id \in picked
    <3>1. bwJobs'[id] = Change(jobs[id], "running", "none")
      BY <1>2, <2>1
    <3>2. jobs[id] \in BwJob /\ "running" \in BwActive \cup BwFinished /\ "none" \in BwResults
      BY <1>5 DEF BwActive, BwResults
    <3> QED
      BY <2>1, <3>1, <3>2, BwChanged
  <2>2. CASE id \notin picked
    BY <1>2, <1>5, <2>2
  <2> QED
    BY <2>1, <2>2
<1>8. bwJobs' \in [DOMAIN bwJobs' -> BwJob]
  <2>1. bwJobs' = [id \in DOMAIN bwJobs' |-> bwJobs'[id]]
    BY <1>2
  <2> QED
    BY <1>6, <1>7, <2>1
<1>9. \A id \in DOMAIN bwJobs' : bwJobs'[id].state \in BwActive => jobs[id].state \in BwActive /\ bwJobs'[id].result = "none"
  <2>1. \A id \in picked : jobs[id].state \in BwActive
    BY <1>4 DEF BwActive
  <2> QED
    BY <1>3, <1>6, <1>7, <2>1 DEF BwFormed
<1>10. BwFormed(bwJobs', bwCount) /\ BwLimited(bwJobs') /\ BwUnique(bwJobs')
  BY <1>1, <1>6, <1>7, <1>8, <1>9, BwMoved
<1>11. \A id \in picked : \A g \in BwHosts : id \notin bwAgent[g].todo
  <2> SUFFICES ASSUME NEW id \in picked, NEW g \in BwHosts, id \in bwAgent[g].todo
               PROVE  FALSE
    OBVIOUS
  <2>1. id \in DOMAIN jobs /\ jobs[id].state = "queued"
    BY <1>4
  <2>2. jobs[id].result = "none"
    BY <1>3, <2>1 DEF BwFormed, BwActive
  <2>3. jobs[id].state = "running" \/ jobs[id].result = "timed_out"
    BY <1>3, <2>1 DEF BwWanted
  <2> QED
    BY <2>1, <2>2, <2>3
<1>12. \A p \in bwPosts : p.id \notin picked
  BY <1>3, <1>4 DEF BwWanted
<1>13. BwWanted(bwJobs', bwCount, bwAgent, bwPosts)
  <2>1. \A g \in BwHosts : \A id \in bwAgent[g].todo :
           id \in DOMAIN bwJobs' => bwJobs'[id].host = g /\ (bwJobs'[id].state = "running" \/ bwJobs'[id].result = "timed_out")
    BY <1>3, <1>6, <1>7, <1>11 DEF BwWanted
  <2>2. \A p \in bwPosts : p.id \in DOMAIN bwJobs' => bwJobs'[p.id].state # "queued"
    BY <1>3, <1>6, <1>7, <1>12 DEF BwWanted
  <2> QED
    BY <1>3, <2>1, <2>2 DEF BwWanted
<1>14. CASE bwAgent' = bwAgent
  BY <1>1, <1>10, <1>13, <1>14 DEF BwGood, BwIInv
<1>15. CASE bwAgent' = [bwAgent EXCEPT ![h].todo = picked]
  <2>1. bwAgent \in [BwHosts -> [pc : {"idle", "fetch"}, todo : SUBSET (1..bwCount)]]
    BY <1>3 DEF BwWanted
  <2>2. picked \in SUBSET (1..bwCount)
    BY <1>3, <1>4 DEF BwFormed
  <2>3. /\ bwAgent' \in [BwHosts -> [pc : {"idle", "fetch"}, todo : SUBSET (1..bwCount)]]
        /\ bwAgent'[h].todo = picked /\ \A g \in BwHosts \ {h} : bwAgent'[g].todo = bwAgent[g].todo
    BY <1>15, <2>1, <2>2
  <2>4. \A g \in BwHosts : \A id \in bwAgent'[g].todo :
           id \in DOMAIN bwJobs' => bwJobs'[id].host = g /\ (bwJobs'[id].state = "running" \/ bwJobs'[id].result = "timed_out")
    <3>1. \A id \in picked : bwJobs'[id].host = h /\ bwJobs'[id].state = "running"
      BY <1>4, <1>7
    <3>2. \A g \in BwHosts \ {h} : \A id \in bwAgent[g].todo :
           id \in DOMAIN bwJobs' => bwJobs'[id].host = g /\ (bwJobs'[id].state = "running" \/ bwJobs'[id].result = "timed_out")
      BY <1>13 DEF BwWanted
    <3> QED
      BY <2>3, <3>1, <3>2
  <2>5. \A g, f \in BwHosts : g # f => bwAgent'[g].todo \cap bwAgent'[f].todo = {}
    <3>1. \A g, f \in BwHosts : g # f => bwAgent[g].todo \cap bwAgent[f].todo = {}
      BY <1>3 DEF BwWanted
    <3> QED
      BY <1>11, <2>3, <3>1
  <2>6. \A p \in bwPosts : \A g \in BwHosts : p.id \notin bwAgent'[g].todo
    <3>1. \A p \in bwPosts : \A g \in BwHosts : p.id \notin bwAgent[g].todo
      BY <1>3 DEF BwWanted
    <3> QED
      BY <1>12, <2>3, <3>1
  <2>7. BwWanted(bwJobs', bwCount, bwAgent', bwPosts)
    BY <1>13, <2>3, <2>4, <2>5, <2>6 DEF BwWanted
  <2> QED
    BY <1>1, <1>10, <2>7 DEF BwGood, BwIInv
<1> QED
  BY <1>2, <1>14, <1>15

\* finish settles a job that runs or was given up, and nobody works on it any more.
LEMMA BwFinishGood == ASSUME BwIInv, NEW p \in bwPosts, BwFinish(p) PROVE BwIInv'
<1> DEFINE jobs == Cleanup(bwJobs)
           known == p.id \in DOMAIN jobs /\ jobs[p.id].host = p.host /\ Accepts(jobs[p.id])
           state == IF p.result = "entries" THEN "done" ELSE "failed"
<1>1. BwGood(jobs, bwCount, bwAgent, bwPosts) /\ bwCount' = bwCount /\ bwPosts' = bwPosts \ {p} /\ bwAgent' = bwAgent
  BY BwCleanGood DEF BwIInv, BwFinish
<1>2. bwJobs' = IF known THEN [jobs EXCEPT ![p.id] = Change(@, state, p.result)] ELSE jobs
  BY DEF BwFinish
<1> HIDE DEF jobs
<1>3. BwFormed(jobs, bwCount) /\ BwLimited(jobs) /\ BwUnique(jobs) /\ BwWanted(jobs, bwCount, bwAgent, bwPosts)
  BY <1>1 DEF BwGood
<1>4. BwWanted(jobs, bwCount, bwAgent, bwPosts')
  BY <1>1, <1>3 DEF BwWanted
<1>5. CASE ~known
  BY <1>1, <1>2, <1>3, <1>4, <1>5 DEF BwGood, BwIInv
<1>6. CASE known
  <2>1. p \in BwPost /\ p.id \in DOMAIN jobs /\ \A g \in BwHosts : p.id \notin bwAgent[g].todo
    BY <1>3, <1>6 DEF BwWanted
  <2>2. state \in BwFinished /\ p.result \in BwResults
    BY <2>1 DEF BwFinished, BwResults, BwPost
  <2>3. bwJobs' = [jobs EXCEPT ![p.id] = Change(jobs[p.id], state, p.result)]
    BY <1>2, <1>6, <2>1
  <2>4. jobs \in [DOMAIN jobs -> BwJob]
    BY <1>3 DEF BwFormed
  <2> HIDE DEF state, known
  <2>5. /\ Change(jobs[p.id], state, p.result) \in BwJob
        /\ Change(jobs[p.id], state, p.result).host = jobs[p.id].host /\ Change(jobs[p.id], state, p.result).key = jobs[p.id].key
        /\ Change(jobs[p.id], state, p.result).state = state
    <3>1. jobs[p.id] \in BwJob /\ state \in BwActive \cup BwFinished
      BY <2>1, <2>2, <2>4
    <3> QED
      BY <2>2, <3>1, BwChanged
  <2>6. /\ DOMAIN bwJobs' = DOMAIN jobs /\ bwJobs' \in [DOMAIN bwJobs' -> BwJob]
        /\ \A id \in DOMAIN jobs : id # p.id => bwJobs'[id] = jobs[id]
        /\ bwJobs'[p.id].host = jobs[p.id].host /\ bwJobs'[p.id].key = jobs[p.id].key /\ bwJobs'[p.id].state = state
    BY <2>1, <2>3, <2>4, <2>5
  <2>7. state \notin BwActive /\ state # "queued"
    BY <2>2 DEF BwActive, BwFinished
  <2>8. \A id \in DOMAIN bwJobs' :
            /\ bwJobs'[id].host = jobs[id].host /\ bwJobs'[id].key = jobs[id].key
            /\ bwJobs'[id].state \in BwActive => jobs[id].state \in BwActive /\ bwJobs'[id].result = "none"
    BY <1>3, <2>6, <2>7 DEF BwFormed
  <2>9. BwFormed(bwJobs', bwCount) /\ BwLimited(bwJobs') /\ BwUnique(bwJobs')
    BY <1>1, <2>6, <2>8, BwMoved
  <2>10. BwWanted(bwJobs', bwCount, bwAgent, bwPosts')
    <3>1. \A g \in BwHosts : \A id \in bwAgent[g].todo :
           id \in DOMAIN bwJobs' => bwJobs'[id].host = g /\ (bwJobs'[id].state = "running" \/ bwJobs'[id].result = "timed_out")
      BY <1>4, <2>1, <2>6 DEF BwWanted
    <3>2. \A q \in bwPosts' : q.id \in DOMAIN bwJobs' => bwJobs'[q.id].state # "queued"
      BY <1>4, <2>6, <2>7 DEF BwWanted
    <3> QED
      BY <1>4, <3>1, <3>2 DEF BwWanted
  <2> QED
    BY <1>1, <2>9, <2>10 DEF BwGood, BwIInv
<1> QED
  BY <1>5, <1>6

\* Time changes nothing but ages.
LEMMA BwTickGood == BwIInv /\ BwTick => BwIInv'
<1> SUFFICES ASSUME BwIInv, BwTick
             PROVE  BwIInv'
  OBVIOUS
<1>1. /\ BwGood(bwJobs, bwCount, bwAgent, bwPosts)
      /\ bwCount' = bwCount /\ bwAgent' = bwAgent /\ bwPosts' = bwPosts
      /\ bwJobs' = [id \in DOMAIN bwJobs |-> [bwJobs[id] EXCEPT !.age = IF @ < BwOldest THEN @ + 1 ELSE @]]
  BY DEF BwIInv, BwTick
<1>2. BwFormed(bwJobs, bwCount) /\ BwWanted(bwJobs, bwCount, bwAgent, bwPosts)
  BY <1>1 DEF BwGood
<1>3. ASSUME NEW job \in BwJob, NEW older, older = [job EXCEPT !.age = IF job.age < BwOldest THEN job.age + 1 ELSE job.age]
      PROVE  /\ older \in BwJob /\ older.host = job.host /\ older.key = job.key
             /\ older.state = job.state /\ older.result = job.result
  <2>1. job.age \in 0..BwOldest /\ BwOldest \in Nat
    BY BwOldestIsNat DEF BwJob
  <2>2. (IF job.age < BwOldest THEN job.age + 1 ELSE job.age) \in 0..BwOldest
    BY <2>1
  <2> QED
    BY <1>3, <2>2 DEF BwJob
<1>4. bwJobs \in [DOMAIN bwJobs -> BwJob]
  BY <1>2 DEF BwFormed
<1>5. DOMAIN bwJobs' = DOMAIN bwJobs
  BY <1>1
<1>6. \A id \in DOMAIN bwJobs :
         /\ bwJobs'[id] \in BwJob /\ bwJobs'[id].host = bwJobs[id].host /\ bwJobs'[id].key = bwJobs[id].key
         /\ bwJobs'[id].state = bwJobs[id].state /\ bwJobs'[id].result = bwJobs[id].result
  <2> TAKE id \in DOMAIN bwJobs
  <2>1. bwJobs'[id] = [bwJobs[id] EXCEPT !.age = IF bwJobs[id].age < BwOldest THEN bwJobs[id].age + 1 ELSE bwJobs[id].age]
    BY <1>1
  <2>2. bwJobs[id] \in BwJob
    BY <1>4
  <2> QED
    BY <1>3, <2>1, <2>2
<1>7. bwJobs' \in [DOMAIN bwJobs' -> BwJob]
  <2>1. bwJobs' = [id \in DOMAIN bwJobs' |-> bwJobs'[id]]
    BY <1>1
  <2> QED
    BY <1>5, <1>6, <2>1
<1>8. BwFormed(bwJobs', bwCount) /\ BwLimited(bwJobs') /\ BwUnique(bwJobs')
  <2>1. \A id \in DOMAIN bwJobs' : bwJobs'[id].state \in BwActive => bwJobs[id].state \in BwActive /\ bwJobs'[id].result = "none"
    BY <1>2, <1>5, <1>6 DEF BwFormed
  <2> QED
    BY <1>1, <1>5, <1>6, <1>7, <2>1, BwMoved
<1>9. BwWanted(bwJobs', bwCount, bwAgent, bwPosts)
  BY <1>2, <1>5, <1>6 DEF BwWanted
<1> QED
  BY <1>1, <1>8, <1>9 DEF BwGood, BwIInv

\* A restarted server knows no job; the agents go on with theirs.
LEMMA BwServerRestartGood == BwIInv /\ BwServerRestart => BwIInv'
<1> SUFFICES ASSUME BwIInv, BwServerRestart
             PROVE  BwIInv'
  OBVIOUS
<1>1. /\ BwGood(bwJobs, bwCount, bwAgent, bwPosts)
      /\ bwCount' = bwCount /\ bwAgent' = bwAgent /\ bwPosts' = bwPosts
      /\ DOMAIN bwJobs' = {} /\ bwJobs' \in [DOMAIN bwJobs' -> BwJob]
  BY DEF BwIInv, BwServerRestart, NoJobs
<1>2. BwFormed(bwJobs', bwCount) /\ BwLimited(bwJobs') /\ BwUnique(bwJobs')
  BY <1>1, BwMoved
<1>3. BwWanted(bwJobs', bwCount, bwAgent, bwPosts)
  BY <1>1 DEF BwGood, BwWanted
<1> QED
  BY <1>1, <1>2, <1>3 DEF BwGood, BwIInv

\* The inductive invariant of the browse jobs holds at every moment.
THEOREM BrowseIInvHolds == BwSpec => []BwIInv
<1>1. BwIInv /\ [BwNext]_bwVars => BwIInv'
  <2> SUFFICES ASSUME BwIInv, [BwNext]_bwVars
               PROVE  BwIInv'
    OBVIOUS
  <2>1. ASSUME NEW h \in BwHosts, NEW k \in BwKeys, BwAsk(h, k) PROVE BwIInv'
    BY <2>1, BwAskGood
  <2>2. CASE BwPoll
    BY <2>2, BwPollGood
  <2>3. ASSUME NEW h \in BwHosts, BwSignal(h) PROVE BwIInv'
    BY <2>3, BwSignalGood
  <2>4. ASSUME NEW h \in BwHosts, BwFetch(h) PROVE BwIInv'
    BY <2>4, BwFetchGood
  <2>5. ASSUME NEW h \in BwHosts, BwWork(h) PROVE BwIInv'
    BY <2>5, BwWorkGood
  <2>6. ASSUME NEW h \in BwHosts, BwRest(h) PROVE BwIInv'
    BY <2>6, BwRestGood
  <2>7. ASSUME NEW p \in bwPosts, BwFinish(p) PROVE BwIInv'
    BY <2>7, BwFinishGood
  <2>8. CASE BwTick
    BY <2>8, BwTickGood
  <2>9. ASSUME NEW h \in BwHosts, BwAgentCrash(h) PROVE BwIInv'
    BY <2>9, BwAgentCrashGood
  <2>10. CASE BwServerRestart
    BY <2>10, BwServerRestartGood
  <2>11. CASE UNCHANGED bwVars
    BY <2>11 DEF BwIInv, bwVars
  <2> QED
    BY <2>1, <2>2, <2>3, <2>4, <2>5, <2>6, <2>7, <2>8, <2>9, <2>10, <2>11 DEF BwNext, BwAgentStep
<1> QED
  BY <1>1, BwInitGood, PTL DEF BwSpec

\* The store keeps its caps and one job per question, and what an agent works on is a job the store
\* still wants answered, for any number of hosts, questions, requests and restarts.
THEOREM BrowseCorrect == BwSpec => []BrowseInv
<1>1. BwIInv => BrowseInv
  <2> SUFFICES ASSUME BwIInv
               PROVE  BrowseInv
    OBVIOUS
  <2>1. BwFormed(bwJobs, bwCount) /\ BwLimited(bwJobs) /\ BwUnique(bwJobs) /\ BwWanted(bwJobs, bwCount, bwAgent, bwPosts)
    BY DEF BwIInv, BwGood
  <2>2. BwTypeOK
    <3>1. \A id \in DOMAIN bwJobs : bwJobs[id] \in BwJob
      BY <2>1 DEF BwFormed
    <3>2. \A h \in BwHosts : bwAgent[h].pc \in {"idle", "fetch"} /\ bwAgent[h].todo \subseteq 1..bwCount
      BY <2>1 DEF BwWanted
    <3> QED
      BY <2>1, <3>1, <3>2 DEF BwTypeOK, BwJob, BwLimited, BwActiveOf
  <2>3. OneJobPerRequest
    BY <2>1 DEF BwUnique, OneJobPerRequest
  <2>4. LateAnswersWelcome
    BY <2>1 DEF BwWanted, LateAnswersWelcome
  <2> QED
    BY <2>2, <2>3, <2>4 DEF BrowseInv
<1> QED
  BY <1>1, BrowseIInvHolds, PTL

\* What Cleanup leaves of a settled job is as it was.
LEMMA BwCleanKeepsAnswers ==
  ASSUME BwIInv
  PROVE  \A id \in DOMAIN bwJobs \cap DOMAIN Cleanup(bwJobs) :
            bwJobs[id].state \in BwFinished => Cleanup(bwJobs)[id] = bwJobs[id]
<1>1. bwJobs \in [DOMAIN bwJobs -> BwJob]
  BY DEF BwIInv, BwGood, BwFormed
<1>2. \A id \in DOMAIN Cleanup(bwJobs) :
         Cleanup(bwJobs)[id] = bwJobs[id] \/ bwJobs[id].state = "queued" \/ bwJobs[id].state = "running"
  BY <1>1, BwCleaned
<1> QED
  BY <1>2 DEF BwFinished

\* An answer that is in stays as it is until it is forgotten, for any number of jobs.
THEOREM AnswersAlwaysStand == BwSpec => [][AnswersStand]_bwVars
<1> DEFINE jobs == Cleanup(bwJobs)
<1>1. ASSUME BwIInv, BwNext
      PROVE  AnswersStand
  <2> SUFFICES ASSUME NEW id \in DOMAIN bwJobs, id \in DOMAIN bwJobs',
                      bwJobs[id].state \in BwFinished, bwJobs[id].result # "timed_out"
               PROVE  bwJobs'[id].state = bwJobs[id].state /\ bwJobs'[id].result = bwJobs[id].result
    BY DEF AnswersStand
  <2>1. id \in DOMAIN jobs => jobs[id] = bwJobs[id]
    BY <1>1, BwCleanKeepsAnswers
  <2>2. bwJobs[id].state # "queued" /\ bwJobs[id].state # "running"
    BY DEF BwFinished
  <2>3. ASSUME NEW h \in BwHosts, NEW k \in BwKeys, BwAsk(h, k)
        PROVE  id \in DOMAIN jobs /\ bwJobs'[id] = jobs[id]
    <3>1. CASE bwJobs' = jobs
      BY <3>1
    <3>2. ASSUME NEW room \in Rooms(jobs), NEW job, bwJobs' = [i \in room \cup {bwCount + 1} |-> IF i \in room THEN jobs[i] ELSE job]
          PROVE  id \in DOMAIN jobs /\ bwJobs'[id] = jobs[id]
      <4>1. id \in 1..bwCount /\ bwCount \in Nat
        BY <1>1 DEF BwIInv, BwGood, BwFormed
      <4>2. id # bwCount + 1
        BY <4>1
      <4>3. room \subseteq DOMAIN jobs
        BY DEF Rooms
      <4> HIDE DEF jobs
      <4> QED
        BY <3>2, <4>2, <4>3
    <3> QED
      BY <2>3, <3>1, <3>2 DEF BwAsk
  <2>4. CASE BwPoll
    BY <2>1, <2>4 DEF BwPoll
  <2>5. ASSUME NEW h \in BwHosts, BwSignal(h)
        PROVE  bwJobs'[id] = bwJobs[id]
    BY <2>1, <2>5 DEF BwSignal
  <2>6. ASSUME NEW h \in BwHosts, BwFetch(h)
        PROVE  bwJobs'[id] = bwJobs[id]
    <3>1. bwJobs' = [i \in DOMAIN jobs |-> IF i \in Queued(jobs, h) THEN Change(jobs[i], "running", "none") ELSE jobs[i]]
      BY <2>6 DEF BwFetch
    <3> HIDE DEF jobs
    <3>2. id \in DOMAIN jobs
      BY <3>1
    <3>3. id \notin Queued(jobs, h)
      BY <2>1, <2>2, <3>2 DEF Queued
    <3> QED
      BY <2>1, <3>1, <3>2, <3>3
  <2>7. ASSUME NEW p \in bwPosts, BwFinish(p)
        PROVE  bwJobs'[id] = bwJobs[id]
    <3> DEFINE known == p.id \in DOMAIN jobs /\ jobs[p.id].host = p.host /\ Accepts(jobs[p.id])
    <3>1. bwJobs' = IF known THEN [jobs EXCEPT ![p.id] = Change(@, IF p.result = "entries" THEN "done" ELSE "failed", p.result)]
                    ELSE jobs
      BY <2>7 DEF BwFinish
    <3> HIDE DEF jobs
    <3>2. id \in DOMAIN jobs
      BY <3>1
    <3>3. known => p.id # id
      BY <2>1, <2>2, <3>2 DEF Accepts
    <3> HIDE DEF known
    <3> QED
      BY <2>1, <3>1, <3>2, <3>3
  <2>8. CASE BwTick
    <3>1. bwJobs'[id] = [bwJobs[id] EXCEPT !.age = IF @ < BwOldest THEN @ + 1 ELSE @]
      BY <2>8 DEF BwTick
    <3>2. bwJobs[id] \in BwJob
      BY <1>1 DEF BwIInv, BwGood, BwFormed
    <3> QED
      BY <3>1, <3>2 DEF BwJob
  <2>9. CASE BwServerRestart
    BY <2>9 DEF BwServerRestart, NoJobs
  <2>10. ASSUME UNCHANGED bwJobs
         PROVE  bwJobs'[id] = bwJobs[id]
    BY <2>10
  <2> QED
    BY <1>1, <2>1, <2>3, <2>4, <2>5, <2>6, <2>7, <2>8, <2>9, <2>10
       DEF BwNext, BwAgentStep, BwWork, BwRest, BwAgentCrash
<1>2. BwIInv /\ [BwNext]_bwVars => [AnswersStand]_bwVars
  BY <1>1
<1> QED
  BY <1>2, BrowseIInvHolds, PTL DEF BwSpec

-----------------------------------------------------------------------------
(*****************************************************************************)
(* The tunnel, for every set of hosts and addresses and any number of keys,  *)
(* operations of the operator, failing calls and restarts.                   *)
(*                                                                           *)
(* That the device routes what the table says is not inductive: the two are  *)
(* changed in separate steps, by enrolments of several hosts and by one      *)
(* removal at once.  The invariant follows every entry of the device that the*)
(* table does not explain back to the request that is about to replace or    *)
(* remove it, or to the call that failed to (DeviceExplained).  A removal finds its key by the value it read*)
(* first, so no other host may ever have that key, in its file, in a request *)
(* or in the table (KeysInv).                                                *)
(*****************************************************************************)
Peer == [key : Nat, ip : TpAddrs \cup {0}]
Enrolment == [pc : {"idle", "enrol", "activate", "answer"}, key : Nat, ip : TpAddrs \cup {0}]
Removal == [pc : {"idle", "revoke", "demote", "get", "delete", "remove"}, host : TpHosts \cup {0}, key : Nat]

TpRest ==
    /\ tpRow \in [TpHosts -> Peer] /\ tpReq \in [TpHosts -> Enrolment] /\ tpOp \in Removal
    /\ tpAlive \subseteq TpHosts /\ tpKey \in [TpHosts -> Nat] /\ tpLast \in Nat
    /\ tpOp.pc = "idle" <=> tpOp.host = 0

\* The keys of a host: in its file, in its request, in its row, and the one
\* the operator's request has read.
KeysOf(h) ==
    ({tpKey[h], tpReq[h].key, tpRow[h].key} \cup (IF tpOp.host = h THEN {tpOp.key} ELSE {})) \ {0}

KeysInv ==
    /\ \A h \in TpHosts : tpKey[h] # 0 /\ KeysOf(h) \subseteq 1..tpLast
    /\ \A h \in TpHosts : tpReq[h].pc # "idle" => tpReq[h].key # 0
    /\ \A g, h \in TpHosts : g # h => KeysOf(g) \cap KeysOf(h) = {}

\* Removals and enrolments of one host do not meet, so what either has read
\* of the table still holds; the row of a deleted host may outlive its removal.
RequestsInv ==
    /\ tpOp.pc # "idle" => tpReq[tpOp.host].pc = "idle"
    /\ tpOp.pc \in {"demote", "get", "delete"} => tpOp.host \notin tpAlive
    /\ tpOp.pc \in {"revoke", "delete"} => tpRow[tpOp.host] # NoPeer /\ tpRow[tpOp.host].key = tpOp.key
    /\ tpOp.pc = "remove" =>
          /\ tpOp.key # 0
          /\ tpRow[tpOp.host] = NoPeer \/ (tpOp.host \notin tpAlive /\ tpRow[tpOp.host].key = tpOp.key)
    /\ \A h \in TpHosts : tpReq[h].pc # "idle" => h \in tpAlive
    /\ \A h \in TpHosts : tpReq[h].pc \in {"activate", "answer"} =>
          tpRow[h] = [key |-> tpReq[h].key, ip |-> tpReq[h].ip]

\* An entry of the device stands in the table for a host that is not deleted, a
\* request is about to replace or to remove it, or a failing call left it.
Explained(a) ==
    \/ \E h \in tpAlive : tpRow[h] = [key |-> tpDev[a], ip |-> a]
    \/ \E h \in TpHosts : tpReq[h].pc = "activate" /\ tpRow[h].ip = a
    \/ tpOp.pc \in {"demote", "get", "delete"} /\ tpRow[tpOp.host].key = tpDev[a]
    \/ tpOp.pc = "remove" /\ tpDev[a] = tpOp.key
    \/ tpDev[a] \in tpLeft

DeviceExplained == \A a \in TpAddrs : tpDev[a] # 0 => Explained(a)

\* A host that is not being activated is routed to, unless a call failed to.
PeersRouted ==
    \A h \in tpAlive :
       tpRow[h] # NoPeer /\ tpReq[h].pc # "activate" /\ tpRow[h].key \notin tpLeft => tpDev[tpRow[h].ip] = tpRow[h].key

TpIInv ==
    /\ TpTypeOK /\ TpRest /\ KeysInv
    /\ tpRaced = {} => RequestsInv /\ DeviceExplained /\ PeersRouted

-----------------------------------------------------------------------------
(* Facts about the model's operators.                                      *)

\* A set of numbers that is not empty has a least member.
LEMMA Least ==
  ASSUME NEW S \in SUBSET Nat, S # {}
  PROVE  \E x \in S : \A y \in S : x <= y
<1> DEFINE R == OpToRel(<, Nat)
<1>1. IsWellFoundedOn(R, Nat)
  BY NatLessThanWellFounded
<1>2. \A x, y \in Nat : y < x => <<y, x>> \in R
  BY DEF OpToRel
<1> HIDE DEF R
<1>3. PICK x \in S : \A y \in S : ~(<<y, x>> \in R)
  BY <1>1, WFMin
<1>4. ASSUME NEW y \in S PROVE x <= y
  <2>1. x \in Nat /\ y \in Nat
    OBVIOUS
  <2>2. ~(y < x)
    BY <1>2, <1>3, <2>1
  <2> QED
    BY <2>1, <2>2
<1> QED
  BY <1>4

\* A finite set of numbers has a greatest one: none of its enumerations has a
\* first place up to which there is no bound, so the distances to a bound have
\* a least one.
LEMMA Greatest ==
  ASSUME NEW S \in SUBSET Nat, S # {}, IsFiniteSet(S)
  PROVE  Max(S) \in S /\ \A y \in S : y <= Max(S)
<1>1. PICK n \in Nat : ExistsSurjection(1..n, S)
  BY FS_NatSurjection
<1>2. PICK f \in [1..n -> S] : \A t \in S : \E i \in 1..n : f[i] = t
  BY <1>1 DEF ExistsSurjection, Surjection
<1> DEFINE Bounded(k) == \E b \in Nat : \A i \in 1..k : f[i] <= b
           Bad == {k \in 0..n : ~Bounded(k)}
<1>3. Bad = {}
  <2> SUFFICES ASSUME Bad # {} PROVE FALSE
    OBVIOUS
  <2>1. Bad \in SUBSET Nat
    OBVIOUS
  <2>2. PICK k \in Bad : \A y \in Bad : k <= y
    <3> HIDE DEF Bad
    <3> QED
      BY <2>1, Least
  <2>3. k \in 0..n /\ ~Bounded(k) /\ k # 0
    <3>1. Bounded(0)
      <4>1. \A i \in 1..0 : f[i] <= 0
        OBVIOUS
      <4> QED
        BY <4>1
    <3> QED
      BY <3>1
  <2>4. k - 1 \in 0..n /\ k - 1 < k /\ k - 1 \notin Bad
    <3>1. k \in 1..n
      BY <2>3
    <3>2. k - 1 \in 0..n /\ k - 1 < k /\ ~(k <= k - 1)
      BY <3>1
    <3> HIDE DEF Bad, Bounded
    <3> QED
      BY <2>2, <3>2
  <2>5. PICK b \in Nat : \A i \in 1..(k - 1) : f[i] <= b
    BY <2>4
  <2>6. f[k] \in Nat
    <3>1. k \in 1..n
      BY <2>3
    <3> HIDE DEF Bad, Bounded
    <3> QED
      BY <3>1
  <2>7. PICK c \in Nat : b <= c /\ f[k] <= c
    <3>1. \A i, j \in Nat : \E c \in Nat : i <= c /\ j <= c
      <4> SUFFICES ASSUME NEW i \in Nat, NEW j \in Nat PROVE \E c \in Nat : i <= c /\ j <= c
        OBVIOUS
      <4>1. i <= i + j /\ j <= i + j /\ i + j \in Nat
        OBVIOUS
      <4> QED
        BY <4>1
    <3> HIDE DEF Bad, Bounded
    <3> QED
      BY <2>6, <3>1
  <2>8. \A i \in 1..k : f[i] <= c
    <3> SUFFICES ASSUME NEW i \in 1..k PROVE f[i] <= c
      OBVIOUS
    <3>1. CASE i = k
      BY <2>7, <3>1
    <3>2. CASE i # k
      <4>1. i \in 1..(k - 1) /\ i \in 1..n
        BY <2>3, <3>2
      <4>2. f[i] <= b /\ f[i] \in Nat
        BY <2>5, <4>1
      <4> QED
        BY <2>7, <4>2
    <3> QED
      BY <3>1, <3>2
  <2> QED
    BY <2>3, <2>8
<1>4. PICK b \in Nat : \A i \in 1..n : f[i] <= b
  <2>1. n \in 0..n
    OBVIOUS
  <2>2. Bounded(n)
    <3> HIDE DEF Bounded
    <3> QED
      BY <1>3, <2>1
  <2> QED
    BY <2>2
<1>5. \A t \in S : t <= b
  BY <1>2, <1>4
<1> DEFINE T == {b - x : x \in S}
<1>6. T \in SUBSET Nat /\ T # {}
  <2>1. \A x \in S : b - x \in Nat
    BY <1>5
  <2> QED
    BY <2>1
<1>7. PICK z \in T : \A y \in T : z <= y
  <2> HIDE DEF T
  <2> QED
    BY <1>6, Least
<1>8. PICK x \in S : z = b - x
  BY <1>7
<1>9. \A y \in S : b - x <= b - y
  BY <1>7, <1>8
<1>10. \A y \in S : x >= y
  BY <1>9
<1>11. Max(S) \in S /\ \A y \in S : Max(S) >= y
  BY <1>10 DEF Max
<1> QED
  BY <1>11

\* A free address is one of the subnet that no row has.
LEMMA FreeAddr ==
  ASSUME NEW ip \in FreeAddrs
  PROVE  ip \in TpAddrs /\ \A g \in TpHosts : tpRow[g].ip # ip
<1> DEFINE S == TpAddrs \ Taken
<1>1. S # {} /\ ip = Min(S) /\ S \in SUBSET Nat
  BY TpAssumption DEF FreeAddrs
<1>2. \E x \in S : \A y \in S : x <= y
  <2> HIDE DEF S
  <2> QED
    BY <1>1, Least
<1>3. ip \in S
  BY <1>1, <1>2 DEF Min
<1> QED
  BY <1>3 DEF Taken

-----------------------------------------------------------------------------
(* The invariant is kept.                                                  *)

\* The tunnel starts in the invariant.
LEMMA TpInitIInv == TpInit => TpIInv
<1> SUFFICES ASSUME TpInit PROVE TpIInv
  OBVIOUS
<1>1. tpLast \in Nat /\ \A h \in TpHosts : h <= tpLast /\ h \in Nat /\ h # 0
  BY TpAssumption, Greatest DEF TpInit
<1>2. NoPeer \in Peer /\ NoEnroll \in Enrolment /\ NoOp \in Removal
  BY DEF NoPeer, NoEnroll, NoOp, Peer, Enrolment, Removal
<1>3. TpTypeOK
  BY <1>1 DEF TpInit, TpTypeOK, NoEnroll
<1>4. TpRest
  <2>1. tpKey \in [TpHosts -> Nat]
    BY <1>1 DEF TpInit
  <2> QED
    BY <1>1, <1>2, <2>1 DEF TpInit, TpRest, NoOp
<1>5. KeysInv
  <2>1. \A h \in TpHosts : KeysOf(h) = {h}
    BY <1>1 DEF TpInit, KeysOf, NoPeer, NoEnroll, NoOp
  <2>2. \A h \in TpHosts : h \in 1..tpLast
    BY <1>1
  <2> QED
    BY <2>1, <2>2, <1>1 DEF TpInit, KeysInv, NoEnroll
<1>6. RequestsInv /\ DeviceExplained /\ PeersRouted
  BY DEF TpInit, RequestsInv, DeviceExplained, PeersRouted, NoOp, NoEnroll
<1> QED
  BY <1>3, <1>4, <1>5, <1>6 DEF TpIInv

\* No step but the making of a key gives a host a key that it did not have.
LEMMA KeysMove ==
  ASSUME TpIInv, tpLast' = tpLast, tpKey' = tpKey,
         \A h \in TpHosts : KeysOf(h)' \subseteq KeysOf(h),
         \A h \in TpHosts : tpReq'[h].pc # "idle" => tpReq'[h].key # 0
  PROVE  KeysInv'
<1>1. /\ \A h \in TpHosts : tpKey'[h] # 0 /\ KeysOf(h)' \subseteq 1..tpLast'
      /\ \A g, h \in TpHosts : g # h => KeysOf(g)' \cap KeysOf(h)' = {}
  BY DEF TpIInv, KeysInv
<1> QED
  BY <1>1 DEF KeysInv

\* The keys of a host: none is that of another host.
LEMMA OwnKeys ==
  ASSUME TpIInv, NEW g \in TpHosts, NEW h \in TpHosts, g # h
  PROVE  /\ tpReq[g].key # 0 => tpReq[g].key # tpRow[h].key
         /\ tpReq[g].key # 0 /\ tpOp.host = h => tpReq[g].key # tpOp.key
         /\ tpRow[g].key # 0 /\ tpOp.host = h => tpRow[g].key # tpOp.key
BY DEF TpIInv, KeysInv, KeysOf

\* A host asks: its request has the key of its file.
LEMMA AskIInv ==
  ASSUME TpIInv, NEW h \in TpHosts, TpAsk(h)
  PROVE  TpIInv'
<1> DEFINE new == [pc |-> "enrol", key |-> tpKey[h], ip |-> 0]
<1>1. /\ tpReq[h].pc = "idle" /\ h \in tpAlive /\ tpReq' = [tpReq EXCEPT ![h] = new]
      /\ tpRaced' = IF tpOp.host = h THEN tpRaced \cup {h} ELSE tpRaced
      /\ UNCHANGED <<tpRow, tpDev, tpAlive, tpKey, tpLast, tpOp, tpLeft>>
  BY DEF TpAsk
<1>2. new \in Enrolment /\ new.pc = "enrol" /\ new.key = tpKey[h] /\ new.key # 0
  BY DEF Enrolment, TpIInv, TpRest, KeysInv
<1> HIDE DEF new
<1>3. tpReq' \in [TpHosts -> Enrolment] /\ \A g \in TpHosts : tpReq'[g] = IF g = h THEN new ELSE tpReq[g]
  BY <1>1, <1>2 DEF TpIInv, TpRest
<1>4. TpTypeOK' /\ TpRest'
  BY <1>1, <1>2, <1>3 DEF TpIInv, TpTypeOK, TpRest
<1>5. KeysInv'
  <2>1. \A g \in TpHosts : KeysOf(g)' \subseteq KeysOf(g)
    BY <1>1, <1>2, <1>3 DEF KeysOf
  <2>2. \A g \in TpHosts : tpReq'[g].pc # "idle" => tpReq'[g].key # 0
    BY <1>2, <1>3 DEF TpIInv, KeysInv
  <2> QED
    BY <1>1, <2>1, <2>2, KeysMove
<1>6. ASSUME tpRaced' = {} PROVE RequestsInv' /\ DeviceExplained' /\ PeersRouted'
  <2>1. tpRaced = {} /\ tpOp.host # h
    BY <1>1, <1>6
  <2>2. RequestsInv'
    BY <1>1, <1>2, <1>3, <2>1 DEF TpIInv, TpRest, Removal, RequestsInv
  <2>3. DeviceExplained'
    BY <1>1, <1>2, <1>3, <2>1 DEF TpIInv, DeviceExplained, Explained
  <2>4. PeersRouted'
    BY <1>1, <1>2, <1>3, <2>1 DEF TpIInv, TpRest, PeersRouted
  <2> QED
    BY <2>2, <2>3, <2>4
<1> QED
  BY <1>4, <1>5, <1>6 DEF TpIInv

\* The table gives the host its address, or a free one, and its new key.
LEMMA EnrollIInv ==
  ASSUME TpIInv, NEW h \in TpHosts, TpEnroll(h)
  PROVE  TpIInv'
<1>1. /\ tpReq[h].pc = "enrol"
      /\ UNCHANGED <<tpDev, tpAlive, tpKey, tpLast, tpOp, tpRaced, tpLeft>>
  BY DEF TpEnroll, tpHistory
<1>2. /\ tpReq[h] \in Enrolment /\ tpReq[h].key # 0 /\ tpReq[h].key \in 1..tpLast
      /\ tpReq \in [TpHosts -> Enrolment] /\ tpRow \in [TpHosts -> Peer]
  BY <1>1 DEF TpIInv, TpRest, KeysInv, KeysOf
<1>3. CASE tpReq' = [tpReq EXCEPT ![h] = NoEnroll] /\ UNCHANGED tpRow
  <2>1. NoEnroll \in Enrolment /\ NoEnroll.pc = "idle" /\ NoEnroll.key = 0
    BY DEF NoEnroll, Enrolment
  <2>2. tpReq' \in [TpHosts -> Enrolment] /\ \A g \in TpHosts : tpReq'[g] = IF g = h THEN NoEnroll ELSE tpReq[g]
    BY <1>2, <1>3, <2>1
  <2>3. TpTypeOK' /\ TpRest'
    BY <1>1, <1>3, <2>1, <2>2 DEF TpIInv, TpTypeOK, TpRest
  <2>4. KeysInv'
    <3>1. \A g \in TpHosts : KeysOf(g)' \subseteq KeysOf(g)
      BY <1>1, <1>3, <2>1, <2>2 DEF KeysOf
    <3>2. \A g \in TpHosts : tpReq'[g].pc # "idle" => tpReq'[g].key # 0
      BY <2>1, <2>2 DEF TpIInv, KeysInv
    <3> QED
      BY <1>1, <3>1, <3>2, KeysMove
  <2>5. ASSUME tpRaced = {} PROVE RequestsInv' /\ DeviceExplained' /\ PeersRouted'
    <3>1. RequestsInv'
      BY <1>1, <1>3, <2>1, <2>2, <2>5 DEF TpIInv, TpRest, Removal, RequestsInv
    <3>2. DeviceExplained' /\ PeersRouted'
      BY <1>1, <1>3, <2>1, <2>2, <2>5 DEF TpIInv, TpRest, DeviceExplained, Explained, PeersRouted
    <3> QED
      BY <3>1, <3>2
  <2> QED
    BY <1>1, <2>3, <2>4, <2>5 DEF TpIInv
<1>4. ASSUME NEW ip \in (IF tpRow[h] # NoPeer THEN {tpRow[h].ip} ELSE FreeAddrs),
             \A g \in TpHosts \ {h} : tpRow[g].key # tpReq[h].key,
             tpRow' = [tpRow EXCEPT ![h] = [key |-> tpReq[h].key, ip |-> ip]],
             tpReq' = [tpReq EXCEPT ![h].pc = "activate", ![h].ip = ip]
      PROVE  TpIInv'
  <2> DEFINE peer == [key |-> tpReq[h].key, ip |-> ip]
             new == [tpReq[h] EXCEPT !.pc = "activate", !.ip = ip]
  <2>1. ip \in TpAddrs /\ \A g \in TpHosts : g # h /\ tpRow[g] # NoPeer => tpRow[g].ip # ip
    <3>1. CASE tpRow[h] # NoPeer
      BY <1>4, <3>1 DEF TpIInv, TpTypeOK
    <3>2. CASE tpRow[h] = NoPeer
      BY <1>4, <3>2, FreeAddr
    <3> QED
      BY <3>1, <3>2
  <2>2. /\ peer \in Peer /\ peer \in [key : 1..tpLast, ip : TpAddrs]
        /\ peer.key = tpReq[h].key /\ peer.ip = ip /\ peer # NoPeer
    BY <1>2, <2>1 DEF Peer, Enrolment, NoPeer
  <2>3. /\ new \in Enrolment /\ new.pc = "activate" /\ new.key = tpReq[h].key /\ new.ip = ip
    BY <1>2, <2>1 DEF Enrolment
  <2>4. tpRow' = [tpRow EXCEPT ![h] = peer] /\ tpReq' = [tpReq EXCEPT ![h] = new]
    BY <1>2, <1>4 DEF Enrolment
  <2>5. peer = [key |-> new.key, ip |-> new.ip]
    BY <2>3
  <2> HIDE DEF peer, new
  <2>6. /\ tpRow' \in [TpHosts -> Peer] /\ \A g \in TpHosts : tpRow'[g] = IF g = h THEN peer ELSE tpRow[g]
        /\ tpReq' \in [TpHosts -> Enrolment] /\ \A g \in TpHosts : tpReq'[g] = IF g = h THEN new ELSE tpReq[g]
    BY <1>2, <2>2, <2>3, <2>4
  <2>7. TpTypeOK'
    <3>1. \A g \in TpHosts : tpRow'[g] = NoPeer \/ tpRow'[g] \in [key : 1..tpLast, ip : TpAddrs]
      BY <2>2, <2>6 DEF TpIInv, TpTypeOK
    <3>2. \A f, g \in TpHosts : f # g /\ tpRow'[f] # NoPeer /\ tpRow'[g] # NoPeer =>
             tpRow'[f].ip # tpRow'[g].ip /\ tpRow'[f].key # tpRow'[g].key
      BY <1>4, <2>1, <2>2, <2>6 DEF TpIInv, TpTypeOK
    <3>3. \A g \in TpHosts : tpReq'[g].pc \in {"idle", "enrol", "activate", "answer"}
      BY <2>3, <2>6 DEF TpIInv, TpTypeOK
    <3> QED
      BY <1>1, <3>1, <3>2, <3>3 DEF TpIInv, TpTypeOK
  <2>8. TpRest'
    BY <1>1, <2>6 DEF TpIInv, TpRest
  <2>9. KeysInv'
    <3>1. \A g \in TpHosts : KeysOf(g)' \subseteq KeysOf(g)
      BY <1>1, <2>2, <2>3, <2>6 DEF KeysOf
    <3>2. \A g \in TpHosts : tpReq'[g].pc # "idle" => tpReq'[g].key # 0
      BY <1>2, <2>3, <2>6 DEF TpIInv, KeysInv
    <3> QED
      BY <1>1, <3>1, <3>2, KeysMove
  <2>10. ASSUME tpRaced = {} PROVE RequestsInv' /\ DeviceExplained' /\ PeersRouted'
    <3>1. tpOp.pc # "idle" => tpOp.host # h /\ tpOp.host \in TpHosts
      BY <1>1, <2>10, TpAssumption DEF TpIInv, TpRest, Removal, RequestsInv
    <3>2. RequestsInv'
      BY <1>1, <2>3, <2>5, <2>6, <2>10, <3>1 DEF TpIInv, RequestsInv
    <3>3. DeviceExplained'
      <4> SUFFICES ASSUME NEW a \in TpAddrs, tpDev[a] # 0 PROVE Explained(a)'
        BY <1>1 DEF DeviceExplained
      <4>1. Explained(a)
        BY <2>10 DEF TpIInv, DeviceExplained
      <4>2. CASE tpRow[h] = [key |-> tpDev[a], ip |-> a]
        <5>1. tpRow[h] # NoPeer /\ ip = a
          BY <1>4, <4>2, TpAssumption DEF NoPeer
        <5> QED
          BY <2>2, <2>3, <2>6, <5>1 DEF Explained
      <4>3. CASE tpRow[h] # [key |-> tpDev[a], ip |-> a]
        BY <1>1, <2>2, <2>3, <2>6, <3>1, <4>1, <4>3 DEF Explained, TpIInv, TpRest
      <4> QED
        BY <4>2, <4>3
    <3>4. PeersRouted'
      BY <1>1, <2>3, <2>6, <2>10 DEF TpIInv, TpRest, PeersRouted
    <3> QED
      BY <3>2, <3>3, <3>4
  <2> QED
    BY <1>1, <2>7, <2>8, <2>9, <2>10 DEF TpIInv
<1> QED
  BY <1>3, <1>4 DEF TpEnroll

\* The device gives the address to the key of the row.
LEMMA ActivateIInv ==
  ASSUME TpIInv, NEW h \in TpHosts, TpActivate(h)
  PROVE  TpIInv'
<1> DEFINE new == [tpReq[h] EXCEPT !.pc = "answer"]
<1>1. /\ tpReq[h].pc = "activate" /\ tpDev' = SetPeer(tpReq[h].key, tpReq[h].ip)
      /\ tpReq' = [tpReq EXCEPT ![h] = new]
      /\ tpLeft' = tpLeft \ {tpReq[h].key}
      /\ UNCHANGED <<tpRow, tpAlive, tpKey, tpLast, tpOp, tpRaced>>
  BY DEF TpActivate, TpIInv, TpRest
<1>2. /\ tpReq[h] \in Enrolment /\ tpReq[h].key # 0 /\ tpReq[h].key \in 1..tpLast
      /\ tpReq \in [TpHosts -> Enrolment] /\ tpLast \in Nat
  BY <1>1 DEF TpIInv, TpRest, KeysInv, KeysOf
<1>3. new \in Enrolment /\ new.pc = "answer" /\ new.key = tpReq[h].key /\ new.ip = tpReq[h].ip
  BY <1>2 DEF Enrolment
<1> HIDE DEF new
<1>4. tpReq' \in [TpHosts -> Enrolment] /\ \A g \in TpHosts : tpReq'[g] = IF g = h THEN new ELSE tpReq[g]
  BY <1>1, <1>2, <1>3
<1>5. \A a \in TpAddrs : tpDev'[a] = IF a = tpReq[h].ip THEN tpReq[h].key
                                    ELSE IF tpDev[a] = tpReq[h].key THEN 0 ELSE tpDev[a]
  BY <1>1 DEF SetPeer
<1>6. TpTypeOK'
  <2>1. tpDev' \in [TpAddrs -> 0..tpLast]
    <3>1. \A a \in TpAddrs : tpDev[a] \in 0..tpLast
      BY DEF TpIInv, TpTypeOK
    <3>2. \A a \in TpAddrs :
             (IF a = tpReq[h].ip THEN tpReq[h].key ELSE IF tpDev[a] = tpReq[h].key THEN 0 ELSE tpDev[a]) \in 0..tpLast
      BY <1>2, <3>1
    <3> QED
      BY <1>1, <3>2 DEF SetPeer
  <2> QED
    BY <1>1, <1>3, <1>4, <2>1 DEF TpIInv, TpTypeOK
<1>7. TpRest'
  BY <1>1, <1>4 DEF TpIInv, TpRest
<1>8. KeysInv'
  <2>1. \A g \in TpHosts : KeysOf(g)' \subseteq KeysOf(g)
    BY <1>1, <1>3, <1>4 DEF KeysOf
  <2>2. \A g \in TpHosts : tpReq'[g].pc # "idle" => tpReq'[g].key # 0
    BY <1>2, <1>3, <1>4 DEF TpIInv, KeysInv
  <2> QED
    BY <1>1, <2>1, <2>2, KeysMove
<1>9. ASSUME tpRaced = {} PROVE RequestsInv' /\ DeviceExplained' /\ PeersRouted'
  <2>1. tpRow[h] = [key |-> tpReq[h].key, ip |-> tpReq[h].ip] /\ tpRow[h] # NoPeer
    BY <1>1, <1>2, <1>9 DEF TpIInv, RequestsInv, NoPeer
  <2>2. tpOp.pc # "idle" => tpOp.host # h /\ tpOp.host \in TpHosts
    BY <1>1, <1>9 DEF TpIInv, TpRest, Removal, RequestsInv
  <2>3. RequestsInv'
    BY <1>1, <1>3, <1>4, <1>9, <2>1, <2>2 DEF TpIInv, RequestsInv
  <2>4. DeviceExplained'
    <3> SUFFICES ASSUME NEW a \in TpAddrs, tpDev'[a] # 0 PROVE Explained(a)'
      BY DEF DeviceExplained
    <3>1. CASE a = tpReq[h].ip
      <4>1. h \in tpAlive'
        BY <1>1, <1>9 DEF TpIInv, RequestsInv
      <4> QED
        BY <1>1, <1>5, <2>1, <3>1, <4>1 DEF Explained
    <3>2. CASE a # tpReq[h].ip
      <4>1. tpDev'[a] = tpDev[a] /\ tpDev[a] # 0 /\ tpDev[a] # tpReq[h].key
        BY <1>5, <3>2
      <4>2. Explained(a)
        BY <1>9, <4>1 DEF TpIInv, DeviceExplained
      <4>3. tpRow[h].ip # a
        BY <2>1, <3>2
      <4> QED
        BY <1>1, <1>3, <1>4, <4>1, <4>2, <4>3 DEF Explained
    <3> QED
      BY <3>1, <3>2
  <2>5. PeersRouted'
    <3> SUFFICES ASSUME NEW g \in tpAlive, tpRow[g] # NoPeer, tpReq'[g].pc # "activate", tpRow[g].key \notin tpLeft'
                 PROVE  tpDev'[tpRow[g].ip] = tpRow[g].key
      BY <1>1 DEF PeersRouted
    <3>1. g \in TpHosts /\ tpRow[g].ip \in TpAddrs
      BY DEF TpIInv, TpRest, TpTypeOK
    <3>2. CASE g = h
      BY <1>5, <2>1, <3>1, <3>2
    <3>3. CASE g # h
      <4>1. tpRow[g].ip # tpReq[h].ip /\ tpRow[g].key # tpReq[h].key
        BY <2>1, <3>1, <3>3 DEF TpIInv, TpTypeOK
      <4>2. tpDev[tpRow[g].ip] = tpRow[g].key
        BY <1>1, <1>4, <1>9, <3>1, <3>3, <4>1 DEF TpIInv, PeersRouted
      <4> QED
        BY <1>5, <3>1, <4>1, <4>2
    <3> QED
      BY <3>2, <3>3
  <2> QED
    BY <2>3, <2>4, <2>5
<1> QED
  BY <1>1, <1>6, <1>7, <1>8, <1>9 DEF TpIInv

\* The device is not reached: the key and the one that the address is still
\* routed to are recorded.
LEMMA ActivateFailsIInv ==
  ASSUME TpIInv, NEW h \in TpHosts, TpActivateFails(h)
  PROVE  TpIInv'
<1> DEFINE key == tpReq[h].key
           ip == tpReq[h].ip
<1>1. /\ tpReq[h].pc = "activate" /\ tpReq' = [tpReq EXCEPT ![h] = NoEnroll]
      /\ UNCHANGED <<tpRow, tpDev, tpAlive, tpKey, tpLast, tpOp, tpRaced>>
  BY DEF TpActivateFails
<1>2. /\ tpLeft \subseteq tpLeft'
      /\ tpDev[ip] # key => key \in tpLeft' /\ (tpDev[ip] # 0 => tpDev[ip] \in tpLeft')
  <2>1. key # 0
    BY <1>1 DEF TpIInv, KeysInv
  <2> QED
    BY <2>1 DEF TpActivateFails
<1>3. NoEnroll \in Enrolment /\ NoEnroll.pc = "idle" /\ NoEnroll.key = 0
  BY DEF NoEnroll, Enrolment
<1>4. tpReq' \in [TpHosts -> Enrolment] /\ \A g \in TpHosts : tpReq'[g] = IF g = h THEN NoEnroll ELSE tpReq[g]
  BY <1>1, <1>3 DEF TpIInv, TpRest
<1>5. TpTypeOK' /\ TpRest'
  BY <1>1, <1>3, <1>4 DEF TpIInv, TpTypeOK, TpRest
<1>6. KeysInv'
  <2>1. \A g \in TpHosts : KeysOf(g)' \subseteq KeysOf(g)
    BY <1>1, <1>3, <1>4 DEF KeysOf
  <2>2. \A g \in TpHosts : tpReq'[g].pc # "idle" => tpReq'[g].key # 0
    BY <1>3, <1>4 DEF TpIInv, KeysInv
  <2> QED
    BY <1>1, <2>1, <2>2, KeysMove
<1>7. ASSUME tpRaced = {} PROVE RequestsInv' /\ DeviceExplained' /\ PeersRouted'
  <2>1. tpRow[h] = [key |-> key, ip |-> ip] /\ h \in tpAlive
    BY <1>1, <1>7 DEF TpIInv, RequestsInv
  <2> HIDE DEF key, ip
  <2>2. RequestsInv'
    BY <1>1, <1>3, <1>4, <1>7 DEF TpIInv, TpRest, Removal, RequestsInv
  <2>3. DeviceExplained'
    <3> SUFFICES ASSUME NEW a \in TpAddrs, tpDev[a] # 0 PROVE Explained(a)'
      BY <1>1 DEF DeviceExplained
    <3>1. CASE a = ip
      BY <1>1, <1>2, <2>1, <3>1 DEF Explained
    <3>2. CASE a # ip
      <4>1. Explained(a)
        BY <1>7 DEF TpIInv, DeviceExplained
      <4>2. tpRow[h].ip # a
        BY <2>1, <3>2
      <4> QED
        BY <1>1, <1>2, <1>4, <4>1, <4>2 DEF Explained
    <3> QED
      BY <3>1, <3>2
  <2>4. PeersRouted'
    <3> SUFFICES ASSUME NEW g \in tpAlive, tpRow[g] # NoPeer, tpRow[g].key \notin tpLeft', tpReq'[g].pc # "activate"
                 PROVE  tpDev[tpRow[g].ip] = tpRow[g].key
      BY <1>1 DEF PeersRouted
    <3>1. CASE g = h
      BY <1>2, <2>1, <3>1
    <3>2. CASE g # h
      BY <1>2, <1>4, <1>7, <3>2 DEF TpIInv, TpRest, PeersRouted
    <3> QED
      BY <3>1, <3>2
  <2> QED
    BY <2>2, <2>3, <2>4
<1> QED
  BY <1>1, <1>5, <1>6, <1>7 DEF TpIInv

\* What the invariant does not speak of may change.
LEMMA NothingElse ==
  ASSUME TpIInv, UNCHANGED <<tpRow, tpDev, tpAlive, tpKey, tpLast, tpReq, tpOp, tpRaced, tpLeft>>
  PROVE  TpIInv'
<1>1. TpTypeOK' /\ TpRest'
  BY DEF TpIInv, TpTypeOK, TpRest
<1>2. KeysInv'
  BY DEF TpIInv, KeysInv, KeysOf
<1>3. tpRaced = {} => RequestsInv' /\ DeviceExplained' /\ PeersRouted'
  BY DEF TpIInv, RequestsInv, DeviceExplained, Explained, PeersRouted
<1> QED
  BY <1>1, <1>2, <1>3 DEF TpIInv

\* The host has its answer, or has lost it; its settings grow old.
LEMMA SettleIInv ==
  ASSUME TpIInv, NEW h \in TpHosts, TpSettle(h) \/ TpAge(h)
  PROVE  TpIInv'
<1>1. CASE TpSettle(h)
  <2>1. /\ tpReq[h].pc = "answer" /\ tpReq' = [tpReq EXCEPT ![h] = NoEnroll]
        /\ UNCHANGED <<tpRow, tpDev, tpAlive, tpKey, tpLast, tpOp, tpRaced, tpLeft>>
    BY <1>1 DEF TpSettle, tpHistory
  <2>2. NoEnroll \in Enrolment /\ NoEnroll.pc = "idle" /\ NoEnroll.key = 0
    BY DEF NoEnroll, Enrolment
  <2>3. tpReq' \in [TpHosts -> Enrolment] /\ \A g \in TpHosts : tpReq'[g] = IF g = h THEN NoEnroll ELSE tpReq[g]
    BY <2>1, <2>2 DEF TpIInv, TpRest
  <2>4. TpTypeOK' /\ TpRest'
    BY <2>1, <2>2, <2>3 DEF TpIInv, TpTypeOK, TpRest
  <2>5. KeysInv'
    <3>1. \A g \in TpHosts : KeysOf(g)' \subseteq KeysOf(g)
      BY <2>1, <2>2, <2>3 DEF KeysOf
    <3>2. \A g \in TpHosts : tpReq'[g].pc # "idle" => tpReq'[g].key # 0
      BY <2>2, <2>3 DEF TpIInv, KeysInv
    <3> QED
      BY <2>1, <3>1, <3>2, KeysMove
  <2>6. ASSUME tpRaced = {} PROVE RequestsInv' /\ DeviceExplained' /\ PeersRouted'
    BY <2>1, <2>2, <2>3, <2>6 DEF TpIInv, TpRest, Removal, RequestsInv, DeviceExplained, Explained,
       PeersRouted
  <2> QED
    BY <2>1, <2>4, <2>5, <2>6 DEF TpIInv
<1>2. CASE TpAge(h)
  BY <1>2, NothingElse DEF TpAge, tpHistory
<1> QED
  BY <1>1, <1>2

\* A new key is nobody else's.
LEMMA NewKeyIInv ==
  ASSUME TpIInv, NEW h \in TpHosts, TpNewKey(h)
  PROVE  TpIInv'
<1>1. /\ tpLast' = tpLast + 1 /\ tpKey' = [tpKey EXCEPT ![h] = tpLast + 1]
      /\ UNCHANGED <<tpRow, tpDev, tpAlive, tpReq, tpOp, tpRaced, tpLeft>>
  BY DEF TpNewKey, tpHistory
<1>2. tpLast \in Nat /\ tpKey \in [TpHosts -> Nat]
  BY DEF TpIInv, TpRest
<1>3. 1..tpLast \subseteq 1..tpLast' /\ 0..tpLast \subseteq 0..tpLast' /\ tpLast' \in 1..tpLast' /\ tpLast' # 0
  BY <1>1, <1>2
<1>4. tpKey' \in [TpHosts -> Nat] /\ \A g \in TpHosts : tpKey'[g] = IF g = h THEN tpLast' ELSE tpKey[g]
  BY <1>1, <1>2
<1>5. TpTypeOK'
  BY <1>1, <1>3 DEF TpIInv, TpTypeOK
<1>6. TpRest'
  BY <1>1, <1>2, <1>4 DEF TpIInv, TpRest
<1>7. KeysInv'
  <2>1. KeysOf(h)' \subseteq KeysOf(h) \cup {tpLast'} /\ \A g \in TpHosts : g # h => KeysOf(g)' = KeysOf(g)
    BY <1>1, <1>4 DEF KeysOf
  <2>2. \A g \in TpHosts : tpLast' \notin KeysOf(g)
    BY <1>1, <1>2 DEF TpIInv, KeysInv
  <2>3. \A g \in TpHosts : tpKey'[g] # 0 /\ KeysOf(g)' \subseteq 1..tpLast'
    BY <1>3, <1>4, <2>1 DEF TpIInv, KeysInv
  <2>4. \A f, g \in TpHosts : f # g => KeysOf(f)' \cap KeysOf(g)' = {}
    BY <2>1, <2>2 DEF TpIInv, KeysInv
  <2> QED
    BY <1>1, <2>3, <2>4 DEF TpIInv, KeysInv
<1>8. tpRaced = {} => RequestsInv' /\ DeviceExplained' /\ PeersRouted'
  BY <1>1 DEF TpIInv, RequestsInv, DeviceExplained, Explained, PeersRouted
<1> QED
  BY <1>1, <1>5, <1>6, <1>7, <1>8 DEF TpIInv

\* The operator begins: a host that is enrolling is recorded as raced.
LEMMA RemovalBeginsIInv ==
  ASSUME TpIInv, NEW h \in TpHosts, TpRevoke(h) \/ TpDeleteHost(h)
  PROVE  TpIInv'
<1>1. /\ tpOp.pc = "idle" /\ tpOp.host = 0
      /\ tpRaced' = IF tpReq[h].pc # "idle" THEN tpRaced \cup {h} ELSE tpRaced
      /\ UNCHANGED <<tpRow, tpDev, tpKey, tpLast, tpReq, tpLeft>>
      /\ tpAlive' \subseteq tpAlive
  BY DEF TpRevoke, TpDeleteHost, OpBegins, TpIInv, TpRest
<1>2. /\ tpOp' \in Removal /\ tpOp'.host = h /\ tpOp'.pc \in {"revoke", "demote"}
      /\ tpOp'.pc = "demote" => tpOp'.key = 0 /\ tpAlive' = tpAlive \ {h}
      /\ tpOp'.pc = "revoke" => tpRow[h] # NoPeer /\ tpOp'.key = tpRow[h].key /\ tpAlive' = tpAlive
  BY DEF TpRevoke, TpDeleteHost, TpIInv, TpRest, Peer, Removal
<1>3. h # 0
  BY TpAssumption
<1>4. TpTypeOK' /\ TpRest'
  BY <1>1, <1>2, <1>3 DEF TpIInv, TpTypeOK, TpRest
<1>5. KeysInv'
  <2>1. \A g \in TpHosts : KeysOf(g)' \subseteq KeysOf(g)
    BY <1>1, <1>2 DEF KeysOf
  <2> QED
    BY <1>1, <2>1, KeysMove DEF TpIInv, KeysInv
<1>6. ASSUME tpRaced' = {} PROVE RequestsInv' /\ DeviceExplained' /\ PeersRouted'
  <2>1. tpRaced = {} /\ tpReq[h].pc = "idle"
    BY <1>1, <1>6
  <2>2. RequestsInv'
    BY <1>1, <1>2, <2>1 DEF TpIInv, RequestsInv
  <2>3. DeviceExplained'
    <3> SUFFICES ASSUME NEW a \in TpAddrs, tpDev[a] # 0 PROVE Explained(a)'
      BY <1>1 DEF DeviceExplained
    <3>1. Explained(a)
      BY <2>1 DEF TpIInv, DeviceExplained
    <3>2. CASE tpRow[h] = [key |-> tpDev[a], ip |-> a]
      <4>1. tpRow[h].key = tpDev[a]
        BY <3>2
      <4> QED
        BY <1>1, <1>2, <3>1, <4>1 DEF Explained
    <3>3. CASE tpRow[h] # [key |-> tpDev[a], ip |-> a]
      BY <1>1, <1>2, <3>1, <3>3 DEF Explained
    <3> QED
      BY <3>2, <3>3
  <2>4. PeersRouted'
    BY <1>1, <2>1 DEF TpIInv, PeersRouted
  <2> QED
    BY <2>2, <2>3, <2>4
<1> QED
  BY <1>4, <1>5, <1>6 DEF TpIInv

\* A removal may end at any point where the entries it was to remove are recorded.
LEMMA RemovalEnds ==
  ASSUME TpIInv, tpOp' = NoOp, tpLeft \subseteq tpLeft',
         UNCHANGED <<tpRow, tpDev, tpAlive, tpKey, tpLast, tpReq, tpRaced>>,
         \A a \in TpAddrs :
            tpDev[a] # 0 /\ (\/ tpOp.pc \in {"demote", "get", "delete"} /\ tpRow[tpOp.host].key = tpDev[a]
                             \/ tpOp.pc = "remove" /\ tpDev[a] = tpOp.key) => tpDev[a] \in tpLeft'
  PROVE  TpIInv'
<1>1. NoOp \in Removal /\ NoOp.pc = "idle" /\ NoOp.host = 0
  BY DEF NoOp, Removal
<1>2. TpTypeOK' /\ TpRest'
  BY <1>1 DEF TpIInv, TpTypeOK, TpRest
<1>3. KeysInv'
  <2>1. \A g \in TpHosts : KeysOf(g)' \subseteq KeysOf(g)
    BY <1>1, TpAssumption DEF KeysOf
  <2> QED
    BY <2>1, KeysMove DEF TpIInv, KeysInv
<1>4. ASSUME tpRaced = {} PROVE RequestsInv' /\ DeviceExplained' /\ PeersRouted'
  <2>1. RequestsInv'
    BY <1>1, <1>4 DEF TpIInv, RequestsInv
  <2>2. DeviceExplained'
    <3> SUFFICES ASSUME NEW a \in TpAddrs, tpDev[a] # 0 PROVE Explained(a)'
      BY DEF DeviceExplained
    <3>1. Explained(a)
      BY <1>4 DEF TpIInv, DeviceExplained
    <3> QED
      BY <1>1, <3>1 DEF Explained
  <2>3. PeersRouted'
    BY <1>4 DEF TpIInv, PeersRouted
  <2> QED
    BY <2>1, <2>2, <2>3
<1> QED
  BY <1>2, <1>3, <1>4 DEF TpIInv

\* A removal goes on with the row still there: to the look-up of the peer, to its
\* row, or past the row to the device.
LEMMA RemovalGoesOn ==
  ASSUME TpIInv, tpOp' \in Removal, tpOp'.host = tpOp.host,
         \/ tpOp.pc = "demote" /\ tpOp'.pc = "get" /\ tpOp'.key = tpOp.key
         \/ /\ tpOp.pc = "get" /\ tpOp'.pc = "delete" /\ tpOp'.key = tpRow[tpOp.host].key
            /\ tpRow[tpOp.host] # NoPeer
         \/ tpOp.pc = "delete" /\ tpOp'.pc = "remove" /\ tpOp'.key = tpOp.key,
         UNCHANGED <<tpRow, tpDev, tpAlive, tpKey, tpLast, tpReq, tpRaced, tpLeft>>
  PROVE  TpIInv'
<1>1. tpOp.host \in TpHosts /\ tpOp.host # 0
  BY TpAssumption DEF TpIInv, TpRest, Removal
<1>2. TpTypeOK' /\ TpRest'
  BY <1>1 DEF TpIInv, TpTypeOK, TpRest
<1>3. KeysInv'
  <2>1. \A g \in TpHosts : KeysOf(g)' \subseteq KeysOf(g)
    BY <1>1 DEF KeysOf
  <2> QED
    BY <2>1, KeysMove DEF TpIInv, KeysInv
<1>4. ASSUME tpRaced = {} PROVE RequestsInv' /\ DeviceExplained' /\ PeersRouted'
  <2>1. tpOp.pc = "delete" => tpRow[tpOp.host] # NoPeer /\ tpRow[tpOp.host].key = tpOp.key /\ tpOp.key # 0
    BY <1>1, <1>4 DEF TpIInv, TpTypeOK, RequestsInv
  <2>2. RequestsInv'
    BY <1>1, <1>4, <2>1 DEF TpIInv, RequestsInv
  <2>3. DeviceExplained'
    BY <1>4, <2>1 DEF TpIInv, DeviceExplained, Explained
  <2>4. PeersRouted'
    BY <1>4 DEF TpIInv, PeersRouted
  <2> QED
    BY <2>2, <2>3, <2>4
<1> QED
  BY <1>2, <1>3, <1>4 DEF TpIInv

\* The host is deleted; its peer is looked up, or not any more.
LEMMA LookUpIInv ==
  ASSUME TpIInv, TpDemote \/ TpGetPeer
  PROVE  TpIInv'
<1>1. /\ tpOp.pc \in {"demote", "get"} /\ tpOp.host \in TpHosts
      /\ UNCHANGED <<tpRow, tpDev, tpAlive, tpKey, tpLast, tpReq, tpRaced>>
  BY DEF TpDemote, TpGetPeer, TpIInv, TpRest, Removal
<1>2. CASE GivesUp(tpRow[tpOp.host].key)
  <2>1. tpOp' = NoOp /\ tpLeft \subseteq tpLeft' /\ (tpRow[tpOp.host].key # 0 => tpRow[tpOp.host].key \in tpLeft')
    BY <1>2 DEF GivesUp
  <2> QED
    BY <1>1, <2>1, RemovalEnds
<1>3. CASE tpOp.pc = "get" /\ tpRow[tpOp.host] = NoPeer /\ tpOp' = NoOp /\ UNCHANGED tpLeft
  <2>1. tpRow[tpOp.host].key = 0
    BY <1>3 DEF NoPeer
  <2> QED
    BY <1>1, <1>3, <2>1, RemovalEnds
<1>4. CASE /\ tpOp.pc = "get" /\ tpRow[tpOp.host] # NoPeer /\ UNCHANGED tpLeft
           /\ tpOp' = [tpOp EXCEPT !.pc = "delete", !.key = tpRow[tpOp.host].key]
  <2>1. /\ tpOp' \in Removal /\ tpOp'.host = tpOp.host
        /\ tpOp'.pc = "delete" /\ tpOp'.key = tpRow[tpOp.host].key
    BY <1>1, <1>4 DEF TpIInv, TpRest, Peer, Removal
  <2> QED
    BY <1>1, <1>4, <2>1, RemovalGoesOn
<1>5. CASE tpOp.pc = "demote" /\ tpOp' = [tpOp EXCEPT !.pc = "get"] /\ UNCHANGED tpLeft
  <2>1. tpOp' \in Removal /\ tpOp'.host = tpOp.host /\ tpOp'.pc = "get" /\ tpOp'.key = tpOp.key
    BY <1>5 DEF TpIInv, TpRest, Removal
  <2> QED
    BY <1>1, <1>5, <2>1, RemovalGoesOn
<1> QED
  BY <1>2, <1>3, <1>4, <1>5 DEF TpDemote, TpGetPeer

\* The row goes; the device keeps its entry until the request removes it, or for
\* good when the handler ends there.
LEMMA DeletePeerIInv ==
  ASSUME TpIInv, TpDeletePeer
  PROVE  TpIInv'
<1> DEFINE h == tpOp.host
           new == [tpOp EXCEPT !.pc = "remove"]
<1>1. /\ tpOp.pc \in {"revoke", "delete"} /\ h \in TpHosts /\ h # 0
      /\ tpRow' = [tpRow EXCEPT ![h] = NoPeer]
      /\ UNCHANGED <<tpDev, tpAlive, tpKey, tpLast, tpReq, tpRaced>>
  BY TpAssumption DEF TpDeletePeer, TpIInv, TpRest, Removal
<1>2. /\ tpLeft \subseteq tpLeft'
      /\ tpOp' = new \/ (tpOp' = NoOp /\ (tpOp.key # 0 => tpOp.key \in tpLeft'))
  BY DEF TpDeletePeer, GivesUp
<1>3. new \in Removal /\ new.pc = "remove" /\ new.host = h /\ new.key = tpOp.key
  BY DEF TpIInv, TpRest, Removal
<1>4. NoOp \in Removal /\ NoOp.pc = "idle" /\ NoOp.host = 0
  BY DEF NoOp, Removal
<1>5. NoPeer \in Peer /\ NoPeer.key = 0 /\ NoPeer.ip = 0
  BY DEF NoPeer, Peer
<1> HIDE DEF h, new
<1>6. tpRow' \in [TpHosts -> Peer] /\ \A g \in TpHosts : tpRow'[g] = IF g = h THEN NoPeer ELSE tpRow[g]
  BY <1>1, <1>5 DEF TpIInv, TpRest
<1>7. TpTypeOK' /\ TpRest'
  BY <1>1, <1>2, <1>3, <1>4, <1>6 DEF TpIInv, TpTypeOK, TpRest, h
<1>8. KeysInv'
  <2>1. \A g \in TpHosts : KeysOf(g)' \subseteq KeysOf(g)
    BY <1>1, <1>2, <1>3, <1>4, <1>5, <1>6, TpAssumption DEF KeysOf, h
  <2> QED
    BY <1>1, <2>1, KeysMove DEF TpIInv, KeysInv
<1>9. ASSUME tpRaced = {} PROVE RequestsInv' /\ DeviceExplained' /\ PeersRouted'
  <2>1. tpReq[h].pc = "idle" /\ tpRow[h] # NoPeer /\ tpRow[h].key = tpOp.key /\ tpOp.key # 0
    BY <1>1, <1>9 DEF TpIInv, RequestsInv, TpTypeOK, h
  <2>2. RequestsInv'
    BY <1>1, <1>2, <1>3, <1>4, <1>6, <1>9, <2>1 DEF TpIInv, RequestsInv
  <2>3. DeviceExplained'
    <3> SUFFICES ASSUME NEW a \in TpAddrs, tpDev[a] # 0 PROVE Explained(a)'
      BY <1>1 DEF DeviceExplained
    <3>1. Explained(a)
      BY <1>9 DEF TpIInv, DeviceExplained
    <3>2. CASE tpDev[a] = tpOp.key
      BY <1>1, <1>2, <1>3, <2>1, <3>2 DEF Explained
    <3>3. CASE tpDev[a] # tpOp.key
      <4>1. tpRow[h] # [key |-> tpDev[a], ip |-> a] /\ tpRow[h].key # tpDev[a]
        BY <2>1, <3>3
      <4> QED
        BY <1>1, <1>2, <1>6, <2>1, <3>1, <3>3, <4>1 DEF Explained, h
    <3> QED
      BY <3>2, <3>3
  <2>4. PeersRouted'
    BY <1>1, <1>2, <1>6, <1>9 DEF TpIInv, TpRest, PeersRouted, h
  <2> QED
    BY <2>2, <2>3, <2>4
<1> QED
  BY <1>1, <1>7, <1>8, <1>9 DEF TpIInv

\* The row or the device is not reached: revoke answers the error, delete goes on.
LEMMA RemovalFailsIInv ==
  ASSUME TpIInv, TpDeletePeerFails \/ TpRemovePeerFails
  PROVE  TpIInv'
<1>1. UNCHANGED <<tpRow, tpDev, tpAlive, tpKey, tpLast, tpReq, tpRaced>>
  BY DEF TpDeletePeerFails, TpRemovePeerFails, tpHistory
<1>2. CASE tpOp.pc = "revoke" /\ tpOp' = NoOp /\ UNCHANGED tpLeft
  BY <1>1, <1>2, RemovalEnds
<1>3. CASE tpOp.pc = "delete" /\ tpOp' = [tpOp EXCEPT !.pc = "remove"] /\ UNCHANGED tpLeft
  <2>1. tpOp' \in Removal /\ tpOp'.host = tpOp.host /\ tpOp'.pc = "remove" /\ tpOp'.key = tpOp.key
    BY <1>3 DEF TpIInv, TpRest, Removal
  <2> QED
    BY <1>1, <1>3, <2>1, RemovalGoesOn
<1>4. CASE tpOp.pc = "remove" /\ GivesUp(tpOp.key)
  <2>1. tpOp' = NoOp /\ tpLeft \subseteq tpLeft' /\ (tpOp.key # 0 => tpOp.key \in tpLeft')
    BY <1>4 DEF GivesUp
  <2> QED
    BY <1>1, <1>4, <2>1, RemovalEnds
<1> QED
  BY <1>2, <1>3, <1>4 DEF TpDeletePeerFails, TpRemovePeerFails, tpHistory

\* The device forgets the key, which is nobody else's.
LEMMA RemovePeerIInv ==
  ASSUME TpIInv, TpRemovePeer
  PROVE  TpIInv'
<1>1. /\ tpOp.pc = "remove" /\ tpOp.host \in TpHosts /\ tpOp.host # 0 /\ tpOp' = NoOp
      /\ tpDev' = [a \in TpAddrs |-> IF tpDev[a] = tpOp.key THEN 0 ELSE tpDev[a]]
      /\ tpLeft' = tpLeft \ {tpOp.key}
      /\ UNCHANGED <<tpRow, tpAlive, tpKey, tpLast, tpReq, tpRaced>>
  BY TpAssumption DEF TpRemovePeer, TpIInv, TpRest, Removal
<1>2. NoOp \in Removal /\ NoOp.pc = "idle" /\ NoOp.host = 0
  BY DEF NoOp, Removal
<1>3. TpTypeOK'
  <2>1. \A a \in TpAddrs : (IF tpDev[a] = tpOp.key THEN 0 ELSE tpDev[a]) \in 0..tpLast
    BY DEF TpIInv, TpTypeOK, TpRest
  <2> QED
    BY <1>1, <2>1 DEF TpIInv, TpTypeOK
<1>4. TpRest'
  BY <1>1, <1>2 DEF TpIInv, TpRest
<1>5. KeysInv'
  <2>1. \A g \in TpHosts : KeysOf(g)' \subseteq KeysOf(g)
    BY <1>1, <1>2, TpAssumption DEF KeysOf
  <2> QED
    BY <1>1, <2>1, KeysMove DEF TpIInv, KeysInv
<1>6. ASSUME tpRaced = {} PROVE RequestsInv' /\ DeviceExplained' /\ PeersRouted'
  <2>1. tpRow[tpOp.host] = NoPeer \/ tpOp.host \notin tpAlive
    BY <1>1, <1>6 DEF TpIInv, RequestsInv
  <2>2. RequestsInv'
    BY <1>1, <1>2, <1>6 DEF TpIInv, RequestsInv
  <2>3. DeviceExplained'
    <3> SUFFICES ASSUME NEW a \in TpAddrs, tpDev'[a] # 0 PROVE Explained(a)'
      BY DEF DeviceExplained
    <3>1. tpDev'[a] = tpDev[a] /\ tpDev[a] # 0 /\ tpDev[a] # tpOp.key
      BY <1>1
    <3>2. Explained(a)
      BY <1>6, <3>1 DEF TpIInv, DeviceExplained
    <3> QED
      BY <1>1, <3>1, <3>2 DEF Explained
  <2>4. PeersRouted'
    <3> SUFFICES ASSUME NEW g \in tpAlive, tpRow[g] # NoPeer, tpReq[g].pc # "activate",
                        tpRow[g].key \notin tpLeft \ {tpOp.key}
                 PROVE  tpDev'[tpRow[g].ip] = tpRow[g].key
      BY <1>1 DEF PeersRouted
    <3>1. g \in TpHosts /\ g # tpOp.host /\ tpRow[g].ip \in TpAddrs /\ tpRow[g].key # 0
      BY <2>1 DEF TpIInv, TpRest, TpTypeOK
    <3>2. tpRow[g].key # tpOp.key
      BY <1>1, <3>1, OwnKeys
    <3>3. tpDev[tpRow[g].ip] = tpRow[g].key
      BY <1>6, <3>1, <3>2 DEF TpIInv, PeersRouted
    <3> QED
      BY <1>1, <3>1, <3>2, <3>3
  <2> QED
    BY <2>2, <2>3, <2>4
<1> QED
  BY <1>1, <1>3, <1>4, <1>5, <1>6 DEF TpIInv

\* The device starts from the table: no request is left from before.
LEMMA RestartIInv ==
  ASSUME TpIInv, TpRestart
  PROVE  TpIInv'
<1> DEFINE At(a) == {h \in tpAlive : tpRow[h].ip = a}
<1>1. /\ tpDev' = [a \in TpAddrs |-> IF At(a) = {} THEN 0 ELSE tpRow[CHOOSE h \in At(a) : TRUE].key]
      /\ tpReq' = [h \in TpHosts |-> NoEnroll] /\ tpOp' = NoOp
      /\ UNCHANGED <<tpRow, tpAlive, tpKey, tpLast>>
  BY DEF TpRestart
<1>2. /\ NoOp \in Removal /\ NoOp.pc = "idle" /\ NoOp.host = 0
      /\ NoEnroll \in Enrolment /\ NoEnroll.pc = "idle" /\ NoEnroll.key = 0
  BY DEF NoOp, Removal, NoEnroll, Enrolment
<1>3. ASSUME NEW a \in TpAddrs, At(a) # {}
      PROVE  \E h \in At(a) : /\ tpDev'[a] = tpRow[h].key /\ tpRow[h] # NoPeer /\ h \in TpHosts
                              /\ tpRow[h] = [key |-> tpDev'[a], ip |-> a] /\ tpRow[h].key \in 1..tpLast
  <2>1. PICK h \in At(a) : tpDev'[a] = tpRow[h].key
    BY <1>1, <1>3
  <2>2. h \in TpHosts /\ tpRow[h].ip = a /\ tpRow[h] # NoPeer
    BY TpAssumption DEF TpIInv, TpRest, NoPeer
  <2>3. tpRow[h] \in Peer /\ tpRow[h].key \in 1..tpLast
    BY <2>2 DEF TpIInv, TpRest, TpTypeOK
  <2> QED
    BY <2>1, <2>2, <2>3 DEF Peer
<1>4. ASSUME NEW a \in TpAddrs, At(a) = {}
      PROVE  tpDev'[a] = 0
  BY <1>1, <1>4
<1>5. tpDev' = [a \in TpAddrs |-> tpDev'[a]]
  BY <1>1
<1> HIDE DEF At
<1>6. TpTypeOK'
  <2>1. \A a \in TpAddrs : tpDev'[a] \in 0..tpLast
    <3>1. tpLast \in Nat /\ 0 \in 0..tpLast /\ 1..tpLast \subseteq 0..tpLast
      BY DEF TpIInv, TpRest
    <3> SUFFICES ASSUME NEW a \in TpAddrs PROVE tpDev'[a] \in 0..tpLast
      OBVIOUS
    <3>2. CASE At(a) = {}
      BY <1>4, <3>1, <3>2
    <3>3. CASE At(a) # {}
      BY <1>3, <3>1, <3>3
    <3> QED
      BY <3>2, <3>3
  <2>2. tpDev' \in [TpAddrs -> 0..tpLast]
    BY <1>5, <2>1
  <2> QED
    BY <1>1, <1>2, <2>2 DEF TpIInv, TpTypeOK
<1>7. TpRest'
  BY <1>1, <1>2 DEF TpIInv, TpRest
<1>8. KeysInv'
  <2>1. \A g \in TpHosts : KeysOf(g)' \subseteq KeysOf(g)
    BY <1>1, <1>2, TpAssumption DEF KeysOf
  <2> QED
    BY <1>1, <1>2, <2>1, KeysMove
<1>9. RequestsInv'
  BY <1>1, <1>2 DEF RequestsInv
<1>10. DeviceExplained'
  <2> SUFFICES ASSUME NEW a \in TpAddrs, tpDev'[a] # 0 PROVE Explained(a)'
    BY DEF DeviceExplained
  <2>1. PICK h \in At(a) : tpRow[h] = [key |-> tpDev'[a], ip |-> a]
    BY <1>3, <1>4
  <2>2. h \in tpAlive
    BY DEF At
  <2> QED
    BY <1>1, <2>1, <2>2 DEF Explained
<1>11. PeersRouted'
  <2> SUFFICES ASSUME NEW g \in tpAlive, tpRow[g] # NoPeer PROVE tpDev'[tpRow[g].ip] = tpRow[g].key
    BY <1>1 DEF PeersRouted
  <2>1. g \in TpHosts /\ tpRow[g].ip \in TpAddrs /\ g \in At(tpRow[g].ip)
    BY DEF TpIInv, TpRest, TpTypeOK, At
  <2>2. PICK h \in At(tpRow[g].ip) : tpDev'[tpRow[g].ip] = tpRow[h].key /\ tpRow[h] # NoPeer /\ h \in TpHosts
    BY <1>3, <2>1
  <2>3. h = g
    BY <2>1, <2>2 DEF TpIInv, TpTypeOK, At
  <2> QED
    BY <2>2, <2>3
<1> QED
  BY <1>6, <1>7, <1>8, <1>9, <1>10, <1>11 DEF TpIInv

\* TpIInv is an invariant of the table, the device and the requests.
THEOREM TpIInvHolds == TpSpec => []TpIInv
<1>1. ASSUME TpIInv, [TpNext]_tpVars
      PROVE  TpIInv'
  <2>1. CASE UNCHANGED tpVars
    BY <1>1, <2>1, NothingElse DEF tpVars
  <2>2. CASE TpNext
    BY <1>1, <2>2, AskIInv, EnrollIInv, ActivateIInv, ActivateFailsIInv, SettleIInv, NewKeyIInv,
       RemovalBeginsIInv, LookUpIInv, DeletePeerIInv, RemovalFailsIInv, RemovePeerIInv, RestartIInv
       DEF TpNext, TpAgent, TpOperator
  <2> QED
    BY <1>1, <2>1, <2>2
<1> QED
  BY <1>1, TpInitIInv, PTL DEF TpSpec

(***************************************************************************)
(* The tunnel routes what the table says for the hosts that are not        *)
(* deleted, in whatever order enrolments, revocations, deletions, failing  *)
(* calls and restarts change the two, and no two hosts share an address or *)
(* a key.  What parts them is one of the causes DeviceMatchesTable names: a*)
(* call that failed, with the key it left, and a removal that met an       *)
(* enrolment of the same host.                                             *)
(***************************************************************************)
THEOREM TunnelCorrect == TpSpec => []TunnelInv
<1>1. TpIInv => TunnelInv
  <2> SUFFICES ASSUME TpIInv PROVE TunnelInv
    OBVIOUS
  <2>1. ASSUME tpRaced = {}, NEW h \in tpAlive \ Working, tpRow[h] # NoPeer, tpRow[h].key \notin tpLeft
        PROVE  tpDev[tpRow[h].ip] = tpRow[h].key
    BY <2>1 DEF TpIInv, TpRest, PeersRouted, Working
  <2>2. ASSUME tpRaced = {}, NEW a \in TpAddrs, tpDev[a] # 0, tpDev[a] \notin tpLeft, Working = {}
        PROVE  \E h \in tpAlive : tpRow[h] = [key |-> tpDev[a], ip |-> a]
    <3>1. tpOp.pc = "idle" /\ \A h \in TpHosts : tpReq[h].pc # "activate"
      BY <2>2 DEF Working
    <3> QED
      BY <2>2, <3>1 DEF TpIInv, DeviceExplained, Explained
  <2> QED
    BY <2>1, <2>2 DEF TunnelInv, DeviceMatchesTable, TpIInv
<1> QED
  BY <1>1, TpIInvHolds, PTL

-----------------------------------------------------------------------------
(*****************************************************************************)
(* The upgrade of an agent, for any number of versions, restarts, crashes,   *)
(* operations of the operator and alterations of the resident files.         *)
(*                                                                           *)
(* That there is a binary to start, and that the privileged copy goes only   *)
(* forward, are promises about steps far apart: what the two renames move was*)
(* downloaded, or read, some steps before.  The invariant keeps what the check*)
(* of the signature established until the renames use it (ResidentInv,       *)
(* PrivilegedInv), and that what a rename moved away is still there to be put*)
(* back.                                                                     *)
(*****************************************************************************)

\* The records of an upgrade: a row of the server, the resident files, a control answer, a process of
\* the agent, the privileged copy and its job.
UpRows == [auto : BOOLEAN, req : BOOLEAN, stall : {"none", "recent", "old"}, disp : BOOLEAN, ver : UpVersion]
UpFiles == [self : 0..Unsigned, old : 0..Unsigned, sig : 0..UpMaxVersion, pin : BOOLEAN]
UpControls == [latest : 0..UpMaxVersion, auto : BOOLEAN, now : BOOLEAN]
UpPcs == {"idle", "download", "swap", "moved", "attest", "exit"}
UpProcs == [run : 0..UpMaxVersion, latest : 0..UpMaxVersion, failed : 0..UpMaxVersion, pc : UpPcs,
            wait : BOOLEAN, pin : BOOLEAN, bin : 0..Unsigned, ctl : UpControls]
UpPrivs == [bin : 0..Unsigned, old : 0..Unsigned, pc : {"idle", "copy", "swap", "moved"}, sig : 0..UpMaxVersion, new : 0..Unsigned]

\* What is about to be swapped in has been verified, and what it replaces is there to be put back.
ResidentInv ==
  /\ upProc.pc \in {"swap", "moved", "attest"} => upProc.bin \in UpVersion
  /\ upProc.pc = "swap" => upFile.self # 0
  /\ upProc.pc = "moved" => upHost.windows /\ upFile.old # 0
  /\ upGhost.lost => upHost.windows

\* The privileged copy is a release; the one that is to replace it is a newer one.
PrivilegedInv ==
  /\ upPriv.bin \in 0..UpMaxVersion /\ upPriv.old \in 0..UpMaxVersion
  /\ upPriv.pc = "copy" => upPriv.sig \in UpVersion
  /\ upPriv.pc \in {"swap", "moved"} => upPriv.new \in UpVersion
  /\ upPriv.pc = "swap" => upPriv.new > upPriv.bin
  /\ upPriv.pc = "moved" => upHost.windows /\ upPriv.bin = 0 /\ upPriv.new > upPriv.old

\* The host and what has gone wrong on it.
UpHostOK ==
  /\ upHost \in [windows : BOOLEAN, managed : BOOLEAN]
  /\ upGhost \in [lost : BOOLEAN, torn : BOOLEAN, altered : BOOLEAN]

\* The inductive invariant of the upgrade.
UpIInv == UpTypeOK /\ UpHostOK /\ ResidentCanStart /\ ResidentInv /\ PrivilegedInv

\* An upgrade starts in the invariant.
LEMMA UpInitGood == UpInit => UpIInv
<1> SUFFICES ASSUME UpInit PROVE UpIInv
  OBVIOUS
<1>1. 1 \in UpVersion /\ {0, 1} \subseteq 0..UpMaxVersion /\ {0, 1} \subseteq 0..Unsigned
  BY UpAssumption DEF UpVersion, Unsigned
<1>2. PICK pin \in BOOLEAN : upFile = [self |-> 1, old |-> 0, sig |-> 0, pin |-> pin] /\ upProc = UpProcess(1, pin)
  BY DEF UpInit
<1>3. upFile \in UpFiles /\ upFile.self = 1
  BY <1>1, <1>2 DEF UpFiles
<1>4. upProc \in UpProcs /\ upProc.pc = "idle"
  <2>1. NoControl \in UpControls
    BY <1>1 DEF NoControl, UpControls
  <2> QED
    BY <1>1, <1>2, <2>1 DEF UpProcess, UpProcs, UpPcs
<1>5. upRow \in UpRows /\ upServer \in UpVersion
  BY <1>1 DEF UpInit, UpRows
<1>6. upPriv \in UpPrivs /\ upPriv.pc = "idle" /\ upPriv.bin = 1 /\ upPriv.old = 0
  BY <1>1 DEF UpInit, UpPrivs
<1>7. UpTypeOK
  BY <1>3, <1>4, <1>5, <1>6 DEF UpTypeOK, UpFiles, UpProcs, UpPcs, UpControls, UpRows, UpPrivs
<1>8. UpHostOK /\ ~upGhost.lost
  BY DEF UpInit, UpHostOK
<1>9. ResidentCanStart /\ ResidentInv /\ PrivilegedInv
  BY <1>1, <1>3, <1>4, <1>6, <1>8 DEF ResidentCanStart, ResidentInv, PrivilegedInv
<1> QED
  BY <1>7, <1>8, <1>9 DEF UpIInv

\* What the server does leaves the files alone.
LEMMA ServerGood ==
  ASSUME UpIInv, UpServerRestart \/ UpSetAuto \/ UpRequest \/ UpReport \/ UpStallAges
  PROVE  UpIInv'
<1> USE DEF UpIInv
<1>0. /\ upRow \in UpRows /\ upProc \in UpProcs /\ upServer \in UpVersion
      /\ upProc.ctl \in UpControls /\ UpVersion \subseteq 0..UpMaxVersion
  BY DEF UpTypeOK, UpRows, UpProcs, UpControls, UpPcs, UpVersion
<1>1. CASE UpServerRestart \/ UpSetAuto \/ UpRequest \/ UpStallAges
  <2>1. UNCHANGED <<upFile, upProc, upPriv, upHost, upGhost>> /\ upServer' \in UpVersion
    BY <1>0, <1>1 DEF UpServerRestart, UpSetAuto, UpRequest, UpStallAges
  <2>2. upRow' \in UpRows
    <3>1. CASE UpServerRestart
      BY <1>0, <3>1 DEF UpServerRestart
    <3>2. CASE UpSetAuto
      <4>1. PICK auto, clear \in BOOLEAN : upRow' = [upRow EXCEPT !.auto = auto, !.stall = IF clear THEN "none" ELSE @,
                                                          !.disp = IF clear THEN FALSE ELSE @]
        <5>1. PICK auto \in BOOLEAN : LET clear == ~auto /\ ~upRow.req
                                      IN upRow' = [upRow EXCEPT !.auto = auto, !.stall = IF clear THEN "none" ELSE @,
                                                                !.disp = IF clear THEN FALSE ELSE @]
          BY <3>2 DEF UpSetAuto
        <5>2. CASE ~auto /\ ~upRow.req
          <6>1. upRow' = [upRow EXCEPT !.auto = auto, !.stall = IF TRUE THEN "none" ELSE @, !.disp = IF TRUE THEN FALSE ELSE @]
            BY <5>1, <5>2
          <6> QED
            BY <6>1
        <5>3. CASE ~(~auto /\ ~upRow.req)
          <6>1. upRow' = [upRow EXCEPT !.auto = auto, !.stall = IF FALSE THEN "none" ELSE @, !.disp = IF FALSE THEN FALSE ELSE @]
            BY <5>1, <5>3
          <6> QED
            BY <6>1
        <5> QED
          BY <5>2, <5>3
      <4> QED
        BY <1>0, <4>1 DEF UpRows
    <3>3. CASE UpRequest \/ UpStallAges
      BY <1>0, <3>3 DEF UpRequest, UpStallAges, UpRows
    <3> QED
      BY <1>1, <3>1, <3>2, <3>3
  <2>3. UpTypeOK'
    BY <2>1, <2>2 DEF UpTypeOK, UpRows
  <2> QED
    BY <2>1, <2>3 DEF UpHostOK, ResidentCanStart, ResidentInv, PrivilegedInv
<1>2. CASE UpReport
  <2>1. PICK v \in UpVersion, lost \in BOOLEAN :
          /\ upRow' = Answer(v, Touch(v)).row
          /\ upProc' = IF lost THEN upProc ELSE [upProc EXCEPT !.ctl = Answer(v, Touch(v)).ctl]
    <3>1. \A v : v \in {upProc.run} \cup (IF upFaults < UpMaxFault THEN 1..upProc.run ELSE {}) => v \in UpVersion
      BY <1>0, <1>2, UpAssumption DEF UpReport, UpVersion, UpProcs
    <3> QED
      BY <1>2, <3>1 DEF UpReport
  <2> DEFINE t == Touch(v)
             a == Answer(v, t)
  <2>2. t \in UpRows
    <3> DEFINE waits == ShouldSelfUpgrade(v) /\ ~upHost.managed /\ (upRow.disp \/ upRow.auto \/ upRow.req)
               stall == IF upRow.ver # v \/ upRow.stall = "none" THEN "recent" ELSE upRow.stall
    <3>1. t = [upRow EXCEPT !.ver = v, !.disp = waits, !.stall = IF waits THEN stall ELSE "none"]
      BY DEF Touch
    <3>2. waits \in BOOLEAN /\ stall \in {"none", "recent", "old"}
      BY <1>0 DEF UpRows
    <3> HIDE DEF waits, stall
    <3>3. CASE waits = TRUE
      BY <1>0, <3>1, <3>2, <3>3 DEF UpRows
    <3>4. CASE waits = FALSE
      BY <1>0, <3>1, <3>2, <3>4 DEF UpRows
    <3> QED
      BY <3>2, <3>3, <3>4
  <2> HIDE DEF t
  <2>3. a.row \in UpRows /\ a.ctl \in UpControls
    <3> DEFINE b == t.req /\ upServer > v
               c == t.auto /\ t.stall # "old"
               d == t.req /\ upServer > v /\ t.stall # "old"
    <3>1. b \in BOOLEAN /\ c \in BOOLEAN /\ d \in BOOLEAN
      OBVIOUS
    <3>2. a = [row |-> [t EXCEPT !.req = b], ctl |-> [latest |-> upServer, auto |-> c, now |-> d]]
      BY DEF Answer
    <3> HIDE DEF a, b, c, d
    <3> QED
      BY <1>0, <2>2, <3>1, <3>2 DEF UpRows, UpControls
  <2> HIDE DEF a
  <2>4. upRow' \in UpRows /\ upProc' \in UpProcs /\ upProc'.pc = upProc.pc /\ upProc'.bin = upProc.bin
    BY <1>0, <2>1, <2>3 DEF UpProcs, a, t
  <2>5. UNCHANGED <<upServer, upFile, upPriv, upHost, upGhost>>
    BY <1>2 DEF UpReport
  <2>6. UpTypeOK'
    BY <2>4, <2>5 DEF UpTypeOK, UpRows, UpProcs, UpControls, UpPcs
  <2> QED
    BY <2>4, <2>5, <2>6 DEF UpHostOK, ResidentCanStart, ResidentInv, PrivilegedInv
<1> QED
  BY <1>1, <1>2

\* A step of the agent's process and of its files.
LEMMA AgentSteps ==
  ASSUME UpIInv, UNCHANGED <<upServer, upRow, upPriv, upHost>>,
         upFile' \in UpFiles, upProc' \in UpProcs, UpHostOK', ResidentCanStart', ResidentInv'
  PROVE  UpIInv'
BY DEF UpIInv, UpTypeOK, UpRows, UpPrivs, UpFiles, UpProcs, UpControls, UpPcs, PrivilegedInv

\* What the types say, part by part.
LEMMA UpTypes ==
  ASSUME UpIInv
  PROVE  /\ upRow \in UpRows /\ upServer \in UpVersion /\ upFile \in UpFiles /\ upProc \in UpProcs /\ upPriv \in UpPrivs
         /\ upProc.ctl \in UpControls /\ upProc.bin \in 0..Unsigned /\ upFile.self \in 0..Unsigned
         /\ UpVersion \subseteq 0..UpMaxVersion /\ 0..UpMaxVersion \subseteq 0..Unsigned
         /\ Unsigned \in 0..Unsigned /\ Unsigned # 0 /\ Unsigned \notin UpVersion /\ 0 \in 0..UpMaxVersion
         /\ \A v \in UpVersion : v # 0
<1>1. /\ UpVersion \subseteq 0..UpMaxVersion /\ 0..UpMaxVersion \subseteq 0..Unsigned
      /\ Unsigned \in 0..Unsigned /\ Unsigned # 0 /\ Unsigned \notin UpVersion /\ 0 \in 0..UpMaxVersion
      /\ \A v \in UpVersion : v # 0
  BY UpAssumption DEF UpVersion, Unsigned
<1>2. /\ upRow \in UpRows /\ upServer \in UpVersion /\ upFile \in UpFiles /\ upProc \in UpProcs /\ upPriv \in UpPrivs
  BY DEF UpIInv, UpTypeOK, UpRows, UpFiles, UpProcs, UpPrivs, UpControls, UpPcs
<1>3. upProc.ctl \in UpControls /\ upProc.bin \in 0..Unsigned /\ upFile.self \in 0..Unsigned
  BY <1>2 DEF UpProcs, UpFiles
<1> QED
  BY <1>1, <1>2, <1>3

\* A process that is started, and one whose attempt has failed, are processes.
LEMMA ProcessIs ==
  ASSUME UpIInv
  PROVE  /\ \A v \in 0..UpMaxVersion, pin \in BOOLEAN :
              LET u == UpProcess(v, pin) IN u \in UpProcs /\ u.pc = "idle"
         /\ Failed \in UpProcs /\ Failed.pc = "idle"
<1>1. NoControl \in UpControls
  BY UpAssumption DEF NoControl, UpControls
<1>2. 0 \in 0..UpMaxVersion /\ 0 \in 0..Unsigned
  BY UpAssumption DEF Unsigned
<1>3. ASSUME NEW v \in 0..UpMaxVersion, NEW pin \in BOOLEAN
      PROVE  UpProcess(v, pin) \in UpProcs /\ UpProcess(v, pin).pc = "idle"
  BY <1>1, <1>2 DEF UpProcess, UpProcs, UpPcs
<1>4. Failed \in UpProcs /\ Failed.pc = "idle"
  BY <1>2, UpTypes DEF Failed, UpProcs, UpPcs
<1> QED
  BY <1>3, <1>4

\* The control loop takes an update or leaves it.
LEMMA ControlGood ==
  ASSUME UpIInv, UpControl
  PROVE  UpIInv'
<1>1. upFile' \in UpFiles /\ upFile'.self = upFile.self /\ upFile'.old = upFile.old
  BY UpTypes DEF UpControl, PinnedFiles, UpFiles
<1>2. upProc' \in UpProcs /\ upProc'.pc \in {"idle", "download"}
  <2> DEFINE u == upProc.ctl
             pin == upProc.pin \/ ~upHost.managed
             go == Wants(u)
             failed == IF Eligible(u) /\ upProc.failed # u.latest THEN 0 ELSE upProc.failed
             wait == IF Eligible(u) /\ upProc.failed # u.latest THEN FALSE ELSE upProc.wait
             pc == IF go THEN "download" ELSE "idle"
             latest == IF go THEN u.latest ELSE 0
  <2>1. upProc' = [upProc EXCEPT !.ctl = NoControl, !.pin = pin, !.failed = failed, !.wait = wait, !.pc = pc, !.latest = latest]
    BY DEF UpControl
  <2>2. NoControl \in UpControls
    BY UpAssumption DEF NoControl, UpControls
  <2>3. pin \in BOOLEAN /\ wait \in BOOLEAN /\ pc \in {"idle", "download"} /\ latest \in 0..UpMaxVersion /\ failed \in 0..UpMaxVersion
    <3>1. u.latest \in 0..UpMaxVersion /\ upProc.failed \in 0..UpMaxVersion /\ upProc.wait \in BOOLEAN /\ 0 \in 0..UpMaxVersion
      BY UpTypes DEF UpProcs, UpControls
    <3> QED
      BY <3>1
  <2> HIDE DEF pin, go, failed, wait, pc, latest
  <2> QED
    BY <2>1, <2>2, <2>3, UpTypes DEF UpProcs, UpPcs
<1>3. UNCHANGED <<upServer, upRow, upPriv, upHost, upGhost>> /\ upProc.pc = "idle"
  BY DEF UpControl
<1>4. UpHostOK' /\ ResidentCanStart' /\ ResidentInv'
  BY <1>1, <1>2, <1>3 DEF UpIInv, UpHostOK, ResidentCanStart, ResidentInv
<1> QED
  BY <1>1, <1>2, <1>3, <1>4, AgentSteps

\* A download, the swap on either system and the attestation.
LEMMA AgentGood ==
  ASSUME UpIInv, \/ UpDownload \/ UpDownloadFails \/ UpSwap \/ UpMoveAway \/ UpMoveIn \/ UpMoveInFails
                 \/ UpAttest \/ UpAttestFails
  PROVE  UpIInv'
<1>0. /\ upProc \in UpProcs /\ upFile \in UpFiles /\ Failed \in UpProcs /\ Failed.pc = "idle"
      /\ UpHostOK /\ ResidentCanStart /\ ResidentInv
  BY UpTypes, ProcessIs DEF UpIInv
<1> HIDE DEF Failed
<1>1. CASE UpDownload
  <2>1. PICK resp \in Served : upProc' = IF Verified(resp.bytes, resp.sig) THEN [upProc EXCEPT !.pc = "swap", !.bin = resp.bytes] ELSE Failed
    BY <1>1 DEF UpDownload
  <2>2. Verified(resp.bytes, resp.sig) => resp.bytes \in UpVersion
    BY UpTypes DEF Served, Verified
  <2>3. upProc' \in UpProcs /\ (upProc'.pc = "idle" \/ (upProc'.pc = "swap" /\ upProc'.bin \in UpVersion))
    BY <1>0, <2>1, <2>2, UpTypes DEF UpProcs, UpPcs
  <2>4. UNCHANGED <<upServer, upRow, upFile, upPriv, upHost, upGhost>> /\ upFile.self # 0 /\ upProc.pc = "download"
    BY <1>1 DEF UpDownload
  <2>5. UpHostOK' /\ ResidentCanStart' /\ ResidentInv'
    BY <1>0, <2>3, <2>4 DEF UpHostOK, ResidentCanStart, ResidentInv
  <2> QED
    BY <1>0, <2>3, <2>4, <2>5, AgentSteps
<1>2. CASE UpDownloadFails
  <2>1. UNCHANGED <<upServer, upRow, upFile, upPriv, upHost, upGhost>> /\ upProc' = Failed /\ upProc.pc = "download"
    BY <1>2 DEF UpDownloadFails
  <2>2. UpHostOK' /\ ResidentCanStart' /\ ResidentInv'
    BY <1>0, <2>1 DEF UpHostOK, ResidentCanStart, ResidentInv
  <2> QED
    BY <1>0, <2>1, <2>2, AgentSteps
<1>3. CASE UpSwap \/ UpMoveIn
  <2>1. /\ upFile' = [upFile EXCEPT !.self = upProc.bin] /\ upProc' = [upProc EXCEPT !.pc = "attest"]
        /\ upGhost' = [upGhost EXCEPT !.torn = TRUE] /\ UNCHANGED <<upServer, upRow, upPriv, upHost>>
        /\ upProc.bin \in UpVersion
    BY <1>0, <1>3 DEF UpSwap, UpMoveIn, ResidentInv
  <2>2. upFile' \in UpFiles /\ upProc' \in UpProcs /\ upFile'.self = upProc.bin /\ upProc'.bin = upProc.bin /\ upProc'.pc = "attest"
    BY <1>0, <2>1, UpTypes DEF UpFiles, UpProcs, UpPcs
  <2>3. upGhost' \in [lost : BOOLEAN, torn : BOOLEAN, altered : BOOLEAN] /\ upGhost'.lost = upGhost.lost
    BY <1>0, <2>1 DEF UpHostOK
  <2>4. UpHostOK' /\ ResidentCanStart' /\ ResidentInv'
    BY <1>0, <2>1, <2>2, <2>3, UpTypes DEF UpHostOK, ResidentCanStart, ResidentInv
  <2> QED
    BY <2>1, <2>2, <2>4, AgentSteps
<1>4. CASE UpMoveAway
  <2>1. /\ upFile' = [upFile EXCEPT !.self = 0, !.old = upFile.self] /\ upProc' = [upProc EXCEPT !.pc = "moved"]
        /\ UNCHANGED <<upServer, upRow, upPriv, upHost, upGhost>>
        /\ upProc.bin \in UpVersion /\ upHost.windows /\ upFile.self # 0
    BY <1>0, <1>4 DEF UpMoveAway, ResidentInv
  <2>2. upFile' \in UpFiles /\ upProc' \in UpProcs /\ upFile'.old = upFile.self /\ upProc'.bin = upProc.bin /\ upProc'.pc = "moved"
    BY <1>0, <2>1, UpTypes DEF UpFiles, UpProcs, UpPcs
  <2>3. UpHostOK' /\ ResidentCanStart' /\ ResidentInv'
    BY <1>0, <2>1, <2>2 DEF UpHostOK, ResidentCanStart, ResidentInv
  <2> QED
    BY <2>1, <2>2, <2>3, AgentSteps
<1>5. CASE UpMoveInFails
  <2>1. /\ upProc' = Failed /\ UNCHANGED <<upServer, upRow, upPriv, upHost>> /\ upHost.windows /\ upFile.old # 0
        /\ \/ upFile' = [upFile EXCEPT !.self = upFile.old, !.old = 0] /\ UNCHANGED upGhost
           \/ upGhost' = [upGhost EXCEPT !.lost = TRUE] /\ UNCHANGED upFile
    BY <1>0, <1>5 DEF UpMoveInFails, ResidentInv
  <2>2. upFile' \in UpFiles
    BY <1>0, <2>1, UpTypes DEF UpFiles
  <2>3. UpHostOK' /\ (upFile'.self # 0 \/ upGhost'.lost)
    BY <1>0, <2>1 DEF UpHostOK, UpFiles
  <2>4. ResidentCanStart' /\ ResidentInv'
    BY <1>0, <2>1, <2>3 DEF ResidentCanStart, ResidentInv
  <2> QED
    BY <1>0, <2>1, <2>2, <2>3, <2>4, AgentSteps
<1>6. CASE UpAttest \/ UpAttestFails
  <2>1. /\ upProc' = [upProc EXCEPT !.pc = "exit"] /\ UNCHANGED <<upServer, upRow, upPriv, upHost>> /\ upProc.bin \in UpVersion
        /\ upFile' \in {upFile, [upFile EXCEPT !.sig = upProc.bin]}
        /\ upGhost' \in {upGhost, [upGhost EXCEPT !.torn = FALSE, !.altered = FALSE]}
    BY <1>0, <1>6 DEF UpAttest, UpAttestFails, ResidentInv
  <2>2. upFile' \in UpFiles /\ upFile'.self = upFile.self /\ upProc' \in UpProcs /\ upProc'.pc = "exit"
    BY <1>0, <2>1, UpTypes DEF UpFiles, UpProcs, UpPcs
  <2>3. UpHostOK' /\ upGhost'.lost = upGhost.lost
    BY <1>0, <2>1 DEF UpHostOK
  <2>4. upProc.pc = "attest"
    BY <1>6 DEF UpAttest, UpAttestFails
  <2>5. ResidentCanStart' /\ ResidentInv'
    BY <1>0, <2>1, <2>2, <2>3, <2>4 DEF ResidentCanStart, ResidentInv
  <2> QED
    BY <2>1, <2>2, <2>3, <2>5, AgentSteps
<1> QED
  BY <1>1, <1>2, <1>3, <1>4, <1>5, <1>6

\* Ends and starts of the process, time, and whoever else writes the resident files.
LEMMA WorldGood ==
  ASSUME UpIInv, UpExit \/ UpBackoffEnds \/ UpCrash \/ UpStart \/ UpResidentAltered
  PROVE  UpIInv'
<1>0. /\ upProc \in UpProcs /\ upFile \in UpFiles
      /\ UpHostOK /\ ResidentCanStart /\ ResidentInv
  BY UpTypes DEF UpIInv
<1>1. CASE UpExit \/ UpStart
  <2>1. /\ UNCHANGED <<upServer, upRow, upFile, upPriv, upHost, upGhost>>
        /\ \E v \in 0..UpMaxVersion, pin \in BOOLEAN : upProc' = UpProcess(v, pin)
    BY <1>0, <1>1, UpTypes DEF UpExit, UpStart, UpFiles
  <2>2. upFile.self = 0 => upProc.pc # "moved"
    <3>1. CASE UpExit
      BY <3>1 DEF UpExit
    <3>2. CASE UpStart
      <4>1. upFile.self \in UpVersion /\ 0 \notin UpVersion
        BY <3>2, UpAssumption DEF UpStart, UpVersion
      <4> QED
        BY <4>1
    <3> QED
      BY <1>1, <3>1, <3>2
  <2>3. upProc' \in UpProcs /\ upProc'.pc = "idle"
    BY <2>1, ProcessIs
  <2>4. UpHostOK' /\ ResidentCanStart' /\ ResidentInv'
    BY <1>0, <2>1, <2>2, <2>3 DEF UpHostOK, ResidentCanStart, ResidentInv
  <2>5. upFile' \in UpFiles /\ UNCHANGED <<upServer, upRow, upPriv, upHost>>
    BY <1>0, <2>1
  <2> QED
    BY <2>3, <2>4, <2>5, AgentSteps
<1>2. CASE UpBackoffEnds
  <2>1. UNCHANGED <<upServer, upRow, upFile, upPriv, upHost, upGhost>> /\ upProc' = [upProc EXCEPT !.wait = FALSE]
    BY <1>2 DEF UpBackoffEnds
  <2>2. upProc' \in UpProcs /\ upProc'.pc = upProc.pc /\ upProc'.bin = upProc.bin
    BY <1>0, <2>1 DEF UpProcs
  <2>3. UpHostOK' /\ ResidentCanStart' /\ ResidentInv'
    BY <1>0, <2>1, <2>2 DEF UpHostOK, ResidentCanStart, ResidentInv
  <2> QED
    BY <1>0, <2>1, <2>2, <2>3, AgentSteps
<1>3. CASE UpCrash
  <2> DEFINE lost == upGhost.lost \/ upProc.pc = "moved"
  <2>1. /\ UNCHANGED <<upServer, upRow, upFile, upPriv, upHost>> /\ upProc' = UpProcess(0, FALSE)
        /\ upGhost' = [upGhost EXCEPT !.lost = lost] /\ lost \in BOOLEAN
    BY <1>0, <1>3 DEF UpCrash, UpHostOK
  <2>2. upProc' \in UpProcs /\ upProc'.pc = "idle"
    BY <2>1, ProcessIs, UpTypes
  <2>3. upGhost' \in [lost : BOOLEAN, torn : BOOLEAN, altered : BOOLEAN] /\ upGhost'.lost = lost
    <3> HIDE DEF lost
    <3> QED
      BY <1>0, <2>1 DEF UpHostOK
  <2>4. UpHostOK' /\ ResidentCanStart' /\ ResidentInv'
    BY <1>0, <2>1, <2>2, <2>3 DEF UpHostOK, ResidentCanStart, ResidentInv
  <2> QED
    BY <1>0, <2>1, <2>2, <2>4, AgentSteps
<1>4. CASE UpResidentAltered
  <2>1. PICK bin \in UpVersion \cup {Unsigned}, sig \in {0} \cup UpVersion :
          upFile' = [upFile EXCEPT !.self = bin, !.sig = sig] /\ upGhost' = [upGhost EXCEPT !.altered = TRUE]
    BY <1>4 DEF UpResidentAltered
  <2>2. UNCHANGED <<upServer, upRow, upPriv, upHost, upProc>> /\ upProc.pc \in {"idle", "download"}
    BY <1>4 DEF UpResidentAltered
  <2>3. upFile' \in UpFiles /\ upFile'.self # 0
    BY <1>0, <2>1, UpTypes DEF UpFiles
  <2>4. UpHostOK' /\ upGhost'.lost = upGhost.lost
    BY <1>0, <2>1, <2>2 DEF UpHostOK
  <2>5. ResidentCanStart' /\ ResidentInv'
    BY <1>0, <2>2, <2>3, <2>4 DEF ResidentCanStart, ResidentInv
  <2> QED
    BY <1>0, <2>2, <2>3, <2>4, <2>5, AgentSteps
<1> QED
  BY <1>1, <1>2, <1>3, <1>4

\* A step that leaves the privileged binary alone does not turn it back.
LEMMA PrivilegedStays ==
  ASSUME UpIInv, upPriv' = upPriv
  PROVE  PrivilegedOnlyAdvances
BY UpAssumption DEF UpIInv, PrivilegedInv, PrivilegedOnlyAdvances, UpVersion

\* The privileged job.
LEMMA SyncGood ==
  ASSUME UpIInv, SyncRead \/ SyncCopy \/ SyncSwap \/ SyncMoveIn \/ SyncFails
  PROVE  UpIInv' /\ PrivilegedOnlyAdvances
<1>0. upPriv \in UpPrivs /\ upFile \in UpFiles /\ PrivilegedInv /\ UpHostOK /\ ResidentCanStart /\ ResidentInv
  BY UpTypes DEF UpIInv
<1>1. UNCHANGED <<upServer, upRow, upFile, upProc, upHost>> /\ upGhost' \in {upGhost, [upGhost EXCEPT !.lost = TRUE]}
  BY DEF SyncRead, SyncCopy, SyncSwap, SyncMoveIn, SyncFails
<1>2. upGhost' # upGhost => upHost.windows
  BY <1>0 DEF SyncRead, SyncCopy, SyncSwap, SyncMoveIn, SyncFails, PrivilegedInv
<1>3. UpHostOK' /\ ResidentCanStart' /\ ResidentInv'
  BY <1>0, <1>1, <1>2 DEF UpHostOK, ResidentCanStart, ResidentInv
<1>4. SUFFICES upPriv' \in UpPrivs /\ PrivilegedInv' /\ PrivilegedOnlyAdvances
  BY <1>1, <1>3 DEF UpIInv, UpTypeOK, UpPrivs
<1> DEFINE Most == UpMaxVersion
           Both == 0..Unsigned
<1>a. /\ 0..Most \subseteq Both /\ 1..Most \subseteq 0..Most /\ UpVersion = 1..Most /\ 0 \in 0..Most
      /\ \A b \in 0..Most : b # 0 => b \in 1..Most
      /\ \A b \in 1..Most : b # 0 /\ b >= 0
  BY UpTypes, UpAssumption DEF UpVersion
<1>5. ASSUME NEW b \in 0..UpMaxVersion
      PROVE  LET e == SyncEnd(b) IN e \in UpPrivs /\ e.bin = b /\ e.old = 0 /\ e.pc = "idle"
  BY <1>a DEF SyncEnd, UpPrivs
<1>6. CASE SyncRead
  <2>1. upPriv' = [upPriv EXCEPT !.pc = "copy", !.sig = upFile.sig] /\ upFile.sig \in 1..UpMaxVersion
    BY <1>0, <1>6, <1>a DEF SyncRead, UpFiles
  <2>2. upPriv' \in UpPrivs /\ upPriv'.pc = "copy" /\ upPriv'.sig = upFile.sig /\ upPriv'.bin = upPriv.bin /\ upPriv'.old = upPriv.old
    BY <1>0, <2>1, <1>a DEF UpPrivs
  <2>3. upPriv.pc = "idle"
    BY <1>6 DEF SyncRead
  <2> QED
    BY <1>0, <1>1, <2>1, <2>2, <2>3, <1>a, UpAssumption DEF PrivilegedInv, PrivilegedOnlyAdvances
<1>7. CASE SyncCopy
  <2>1. CASE Promotes(upFile.self, upPriv.sig)
    <3>1. upFile.self \in 1..UpMaxVersion /\ upFile.self > upPriv.bin
      BY <1>0, <1>7, <2>1, <1>a DEF SyncCopy, Promotes, Verified, PrivilegedInv
    <3>2. upPriv' = [upPriv EXCEPT !.pc = "swap", !.new = upFile.self] /\ upPriv.pc = "copy"
      BY <1>7, <2>1 DEF SyncCopy
    <3>3. upPriv' \in UpPrivs /\ upPriv'.pc = "swap" /\ upPriv'.new = upFile.self /\ upPriv'.bin = upPriv.bin /\ upPriv'.old = upPriv.old
      BY <1>0, <3>1, <3>2, <1>a DEF UpPrivs
    <3> QED
      BY <1>0, <1>1, <3>1, <3>2, <3>3, <1>a, UpAssumption DEF PrivilegedInv, PrivilegedOnlyAdvances
  <2>2. CASE ~Promotes(upFile.self, upPriv.sig)
    <3>1. upPriv' = [upPriv EXCEPT !.pc = "idle", !.sig = 0] /\ upPriv.pc = "copy"
      BY <1>7, <2>2 DEF SyncCopy
    <3>2. upPriv' \in UpPrivs /\ upPriv'.pc = "idle" /\ upPriv'.bin = upPriv.bin /\ upPriv'.old = upPriv.old
      BY <1>0, <3>1, <1>a DEF UpPrivs
    <3> QED
      BY <1>0, <1>1, <3>1, <3>2, <1>a, UpAssumption DEF PrivilegedInv, PrivilegedOnlyAdvances
  <2> QED
    BY <2>1, <2>2
<1>8. CASE SyncSwap
  <2>1. upPriv.pc = "swap" /\ upPriv.new \in 1..UpMaxVersion /\ upPriv.new > upPriv.bin
    BY <1>0, <1>8, <1>a DEF SyncSwap, PrivilegedInv
  <2>2. CASE upHost.windows
    <3>1. upPriv' = [upPriv EXCEPT !.pc = "moved", !.old = upPriv.bin, !.bin = 0]
      BY <1>8, <2>2 DEF SyncSwap
    <3>2. /\ upPriv' \in UpPrivs /\ upPriv'.pc = "moved" /\ upPriv'.bin = 0
          /\ upPriv'.old = upPriv.bin /\ upPriv'.new = upPriv.new
      BY <1>0, <3>1, <1>a DEF UpPrivs, PrivilegedInv
    <3> QED
      BY <1>0, <1>1, <2>1, <2>2, <3>2, <1>a, UpAssumption DEF PrivilegedInv, PrivilegedOnlyAdvances
  <2>3. CASE ~upHost.windows
    <3>1. upPriv' = SyncEnd(upPriv.new)
      BY <1>8, <2>3 DEF SyncSwap
    <3> QED
      BY <1>0, <1>1, <1>5, <2>1, <3>1, <1>a, UpAssumption DEF PrivilegedInv, PrivilegedOnlyAdvances
  <2> QED
    BY <2>2, <2>3
<1>9. CASE SyncMoveIn
  BY <1>0, <1>1, <1>5, <1>9, <1>a, UpAssumption DEF SyncMoveIn, PrivilegedInv, PrivilegedOnlyAdvances
<1>10. CASE SyncFails
  <2>1. \/ upPriv' = SyncEnd(IF upPriv.pc = "moved" THEN upPriv.old ELSE upPriv.bin)
        \/ upPriv' = SyncEnd(0)
    BY <1>10 DEF SyncFails
  <2> QED
    BY <1>0, <1>1, <1>5, <2>1, <1>a, UpAssumption DEF PrivilegedInv, PrivilegedOnlyAdvances
<1> QED
  BY <1>6, <1>7, <1>8, <1>9, <1>10

\* Every step of the upgrade keeps the invariant, and the privileged copy goes only forward.
LEMMA UpStepGood == UpIInv /\ [UpNext]_upVars => UpIInv' /\ PrivilegedOnlyAdvances
<1> SUFFICES ASSUME UpIInv, [UpNext]_upVars PROVE UpIInv' /\ PrivilegedOnlyAdvances
  OBVIOUS
<1>1. CASE SyncRead \/ SyncCopy \/ SyncSwap \/ SyncMoveIn \/ SyncFails
  BY <1>1, SyncGood
<1>2. CASE UpServerRestart \/ UpSetAuto \/ UpRequest \/ UpReport \/ UpStallAges
  <2>1. upPriv' = upPriv
    BY <1>2 DEF UpServerRestart, UpSetAuto, UpRequest, UpReport, UpStallAges
  <2> QED
    BY <1>2, <2>1, ServerGood, PrivilegedStays
<1>3. CASE UpControl
  BY <1>3, ControlGood, PrivilegedStays DEF UpControl
<1>4. CASE \/ UpDownload \/ UpDownloadFails \/ UpSwap \/ UpMoveAway \/ UpMoveIn \/ UpMoveInFails \/ UpAttest \/ UpAttestFails
  <2>1. upPriv' = upPriv
    BY <1>4 DEF UpDownload, UpDownloadFails, UpSwap, UpMoveAway, UpMoveIn, UpMoveInFails, UpAttest, UpAttestFails
  <2> QED
    BY <1>4, <2>1, AgentGood, PrivilegedStays
<1>5. CASE UpExit \/ UpBackoffEnds \/ UpCrash \/ UpStart \/ UpResidentAltered
  <2>1. upPriv' = upPriv
    BY <1>5 DEF UpExit, UpBackoffEnds, UpCrash, UpStart, UpResidentAltered
  <2> QED
    BY <1>5, <2>1, WorldGood, PrivilegedStays
<1>6. CASE UNCHANGED upVars
  <2>1. UpIInv'
    BY <1>6 DEF upVars, UpIInv, UpTypeOK, UpHostOK, ResidentCanStart, ResidentInv, PrivilegedInv
  <2> QED
    BY <1>6, <2>1, PrivilegedStays DEF upVars
<1> QED
  BY <1>1, <1>2, <1>3, <1>4, <1>5, <1>6 DEF UpNext

\* The inductive invariant holds in every reachable state of an upgrade.
THEOREM UpIInvHolds == UpSpec => []UpIInv
BY UpInitGood, UpStepGood, PTL DEF UpSpec

\* There is always a binary to start, but for a crash or a failed roll-back between the two renames
\* on Windows, and the privileged copy is only ever replaced by a newer signed release.
THEOREM UpgradeSafe == UpSpec => UpgradeIsSafe
<1>1. UpIInv /\ [UpNext]_upVars => [UpTypeOK /\ ResidentCanStart /\ PrivilegedOnlyAdvances]_upVars
  BY UpStepGood DEF UpIInv
<1> QED
  BY <1>1, UpIInvHolds, PTL DEF UpSpec, UpgradeIsSafe

-----------------------------------------------------------------------------
(*****************************************************************************)
(* The ban manager of a host, for any addresses, policies and commands, with *)
(* and without the capability, over restarts that adopt an old table.        *)
(*                                                                           *)
(* A handler is an operator from a state to the states it may leave, and apply*)
(* calls six of them in a row.  Each has a lemma that says what it leaves if no*)
(* call has failed, and what of the guard it leaves alone in any case.  What the*)
(* run checks is not inductive: that the kernel holds the bans of the tracker*)
(* needs the tracker to be clear of protected addresses even while there is no*)
(* enforcer (Clear), since a new one adopts and writes what the tracker says,*)
(* and a host that enforces to have its enforcer (Attached), since then no   *)
(* policy meets an enforcer that was off while the one before was enforced.  *)
(*****************************************************************************)

\* The records of the manager and the kernel.
IbTrks == [IPs -> {"none", "banned", "lapsed"}]
IbManagers == [have : BOOLEAN, pol : PolicySet, applied : 0..MaxVersion, cap : Caps, source : BOOLEAN,
               failures : SUBSET IPs, enforcer : BOOLEAN, state : {"none", "ok", "error", "no_permission"},
               trk : IbTrks, limited : SUBSET IPs, local : SUBSET IPs, fleet : SUBSET IPs, seen : SUBSET Cmds]
IbKernels == [local : SUBSET IPs, fleet : SUBSET IPs, faults : 0..MaxFaults]
IbStates == [m : IbManagers, nft : IbKernels]

\* What a handler leaves alone of what the guard and the fleet list depend on.
SameGuard(g, h) ==
  /\ h.have = g.have /\ h.pol = g.pol /\ h.cap = g.cap /\ h.limited = g.limited
  /\ h.local = g.local /\ h.fleet = g.fleet
\* The enforcer is as usable as it was.
SameRuns(g, h) == h.enforcer = g.enforcer /\ h.state = g.state

\* Addresses leave the tracker.
LEMMA ForgetIs ==
  ASSUME NEW s \in IbStates, NEW R \in SUBSET IPs, NEW t, t = [s EXCEPT !.m.trk = SetTrk(s.m, R, "none")]
  PROVE  /\ t \in IbStates /\ SameGuard(s.m, t.m) /\ SameRuns(s.m, t.m) /\ t.nft = s.nft
         /\ Active(t.m) = Active(s.m) \ R /\ t.m.seen = s.m.seen
<1>1. SetTrk(s.m, R, "none") \in IbTrks
  BY DEF SetTrk, IbStates, IbManagers, IbTrks
<1>2. t.nft = s.nft /\ t.m = [s.m EXCEPT !.trk = SetTrk(s.m, R, "none")] /\ t \in IbStates
  BY <1>1 DEF IbStates, IbManagers
<1>3. t.m.trk = SetTrk(s.m, R, "none") /\ SameGuard(s.m, t.m) /\ SameRuns(s.m, t.m) /\ t.m.seen = s.m.seen
  BY <1>2 DEF IbStates, IbManagers, SameGuard, SameRuns
<1>4. Active(t.m) = Active(s.m) \ R
  BY <1>3 DEF Active, SetTrk
<1> QED
  BY <1>2, <1>3, <1>4

\* Addresses are put in the local set, or taken from it, and nothing else changes.
LEMMA AddIs ==
  ASSUME NEW s \in IbStates, NEW R \in SUBSET IPs
  PROVE  LET t == AddLocal(s, R)
         IN /\ t \in IbStates /\ t.m = s.m /\ t.nft.local = s.nft.local \cup R
            /\ t.nft.fleet = s.nft.fleet /\ t.nft.faults = s.nft.faults
<1>1. AddLocal(s, R) = [s EXCEPT !.nft = [s.nft EXCEPT !.local = s.nft.local \cup R]]
  BY DEF AddLocal, IbStates, IbKernels
<1>2. s.nft.local \cup R \in SUBSET IPs
  BY DEF IbStates, IbKernels
<1> QED
  BY <1>1, <1>2 DEF IbStates, IbKernels

\* The same for the removal of addresses.
LEMMA RemoveIs ==
  ASSUME NEW s \in IbStates, NEW R
  PROVE  LET t == RemoveLocal(s, R)
         IN /\ t \in IbStates /\ t.m = s.m /\ t.nft.local = s.nft.local \ R
            /\ t.nft.fleet = s.nft.fleet /\ t.nft.faults = s.nft.faults
<1>1. RemoveLocal(s, R) = [s EXCEPT !.nft = [s.nft EXCEPT !.local = s.nft.local \ R]]
  BY DEF RemoveLocal, IbStates, IbKernels
<1>2. s.nft.local \ R \in SUBSET IPs
  BY DEF IbStates, IbKernels
<1> QED
  BY <1>1, <1>2 DEF IbStates, IbKernels

\* The fleet set becomes the list.
LEMMA ReplaceIs ==
  ASSUME NEW s \in IbStates, NEW list \in SUBSET IPs
  PROVE  LET t == ReplaceFleet(s, list)
         IN /\ t \in IbStates /\ t.m = s.m /\ t.nft.local = s.nft.local
            /\ t.nft.fleet = list /\ t.nft.faults = s.nft.faults
BY DEF ReplaceFleet, IbStates, IbKernels

\* The local set is emptied.
LEMMA FlushIs ==
  ASSUME NEW s \in IbStates
  PROVE  LET t == FlushLocal(s)
         IN /\ t \in IbStates /\ t.m = s.m /\ t.nft.local = {}
            /\ t.nft.fleet = s.nft.fleet /\ t.nft.faults = s.nft.faults
BY DEF FlushLocal, IbStates, IbKernels

\* A call that fails is counted, and leaves the enforcement in error.
LEMMA FailIs ==
  ASSUME NEW s \in IbStates, NEW call, CanFail(s, call)
  PROVE  /\ Fail(s) \in IbStates /\ Fail(s).nft.faults # 0 /\ SameGuard(s.m, Fail(s).m)
         /\ Fail(s).m.trk = s.m.trk /\ Fail(s).m.seen = s.m.seen /\ Fail(s).nft.local = s.nft.local
<1> DEFINE t == Fail(s)
<1>1. s.nft.faults + 1 \in 0..MaxFaults /\ s.nft.faults + 1 # 0
  BY IbConstants DEF CanFail, IbStates, IbKernels
<1>2. t.m = [s.m EXCEPT !.state = "error"] /\ t.nft = [s.nft EXCEPT !.faults = s.nft.faults + 1]
  BY DEF Fail, IbStates
<1>3. t.nft \in IbKernels /\ t.nft.faults # 0 /\ t.nft.local = s.nft.local
  BY <1>1, <1>2 DEF IbStates, IbKernels
<1>4. t.m \in IbManagers /\ SameGuard(s.m, t.m) /\ t.m.trk = s.m.trk /\ t.m.seen = s.m.seen
  BY <1>2 DEF IbStates, IbManagers, SameGuard
<1>5. t \in IbStates
  BY <1>2, <1>3, <1>4 DEF Fail, IbStates
<1> QED
  BY <1>3, <1>4, <1>5

\* A handler that ends without a failed call began without one, and leaves the guard alone.
Keeps(s, t) == /\ t \in IbStates /\ SameGuard(s.m, t.m) /\ t.m.seen = s.m.seen
               /\ t.nft.faults = 0 => s.nft.faults = 0

\* The sets of addresses the handlers work on.
LEMMA ActiveIs ==
  ASSUME NEW s \in IbStates
  PROVE  Active(s.m) \in SUBSET IPs /\ Protected(s.m) \in SUBSET IPs /\ s.nft.local \in SUBSET IPs /\ s.nft.fleet \in SUBSET IPs
BY IbConstants DEF Active, Protected, IbStates, IbManagers, IbKernels, PolicySet

\* Protected addresses that were banned are released, in the kernel too if there is an enforcer.
Released(s, t) ==
  /\ SameRuns(s.m, t.m) /\ t.nft.fleet = s.nft.fleet
  /\ Active(t.m) = Active(s.m) \ Protected(s.m)
  /\ t.nft.local = IF Ready(s) THEN s.nft.local \ (Active(s.m) \cap Protected(s.m)) ELSE s.nft.local

\* What reconcileProtected leaves.
LEMMA ReconcileIs ==
  ASSUME NEW s \in IbStates, NEW t \in ReconcileProtected(s)
  PROVE  Keeps(s, t) /\ (t.nft.faults = 0 => Released(s, t))
<1> DEFINE P == Active(s.m) \cap Protected(s.m)
           Forgot(R) == [s EXCEPT !.m.trk = SetTrk(s.m, R, "none")]
           Freed(R) == RemoveLocal(Forgot(R), R)
<1>1. P \in SUBSET IPs /\ Active(s.m) \ P = Active(s.m) \ Protected(s.m)
  BY ActiveIs
<1>2. ASSUME NEW R \in SUBSET P
      PROVE  /\ Forgot(R) \in IbStates /\ SameGuard(s.m, Forgot(R).m) /\ SameRuns(s.m, Forgot(R).m)
             /\ Forgot(R).nft = s.nft /\ Active(Forgot(R).m) = Active(s.m) \ R /\ Forgot(R).m.seen = s.m.seen
  BY <1>1, ForgetIs
<1>3. ASSUME NEW R \in SUBSET P
      PROVE  /\ Freed(R) \in IbStates /\ SameGuard(s.m, Freed(R).m) /\ SameRuns(s.m, Freed(R).m)
             /\ Freed(R).nft.local = s.nft.local \ R /\ Freed(R).nft.fleet = s.nft.fleet
             /\ Freed(R).nft.faults = s.nft.faults /\ Active(Freed(R).m) = Active(s.m) \ R /\ Freed(R).m.seen = s.m.seen
  <2> HIDE DEF Forgot
  <2>2. /\ Freed(R) \in IbStates /\ Freed(R).m = Forgot(R).m /\ Freed(R).nft.local = Forgot(R).nft.local \ R
        /\ Freed(R).nft.fleet = Forgot(R).nft.fleet /\ Freed(R).nft.faults = Forgot(R).nft.faults
    BY <1>2, RemoveIs
  <2> HIDE DEF Freed
  <2> QED
    BY <1>2, <2>2
<1>4. \/ Ready(s) /\ t = Freed(P)
      \/ \E R \in SUBSET P : CanFail(s, "remove") /\ t = Fail(Freed(R))
      \/ ~Ready(s) /\ t = Forgot(P)
  <2>1. CASE Ready(s)
    <3>1. t \in {Freed(P)} \cup (IF CanFail(s, "remove") THEN {Fail(Freed(R)) : R \in (SUBSET P) \ {P}} ELSE {})
      BY <2>1 DEF ReconcileProtected, ForEach
    <3> HIDE DEF Freed, Forgot
    <3> QED
      BY <2>1, <3>1
  <2>2. CASE ~Ready(s)
    BY <2>2 DEF ReconcileProtected
  <2> QED
    BY <2>1, <2>2
<1> HIDE DEF Forgot, Freed
<1>5. CASE Ready(s) /\ t = Freed(P)
  BY <1>1, <1>3, <1>5 DEF Keeps, Released, P
<1>6. CASE ~Ready(s) /\ t = Forgot(P)
  BY <1>1, <1>2, <1>6 DEF Keeps, Released
<1>7. CASE \E R \in SUBSET P : CanFail(s, "remove") /\ t = Fail(Freed(R))
  <2>1. PICK R \in SUBSET P : CanFail(s, "remove") /\ t = Fail(Freed(R))
    BY <1>7
  <2>2. CanFail(Freed(R), "remove")
    BY <1>3, <2>1 DEF CanFail
  <2>3. t \in IbStates /\ t.nft.faults # 0 /\ SameGuard(Freed(R).m, t.m) /\ t.m.seen = Freed(R).m.seen
    BY <1>3, <2>1, <2>2, FailIs
  <2> QED
    BY <1>3, <2>3 DEF Keeps, SameGuard
<1> QED
  BY <1>4, <1>5, <1>6, <1>7

\* The tracker's bans are written to the kernel, if there is an enforcer.
Synced(s, t) ==
  /\ t.m = s.m /\ t.nft.fleet = s.nft.fleet
  /\ t.nft.local = IF Ready(s) THEN s.nft.local \cup Active(s.m) ELSE s.nft.local

\* What syncLocalFromTracker leaves.
LEMMA SyncIs ==
  ASSUME NEW s \in IbStates, NEW t \in SyncLocalFromTracker(s)
  PROVE  Keeps(s, t) /\ (t.nft.faults = 0 => Synced(s, t))
<1> DEFINE Added(R) == AddLocal(s, R)
<1>1. ASSUME NEW R \in SUBSET Active(s.m)
      PROVE  /\ Added(R) \in IbStates /\ Added(R).m = s.m /\ Added(R).nft.local = s.nft.local \cup R
             /\ Added(R).nft.fleet = s.nft.fleet /\ Added(R).nft.faults = s.nft.faults
  <2>1. R \in SUBSET IPs
    BY ActiveIs
  <2> QED
    BY <2>1, AddIs
<1>2. \/ Ready(s) /\ t = Added(Active(s.m))
      \/ \E R \in SUBSET Active(s.m) : CanFail(s, "add") /\ t = Fail(Added(R))
      \/ ~Ready(s) /\ t = s
  <2>1. CASE Ready(s)
    <3>1. t \in {Added(Active(s.m))} \cup
                (IF CanFail(s, "add") THEN {Fail(Added(R)) : R \in (SUBSET Active(s.m)) \ {Active(s.m)}} ELSE {})
      BY <2>1 DEF SyncLocalFromTracker, ForEach
    <3> HIDE DEF Added
    <3> QED
      BY <2>1, <3>1
  <2>2. CASE ~Ready(s)
    BY <2>2 DEF SyncLocalFromTracker
  <2> QED
    BY <2>1, <2>2
<1> HIDE DEF Added
<1>3. CASE Ready(s) /\ t = Added(Active(s.m))
  BY <1>1, <1>3 DEF Keeps, Synced, SameGuard
<1>4. CASE ~Ready(s) /\ t = s
  BY <1>4 DEF Keeps, Synced, SameGuard
<1>5. CASE \E R \in SUBSET Active(s.m) : CanFail(s, "add") /\ t = Fail(Added(R))
  <2>1. PICK R \in SUBSET Active(s.m) : CanFail(s, "add") /\ t = Fail(Added(R))
    BY <1>5
  <2>2. CanFail(Added(R), "add")
    BY <1>1, <2>1 DEF CanFail
  <2>3. t \in IbStates /\ t.nft.faults # 0 /\ SameGuard(Added(R).m, t.m) /\ t.m.seen = Added(R).m.seen
    BY <1>1, <2>1, <2>2, FailIs
  <2> QED
    BY <1>1, <2>3 DEF Keeps
<1> QED
  BY <1>2, <1>3, <1>4, <1>5

\* The fleet set is what the guard leaves of the list.
FleetOf(g) == IF g.pol.enforce /\ g.pol.applyFleet THEN g.fleet \ (Protected(g) \cup Private) ELSE {}

\* What applyFleet leaves: the fleet set follows the list if there is an enforcer.
LEMMA FleetIs ==
  ASSUME NEW s \in IbStates, NEW entries \in SUBSET IPs, s.m.pol.enforce => s.m.have, NEW t \in ApplyFleet(s, entries)
  PROVE  /\ t \in IbStates /\ SameGuard([s.m EXCEPT !.fleet = entries], t.m) /\ t.m.seen = s.m.seen /\ t.m.trk = s.m.trk
         /\ t.nft.local = s.nft.local
         /\ t.nft.faults = 0 => /\ s.nft.faults = 0 /\ SameRuns(s.m, t.m) /\ t.nft.local = s.nft.local
                                /\ Active(t.m) = Active(s.m) /\ (Ready(s) => t.nft.fleet = FleetOf(t.m))
<1> DEFINE kept == [s EXCEPT !.m.fleet = entries]
           list == IF s.m.have /\ s.m.pol.enforce /\ s.m.pol.applyFleet
                   THEN entries \ (Protected(s.m) \cup Private) ELSE {}
           put == [kept EXCEPT !.nft.fleet = list]
<1>1. /\ kept \in IbStates /\ kept.m = [s.m EXCEPT !.fleet = entries] /\ kept.nft = s.nft
  BY DEF IbStates, IbManagers
<1>2. /\ SameGuard([s.m EXCEPT !.fleet = entries], kept.m) /\ SameRuns(s.m, kept.m) /\ kept.m.trk = s.m.trk
      /\ kept.m.fleet = entries /\ kept.m.pol = s.m.pol /\ kept.m.local = s.m.local /\ kept.m.seen = s.m.seen
  BY <1>1 DEF IbStates, IbManagers, SameGuard, SameRuns
<1>3. Active(kept.m) = Active(s.m) /\ Protected(kept.m) = Protected(s.m)
  BY <1>2 DEF Active, Protected
<1>4. list \in SUBSET IPs /\ list = FleetOf(kept.m)
  BY <1>2, <1>3 DEF FleetOf
<1>5. \/ ~Ready(s) /\ t = kept
      \/ t = put
      \/ CanFail(s, "replace") /\ t = Fail(kept)
  BY DEF ApplyFleet, ReplaceFleet
<1> HIDE DEF kept, list
<1>6. put \in IbStates /\ put.m = kept.m /\ put.nft.fleet = list /\ put.nft.local = s.nft.local /\ put.nft.faults = s.nft.faults
  BY <1>1, <1>4 DEF IbStates, IbKernels
<1> HIDE DEF put
<1>7. CASE ~Ready(s) /\ t = kept
  BY <1>1, <1>2, <1>3, <1>7
<1>8. CASE t = put
  BY <1>1, <1>2, <1>3, <1>4, <1>6, <1>8
<1>9. CASE CanFail(s, "replace") /\ t = Fail(kept)
  <2>1. CanFail(kept, "replace")
    BY <1>1, <1>9 DEF CanFail
  <2>2. /\ t \in IbStates /\ t.nft.faults # 0 /\ SameGuard(kept.m, t.m) /\ t.m.seen = kept.m.seen /\ t.m.trk = kept.m.trk
        /\ t.nft.local = kept.nft.local
    BY <1>1, <1>9, <2>1, FailIs
  <2> QED
    BY <1>1, <1>2, <2>2 DEF SameGuard
<1> QED
  BY <1>5, <1>7, <1>8, <1>9

\* The enforcer is set up: what the table held is adopted, less what is protected.
Adopted(s, t) ==
  LET bad == s.nft.local \cap Protected(s.m)
  IN  /\ Ready(t) /\ t.nft.fleet = s.nft.fleet
      /\ Active(t.m) = Active(s.m) \cup (s.nft.local \ bad) /\ t.nft.local = s.nft.local \ bad

\* Without an enforcer nothing is done to the kernel or the tracker.
Unattached(s, t) ==
  /\ ~Ready(t) /\ t.nft.fleet = s.nft.fleet /\ t.nft.local = s.nft.local /\ Active(t.m) = Active(s.m)

\* Elements are deleted, and others become bans.
AdoptedFrom(s, R, I, t) ==
  /\ t \in IbStates /\ SameGuard(s.m, t.m) /\ Active(t.m) = Active(s.m) \cup I
  /\ t.nft.local = s.nft.local \ R /\ t.nft.fleet = s.nft.fleet /\ t.nft.faults = s.nft.faults /\ t.m.seen = s.m.seen

\* What the import of the table leaves.
LEMMA AdoptIs ==
  ASSUME NEW s \in IbStates, NEW R \in SUBSET IPs, NEW I \in SUBSET IPs
  PROVE  AdoptedFrom(s, R, I, Adopt(s, R, I))
<1> DEFINE r == RemoveLocal(s, R)
           t == Adopt(s, R, I)
           trk == SetTrk(s.m, I, "banned")
<1>1. r \in IbStates /\ r.m = s.m /\ r.nft.local = s.nft.local \ R /\ r.nft.fleet = s.nft.fleet /\ r.nft.faults = s.nft.faults
  BY RemoveIs
<1>2. trk \in IbTrks
  BY DEF SetTrk, IbStates, IbManagers, IbTrks
<1>3. t = [r EXCEPT !.m.trk = trk]
  BY DEF Adopt
<1>4. Active([s.m EXCEPT !.trk = trk]) = Active(s.m) \cup I
  <2>1. [s.m EXCEPT !.trk = trk].trk = trk
    BY DEF IbStates, IbManagers
  <2> QED
    BY <2>1 DEF Active, SetTrk
<1> HIDE DEF r, t, trk
<1>5. t.nft = r.nft /\ t.m = [s.m EXCEPT !.trk = trk] /\ t \in IbStates
  BY <1>1, <1>2, <1>3 DEF IbStates, IbManagers
<1>6. SameGuard(s.m, t.m) /\ t.m.seen = s.m.seen
  BY <1>5 DEF IbStates, IbManagers, SameGuard
<1> QED
  BY <1>1, <1>4, <1>5, <1>6 DEF t, AdoptedFrom

\* An enforcer that is put to work.
LEMMA AttachIs ==
  ASSUME NEW s \in IbStates
  PROVE  LET t == Attach(s)
         IN /\ t \in IbStates /\ SameGuard(s.m, t.m) /\ Ready(t) /\ Active(t.m) = Active(s.m) /\ t.nft = s.nft
            /\ t.m.seen = s.m.seen
<1>1. LET t == Attach(s)
      IN t.m = [s.m EXCEPT !.enforcer = TRUE, !.state = "ok"] /\ t.nft = s.nft /\ t \in IbStates
  BY DEF Attach, IbStates, IbManagers
<1> QED
  BY <1>1 DEF IbStates, IbManagers, SameGuard, Ready, Active

\* What ensureEnforcer leaves.
LEMMA EnsureIs ==
  ASSUME NEW s \in IbStates, NEW t \in EnsureEnforcer(s)
  PROVE  /\ Keeps(s, t)
         /\ t.nft.faults = 0 => IF Ready(s) THEN t = s
                                ELSE IF s.m.cap THEN Adopted(s, t) ELSE Unattached(s, t)
<1> DEFINE c == Detach(s)
           bad == s.nft.local \cap Protected(s.m)
           blind == [c EXCEPT !.nft.faults = c.nft.faults + 1]
<1>1. \/ Ready(s) /\ t = s
      \/ ~Ready(s) /\ ~s.m.cap /\ t = [s EXCEPT !.m.state = "no_permission"]
      \/ ~Ready(s) /\ s.m.cap /\ t = Attach(Adopt(c, bad, s.nft.local \ bad))
      \/ ~Ready(s) /\ CanFail(s, "setup") /\ t = Fail(c)
      \/ ~Ready(s) /\ CanFail(s, "active") /\ t = Attach(blind)
      \/ \E R \in SUBSET bad, I \in SUBSET (s.nft.local \ bad) : ~Ready(s) /\ CanFail(s, "remove") /\ t = Fail(Adopt(c, R, I))
  <2>1. CASE Ready(s)
    BY <2>1 DEF EnsureEnforcer
  <2>2. CASE ~Ready(s) /\ ~s.m.cap
    BY <2>2 DEF EnsureEnforcer
  <2>3. CASE ~Ready(s) /\ s.m.cap
    <3>1. \/ t = Attach(Adopt(c, bad, s.nft.local \ bad))
          \/ CanFail(s, "setup") /\ t = Fail(c)
          \/ CanFail(s, "active") /\ t = Attach(blind)
          \/ CanFail(s, "remove") /\ \E R \in (SUBSET bad) \ {bad}, I \in SUBSET (s.nft.local \ bad) : t = Fail(Adopt(c, R, I))
      BY <2>3 DEF EnsureEnforcer
    <3> HIDE DEF c, bad, blind
    <3> QED
      BY <2>3, <3>1
  <2> QED
    BY <2>1, <2>2, <2>3
<1>2. bad \in SUBSET IPs /\ s.nft.local \in SUBSET IPs /\ s.nft.local \ bad \in SUBSET IPs
  BY ActiveIs
<1>3. c \in IbStates /\ c.nft = s.nft /\ SameGuard(s.m, c.m) /\ c.m.seen = s.m.seen
  BY DEF Detach, IbStates, IbManagers, SameGuard
<1>12. Active(c.m) = Active(s.m)
  BY DEF Detach, IbStates, IbManagers, Active
<1> HIDE DEF c
<1>4. ASSUME NEW R \in SUBSET IPs, NEW I \in SUBSET IPs
      PROVE  AdoptedFrom(s, R, I, Adopt(c, R, I))
  <2>1. AdoptedFrom(c, R, I, Adopt(c, R, I))
    BY <1>3, AdoptIs
  <2> QED
    BY <1>3, <1>12, <2>1 DEF SameGuard, AdoptedFrom
<1>5. ASSUME NEW x \in IbStates
      PROVE  Attach(x) \in IbStates /\ SameGuard(x.m, Attach(x).m) /\ Ready(Attach(x))
             /\ Active(Attach(x).m) = Active(x.m) /\ Attach(x).nft = x.nft /\ Attach(x).m.seen = x.m.seen
  BY AttachIs
<1>6. CASE Ready(s) /\ t = s
  BY <1>6 DEF Keeps, SameGuard
<1>7. CASE ~Ready(s) /\ ~s.m.cap /\ t = [s EXCEPT !.m.state = "no_permission"]
  <2>1. /\ t \in IbStates /\ t.nft = s.nft /\ SameGuard(s.m, t.m) /\ t.m.state = "no_permission" /\ t.m.trk = s.m.trk
        /\ t.m.seen = s.m.seen
    BY <1>7 DEF IbStates, IbManagers, SameGuard
  <2> QED
    BY <1>7, <2>1 DEF Keeps, Unattached, Ready, Active
<1> HIDE DEF c, bad
<1>8. CASE ~Ready(s) /\ s.m.cap /\ t = Attach(Adopt(c, bad, s.nft.local \ bad))
  <2> DEFINE a == Adopt(c, bad, s.nft.local \ bad)
  <2>1. /\ a \in IbStates /\ SameGuard(s.m, a.m) /\ Active(a.m) = Active(s.m) \cup (s.nft.local \ bad)
        /\ a.nft.local = s.nft.local \ bad /\ a.nft.fleet = s.nft.fleet /\ a.nft.faults = s.nft.faults
        /\ a.m.seen = s.m.seen
    BY <1>2, <1>4 DEF AdoptedFrom
  <2> HIDE DEF a
  <2>2. t \in IbStates /\ SameGuard(a.m, t.m) /\ Ready(t) /\ Active(t.m) = Active(a.m) /\ t.nft = a.nft /\ t.m.seen = a.m.seen
    BY <1>5, <1>8, <2>1 DEF a
  <2>3. SameGuard(s.m, t.m)
    BY <2>1, <2>2 DEF SameGuard
  <2>4. Adopted(s, t)
    BY <2>1, <2>2 DEF Adopted, bad
  <2> QED
    BY <1>8, <2>1, <2>2, <2>3, <2>4 DEF Keeps
<1>9. CASE ~Ready(s) /\ CanFail(s, "setup") /\ t = Fail(c)
  <2>1. CanFail(c, "setup")
    BY <1>3, <1>9 DEF CanFail
  <2> QED
    BY <1>3, <1>9, <2>1, FailIs DEF Keeps, SameGuard
<1>10. CASE ~Ready(s) /\ CanFail(s, "active") /\ t = Attach(blind)
  <2>1. s.nft.faults \in Nat /\ c.nft.faults + 1 \in 0..MaxFaults /\ c.nft.faults + 1 # 0
    BY <1>3, <1>10, IbConstants DEF CanFail, IbStates, IbKernels
  <2>2. blind \in IbStates /\ blind.m = c.m /\ blind.nft.faults = c.nft.faults + 1
    BY <1>3, <2>1 DEF IbStates, IbKernels
  <2> HIDE DEF blind
  <2>3. t \in IbStates /\ SameGuard(c.m, t.m) /\ t.nft.faults # 0 /\ t.m.seen = c.m.seen
    BY <1>5, <1>10, <2>1, <2>2
  <2> QED
    BY <1>3, <2>3 DEF Keeps, SameGuard
<1>11. CASE \E R \in SUBSET bad, I \in SUBSET (s.nft.local \ bad) : ~Ready(s) /\ CanFail(s, "remove") /\ t = Fail(Adopt(c, R, I))
  <2>1. PICK R \in SUBSET bad, I \in SUBSET (s.nft.local \ bad) : CanFail(s, "remove") /\ t = Fail(Adopt(c, R, I))
    BY <1>11
  <2>2. /\ Adopt(c, R, I) \in IbStates /\ SameGuard(s.m, Adopt(c, R, I).m) /\ Adopt(c, R, I).nft.faults = s.nft.faults
        /\ Adopt(c, R, I).m.seen = s.m.seen
    <3>1. AdoptedFrom(s, R, I, Adopt(c, R, I))
      BY <1>2, <1>4
    <3> QED
      BY <3>1 DEF AdoptedFrom
  <2>3. CanFail(Adopt(c, R, I), "remove")
    BY <2>1, <2>2 DEF CanFail
  <2>4. t \in IbStates /\ t.nft.faults # 0 /\ SameGuard(Adopt(c, R, I).m, t.m) /\ t.m.seen = Adopt(c, R, I).m.seen
    BY <2>1, <2>2, <2>3, FailIs
  <2> QED
    BY <2>2, <2>4 DEF Keeps, SameGuard
<1> QED
  BY <1>1, <1>6, <1>7, <1>8, <1>9, <1>10, <1>11

\* The enforcement is switched off: both sets are emptied.
LEMMA DisableIs ==
  ASSUME NEW s \in IbStates, NEW t \in DisableEnforcement(s)
  PROVE  /\ Keeps(s, t)
         /\ t.nft.faults = 0 => IF Ready(s) THEN t.m = s.m /\ t.nft.local = {} ELSE t = s
<1> DEFINE f == FlushLocal(s)
<1>1. f \in IbStates /\ f.m = s.m /\ f.nft.local = {} /\ f.nft.faults = s.nft.faults
  BY FlushIs
<1>2. \/ ~Ready(s) /\ t = s
      \/ Ready(s) /\ t = ReplaceFleet(f, {})
      \/ CanFail(s, "flush") /\ t = Fail(s)
      \/ CanFail(s, "replace") /\ t = Fail(f)
  BY DEF DisableEnforcement
<1> HIDE DEF f
<1>3. CASE ~Ready(s) /\ t = s
  BY <1>3 DEF Keeps, SameGuard
<1>4. CASE Ready(s) /\ t = ReplaceFleet(f, {})
  <2>1. t \in IbStates /\ t.m = f.m /\ t.nft.local = f.nft.local /\ t.nft.faults = f.nft.faults
    BY <1>1, <1>4, ReplaceIs
  <2> QED
    BY <1>1, <1>4, <2>1 DEF Keeps, SameGuard
<1>5. CASE CanFail(s, "flush") /\ t = Fail(s)
  BY <1>5, FailIs DEF Keeps
<1>6. CASE CanFail(s, "replace") /\ t = Fail(f)
  <2>1. CanFail(f, "replace")
    BY <1>1, <1>6 DEF CanFail
  <2> QED
    BY <1>1, <1>6, <2>1, FailIs DEF Keeps
<1> QED
  BY <1>2, <1>3, <1>4, <1>5, <1>6

\* Bans are lifted: out of the tracker, and out of the kernel if there is an enforcer.
Sheds(s, t) ==
  /\ SameRuns(s.m, t.m) /\ t.nft.fleet = s.nft.fleet
  /\ \E R \in SUBSET IPs : /\ Active(t.m) = Active(s.m) \ R
                           /\ t.nft.local = IF Ready(s) THEN s.nft.local \ R ELSE s.nft.local
\* What counts as lifted is lifted, and nothing is banned on the way.
Honest(s, t) ==
  /\ t.m.pol = s.m.pol /\ t.nft.local \subseteq s.nft.local /\ Active(t.m) \subseteq Active(s.m)
  /\ \A u \in t.m.seen \ s.m.seen : u.ip \notin Active(t.m) /\ (t.m.pol.enforce => u.ip \notin t.nft.local)
Lifts(s, t) ==
  /\ t \in IbStates /\ SameGuard(s.m, t.m) /\ Honest(s, t)
  /\ t.nft.faults = 0 => s.nft.faults = 0 /\ Sheds(s, t)

\* Nothing lifted is a case of it.
LEMMA LiftsNothing ==
  ASSUME NEW s \in IbStates
  PROVE  Lifts(s, s)
<1>1. Active(s.m) = Active(s.m) \ {} /\ s.nft.local = s.nft.local \ {} /\ {} \in SUBSET IPs
  OBVIOUS
<1> QED
  BY <1>1 DEF Lifts, Sheds, SameGuard, SameRuns, Honest

\* Lifting bans twice is lifting bans.
LEMMA LiftsTwice ==
  ASSUME NEW s \in IbStates, NEW t, NEW r, Lifts(s, t), Lifts(t, r)
  PROVE  Lifts(s, r)
<1>1. /\ r \in IbStates /\ SameGuard(s.m, r.m)
      /\ r.nft.faults = 0 => t.nft.faults = 0 /\ s.nft.faults = 0
  BY DEF Lifts, SameGuard
<1>2. ASSUME r.nft.faults = 0 PROVE Sheds(s, r)
  <2>1. Sheds(s, t) /\ Sheds(t, r)
    BY <1>1, <1>2 DEF Lifts
  <2>2. SameRuns(s.m, r.m) /\ r.nft.fleet = s.nft.fleet /\ (Ready(t) <=> Ready(s))
    BY <2>1 DEF Sheds, SameRuns, Ready
  <2>3. PICK R \in SUBSET IPs : /\ Active(t.m) = Active(s.m) \ R
                                /\ t.nft.local = IF Ready(s) THEN s.nft.local \ R ELSE s.nft.local
    BY <2>1 DEF Sheds
  <2>4. PICK Q \in SUBSET IPs : /\ Active(r.m) = Active(t.m) \ Q
                                /\ r.nft.local = IF Ready(t) THEN t.nft.local \ Q ELSE t.nft.local
    BY <2>1 DEF Sheds
  <2>5. /\ R \cup Q \in SUBSET IPs /\ Active(r.m) = Active(s.m) \ (R \cup Q)
        /\ r.nft.local = IF Ready(s) THEN s.nft.local \ (R \cup Q) ELSE s.nft.local
    BY <2>2, <2>3, <2>4
  <2> QED
    BY <2>2, <2>5 DEF Sheds
<1>3. Honest(s, r)
  BY DEF Lifts, Honest
<1> QED
  BY <1>1, <1>2, <1>3 DEF Lifts

\* What a command of the list leaves.
LEMMA UnbanIs ==
  ASSUME NEW s \in IbStates, NEW u \in Cmds, NEW t \in ApplyUnban(s, u)
  PROVE  Lifts(s, t)
<1> DEFINE lifted == [s EXCEPT !.m.trk[u.ip] = "none", !.m.seen = s.m.seen \cup {u}]
<1>1. \/ t = s
      \/ ~Ready(s) /\ ~s.m.pol.enforce /\ t = lifted
      \/ Ready(s) /\ t = RemoveLocal(lifted, {u.ip})
      \/ CanFail(s, "remove") /\ t = Fail(s)
  BY DEF ApplyUnban
<1>2. u.ip \in IPs
  BY DEF Cmds
<1>3. [s.m.trk EXCEPT ![u.ip] = "none"] \in IbTrks /\ s.m.seen \cup {u} \in SUBSET Cmds
  BY DEF IbStates, IbManagers, IbTrks
<1>4. /\ lifted.m = [s.m EXCEPT !.trk = [s.m.trk EXCEPT ![u.ip] = "none"], !.seen = s.m.seen \cup {u}]
      /\ lifted.nft = s.nft
  BY DEF IbStates, IbManagers
<1>11. lifted.m \in IbManagers => lifted \in IbStates
  BY DEF IbStates
<1> HIDE DEF lifted
<1>5. lifted \in IbStates /\ SameGuard(s.m, lifted.m) /\ SameRuns(s.m, lifted.m) /\ lifted.m.trk = [s.m.trk EXCEPT ![u.ip] = "none"]
  <2>1. lifted.m \in IbManagers /\ SameGuard(s.m, lifted.m) /\ SameRuns(s.m, lifted.m) /\ lifted.m.trk = [s.m.trk EXCEPT ![u.ip] = "none"]
    BY <1>3, <1>4 DEF IbStates, IbManagers, SameGuard, SameRuns
  <2> QED
    BY <1>11, <2>1
<1>6. Active(lifted.m) = Active(s.m) \ {u.ip}
  BY <1>5 DEF Active, IbStates, IbManagers, IbTrks
<1>7. CASE t = s
  BY <1>7, LiftsNothing
<1>12. lifted.m.seen = s.m.seen \cup {u} /\ lifted.m.pol = s.m.pol
  BY <1>4 DEF IbStates, IbManagers
<1>8. CASE ~Ready(s) /\ ~s.m.pol.enforce /\ t = lifted
  <2>1. Honest(s, t)
    BY <1>4, <1>6, <1>8, <1>12 DEF Honest
  <2> QED
    BY <1>2, <1>4, <1>5, <1>6, <1>8, <2>1 DEF Lifts, Sheds
<1>9. CASE Ready(s) /\ t = RemoveLocal(lifted, {u.ip})
  <2>1. /\ t \in IbStates /\ t.m = lifted.m /\ t.nft.local = lifted.nft.local \ {u.ip}
        /\ t.nft.fleet = lifted.nft.fleet /\ t.nft.faults = lifted.nft.faults
    BY <1>5, <1>9, RemoveIs
  <2>2. Honest(s, t)
    BY <1>4, <1>6, <1>12, <2>1 DEF Honest
  <2> QED
    BY <1>2, <1>4, <1>5, <1>6, <1>9, <2>1, <2>2 DEF Lifts, Sheds
<1>10. CASE CanFail(s, "remove") /\ t = Fail(s)
  <2>1. t.nft.local = s.nft.local
    BY <1>10 DEF Fail, IbStates, IbKernels
  <2>2. t \in IbStates /\ t.nft.faults # 0 /\ SameGuard(s.m, t.m) /\ t.m.trk = s.m.trk /\ t.m.seen = s.m.seen
    BY <1>10, FailIs
  <2>3. Honest(s, t)
    BY <2>1, <2>2 DEF Honest, SameGuard, Active
  <2> QED
    BY <2>2, <2>3 DEF Lifts
<1> QED
  BY <1>1, <1>7, <1>8, <1>9, <1>10

\* The states after each command of the list.
Turns(w, s, list) ==
  w = [k \in 0..Len(list) |-> IF k = 0 THEN {s} ELSE UNION {ApplyUnban(t, list[k]) : t \in w[k - 1]}]

\* The loop of applyUnbans is such a sequence of sets of states.
LEMMA TurnsAre ==
  ASSUME NEW s, NEW list
  PROVE  ApplyUnbans(s, list) = (CHOOSE w : Turns(w, s, list))[Len(list)]
BY Zenon DEF ApplyUnbans, Turns

\* There is one: no length of the list is the least without.
LEMMA TurnsExist ==
  ASSUME NEW s, NEW list \in Seq(Cmds)
  PROVE  \E w : Turns(w, s, list)
<1> DEFINE L == Len(list)
           Next(w, n) == IF n = 0 THEN {s} ELSE UNION {ApplyUnban(t, list[n]) : t \in w[n - 1]}
           Good(n) == \E w : \A i \in 0..n : w[i] = Next(w, i)
           Bad == {n \in Nat : ~Good(n)}
<1>1. L \in Nat
  OBVIOUS
<1>2. Good(0)
  <2> DEFINE w == [i \in {0} |-> {s}]
  <2>1. \A i \in 0..0 : w[i] = Next(w, i)
    <3>1. \A i \in 0..0 : i = 0
      OBVIOUS
    <3>2. w[0] = {s} /\ Next(w, 0) = {s}
      OBVIOUS
    <3> HIDE DEF w, Next
    <3> QED
      BY <3>1, <3>2
  <2> HIDE DEF w, Next
  <2> QED
    BY <2>1
<1>3. ASSUME NEW n \in Nat, n # 0, Good(n - 1) PROVE Good(n)
  <2>1. PICK v : \A i \in 0..(n - 1) : v[i] = Next(v, i)
    BY <1>3
  <2> DEFINE w == [i \in 0..n |-> IF i = n THEN Next(v, n) ELSE v[i]]
  <2>2. \A i \in 0..n : w[i] = IF i = n THEN Next(v, n) ELSE v[i]
    OBVIOUS
  <2>3. ASSUME NEW i \in 0..n PROVE w[i] = Next(w, i)
    <3>1. i # 0 => i - 1 \in 0..n /\ i - 1 # n /\ n \in 0..n
      BY <1>3
    <3>2. i # 0 => w[i - 1] = v[i - 1]
      <4> HIDE DEF w, Next
      <4> QED
        BY <2>2, <3>1
    <3>3. Next(w, i) = Next(v, i)
      <4> HIDE DEF w
      <4> QED
        BY <3>2
    <3>4. i # n => i \in 0..(n - 1)
      BY <1>3
    <3> HIDE DEF w, Next
    <3> QED
      BY <2>1, <2>2, <3>3, <3>4
  <2> HIDE DEF w, Next
  <2> QED
    BY <2>3
<1>4. Good(L)
  <2> SUFFICES ASSUME Bad # {} PROVE FALSE
    BY <1>1
  <2>1. Bad \in SUBSET Nat
    OBVIOUS
  <2>2. PICK n \in Bad : \A k \in Bad : n <= k
    <3> HIDE DEF Bad
    <3> QED
      BY <2>1, Least
  <2>3. n \in Nat /\ ~Good(n) /\ n # 0
    BY <1>2
  <2>4. n - 1 \in Nat /\ ~(n <= n - 1)
    BY <2>3
  <2>5. Good(n - 1)
    BY <2>2, <2>4
  <2> QED
    BY <1>3, <2>3, <2>5
<1>5. PICK w : \A i \in 0..L : w[i] = Next(w, i)
  BY <1>4
<1> DEFINE f == [i \in 0..L |-> w[i]]
<1>6. \A i \in 0..L : f[i] = w[i]
  OBVIOUS
<1>7. ASSUME NEW i \in 0..L PROVE Next(f, i) = w[i]
  <2>1. i # 0 => i - 1 \in 0..L
    BY <1>1
  <2>2. i # 0 => f[i - 1] = w[i - 1]
    <3> HIDE DEF f, Next
    <3> QED
      BY <1>6, <2>1
  <2>3. Next(f, i) = Next(w, i)
    <3> HIDE DEF f
    <3> QED
      BY <2>2
  <2> HIDE DEF f, Next
  <2> QED
    BY <1>5, <2>3
<1>8. f = [i \in 0..L |-> Next(f, i)]
  <2>1. f = [i \in 0..L |-> w[i]]
    OBVIOUS
  <2> HIDE DEF f, Next
  <2> QED
    BY <1>7, <2>1
<1> HIDE DEF f
<1> QED
  BY <1>8 DEF Turns

\* Whatever order the commands have, only bans are lifted.
LEMMA UnbansAre ==
  ASSUME NEW s \in IbStates, NEW list \in Seq(Cmds), NEW t \in ApplyUnbans(s, list)
  PROVE  Lifts(s, t)
<1> DEFINE L == Len(list)
           w == CHOOSE v : Turns(v, s, list)
           Bad == {k \in 0..L : \E r \in w[k] : ~Lifts(s, r)}
<1>1. Turns(w, s, list)
  BY TurnsExist
<1> HIDE DEF w
<1>2. L \in Nat
  OBVIOUS
<1>3. \A k \in 0..L : w[k] = IF k = 0 THEN {s} ELSE UNION {ApplyUnban(r, list[k]) : r \in w[k - 1]}
  BY <1>1 DEF Turns
<1>4. Bad = {}
  <2> SUFFICES ASSUME Bad # {} PROVE FALSE
    OBVIOUS
  <2>1. PICK n \in Bad : \A k \in Bad : n <= k
    <3>1. Bad \in SUBSET Nat
      OBVIOUS
    <3> HIDE DEF Bad
    <3> QED
      BY <3>1, Least
  <2>2. n \in 0..L
    OBVIOUS
  <2>3. PICK r \in w[n] : ~Lifts(s, r)
    BY <2>1
  <2>4. n # 0
    BY <1>3, <2>2, <2>3, LiftsNothing
  <2>5. n - 1 \in 0..L /\ ~(n <= n - 1) /\ n \in 1..L
    BY <1>2, <2>2, <2>4
  <2>6. list[n] \in Cmds
    BY <2>5
  <2>7. PICK q \in w[n - 1] : r \in ApplyUnban(q, list[n])
    <3>1. w[n] = UNION {ApplyUnban(q, list[n]) : q \in w[n - 1]}
      BY <1>3, <2>2, <2>4
    <3> QED
      BY <2>3, <3>1
  <2>8. Lifts(s, q)
    BY <2>1, <2>5, <2>7
  <2>9. Lifts(q, r)
    <3>1. q \in IbStates
      BY <2>8 DEF Lifts
    <3> QED
      BY <2>6, <2>7, <3>1, UnbanIs
  <2> QED
    BY <2>3, <2>8, <2>9, LiftsTwice
<1> QED
  <2>1. t \in w[L] /\ L \in 0..L
    BY <1>2, TurnsAre DEF w
  <2> QED
    BY <1>4, <2>1

\* What holds of the manager and the kernel between two cases of the select.
Clear(s) == Active(s.m) \cap Protected(s.m) = {}
\* The local set is the tracker's bans, less the ones over the limit.
Mirrors(s) ==
  Ready(s) => /\ s.nft.local \subseteq Active(s.m)
              /\ IF s.m.pol.enforce THEN Active(s.m) \ s.nft.local \subseteq s.m.limited ELSE s.nft.local = {}
\* The fleet set is what the guard leaves of the list.
FleetRight(s) == Ready(s) => s.nft.fleet = FleetOf(s.m)
\* A host that may and should enforce has an enforcer.
Attached(s) == s.m.have /\ s.m.pol.enforce => Ready(s) \/ ~s.m.cap
\* Only a policy that was applied enforces.
Decided(s) == s.m.pol.enforce => s.m.have
IbSound(s) ==
  /\ s \in IbStates /\ Decided(s)
  /\ s.nft.faults = 0 => Clear(s) /\ Mirrors(s) /\ FleetRight(s) /\ Attached(s)

\* What the invariant reads.
LEMMA ProtectedAs ==
  ASSUME NEW g, NEW h, h.pol = g.pol, h.local = g.local
  PROVE  Protected(h) = Protected(g)
BY DEF Protected

\* The same for the fleet list.
LEMMA FleetAs ==
  ASSUME NEW g, NEW h, h.pol = g.pol, h.local = g.local, h.fleet = g.fleet
  PROVE  FleetOf(h) = FleetOf(g)
BY ProtectedAs DEF FleetOf

\* The invariant holds wherever what it reads is the same.
LEMMA SoundAs ==
  ASSUME NEW s, IbSound(s), NEW t \in IbStates, SameGuard(s.m, t.m), SameRuns(s.m, t.m),
         Active(t.m) = Active(s.m), t.nft.local = s.nft.local, t.nft.fleet = s.nft.fleet, t.nft.faults = 0 => s.nft.faults = 0
  PROVE  IbSound(t)
<1>1. Protected(t.m) = Protected(s.m) /\ FleetOf(t.m) = FleetOf(s.m)
  BY ProtectedAs, FleetAs DEF SameGuard
<1>2. Decided(t)
  BY DEF IbSound, Decided, SameGuard
<1>3. Ready(t) <=> Ready(s)
  BY DEF SameRuns, Ready
<1>4. ASSUME t.nft.faults = 0 PROVE Clear(t) /\ Mirrors(t) /\ FleetRight(t) /\ Attached(t)
  <2>1. Clear(s) /\ Mirrors(s) /\ FleetRight(s) /\ Attached(s)
    BY <1>4 DEF IbSound
  <2>2. Clear(t)
    BY <1>1, <2>1 DEF Clear
  <2>3. Mirrors(t)
    BY <1>3, <2>1 DEF Mirrors, SameGuard
  <2>4. FleetRight(t)
    BY <1>1, <1>3, <2>1 DEF FleetRight
  <2>5. Attached(t)
    BY <1>3, <2>1 DEF Attached, SameGuard
  <2> QED
    BY <2>2, <2>3, <2>4, <2>5
<1> QED
  BY <1>2, <1>4 DEF IbSound

\* The guard's addresses are looked up again, and both sets follow.
Refreshed(s, t) ==
  /\ SameRuns(s.m, t.m) /\ Active(t.m) = Active(s.m) \ Protected(t.m)
  /\ t.nft.local = IF Ready(s) THEN s.nft.local \ (Active(s.m) \cap Protected(t.m)) ELSE s.nft.local
  /\ Ready(s) => t.nft.fleet = FleetOf(t.m)
\* All but the addresses of the guard is the same.
SameButGuard(g, h) == h.have = g.have /\ h.pol = g.pol /\ h.cap = g.cap /\ h.limited = g.limited /\ h.fleet = g.fleet

\* What refreshLocalAddrs leaves.
LEMMA RefreshIs ==
  ASSUME NEW s \in IbStates, Decided(s), NEW t \in RefreshLocalAddrs(s)
  PROVE  /\ t \in IbStates /\ SameButGuard(s.m, t.m) /\ t.m.seen = s.m.seen
         /\ t.nft.faults = 0 => s.nft.faults = 0 /\ Refreshed(s, t)
<1>1. PICK A \in {{ServerIP}} \cup (IF DNSFails THEN {{}} ELSE {}) :
        \E r \in ReconcileProtected([s EXCEPT !.m.local = A]) : t \in ApplyFleet(r, r.m.fleet)
  BY DEF RefreshLocalAddrs, AndThen
<1>2. A \in SUBSET IPs
  BY IbConstants
<1> DEFINE a == [s EXCEPT !.m.local = A]
<1>3. /\ a \in IbStates /\ a.nft = s.nft /\ a.m.trk = s.m.trk /\ SameButGuard(s.m, a.m) /\ SameRuns(s.m, a.m)
      /\ a.m.seen = s.m.seen
  BY <1>2 DEF IbStates, IbManagers, SameButGuard, SameRuns
<1>4. PICK r \in ReconcileProtected(a) : t \in ApplyFleet(r, r.m.fleet)
  BY <1>1
<1> HIDE DEF a
<1>5. Active(a.m) = Active(s.m) /\ (Ready(a) <=> Ready(s))
  BY <1>3 DEF Active, SameRuns, Ready
<1>6. Keeps(a, r) /\ (r.nft.faults = 0 => Released(a, r))
  BY <1>3, <1>4, ReconcileIs
<1>7. r \in IbStates /\ r.m.fleet \in SUBSET IPs /\ (r.m.pol.enforce => r.m.have)
  BY <1>3, <1>6 DEF Keeps, IbStates, IbManagers, SameGuard, SameButGuard, Decided
<1>8. /\ t \in IbStates /\ SameGuard([r.m EXCEPT !.fleet = r.m.fleet], t.m) /\ t.m.seen = r.m.seen
      /\ t.nft.faults = 0 => /\ r.nft.faults = 0 /\ SameRuns(r.m, t.m) /\ t.nft.local = r.nft.local
                             /\ Active(t.m) = Active(r.m) /\ (Ready(r) => t.nft.fleet = FleetOf(t.m))
  BY <1>4, <1>7, FleetIs
<1>9. SameGuard(r.m, t.m)
  <2>1. [r.m EXCEPT !.fleet = r.m.fleet] = r.m
    BY <1>7 DEF IbStates, IbManagers
  <2> QED
    BY <1>8, <2>1
<1>10. SameButGuard(s.m, t.m) /\ SameGuard(a.m, t.m) /\ t.m.seen = s.m.seen
  BY <1>3, <1>6, <1>8, <1>9 DEF Keeps, SameGuard, SameButGuard
<1>11. ASSUME t.nft.faults = 0 PROVE s.nft.faults = 0 /\ Refreshed(s, t)
  <2>1. r.nft.faults = 0 /\ s.nft.faults = 0 /\ Released(a, r)
    BY <1>3, <1>6, <1>8, <1>11 DEF Keeps
  <2>2. SameRuns(s.m, t.m) /\ (Ready(r) <=> Ready(s))
    BY <1>3, <1>8, <1>11, <2>1 DEF Released, SameRuns, Ready
  <2>3. Protected(t.m) = Protected(a.m)
    BY <1>10, ProtectedAs DEF SameGuard
  <2>4. Active(t.m) = Active(s.m) \ Protected(t.m)
    BY <1>5, <1>8, <1>11, <2>1, <2>3 DEF Released
  <2>5. t.nft.local = IF Ready(s) THEN s.nft.local \ (Active(s.m) \cap Protected(t.m)) ELSE s.nft.local
    BY <1>3, <1>5, <1>8, <1>11, <2>1, <2>3 DEF Released
  <2> QED
    BY <1>8, <1>11, <2>1, <2>2, <2>4, <2>5 DEF Refreshed
<1> QED
  BY <1>8, <1>10, <1>11

\* The refresh keeps what the invariant asks.
LEMMA RefreshKeeps ==
  ASSUME NEW s, IbSound(s), NEW t \in RefreshLocalAddrs(s)
  PROVE  IbSound(t)
<1>1. s \in IbStates /\ Decided(s)
  BY DEF IbSound
<1>2. t \in IbStates /\ SameButGuard(s.m, t.m) /\ (t.nft.faults = 0 => s.nft.faults = 0 /\ Refreshed(s, t))
  BY <1>1, RefreshIs
<1>3. Decided(t)
  BY <1>1, <1>2 DEF Decided, SameButGuard
<1>4. ASSUME t.nft.faults = 0 PROVE Clear(t) /\ Mirrors(t) /\ FleetRight(t) /\ Attached(t)
  <2>1. Clear(s) /\ Mirrors(s) /\ FleetRight(s) /\ Attached(s) /\ Refreshed(s, t)
    BY <1>2, <1>4 DEF IbSound
  <2>2. Ready(t) <=> Ready(s)
    BY <2>1 DEF Refreshed, SameRuns, Ready
  <2>3. Clear(t)
    BY <2>1 DEF Refreshed, Clear
  <2>4. Mirrors(t)
    BY <1>2, <2>1, <2>2 DEF Refreshed, Mirrors, SameButGuard
  <2>5. FleetRight(t)
    BY <2>1, <2>2 DEF Refreshed, FleetRight
  <2>6. Attached(t)
    BY <1>2, <2>1, <2>2 DEF Attached, SameButGuard
  <2> QED
    BY <2>3, <2>4, <2>5, <2>6
<1> QED
  BY <1>2, <1>3, <1>4 DEF IbSound

\* The retry finds no enforcer to repair unless a call has failed.
LEMMA RetryKeeps ==
  ASSUME NEW s, IbSound(s), NEW t \in RetryEnforcer(s)
  PROVE  IbSound(t)
<1>1. s \in IbStates /\ Decided(s)
  BY DEF IbSound
<1>2. CASE t = s
  BY <1>2
<1>3. CASE s.m.have /\ s.m.pol.enforce /\ s.m.state # "ok"
  <2>1. PICK r \in EnsureEnforcer(s) : \/ ~Ready(r) /\ t = r
                                       \/ Ready(r) /\ \E q \in SyncLocalFromTracker(r) : t \in ApplyFleet(q, q.m.fleet)
    BY <1>3 DEF RetryEnforcer, AndThen
  <2>2. ~Ready(s)
    BY <1>3 DEF Ready
  <2>3. Keeps(s, r) /\ (r.nft.faults = 0 => IF s.m.cap THEN Adopted(s, r) ELSE Unattached(s, r))
    BY <1>1, <2>2, EnsureIs
  <2>4. CASE ~Ready(r) /\ t = r
    <3>1. t \in IbStates /\ Decided(t)
      BY <1>1, <2>3, <2>4 DEF Keeps, Decided, SameGuard
    <3>2. ASSUME t.nft.faults = 0 PROVE Clear(t) /\ Mirrors(t) /\ FleetRight(t) /\ Attached(t)
      <4>1. s.nft.faults = 0 /\ Clear(s) /\ Attached(s)
        BY <2>3, <2>4, <3>2 DEF Keeps, IbSound
      <4>2. ~s.m.cap
        BY <1>3, <2>2, <4>1 DEF Attached
      <4>3. Active(t.m) = Active(s.m)
        BY <2>3, <2>4, <3>2, <4>2 DEF Unattached
      <4>4. Protected(t.m) = Protected(s.m)
        BY <2>3, <2>4, ProtectedAs DEF Keeps, SameGuard
      <4>5. Clear(t) /\ Attached(t)
        BY <2>3, <2>4, <4>1, <4>2, <4>3, <4>4 DEF Clear, Attached, Keeps, SameGuard
      <4> QED
        BY <2>4, <4>5 DEF Mirrors, FleetRight
    <3> QED
      BY <3>1, <3>2 DEF IbSound
  <2>5. CASE Ready(r) /\ \E q \in SyncLocalFromTracker(r) : t \in ApplyFleet(q, q.m.fleet)
    <3>1. PICK q \in SyncLocalFromTracker(r) : t \in ApplyFleet(q, q.m.fleet)
      BY <2>5
    <3>2. Keeps(r, q)
      BY <2>3, <3>1, SyncIs DEF Keeps
    <3>3. q \in IbStates /\ SameGuard(s.m, q.m) /\ q.m.fleet \in SUBSET IPs /\ (q.m.pol.enforce => q.m.have)
      BY <1>1, <2>3, <3>2 DEF Keeps, SameGuard, Decided, IbStates, IbManagers
    <3>4. /\ t \in IbStates /\ SameGuard([q.m EXCEPT !.fleet = q.m.fleet], t.m)
          /\ t.nft.faults = 0 => q.nft.faults = 0
      BY <3>1, <3>3, FleetIs
    <3>5. [q.m EXCEPT !.fleet = q.m.fleet] = q.m
      BY <3>3 DEF IbStates, IbManagers
    <3>6. Decided(t)
      BY <3>3, <3>4, <3>5 DEF Decided, SameGuard
    <3>7. t.nft.faults # 0
      <4> SUFFICES ASSUME t.nft.faults = 0 PROVE FALSE
        OBVIOUS
      <4>1. r.nft.faults = 0 /\ s.nft.faults = 0
        BY <2>3, <3>2, <3>4 DEF Keeps
      <4>2. ~s.m.cap
        BY <1>3, <2>2, <4>1 DEF Attached, IbSound
      <4> QED
        BY <2>3, <2>5, <4>1, <4>2 DEF Unattached
    <3> QED
      BY <3>4, <3>6, <3>7 DEF IbSound
  <2> QED
    BY <2>1, <2>4, <2>5
<1> QED
  BY <1>2, <1>3 DEF RetryEnforcer

\* A failure is dropped, or the address is banned.
LEMMA BanKeeps ==
  ASSUME NEW s, IbSound(s), NEW ip \in IPs, ip \notin Protected(s.m) \cup Active(s.m), NEW t \in Ban(s, ip)
  PROVE  IbSound(t) /\ t.m.seen = s.m.seen
<1> DEFINE b == [s EXCEPT !.m.trk[ip] = "banned", !.m.limited = s.m.limited \ {ip}]
           d == [b EXCEPT !.m.limited = b.m.limited \cup {ip}]
<1>1. s \in IbStates /\ Decided(s)
  BY DEF IbSound
<1>2. \/ ~(s.m.have /\ s.m.pol.enforce /\ Ready(s)) /\ t = b
      \/ t = d
      \/ t = AddLocal(b, {ip}) /\ s.m.have /\ s.m.pol.enforce
      \/ CanFail(s, "add") /\ t = Fail(b)
  BY DEF Ban
<1>3. [s.m.trk EXCEPT ![ip] = "banned"] \in IbTrks /\ s.m.limited \ {ip} \in SUBSET IPs
  BY <1>1 DEF IbStates, IbManagers, IbTrks
<1>4. b.m = [s.m EXCEPT !.trk = [s.m.trk EXCEPT ![ip] = "banned"], !.limited = s.m.limited \ {ip}] /\ b.nft = s.nft
  BY <1>1 DEF IbStates, IbManagers
<1>5. b.m \in IbManagers => b \in IbStates
  BY <1>1 DEF IbStates
<1>6. d.m = [b.m EXCEPT !.limited = b.m.limited \cup {ip}] /\ d.nft = b.nft /\ (b \in IbStates /\ d.m \in IbManagers => d \in IbStates)
  BY <1>1 DEF IbStates, IbManagers
<1> HIDE DEF b, d
<1>7. /\ b.m \in IbManagers /\ b.m.trk = [s.m.trk EXCEPT ![ip] = "banned"] /\ b.m.limited = s.m.limited \ {ip}
      /\ SameRuns(s.m, b.m) /\ b.m.have = s.m.have /\ b.m.pol = s.m.pol /\ b.m.cap = s.m.cap
      /\ b.m.local = s.m.local /\ b.m.fleet = s.m.fleet /\ b.m.seen = s.m.seen
  BY <1>1, <1>3, <1>4 DEF IbStates, IbManagers, SameRuns
<1>8. b \in IbStates
  BY <1>5, <1>7
<1>9. Active(b.m) = Active(s.m) \cup {ip}
  BY <1>1, <1>7 DEF Active, IbStates, IbManagers, IbTrks
<1>10. Protected(b.m) = Protected(s.m) /\ FleetOf(b.m) = FleetOf(s.m)
  BY <1>7, ProtectedAs, FleetAs
\* Any of the outcomes: the ban is written, or counted as over the limit.
<1>11. ASSUME NEW r \in IbStates, r.m.have = s.m.have, r.m.pol = s.m.pol, r.m.cap = s.m.cap, r.m.local = s.m.local,
              r.m.fleet = s.m.fleet, SameRuns(s.m, r.m), Active(r.m) = Active(s.m) \cup {ip}, s.m.limited \ {ip} \subseteq r.m.limited,
              r.nft.faults = s.nft.faults, r.nft.fleet = s.nft.fleet,
              \/ r.nft.local = s.nft.local /\ (ip \in r.m.limited \/ ~(s.m.have /\ s.m.pol.enforce /\ Ready(s)))
              \/ r.nft.local = s.nft.local \cup {ip} /\ s.m.have /\ s.m.pol.enforce
       PROVE  IbSound(r)
  <2>1. Protected(r.m) = Protected(s.m) /\ FleetOf(r.m) = FleetOf(s.m)
    BY <1>11, ProtectedAs, FleetAs
  <2>2. Decided(r) /\ (Ready(r) <=> Ready(s))
    BY <1>1, <1>11 DEF Decided, SameRuns, Ready
  <2>3. ASSUME r.nft.faults = 0 PROVE Clear(r) /\ Mirrors(r) /\ FleetRight(r) /\ Attached(r)
    <3>1. Clear(s) /\ Mirrors(s) /\ FleetRight(s) /\ Attached(s)
      BY <1>11, <2>3 DEF IbSound
    <3>2. Clear(r)
      BY <1>11, <2>1, <3>1 DEF Clear
    <3>3. Mirrors(r)
      BY <1>1, <1>11, <2>2, <3>1 DEF Mirrors, Decided
    <3>4. FleetRight(r)
      BY <1>11, <2>1, <2>2, <3>1 DEF FleetRight
    <3>5. Attached(r)
      BY <1>11, <2>2, <3>1 DEF Attached
    <3> QED
      BY <3>2, <3>3, <3>4, <3>5
  <2> QED
    BY <2>2, <2>3 DEF IbSound
<1>12. CASE ~(s.m.have /\ s.m.pol.enforce /\ Ready(s)) /\ t = b
  BY <1>4, <1>7, <1>8, <1>9, <1>11, <1>12
<1>13. CASE t = d
  <2>1. b.m.limited \cup {ip} \in SUBSET IPs
    BY <1>1, <1>7 DEF IbStates, IbManagers
  <2>2. /\ d.m \in IbManagers /\ d.m.limited = b.m.limited \cup {ip} /\ d.m.trk = b.m.trk /\ SameRuns(b.m, d.m)
        /\ d.m.have = b.m.have /\ d.m.pol = b.m.pol /\ d.m.cap = b.m.cap /\ d.m.local = b.m.local /\ d.m.fleet = b.m.fleet
        /\ d.m.seen = b.m.seen
    BY <1>6, <1>7, <2>1 DEF IbManagers, SameRuns
  <2>3. Active(d.m) = Active(b.m)
    BY <2>2 DEF Active
  <2>4. SameRuns(s.m, d.m)
    BY <1>7, <2>2 DEF SameRuns
  <2>5. d \in IbStates
    BY <1>6, <1>8, <2>2
  <2> QED
    BY <1>4, <1>6, <1>7, <1>9, <1>11, <1>13, <2>2, <2>3, <2>4, <2>5
<1>14. CASE t = AddLocal(b, {ip}) /\ s.m.have /\ s.m.pol.enforce
  <2>1. t \in IbStates /\ t.m = b.m /\ t.nft.local = b.nft.local \cup {ip} /\ t.nft.fleet = b.nft.fleet /\ t.nft.faults = b.nft.faults
    BY <1>8, <1>14, AddIs
  <2> QED
    BY <1>4, <1>7, <1>9, <1>11, <1>14, <2>1
<1>15. CASE CanFail(s, "add") /\ t = Fail(b)
  <2>1. CanFail(b, "add")
    BY <1>4, <1>15 DEF CanFail
  <2>2. t \in IbStates /\ t.nft.faults # 0 /\ SameGuard(b.m, t.m) /\ t.m.seen = b.m.seen
    BY <1>8, <1>15, <2>1, FailIs
  <2>3. Decided(t)
    BY <1>1, <1>7, <2>2 DEF Decided, SameGuard
  <2> QED
    BY <1>7, <2>2, <2>3 DEF IbSound
<1> QED
  BY <1>2, <1>12, <1>13, <1>14, <1>15

\* A login failure keeps the invariant.
LEMMA FailureKeeps ==
  ASSUME NEW s, IbSound(s), NEW ip \in IPs, NEW t \in HandleFailure(s, ip)
  PROVE  IbSound(t) /\ t.m.seen = s.m.seen
<1> DEFINE r == [s EXCEPT !.m.failures = s.m.failures \ {ip}]
<1>1. s \in IbStates
  BY DEF IbSound
<1>2. /\ r \in IbStates /\ SameGuard(s.m, r.m) /\ SameRuns(s.m, r.m) /\ r.m.trk = s.m.trk /\ r.nft = s.nft
      /\ r.m.seen = s.m.seen
  BY <1>1 DEF IbStates, IbManagers, SameGuard, SameRuns
<1>3. t = r \/ (ip \notin Protected(r.m) \cup Active(r.m) /\ t \in Ban(r, ip))
  BY DEF HandleFailure
<1> HIDE DEF r
<1>4. Active(r.m) = Active(s.m)
  BY <1>2 DEF Active
<1>5. IbSound(r)
  BY <1>2, <1>4, SoundAs
<1> QED
  BY <1>2, <1>3, <1>5, BanKeeps

\* Applying a policy: the stages of apply, each on what the one before has left.
Stages(s, set, cfg, a, b, c, d, e, t) ==
  /\ a \in RefreshLocalAddrs(set) /\ b = SetSource(a, set.m.pol.detect)
  /\ IF set.m.pol.enforce
     THEN \E q \in EnsureEnforcer(b) : IF Ready(q) /\ ~(s.m.have /\ s.m.pol.enforce)
                                       THEN c \in SyncLocalFromTracker(q) ELSE c = q
     ELSE c \in DisableEnforcement(b)
  /\ d \in ReconcileProtected(c) /\ e \in ApplyUnbans(d, cfg.cmds) /\ t \in ApplyFleet(e, cfg.fleet)

\* An application passes through these stages.
LEMMA StagesAre ==
  ASSUME NEW s, NEW cfg, NEW t \in ApplyPolicy(s, cfg)
  PROVE  \E a, b, c, d, e : Stages(s, Take(s, cfg), cfg, a, b, c, d, e, t)
<1> DEFINE set == Take(s, cfg)
           prev == s.m.have /\ s.m.pol.enforce
           Sourced == UNION {{SetSource(x, set.m.pol.detect)} : x \in RefreshLocalAddrs(set)}
           Switch(y) == IF set.m.pol.enforce
                        THEN UNION {IF Ready(x) /\ ~prev THEN SyncLocalFromTracker(x) ELSE {x} : x \in EnsureEnforcer(y)}
                        ELSE DisableEnforcement(y)
           Switched == UNION {Switch(y) : y \in Sourced}
           Reconciled == UNION {ReconcileProtected(y) : y \in Switched}
           Lifted == UNION {ApplyUnbans(y, cfg.cmds) : y \in Reconciled}
<1>1. t \in UNION {ApplyFleet(y, cfg.fleet) : y \in Lifted}
  BY DEF ApplyPolicy, AndThen
<1> HIDE DEF set, Lifted, Reconciled, Switched, Sourced, Switch
<1>2. PICK e \in Lifted : t \in ApplyFleet(e, cfg.fleet)
  BY <1>1
<1>3. PICK d \in Reconciled : e \in ApplyUnbans(d, cfg.cmds)
  BY <1>2 DEF Lifted
<1>4. PICK c \in Switched : d \in ReconcileProtected(c)
  BY <1>3 DEF Reconciled
<1>5. PICK b \in Sourced : c \in Switch(b)
  BY <1>4 DEF Switched
<1>6. PICK a \in RefreshLocalAddrs(set) : b = SetSource(a, set.m.pol.detect)
  BY <1>5 DEF Sourced
<1>7. IF set.m.pol.enforce
      THEN \E q \in EnsureEnforcer(b) : IF Ready(q) /\ ~prev THEN c \in SyncLocalFromTracker(q) ELSE c = q
      ELSE c \in DisableEnforcement(b)
  <2>1. CASE set.m.pol.enforce
    <3>1. PICK q \in EnsureEnforcer(b) : c \in IF Ready(q) /\ ~prev THEN SyncLocalFromTracker(q) ELSE {q}
      BY <1>5, <2>1 DEF Switch
    <3> QED
      BY <2>1, <3>1
  <2>2. CASE ~set.m.pol.enforce
    BY <1>5, <2>2 DEF Switch
  <2> QED
    BY <2>1, <2>2
<1>8. Stages(s, set, cfg, a, b, c, d, e, t)
  BY <1>2, <1>3, <1>4, <1>6, <1>7 DEF Stages
<1> QED
  BY <1>8 DEF set

\* The switch, on a state whose bans are clear of what is protected: the kernel
\* mirrors the tracker again, and a host that can enforce does.
LEMMA SwitchIs ==
  ASSUME NEW s, IbSound(s), NEW b \in IbStates, NEW c, Decided(b), b.m.cap = s.m.cap, b.m.limited = s.m.limited,
         b.nft.faults = 0 => /\ s.nft.faults = 0 /\ Clear(b) /\ SameRuns(s.m, b.m)
                             /\ \E R \in SUBSET IPs : /\ Active(b.m) = Active(s.m) \ R
                                                      /\ b.nft.local = IF Ready(s) THEN s.nft.local \ R ELSE s.nft.local,
         IF b.m.pol.enforce
         THEN \E q \in EnsureEnforcer(b) : IF Ready(q) /\ ~(s.m.have /\ s.m.pol.enforce)
                                           THEN c \in SyncLocalFromTracker(q) ELSE c = q
         ELSE c \in DisableEnforcement(b)
  PROVE  Keeps(b, c) /\ (c.nft.faults = 0 => Clear(c) /\ Mirrors(c) /\ Attached(c))
<1>1. b.nft.faults = 0 => (Ready(b) <=> Ready(s))
  BY DEF SameRuns, Ready
<1>2. CASE ~b.m.pol.enforce
  <2>1. Keeps(b, c) /\ (c.nft.faults = 0 => IF Ready(b) THEN c.m = b.m /\ c.nft.local = {} ELSE c = b)
    BY <1>2, DisableIs
  <2>2. ASSUME c.nft.faults = 0 PROVE Clear(c) /\ Mirrors(c) /\ Attached(c)
    <3>1. Clear(b) /\ c.m = b.m /\ (Ready(c) => c.nft.local = {})
      BY <2>1, <2>2 DEF Keeps
    <3> QED
      BY <1>2, <3>1 DEF Clear, Mirrors, Attached
  <2> QED
    BY <2>1, <2>2
<1>3. CASE b.m.pol.enforce
  <2>1. PICK q \in EnsureEnforcer(b) : IF Ready(q) /\ ~(s.m.have /\ s.m.pol.enforce)
                                       THEN c \in SyncLocalFromTracker(q) ELSE c = q
    BY <1>3
  <2>2. Keeps(b, q) /\ (q.nft.faults = 0 => IF Ready(b) THEN q = b ELSE IF b.m.cap THEN Adopted(b, q) ELSE Unattached(b, q))
    BY EnsureIs
  <2>3. Keeps(q, c) /\ (c.nft.faults = 0 => c = q \/ (~(s.m.have /\ s.m.pol.enforce) /\ Synced(q, c)))
    <3>1. CASE c = q
      BY <2>2, <3>1 DEF Keeps, SameGuard
    <3>2. CASE c \in SyncLocalFromTracker(q) /\ ~(s.m.have /\ s.m.pol.enforce)
      BY <2>2, <3>2, SyncIs DEF Keeps
    <3> QED
      BY <2>1, <3>1, <3>2
  <2>4. Keeps(b, c)
    BY <2>2, <2>3 DEF Keeps, SameGuard
  <2>5. ASSUME c.nft.faults = 0 PROVE Clear(c) /\ Mirrors(c) /\ Attached(c)
    <3>1. q.nft.faults = 0 /\ b.nft.faults = 0 /\ s.nft.faults = 0
      BY <2>2, <2>3, <2>5 DEF Keeps
    <3>2. Clear(b) /\ Mirrors(s) /\ Attached(s)
      BY <3>1 DEF IbSound
    <3>3. PICK R \in SUBSET IPs : /\ Active(b.m) = Active(s.m) \ R
                                  /\ b.nft.local = IF Ready(s) THEN s.nft.local \ R ELSE s.nft.local
      BY <3>1
    <3>4. Protected(q.m) = Protected(b.m) /\ Protected(c.m) = Protected(b.m)
      BY <2>2, <2>4, ProtectedAs DEF Keeps, SameGuard
    <3>5. Active(c.m) = Active(q.m) /\ (Ready(c) <=> Ready(q))
          /\ (c.nft.local = q.nft.local \/ (~(s.m.have /\ s.m.pol.enforce) /\ (Ready(q) => c.nft.local = q.nft.local \cup Active(q.m))))
      BY <2>3, <2>5 DEF Synced, Ready
    <3>6. c.m.pol = b.m.pol /\ c.m.limited = s.m.limited /\ c.m.cap = s.m.cap
      BY <2>4 DEF Keeps, SameGuard
    <3>7. Active(q.m) \cap Protected(b.m) = {} /\ (Ready(q) => q.nft.local \subseteq Active(q.m)) /\ (Ready(q) \/ ~s.m.cap)
      <4>1. CASE Ready(b)
        BY <1>1, <2>2, <3>1, <3>2, <3>3, <4>1 DEF Clear, Mirrors
      <4>2. CASE ~Ready(b) /\ b.m.cap
        BY <2>2, <3>1, <3>2, <4>2 DEF Clear, Adopted
      <4>3. CASE ~Ready(b) /\ ~b.m.cap
        BY <2>2, <3>1, <3>2, <4>3 DEF Clear, Unattached
      <4> QED
        BY <4>1, <4>2, <4>3
    <3>8. ASSUME Ready(q) PROVE Active(c.m) \ c.nft.local \subseteq s.m.limited
      <4>1. CASE ~(s.m.have /\ s.m.pol.enforce)
        <5>1. c \in SyncLocalFromTracker(q)
          BY <2>1, <3>8, <4>1
        <5>2. Synced(q, c)
          BY <2>2, <2>5, <5>1, SyncIs DEF Keeps
        <5> QED
          BY <3>8, <5>2 DEF Synced
      <4>2. CASE s.m.have /\ s.m.pol.enforce
        <5>1. Ready(b) /\ q = b
          BY <1>1, <2>2, <3>1, <3>2, <3>8, <4>2 DEF Attached, Unattached
        <5> QED
          BY <1>1, <2>1, <3>1, <3>2, <3>3, <4>2, <5>1 DEF Mirrors
      <4> QED
        BY <4>1, <4>2
    <3>9. Clear(c) /\ Attached(c)
      BY <3>4, <3>5, <3>6, <3>7 DEF Clear, Attached
    <3>10. Mirrors(c)
      BY <1>3, <3>5, <3>6, <3>7, <3>8 DEF Mirrors
    <3> QED
      BY <3>9, <3>10
  <2> QED
    BY <2>4, <2>5
<1> QED
  BY <1>2, <1>3

\* What the first lines of apply leave.
LEMMA TakeIs ==
  ASSUME NEW s \in IbStates, NEW cfg, ConfigOK(cfg)
  PROVE  LET r == Take(s, cfg)
         IN /\ r \in IbStates /\ r.nft = s.nft /\ r.m.trk = s.m.trk /\ SameRuns(s.m, r.m) /\ r.m.have = TRUE
            /\ r.m.cap = s.m.cap /\ r.m.limited = s.m.limited /\ r.m.local = s.m.local /\ r.m.fleet = s.m.fleet
            /\ r.m.pol.detect \in BOOLEAN /\ r.m.seen = s.m.seen
<1> DEFINE pol == [cfg.pol EXCEPT !.enforce = cfg.pol.enforce /\ cfg.pol.allow # {}]
           g == [s.m EXCEPT !.pol = pol, !.have = TRUE, !.applied = cfg.version]
<1>1. cfg.pol \in PolicySet /\ cfg.version \in 0..MaxVersion
  BY IbConstants DEF ConfigOK
<1>2. pol \in PolicySet /\ pol.detect \in BOOLEAN
  BY <1>1 DEF PolicySet
<1>3. Take(s, cfg) = [s EXCEPT !.m = g]
  BY DEF Take, IbStates, IbManagers
<1> HIDE DEF pol
<1>4. /\ g \in IbManagers /\ g.trk = s.m.trk /\ SameRuns(s.m, g) /\ g.have = TRUE /\ g.cap = s.m.cap
      /\ g.limited = s.m.limited /\ g.local = s.m.local /\ g.fleet = s.m.fleet /\ g.pol = pol
      /\ g.seen = s.m.seen
  BY <1>1, <1>2 DEF IbStates, IbManagers, SameRuns
<1> HIDE DEF g
<1>5. Take(s, cfg).m = g /\ Take(s, cfg).nft = s.nft /\ Take(s, cfg) \in IbStates
  BY <1>3, <1>4 DEF IbStates
<1> QED
  BY <1>2, <1>4, <1>5

\* What starting or stopping the source leaves.
LEMMA SourceIs ==
  ASSUME NEW s \in IbStates, NEW detect \in BOOLEAN
  PROVE  LET t == SetSource(s, detect)
         IN /\ t \in IbStates /\ t.nft = s.nft /\ t.m.trk = s.m.trk /\ SameGuard(s.m, t.m) /\ SameRuns(s.m, t.m)
            /\ t.m.seen = s.m.seen
BY DEF SetSource, IbStates, IbManagers, SameGuard, SameRuns

\* A command counts as carried out only where its address is out of tracker and kernel.
UnbansHonestly(s, t) ==
  \A u \in t.m.seen \ s.m.seen : u.ip \notin Active(t.m) /\ (t.m.pol.enforce => u.ip \notin t.nft.local)

\* The application of a policy keeps the invariant.
LEMMA PolicyKeeps ==
  ASSUME NEW s, IbSound(s), NEW cfg, ConfigOK(cfg), NEW t \in ApplyPolicy(s, cfg)
  PROVE  IbSound(t) /\ UnbansHonestly(s, t)
<1> DEFINE set == Take(s, cfg)
<1>1. PICK a, b, c, d, e : Stages(s, set, cfg, a, b, c, d, e, t)
  BY StagesAre
<1>2. s \in IbStates /\ Decided(s)
  BY DEF IbSound
<1>3. /\ set \in IbStates /\ set.nft = s.nft /\ set.m.trk = s.m.trk /\ SameRuns(s.m, set.m) /\ set.m.have = TRUE
      /\ set.m.cap = s.m.cap /\ set.m.limited = s.m.limited /\ set.m.local = s.m.local /\ set.m.fleet = s.m.fleet
      /\ set.m.pol.detect \in BOOLEAN /\ set.m.seen = s.m.seen
  BY <1>2, TakeIs
<1> HIDE DEF set
<1>4. Active(set.m) = Active(s.m) /\ (Ready(set) <=> Ready(s)) /\ Decided(set)
  BY <1>3 DEF Active, SameRuns, Ready, Decided
<1>5. /\ a \in IbStates /\ SameButGuard(set.m, a.m) /\ a.m.seen = set.m.seen
      /\ a.nft.faults = 0 => set.nft.faults = 0 /\ Refreshed(set, a)
  BY <1>1, <1>3, <1>4, RefreshIs DEF Stages
<1>6. b \in IbStates /\ b.nft = a.nft /\ b.m.trk = a.m.trk /\ SameGuard(a.m, b.m) /\ SameRuns(a.m, b.m) /\ b.m.seen = a.m.seen
  BY <1>1, <1>3, <1>5, SourceIs DEF Stages
<1>7. Decided(b) /\ b.m.cap = s.m.cap /\ b.m.limited = s.m.limited /\ b.m.pol = set.m.pol
  BY <1>3, <1>4, <1>5, <1>6 DEF Decided, SameGuard, SameButGuard
<1>8. b.nft.faults = 0 => /\ s.nft.faults = 0 /\ Clear(b) /\ SameRuns(s.m, b.m)
                          /\ \E R \in SUBSET IPs : /\ Active(b.m) = Active(s.m) \ R
                                                   /\ b.nft.local = IF Ready(s) THEN s.nft.local \ R ELSE s.nft.local
  <2> SUFFICES ASSUME b.nft.faults = 0
               PROVE  /\ s.nft.faults = 0 /\ Clear(b) /\ SameRuns(s.m, b.m)
                      /\ \E R \in SUBSET IPs : /\ Active(b.m) = Active(s.m) \ R
                                               /\ b.nft.local = IF Ready(s) THEN s.nft.local \ R ELSE s.nft.local
    OBVIOUS
  <2>1. s.nft.faults = 0 /\ Refreshed(set, a)
    BY <1>3, <1>5, <1>6
  <2>2. Active(b.m) = Active(a.m) /\ Protected(b.m) = Protected(a.m)
    BY <1>6, ProtectedAs DEF Active, SameGuard
  <2>3. SameRuns(s.m, b.m)
    BY <1>3, <1>6, <2>1 DEF Refreshed, SameRuns
  <2>4. Clear(b)
    BY <2>1, <2>2 DEF Clear, Refreshed
  <2> DEFINE R == Active(s.m) \cap Protected(a.m)
  <2>5. R \in SUBSET IPs
    BY <1>2, ActiveIs
  <2>6. Active(b.m) = Active(s.m) \ R /\ b.nft.local = IF Ready(s) THEN s.nft.local \ R ELSE s.nft.local
    BY <1>3, <1>4, <1>6, <2>1, <2>2 DEF Refreshed
  <2> QED
    BY <2>1, <2>3, <2>4, <2>5, <2>6
<1>9. Keeps(b, c) /\ (c.nft.faults = 0 => Clear(c) /\ Mirrors(c) /\ Attached(c))
  <2>1. IF b.m.pol.enforce
        THEN \E q \in EnsureEnforcer(b) : IF Ready(q) /\ ~(s.m.have /\ s.m.pol.enforce)
                                          THEN c \in SyncLocalFromTracker(q) ELSE c = q
        ELSE c \in DisableEnforcement(b)
    BY <1>1, <1>7 DEF Stages
  <2> QED
    BY <1>6, <1>7, <1>8, <2>1, SwitchIs
<1>10. Keeps(c, d) /\ (d.nft.faults = 0 => Released(c, d))
  BY <1>1, <1>9, ReconcileIs DEF Stages, Keeps
<1>11. cfg.cmds \in Seq(Cmds) /\ cfg.fleet \in SUBSET IPs
  BY DEF ConfigOK
<1>12. Lifts(d, e)
  BY <1>1, <1>10, <1>11, UnbansAre DEF Stages, Keeps
<1>13. e \in IbStates /\ SameGuard(b.m, e.m) /\ SameGuard(c.m, e.m)
  BY <1>9, <1>10, <1>12 DEF Keeps, Lifts, SameGuard
<1>14. e.m.pol.enforce => e.m.have
  BY <1>7, <1>13 DEF Decided, SameGuard
<1>15. /\ t \in IbStates /\ SameGuard([e.m EXCEPT !.fleet = cfg.fleet], t.m) /\ t.m.seen = e.m.seen /\ t.m.trk = e.m.trk
       /\ t.nft.local = e.nft.local
       /\ t.nft.faults = 0 => /\ e.nft.faults = 0 /\ SameRuns(e.m, t.m) /\ t.nft.local = e.nft.local
                              /\ Active(t.m) = Active(e.m) /\ (Ready(e) => t.nft.fleet = FleetOf(t.m))
  BY <1>1, <1>11, <1>13, <1>14, FleetIs DEF Stages
<1>16. t.m.have = c.m.have /\ t.m.pol = c.m.pol /\ t.m.cap = c.m.cap /\ t.m.limited = c.m.limited /\ t.m.local = c.m.local
  BY <1>13, <1>15 DEF SameGuard, IbStates, IbManagers
<1>17. Decided(t)
  BY <1>13, <1>14, <1>16 DEF Decided, SameGuard
<1>18. ASSUME t.nft.faults = 0 PROVE Clear(t) /\ Mirrors(t) /\ FleetRight(t) /\ Attached(t)
  <2>1. e.nft.faults = 0 /\ d.nft.faults = 0 /\ c.nft.faults = 0
    BY <1>10, <1>12, <1>15, <1>18 DEF Keeps, Lifts
  <2>2. Clear(c) /\ Mirrors(c) /\ Attached(c) /\ Released(c, d) /\ Sheds(d, e)
    BY <1>9, <1>10, <1>12, <1>15, <1>18, <2>1 DEF Lifts
  <2>3. (Ready(t) <=> Ready(c)) /\ (Ready(t) <=> Ready(d)) /\ (Ready(t) <=> Ready(e))
    BY <1>15, <1>18, <2>2 DEF Released, Sheds, SameRuns, Ready
  <2>4. Active(d.m) = Active(c.m) /\ d.nft.local = c.nft.local
    BY <2>2 DEF Clear, Released
  <2>5. PICK R \in SUBSET IPs : /\ Active(e.m) = Active(d.m) \ R
                                /\ e.nft.local = IF Ready(d) THEN d.nft.local \ R ELSE d.nft.local
    BY <2>2 DEF Sheds
  <2>6. Active(t.m) = Active(c.m) \ R /\ (Ready(t) => t.nft.local = c.nft.local \ R)
    BY <1>15, <1>18, <2>3, <2>4, <2>5
  <2>7. Protected(t.m) = Protected(c.m)
    BY <1>16, ProtectedAs
  <2>8. Clear(t)
    BY <2>2, <2>6, <2>7 DEF Clear
  <2>9. Mirrors(t)
    BY <1>16, <2>2, <2>3, <2>6 DEF Mirrors
  <2>10. FleetRight(t)
    BY <1>15, <1>18, <2>3 DEF FleetRight
  <2>11. Attached(t)
    BY <1>16, <2>2, <2>3 DEF Attached
  <2> QED
    BY <2>8, <2>9, <2>10, <2>11
<1>19. UnbansHonestly(s, t)
  <2>1. d.m.seen = s.m.seen
    BY <1>3, <1>5, <1>6, <1>9, <1>10 DEF Keeps
  <2>2. Honest(d, e)
    BY <1>12 DEF Lifts
  <2>3. t.m.pol = e.m.pol /\ Active(t.m) = Active(e.m)
    BY <1>13, <1>15, <1>16 DEF SameGuard, Active
  <2> QED
    BY <1>15, <2>1, <2>2, <2>3 DEF Honest, UnbansHonestly
<1> QED
  BY <1>15, <1>17, <1>18, <1>19 DEF IbSound

-----------------------------------------------------------------------------
(* The invariant, action by action.                                        *)

\* The answers of AgentConfig, the state between two cases, and the rest.
IbConfigs == [version : 1..MaxVersion, pol : Policies, fleet : SUBSET IPs, cmds : Seq(Cmds), issued : 0..MaxCmds]
IbNow == IbSound(State)
IbRest ==
  /\ srv \in IbConfigs /\ inflight \in IbConfigs \cup {NoConfig} /\ aged \subseteq 1..MaxCmds
  /\ alive \in BOOLEAN /\ crashes \in 0..MaxCrashes /\ done \subseteq Cmds
IbIInv == IbNow /\ IbRest

\* An answer fits the types.
LEMMA ConfigsFit ==
  ASSUME NEW c \in IbConfigs
  PROVE  ConfigOK(c)
BY DEF IbConfigs, ConfigOK

\* One case of the select, handled.
LEMMA HandledIs ==
  ASSUME NEW S, Handled(S), \A s \in S : IbSound(s)
  PROVE  IbNow' /\ State' \in IbStates
<1>1. PICK s \in S : m' = s.m /\ nft' = s.nft
  BY DEF Handled
<1>2. s \in IbStates /\ IbSound(s)
  BY DEF IbSound
<1>3. s = State'
  BY <1>1, <1>2 DEF State, IbStates
<1> QED
  BY <1>2, <1>3 DEF IbNow

\* The state as the handlers see it.
LEMMA StateIs ==
  ASSUME IbNow
  PROVE  /\ State \in IbStates /\ State.m = m /\ State.nft = nft /\ m \in IbManagers /\ nft \in IbKernels
         /\ IbSound(State)
BY DEF IbNow, IbSound, IbStates, State

\* A manager that starts has no enforcer and nothing in its tracker.
LEMMA NewIs ==
  ASSUME NEW c \in Caps, NEW k \in IbKernels
  PROVE  IbSound([m |-> NewManager(c), nft |-> k])
<1> DEFINE g == NewManager(c)
           s == [m |-> g, nft |-> k]
<1>1. OffPolicy \in PolicySet /\ ~OffPolicy.enforce
  BY DEF OffPolicy, PolicySet
<1>2. [ip \in IPs |-> "none"] \in IbTrks
  BY DEF IbTrks
<1>3. /\ g \in IbManagers /\ g.pol = OffPolicy /\ g.have = FALSE /\ g.enforcer = FALSE /\ g.trk = [ip \in IPs |-> "none"]
  BY <1>1, <1>2, IbConstants DEF NewManager, IbManagers
<1> HIDE DEF g
<1>4. s \in IbStates /\ s.m = g
  BY <1>3 DEF IbStates
<1>5. Active(g) = {}
  BY <1>3 DEF Active
<1>6. ~Ready(s) /\ Decided(s) /\ Clear(s) /\ Attached(s)
  BY <1>1, <1>3, <1>4, <1>5 DEF Ready, Decided, Clear, Attached
<1> QED
  BY <1>4, <1>6 DEF IbSound, Mirrors, FleetRight, g

\* The agent starts in the invariant.
LEMMA IbInitStep ==
  ASSUME IbInit
  PROVE  IbIInv
<1>1. PICK c \in Caps : m = NewManager(c)
  BY DEF IbInit
<1>2. nft \in IbKernels
  BY IbConstants DEF IbInit, IbKernels
<1>3. IbNow
  BY <1>1, <1>2, NewIs DEF IbNow, State
<1>4. srv \in IbConfigs
  BY IbConstants DEF IbInit, IbConfigs
<1>5. IbRest
  BY <1>4, IbConstants DEF IbInit, IbRest
<1> QED
  BY <1>3, <1>5 DEF IbIInv

\* A failure that is queued keeps the invariant.
LEMMA EnqueueStep ==
  ASSUME IbIInv, NEW ip \in IPs, Enqueue(ip)
  PROVE  IbIInv'
<1>1. /\ State \in IbStates /\ State.m = m /\ State.nft = nft /\ m \in IbManagers /\ nft \in IbKernels /\ IbSound(State)
  BY StateIs DEF IbIInv
<1> DEFINE t == State'
<1>2. /\ m' \in IbManagers /\ SameGuard(m, m') /\ SameRuns(m, m') /\ m'.trk = m.trk /\ nft' = nft
  BY <1>1 DEF Enqueue, IbManagers, SameGuard, SameRuns
<1>3. t \in IbStates /\ t.m = m' /\ t.nft = nft'
  BY <1>1, <1>2 DEF State, IbStates
<1>4. Active(m') = Active(m)
  BY <1>2 DEF Active
<1> HIDE DEF t
<1>5. IbSound(t)
  BY <1>1, <1>2, <1>3, <1>4, SoundAs
<1>6. IbRest'
  BY DEF IbIInv, IbRest, Enqueue
<1> QED
  BY <1>5, <1>6 DEF IbIInv, IbNow, t

\* A failure that is handled keeps it.
LEMMA LoginFailureStep ==
  ASSUME IbIInv, NEW ip \in IPs, LoginFailure(ip)
  PROVE  IbIInv'
<1>1. IbNow'
  BY StateIs, FailureKeeps, HandledIs DEF IbIInv, LoginFailure
<1>2. IbRest'
  BY DEF IbIInv, IbRest, LoginFailure
<1> QED
  BY <1>1, <1>2 DEF IbIInv

\* A fetch keeps it until it is applied.
LEMMA FetchStep ==
  ASSUME IbIInv, FetchRead \/ FetchFails
  PROVE  IbIInv'
<1>1. UNCHANGED <<m, nft>>
  BY DEF FetchRead, FetchFails
<1>2. IbNow'
  BY <1>1 DEF IbIInv, IbNow, State
<1>3. IbRest'
  BY DEF IbIInv, IbRest, FetchRead, FetchFails
<1> QED
  BY <1>2, <1>3 DEF IbIInv

\* An answer that is applied keeps it.
LEMMA FetchApplyStep ==
  ASSUME IbIInv, FetchApply
  PROVE  IbIInv'
<1>1. inflight \in IbConfigs
  BY DEF IbIInv, IbRest, FetchApply
<1>2. ConfigOK(inflight)
  BY <1>1, ConfigsFit
<1>3. \A t \in ApplyPolicy(State, inflight) : IbSound(t)
  BY <1>2, StateIs, PolicyKeeps DEF IbIInv
<1>4. IbNow' /\ State' \in IbStates
  BY <1>3, HandledIs DEF FetchApply
<1>5. m'.seen \in SUBSET Cmds
  BY <1>4 DEF State, IbStates, IbManagers
<1>6. IbRest'
  BY <1>5 DEF IbIInv, IbRest, FetchApply
<1> QED
  BY <1>4, <1>6 DEF IbIInv

\* Bans that have lapsed and commands that are old are forgotten; then the retry.
LEMMA PrunedIs ==
  ASSUME IbIInv, PruneTick
  PROVE  \E g \in IbStates : IbSound(g) /\ g.m.seen \subseteq m.seen /\ Handled(RetryEnforcer(g))
<1>1. /\ State \in IbStates /\ State.m = m /\ State.nft = nft /\ m \in IbManagers /\ nft \in IbKernels /\ IbSound(State)
  BY StateIs DEF IbIInv
<1>2. PICK lapsed \in SUBSET {ip \in IPs : m.trk[ip] = "lapsed"}, old \in SUBSET {u \in m.seen : u.id \in aged} :
        Handled(RetryEnforcer([State EXCEPT !.m.trk = SetTrk(m, lapsed, "none"), !.m.seen = State.m.seen \ old]))
  BY DEF PruneTick
<1> DEFINE t == [State EXCEPT !.m.trk = SetTrk(m, lapsed, "none"), !.m.seen = State.m.seen \ old]
<1>3. SetTrk(m, lapsed, "none") \in IbTrks /\ m.seen \ old \in SUBSET Cmds
  BY <1>1 DEF SetTrk, IbManagers, IbTrks
<1>4. t = [State EXCEPT !.m = [m EXCEPT !.trk = SetTrk(m, lapsed, "none"), !.seen = m.seen \ old]]
  BY <1>1 DEF IbStates, IbManagers
<1>5. Handled(RetryEnforcer(t))
  BY <1>2
<1> HIDE DEF t
<1>6. t.m = [m EXCEPT !.trk = SetTrk(m, lapsed, "none"), !.seen = m.seen \ old] /\ t.nft = nft /\ (t.m \in IbManagers => t \in IbStates)
  BY <1>1, <1>4 DEF IbStates
<1>7. t.m \in IbManagers /\ SameGuard(m, t.m) /\ SameRuns(m, t.m) /\ t.m.trk = SetTrk(m, lapsed, "none")
  BY <1>1, <1>3, <1>6 DEF IbManagers, SameGuard, SameRuns
<1>8. Active(t.m) = Active(m)
  BY <1>7 DEF Active, SetTrk
<1>9. IbSound(t)
  BY <1>1, <1>6, <1>7, <1>8, SoundAs
<1>10. t.m.seen \subseteq m.seen /\ t \in IbStates
  BY <1>1, <1>6, <1>7 DEF IbManagers
<1> QED
  BY <1>5, <1>9, <1>10

\* The minute ticker keeps it.
LEMMA PruneTickStep ==
  ASSUME IbIInv, PruneTick
  PROVE  IbIInv'
<1>1. IbNow'
  BY PrunedIs, RetryKeeps, HandledIs
<1>2. IbRest'
  BY DEF IbIInv, IbRest, PruneTick
<1> QED
  BY <1>1, <1>2 DEF IbIInv

\* The refresh keeps it.
LEMMA RefreshTickStep ==
  ASSUME IbIInv, RefreshTick
  PROVE  IbIInv'
<1>1. IbNow'
  BY StateIs, RefreshKeeps, HandledIs DEF IbIInv, RefreshTick
<1>2. IbRest'
  BY DEF IbIInv, IbRest, RefreshTick
<1> QED
  BY <1>1, <1>2 DEF IbIInv

\* A process that ends keeps it: the table stays.
LEMMA StopStep ==
  ASSUME IbIInv, Stop
  PROVE  IbIInv'
<1>1. IbNow'
  BY DEF IbIInv, IbNow, State, Stop
<1>2. crashes' \in 0..MaxCrashes
  BY IbConstants DEF IbIInv, IbRest, Stop
<1>3. IbRest'
  BY <1>2, Zenon DEF IbIInv, IbRest, Stop
<1> QED
  BY <1>1, <1>3 DEF IbIInv

\* A process that starts keeps it.
LEMMA StartStep ==
  ASSUME IbIInv, Start
  PROVE  IbIInv'
<1>1. PICK c \in Caps : m' = NewManager(c)
  BY DEF Start
<1>2. nft' \in IbKernels
  BY StateIs DEF IbIInv, Start
<1>3. IbNow'
  BY <1>1, <1>2, NewIs DEF IbNow, State
<1>4. IbRest'
  BY DEF IbIInv, IbRest, Start
<1> QED
  BY <1>3, <1>4 DEF IbIInv

\* A ban ends: in the tracker and in the kernel.
LEMMA ExpireStep ==
  ASSUME IbIInv, NEW ip \in IPs, Expire(ip)
  PROVE  IbIInv'
<1>1. /\ State \in IbStates /\ State.m = m /\ State.nft = nft /\ m \in IbManagers /\ nft \in IbKernels /\ IbSound(State)
  BY StateIs DEF IbIInv
<1> DEFINE t == State'
           trk == [m.trk EXCEPT ![ip] = IF m.trk[ip] = "banned" THEN "lapsed" ELSE m.trk[ip]]
<1>2. trk \in IbTrks
  BY <1>1 DEF IbManagers, IbTrks
<1>3. m' = [m EXCEPT !.trk = trk] /\ nft' = [nft EXCEPT !.local = nft.local \ {ip}]
  BY <1>1 DEF Expire, IbManagers
<1>4. Active([m EXCEPT !.trk = trk]) = Active(m) \ {ip}
  <2>1. [m EXCEPT !.trk = trk].trk = trk
    BY <1>1 DEF IbManagers
  <2> HIDE DEF trk
  <2>2. Active([m EXCEPT !.trk = trk]) = {q \in IPs : trk[q] = "banned"}
    BY <2>1 DEF Active
  <2> USE DEF trk
  <2>3. \A q \in IPs : trk[q] = "banned" <=> m.trk[q] = "banned" /\ q # ip
    BY <1>1 DEF IbManagers, IbTrks
  <2> QED
    BY <2>2, <2>3 DEF Active
<1> HIDE DEF trk
<1>5. m' \in IbManagers /\ SameGuard(m, m') /\ SameRuns(m, m') /\ Active(m') = Active(m) \ {ip}
  BY <1>1, <1>2, <1>3, <1>4 DEF IbManagers, SameGuard, SameRuns
<1>6. nft' \in IbKernels /\ nft'.local = nft.local \ {ip} /\ nft'.fleet = nft.fleet /\ nft'.faults = nft.faults
  BY <1>1, <1>3 DEF IbKernels
<1>7. t \in IbStates /\ t.m = m' /\ t.nft = nft'
  BY <1>5, <1>6 DEF State, IbStates
<1> HIDE DEF t
<1>8. Protected(t.m) = Protected(State.m) /\ FleetOf(t.m) = FleetOf(State.m) /\ (Ready(t) <=> Ready(State))
  BY <1>1, <1>5, <1>7, ProtectedAs, FleetAs DEF SameGuard, SameRuns, Ready
<1>9. Decided(t)
  BY <1>1, <1>5, <1>7 DEF IbSound, Decided, SameGuard
<1>10. ASSUME t.nft.faults = 0 PROVE Clear(t) /\ Mirrors(t) /\ FleetRight(t) /\ Attached(t)
  <2>1. Clear(State) /\ Mirrors(State) /\ FleetRight(State) /\ Attached(State)
    BY <1>1, <1>6, <1>7, <1>10 DEF IbSound
  <2>2. Clear(t)
    BY <1>1, <1>5, <1>7, <1>8, <2>1 DEF Clear
  <2>3. Mirrors(t)
    BY <1>1, <1>5, <1>6, <1>7, <1>8, <2>1 DEF Mirrors, SameGuard
  <2>4. FleetRight(t)
    BY <1>1, <1>6, <1>7, <1>8, <2>1 DEF FleetRight
  <2>5. Attached(t)
    BY <1>1, <1>5, <1>7, <1>8, <2>1 DEF Attached, SameGuard
  <2> QED
    BY <2>2, <2>3, <2>4, <2>5
<1>11. IbNow'
  BY <1>7, <1>9, <1>10 DEF IbSound, IbNow, t
<1>12. IbRest'
  BY DEF IbIInv, IbRest, Expire
<1> QED
  BY <1>11, <1>12 DEF IbIInv

\* A fleet entry ends: in the manager's list and in the kernel.
LEMMA FleetExpireStep ==
  ASSUME IbIInv, NEW ip \in IPs, FleetExpire(ip)
  PROVE  IbIInv'
<1>1. /\ State \in IbStates /\ State.m = m /\ State.nft = nft /\ m \in IbManagers /\ nft \in IbKernels /\ IbSound(State)
  BY StateIs DEF IbIInv
<1> DEFINE t == State'
<1>2. /\ m' \in IbManagers /\ SameRuns(m, m') /\ m'.trk = m.trk /\ m'.fleet = m.fleet \ {ip}
      /\ m'.have = m.have /\ m'.pol = m.pol /\ m'.cap = m.cap /\ m'.limited = m.limited /\ m'.local = m.local
  BY <1>1 DEF FleetExpire, IbManagers, SameRuns
<1>3. nft' \in IbKernels /\ nft'.local = nft.local /\ nft'.fleet = nft.fleet \ {ip} /\ nft'.faults = nft.faults
  BY <1>1 DEF FleetExpire, IbKernels
<1>4. t \in IbStates /\ t.m = m' /\ t.nft = nft'
  BY <1>2, <1>3 DEF State, IbStates
<1> HIDE DEF t
<1>5. Active(t.m) = Active(m) /\ Protected(t.m) = Protected(m) /\ (Ready(t) <=> Ready(State))
  BY <1>1, <1>2, <1>4, ProtectedAs DEF Active, SameRuns, Ready
<1>6. FleetOf(t.m) = FleetOf(m) \ {ip}
  BY <1>2, <1>4, <1>5 DEF FleetOf
<1>7. Decided(t)
  BY <1>1, <1>2, <1>4 DEF IbSound, Decided
<1>8. ASSUME t.nft.faults = 0 PROVE Clear(t) /\ Mirrors(t) /\ FleetRight(t) /\ Attached(t)
  <2>1. Clear(State) /\ Mirrors(State) /\ FleetRight(State) /\ Attached(State)
    BY <1>1, <1>3, <1>4, <1>8 DEF IbSound
  <2>2. Clear(t)
    BY <1>1, <1>5, <2>1 DEF Clear
  <2>3. Mirrors(t)
    BY <1>1, <1>2, <1>3, <1>4, <1>5, <2>1 DEF Mirrors
  <2>4. FleetRight(t)
    BY <1>1, <1>3, <1>4, <1>5, <1>6, <2>1 DEF FleetRight
  <2>5. Attached(t)
    BY <1>1, <1>2, <1>4, <1>5, <2>1 DEF Attached
  <2> QED
    BY <2>2, <2>3, <2>4, <2>5
<1>9. IbNow'
  BY <1>4, <1>7, <1>8 DEF IbSound, IbNow, t
<1>10. srv' \in IbConfigs
  BY DEF IbIInv, IbRest, IbConfigs, FleetExpire
<1>11. inflight' \in IbConfigs \cup {NoConfig}
  <2>1. CASE inflight = NoConfig
    BY <2>1 DEF FleetExpire
  <2>2. CASE inflight # NoConfig
    <3>1. inflight \in IbConfigs /\ inflight' = [inflight EXCEPT !.fleet = inflight.fleet \ {ip}]
      BY <2>2 DEF IbIInv, IbRest, FleetExpire
    <3> QED
      BY <3>1 DEF IbConfigs
  <2> QED
    BY <2>1, <2>2
<1>12. IbRest'
  BY <1>10, <1>11 DEF IbIInv, IbRest, FleetExpire
<1> QED
  BY <1>9, <1>12 DEF IbIInv

\* What the server does reaches the agent with a later fetch only.
LEMMA ServerStep ==
  ASSUME IbIInv,
         UpdatePolicy \/ (\E ip \in IPs : FleetBan(ip) \/ FleetUnban(ip) \/ HostUnban(ip))
         \/ (\E u \in Cmds : Age(u) \/ SweepCommand(u))
  PROVE  IbIInv'
<1>1. UNCHANGED <<m, nft, inflight, alive, crashes, done>>
  BY DEF UpdatePolicy, FleetBan, FleetUnban, HostUnban, Age, SweepCommand
<1>2. IbNow'
  BY <1>1 DEF IbIInv, IbNow, State
<1>3. srv \in IbConfigs
  BY DEF IbIInv, IbRest
<1>4. ASSUME NEW c \in IbConfigs, c.version = srv.version, Bump(c) PROVE srv' \in IbConfigs
  <2>1. srv' = [c EXCEPT !.version = c.version + 1]
    BY <1>4 DEF Bump
  <2>2. c.version + 1 \in 1..MaxVersion
    BY <1>3, <1>4, IbConstants DEF Bump, IbConfigs
  <2> QED
    BY <2>1, <2>2 DEF IbConfigs
<1>5. ASSUME NEW c \in IbConfigs, c.issued < MaxCmds, NEW ip \in IPs
      PROVE  Command(c, ip) \in IbConfigs /\ Command(c, ip).version = c.version
  <2>1. c.issued + 1 \in 1..MaxCmds /\ c.issued + 1 \in 0..MaxCmds
    BY <1>5, IbConstants DEF IbConfigs
  <2>2. [id |-> c.issued + 1, ip |-> ip] \in Cmds
    BY <2>1 DEF Cmds
  <2>3. Append(c.cmds, [id |-> c.issued + 1, ip |-> ip]) \in Seq(Cmds)
    BY <2>2 DEF IbConfigs
  <2>4. Command(c, ip) = [c EXCEPT !.issued = c.issued + 1, !.cmds = Append(c.cmds, [id |-> c.issued + 1, ip |-> ip])]
    BY DEF Command
  <2> QED
    BY <2>1, <2>3, <2>4 DEF IbConfigs
<1>6. ASSUME NEW ip \in IPs
      PROVE  LET with == [srv EXCEPT !.fleet = srv.fleet \cup {ip}]
                 less == [srv EXCEPT !.fleet = srv.fleet \ {ip}]
             IN /\ with \in IbConfigs /\ with.version = srv.version
                /\ less \in IbConfigs /\ less.version = srv.version /\ less.issued = srv.issued
  BY <1>3 DEF IbConfigs
<1>7. CASE UpdatePolicy
  <2>1. PICK p \in Policies : Bump([srv EXCEPT !.pol = p])
    BY <1>7 DEF UpdatePolicy
  <2>2. [srv EXCEPT !.pol = p] \in IbConfigs /\ [srv EXCEPT !.pol = p].version = srv.version
    BY <1>3 DEF IbConfigs
  <2>3. srv' \in IbConfigs
    BY <1>4, <2>1, <2>2
  <2>4. IbRest'
    BY <1>1, <1>7, <2>3 DEF IbIInv, IbRest, UpdatePolicy
  <2> QED
    BY <1>2, <2>4 DEF IbIInv
<1>8. CASE \E ip \in IPs : FleetBan(ip) \/ FleetUnban(ip) \/ HostUnban(ip)
  <2>1. PICK ip \in IPs : FleetBan(ip) \/ FleetUnban(ip) \/ HostUnban(ip)
    BY <1>8
  <2>2. srv' \in IbConfigs
    <3>1. CASE FleetBan(ip)
      BY <1>4, <1>6, <3>1 DEF FleetBan
    <3>2. CASE FleetUnban(ip)
      <4> DEFINE less == [srv EXCEPT !.fleet = srv.fleet \ {ip}]
      <4>1. Bump(less) \/ (srv.issued < MaxCmds /\ Bump(Command(less, ip)))
        BY <3>2 DEF FleetUnban
      <4>2. less \in IbConfigs /\ less.version = srv.version /\ less.issued = srv.issued
        BY <1>6
      <4> HIDE DEF less
      <4> QED
        BY <1>4, <1>5, <4>1, <4>2
    <3>3. CASE HostUnban(ip)
      BY <1>3, <1>4, <1>5, <3>3 DEF HostUnban
    <3> QED
      BY <2>1, <3>1, <3>2, <3>3
  <2>3. aged' = aged
    BY <2>1 DEF FleetBan, FleetUnban, HostUnban
  <2>4. IbRest'
    BY <1>1, <2>2, <2>3 DEF IbIInv, IbRest
  <2> QED
    BY <1>2, <2>4 DEF IbIInv
<1>9. CASE \E u \in Cmds : Age(u)
  <2>1. PICK u \in Cmds : Age(u)
    BY <1>9
  <2>2. aged' \subseteq 1..MaxCmds /\ srv' = srv
    BY <2>1 DEF Age, IbIInv, IbRest, Cmds
  <2>3. IbRest'
    BY <1>1, <2>2 DEF IbIInv, IbRest
  <2> QED
    BY <1>2, <2>3 DEF IbIInv
<1>10. CASE \E u \in Cmds : SweepCommand(u)
  <2>1. PICK i \in DOMAIN srv.cmds : srv' = [srv EXCEPT !.cmds = RemoveAt(srv.cmds, i)]
    BY <1>10 DEF SweepCommand
  <2>2. RemoveAt(srv.cmds, i) \in Seq(Cmds)
    <3>1. srv.cmds \in Seq(Cmds) /\ i \in 1..Len(srv.cmds) /\ Len(srv.cmds) \in Nat
      BY <1>3 DEF IbConfigs
    <3>2. \A j \in 1..(i - 1) : srv.cmds[j] \in Cmds
      BY <3>1
    <3>3. \A j \in (i + 1)..Len(srv.cmds) : srv.cmds[j] \in Cmds
      BY <3>1
    <3>4. SubSeq(srv.cmds, 1, i - 1) \in Seq(Cmds)
      <4>1. 1 \in Int /\ i - 1 \in Int
        BY <3>1
      <4> QED
        BY <3>2, <4>1, SubSeqProperties
    <3>5. SubSeq(srv.cmds, i + 1, Len(srv.cmds)) \in Seq(Cmds)
      <4>1. i + 1 \in Int /\ Len(srv.cmds) \in Int
        BY <3>1
      <4> QED
        BY <3>3, <4>1, SubSeqProperties
    <3> QED
      BY <3>4, <3>5 DEF RemoveAt
  <2>3. srv' \in IbConfigs
    BY <1>3, <2>1, <2>2 DEF IbConfigs
  <2>4. aged' = aged
    BY <1>10 DEF SweepCommand
  <2>5. IbRest'
    BY <1>1, <2>3, <2>4 DEF IbIInv, IbRest
  <2> QED
    BY <1>2, <2>5 DEF IbIInv
<1> QED
  BY <1>7, <1>8, <1>9, <1>10

\* Every step keeps the invariant.
LEMMA IbStep ==
  ASSUME IbIInv, [IbNext]_ibVars
  PROVE  IbIInv'
<1>1. CASE UNCHANGED ibVars
  BY <1>1 DEF ibVars, IbIInv, IbNow, IbRest, State
<1>2. CASE IbNext
  BY <1>2, EnqueueStep, LoginFailureStep, FetchStep, FetchApplyStep, PruneTickStep, RefreshTickStep, StopStep, StartStep,
     ExpireStep, FleetExpireStep, ServerStep DEF IbNext
<1> QED
  BY <1>1, <1>2

\* The invariant says what the run checks.
LEMMA IbImplies ==
  ASSUME IbIInv
  PROVE  KernelFollowsManager
<1>1. /\ State \in IbStates /\ State.m = m /\ State.nft = nft /\ m \in IbManagers /\ nft \in IbKernels /\ IbSound(State)
  BY StateIs DEF IbIInv
<1>2. ConfigOK(srv) /\ (inflight = NoConfig \/ ConfigOK(inflight))
  BY ConfigsFit DEF IbIInv, IbRest
<1>3. /\ m.have \in BOOLEAN /\ m.pol \in PolicySet /\ m.applied \in 0..MaxVersion
      /\ m.cap \in Caps /\ m.source \in BOOLEAN /\ m.failures \subseteq IPs
      /\ m.enforcer \in BOOLEAN /\ m.state \in {"none", "ok", "error", "no_permission"}
      /\ m.trk \in IbTrks /\ m.limited \cup m.local \cup m.fleet \subseteq IPs /\ m.seen \subseteq Cmds
  BY <1>1 DEF IbManagers
<1>4. nft.local \cup nft.fleet \subseteq IPs /\ nft.faults \in 0..MaxFaults
  BY <1>1 DEF IbKernels
<1>5. IbTypeOK
  BY <1>2, <1>3, <1>4 DEF IbTypeOK, IbIInv, IbRest, IbTrks
<1>6. ASSUME Enforcing, nft.faults = 0
      PROVE  /\ IF m.pol.enforce
                THEN /\ nft.local \subseteq Active(m)
                     /\ Active(m) \ nft.local \subseteq m.limited
                     /\ nft.local \cap Protected(m) = {}
                ELSE nft.local = {}
             /\ nft.fleet = FleetOf(m)
  <2>1. Ready(State) /\ Clear(State) /\ Mirrors(State) /\ FleetRight(State)
    BY <1>1, <1>6 DEF Enforcing, IbSound
  <2> QED
    BY <1>1, <2>1 DEF Clear, Mirrors, FleetRight
<1>7. KernelMatchesTracker
  BY <1>6, Zenon DEF KernelMatchesTracker
<1>8. FleetSetMatchesList
  BY <1>6 DEF FleetSetMatchesList, FleetOf
<1> QED
  BY <1>5, <1>7, <1>8 DEF KernelFollowsManager

\* Commands are carried out by an application only, and forgotten by the prune.
LEMMA RetrySees ==
  ASSUME NEW s, IbSound(s), NEW t \in RetryEnforcer(s)
  PROVE  t.m.seen = s.m.seen
<1>1. CASE t = s
  BY <1>1
<1>2. CASE s.m.have /\ s.m.pol.enforce /\ s.m.state # "ok"
  <2>1. PICK r \in EnsureEnforcer(s) : \/ ~Ready(r) /\ t = r
                                       \/ Ready(r) /\ \E q \in SyncLocalFromTracker(r) : t \in ApplyFleet(q, q.m.fleet)
    BY <1>2 DEF RetryEnforcer, AndThen
  <2>2. Keeps(s, r)
    BY EnsureIs DEF IbSound
  <2>3. CASE \E q \in SyncLocalFromTracker(r) : t \in ApplyFleet(q, q.m.fleet)
    <3>1. PICK q \in SyncLocalFromTracker(r) : t \in ApplyFleet(q, q.m.fleet)
      BY <2>3
    <3>2. Keeps(r, q)
      BY <2>2, <3>1, SyncIs DEF Keeps
    <3>3. q \in IbStates /\ q.m.fleet \in SUBSET IPs /\ (q.m.pol.enforce => q.m.have)
      BY <2>2, <3>2 DEF Keeps, SameGuard, IbSound, Decided, IbStates, IbManagers
    <3>4. t.m.seen = q.m.seen
      BY <3>1, <3>3, FleetIs
    <3> QED
      BY <2>2, <3>2, <3>4 DEF Keeps
  <2> QED
    BY <2>1, <2>2, <2>3 DEF Keeps
<1> QED
  BY <1>1, <1>2 DEF RetryEnforcer

\* No step counts a command as carried out before its address is released.
LEMMA UnbanStep ==
  ASSUME IbIInv, [IbNext]_ibVars
  PROVE  [UnbanReachesKernel]_ibVars
<1> SUFFICES ASSUME IbNext PROVE UnbanReachesKernel
  BY DEF ibVars
<1>1. /\ State \in IbStates /\ State.m = m /\ State.nft = nft /\ m \in IbManagers /\ nft \in IbKernels /\ IbSound(State)
  BY StateIs DEF IbIInv
<1>2. CASE FetchApply
  <2>1. inflight \in IbConfigs
    BY <1>2 DEF IbIInv, IbRest, FetchApply
  <2>2. ConfigOK(inflight)
    BY <2>1, ConfigsFit
  <2>3. PICK t \in ApplyPolicy(State, inflight) : m' = t.m /\ nft' = t.nft
    BY <1>2 DEF FetchApply, Handled
  <2>4. UnbansHonestly(State, t)
    BY <1>1, <2>2, <2>3, PolicyKeeps
  <2>5. ASSUME NEW u \in m'.seen \ m.seen
        PROVE  m'.trk[u.ip] # "banned" /\ (m'.pol.enforce => u.ip \notin nft'.local)
    <3>1. u.ip \notin Active(m') /\ (m'.pol.enforce => u.ip \notin nft'.local)
      BY <1>1, <2>3, <2>4, <2>5 DEF UnbansHonestly
    <3>2. u.ip \in IPs
      <4>1. IbSound(t)
        BY <1>1, <2>2, <2>3, PolicyKeeps
      <4> QED
        BY <2>3, <2>5, <4>1 DEF IbSound, IbStates, IbManagers, Cmds
    <3> QED
      BY <3>1, <3>2 DEF Active
  <2> QED
    BY <2>5 DEF UnbanReachesKernel
<1>3. CASE m'.seen \subseteq m.seen
  BY <1>3 DEF UnbanReachesKernel
<1>4. CASE UNCHANGED m
  BY <1>3, <1>4
<1>5. CASE \E ip \in IPs : Enqueue(ip) \/ Expire(ip) \/ FleetExpire(ip)
  BY <1>1, <1>3, <1>5 DEF Enqueue, Expire, FleetExpire, IbManagers
<1>6. CASE \E ip \in IPs : LoginFailure(ip)
  <2>1. PICK ip \in IPs : \E t \in HandleFailure(State, ip) : m' = t.m
    BY <1>6 DEF LoginFailure, Handled
  <2> QED
    BY <1>1, <1>3, <2>1, FailureKeeps
<1>7. CASE RefreshTick
  <2>1. PICK t \in RefreshLocalAddrs(State) : m' = t.m
    BY <1>7 DEF RefreshTick, Handled
  <2>2. t.m.seen = m.seen
    BY <1>1, <2>1, RefreshIs DEF IbSound
  <2> QED
    BY <1>3, <2>1, <2>2
<1>8. CASE PruneTick
  <2>1. PICK g \in IbStates : IbSound(g) /\ g.m.seen \subseteq m.seen /\ Handled(RetryEnforcer(g))
    BY <1>8, PrunedIs DEF IbIInv
  <2>2. PICK t \in RetryEnforcer(g) : m' = t.m
    BY <2>1 DEF Handled
  <2> QED
    BY <1>3, <2>1, <2>2, RetrySees
<1>9. CASE Start
  BY <1>3, <1>9 DEF Start, NewManager
<1>10. CASE FetchRead \/ FetchFails \/ Stop \/ UpdatePolicy \/ (\E ip \in IPs : FleetBan(ip) \/ FleetUnban(ip) \/ HostUnban(ip))
            \/ (\E u \in Cmds : Age(u) \/ SweepCommand(u))
  BY <1>4, <1>10 DEF FetchRead, FetchFails, Stop, UpdatePolicy, FleetBan, FleetUnban, HostUnban, Age, SweepCommand
<1> QED
  BY <1>2, <1>5, <1>6, <1>7, <1>8, <1>9, <1>10 DEF IbNext

\* A command counts as carried out only where its address is out of the tracker and, if the host enforces, out of the kernel,
\* whatever calls have failed before.
THEOREM UnbansReachKernel == IbSpec => [][UnbanReachesKernel]_ibVars
<1>1. IbInit => IbIInv
  BY IbInitStep
<1>2. IbIInv /\ [IbNext]_ibVars => IbIInv'
  BY IbStep
<1>3. IbIInv /\ [IbNext]_ibVars => [UnbanReachesKernel]_ibVars
  BY UnbanStep
<1> QED
  BY <1>1, <1>2, <1>3, PTL DEF IbSpec

\* While no call to nftables has failed and the manager works, both sets of the kernel are what the manager believes them to be.
THEOREM KernelIsFollowed == IbSpec => []KernelFollowsManager
<1>1. IbInit => IbIInv
  BY IbInitStep
<1>2. IbIInv /\ [IbNext]_ibVars => IbIInv'
  BY IbStep
<1>3. IbIInv => KernelFollowsManager
  BY IbImplies
<1> QED
  BY <1>1, <1>2, <1>3, PTL DEF IbSpec

=============================================================================
