----------------------------- MODULE BrowseJobs -----------------------------
(***************************************************************************)
(* Browsing a snapshot: an operator's request becomes a job in the memory  *)
(* of the server, the agent hears of it in the answer to an ingest, takes  *)
(* all its jobs at once, runs them one after the other and posts each      *)
(* result.  Nobody tells the store that time passes: every call cleans up  *)
(* first.  A job is numbered in the order of creation, which stands for    *)
(* its creation time; its age counts from its last change of state.        *)
(***************************************************************************)
EXTENDS Naturals, FiniteSets, FiniteSetsExt

CONSTANTS
    BwHosts,       \* hosts with backups
    BwKeys,        \* what a request names: repository, snapshot and path
    BwQueuedTTL, BwRunningTTL, BwResultTTL, BwGlobalCap, BwHostCap,
    BwMaxJobs,     \* model bound: jobs ever created
    BwMaxFault     \* model bound: lost messages, crashes and restarts

ASSUME BwAssumption ==
    /\ {BwQueuedTTL, BwRunningTTL, BwResultTTL, BwMaxFault} \subseteq Nat
    /\ {BwGlobalCap, BwHostCap, BwMaxJobs} \subseteq Nat \ {0}

VARIABLES
    bwJobs,   \* browseStore.jobs
    bwCount,  \* jobs created so far
    bwAgent,  \* per host: where runBackupBrowseLoop is, and the jobs it has fetched and not yet run
    bwPosts,  \* results on their way to the server
    bwFaults

bwVars == <<bwJobs, bwCount, bwAgent, bwPosts, bwFaults>>

BwActive == {"queued", "running"}
BwFinished == {"done", "failed"}
BwResults == {"none", "entries", "error", "timed_out", "unreachable"}
BwOldest == Max({BwQueuedTTL, BwRunningTTL, BwResultTTL}) + 1
NoJobs == [id \in {} |-> {}]

BwInit ==
    /\ bwJobs = NoJobs
    /\ bwCount = 0
    /\ bwAgent = [h \in BwHosts |-> [pc |-> "idle", todo |-> {}]]
    /\ bwPosts = {}
    /\ bwFaults = 0

BwFault == bwFaults < BwMaxFault /\ bwFaults' = bwFaults + 1
----------------------------------------------------------------------------
(* browseStore, under its mutex *)

Change(job, state, result) == [job EXCEPT !.state = state, !.result = result, !.age = 0]

\* A cleanup that gives up on every unfinished job alike.
MutCleanup(jobs) ==
    LET kept == {id \in DOMAIN jobs : ~(jobs[id].state \in BwFinished /\ jobs[id].age > BwResultTTL)}
    IN [id \in kept |->
          LET job == jobs[id]
          IN IF job.state \in BwActive /\ job.age > BwQueuedTTL THEN Change(job, "failed", "unreachable") ELSE job]

\* A cleanup that leaves a job alone once it has been picked.
MutCleanupRunning(jobs) ==
    LET kept == {id \in DOMAIN jobs : ~(jobs[id].state \in BwFinished /\ jobs[id].age > BwResultTTL)}
    IN [id \in kept |->
          LET job == jobs[id]
          IN IF job.state = "queued" /\ job.age > BwQueuedTTL THEN Change(job, "failed", "unreachable") ELSE job]

\* cleanupLocked
Cleanup(jobs) ==
    LET kept == {id \in DOMAIN jobs : ~(jobs[id].state \in BwFinished /\ jobs[id].age > BwResultTTL)}
    IN [id \in kept |->
          LET job == jobs[id]
          IN CASE job.state = "queued" /\ job.age > BwQueuedTTL -> Change(job, "failed", "unreachable")
               [] job.state = "running" /\ job.age > BwRunningTTL -> Change(job, "failed", "timed_out")
               [] OTHER -> job]

\* makeRoomLocked: the sets that may be left, none when every job is still at work
Rooms(jobs) ==
    LET finished == {id \in DOMAIN jobs : jobs[id].state \in BwFinished}
        oldest == {id \in finished : \A o \in finished : jobs[o].age <= jobs[id].age}
    IN IF Cardinality(DOMAIN jobs) < BwGlobalCap THEN {DOMAIN jobs}
       ELSE {DOMAIN jobs \ {id} : id \in oldest}

\* create: the jobs that answer the same request
Reusable(jobs, h, k) ==
    {id \in DOMAIN jobs : jobs[id].host = h /\ jobs[id].key = k /\ jobs[id].state \in BwActive \cup {"done"}}

\* createBackupBrowseHandler and create; which job a repeated request is given changes nothing.
BwAsk(h, k) ==
    /\ LET jobs == Cleanup(bwJobs)
           active == {id \in DOMAIN jobs : jobs[id].host = h /\ jobs[id].state \in BwActive}
           refused == Reusable(jobs, h, k) # {} \/ Cardinality(active) >= BwHostCap \/ Rooms(jobs) = {}
       IN \/ refused /\ bwJobs' = jobs /\ UNCHANGED bwCount
          \/ /\ ~refused /\ bwCount < BwMaxJobs
             /\ bwCount' = bwCount + 1
             /\ \E room \in Rooms(jobs) :
                  bwJobs' = [id \in room \cup {bwCount + 1} |->
                     IF id \in room THEN jobs[id]
                     ELSE [host |-> h, key |-> k, state |-> "queued", result |-> "none", age |-> 0]]
    /\ UNCHANGED <<bwAgent, bwPosts, bwFaults>>

\* getBackupBrowseJobHandler: the page polls.
BwPoll ==
    /\ bwJobs' = Cleanup(bwJobs)
    /\ UNCHANGED <<bwCount, bwAgent, bwPosts, bwFaults>>

\* pick and HasPending
Queued(jobs, h) == {id \in DOMAIN jobs : jobs[id].host = h /\ jobs[id].state = "queued"}

\* HasPending in the answer to an ingest, and the client's signal to the loop
BwSignal(h) ==
    /\ bwAgent[h].pc = "idle"
    /\ bwJobs' = Cleanup(bwJobs)
    /\ Queued(bwJobs', h) # {}
    /\ bwAgent' = [bwAgent EXCEPT ![h].pc = "fetch"]
    /\ UNCHANGED <<bwCount, bwPosts, bwFaults>>

\* agentBackupBrowseJobsHandler and pick; an answer that is lost leaves the jobs running.
BwFetch(h) ==
    /\ bwAgent[h].pc = "fetch" /\ bwAgent[h].todo = {}
    /\ LET jobs == Cleanup(bwJobs)
           picked == Queued(jobs, h)
       IN /\ bwJobs' = [id \in DOMAIN jobs |-> IF id \in picked THEN Change(jobs[id], "running", "none") ELSE jobs[id]]
          /\ \/ bwAgent' = [bwAgent EXCEPT ![h].todo = picked] /\ UNCHANGED bwFaults
             \/ BwFault /\ picked # {} /\ UNCHANGED bwAgent
    /\ UNCHANGED <<bwCount, bwPosts>>

\* BrowseFromConfigPath of the oldest job, and ClassifyBrowseError; the post may be lost, or arrive after the loop has gone on.
BwWork(h) ==
    /\ bwAgent[h].todo # {}
    /\ LET id == Min(bwAgent[h].todo)
       IN /\ bwAgent' = [bwAgent EXCEPT ![h].todo = @ \ {id}]
          /\ \/ \E r \in {"entries", "error", "timed_out"} :
                  /\ bwPosts' = bwPosts \cup {[host |-> h, id |-> id, result |-> r]}
                  /\ UNCHANGED bwFaults
             \/ BwFault /\ UNCHANGED bwPosts
    /\ UNCHANGED <<bwJobs, bwCount>>

\* A minute without a job ends the inner loop.
BwRest(h) ==
    /\ bwAgent[h].pc = "fetch" /\ bwAgent[h].todo = {}
    /\ bwAgent' = [bwAgent EXCEPT ![h].pc = "idle"]
    /\ UNCHANGED <<bwJobs, bwCount, bwPosts, bwFaults>>

\* finish: the job runs, or was given up for lost.
Accepts(job) == job.state = "running" \/ (job.state = "failed" /\ job.result = "timed_out")

\* agentBackupBrowseResultHandler and finish
BwFinish(p) ==
    /\ p \in bwPosts
    /\ bwPosts' = bwPosts \ {p}
    /\ LET jobs == Cleanup(bwJobs)
           known == p.id \in DOMAIN jobs /\ jobs[p.id].host = p.host /\ Accepts(jobs[p.id])
       IN bwJobs' = IF known
                    THEN [jobs EXCEPT ![p.id] = Change(@, IF p.result = "entries" THEN "done" ELSE "failed", p.result)]
                    ELSE jobs
    /\ UNCHANGED <<bwCount, bwAgent, bwFaults>>
----------------------------------------------------------------------------
BwTick ==
    /\ bwJobs' = [id \in DOMAIN bwJobs |-> [bwJobs[id] EXCEPT !.age = IF @ < BwOldest THEN @ + 1 ELSE @]]
    /\ UNCHANGED <<bwCount, bwAgent, bwPosts, bwFaults>>

BwAgentCrash(h) ==
    /\ BwFault
    /\ bwAgent' = [bwAgent EXCEPT ![h] = [pc |-> "idle", todo |-> {}]]
    /\ UNCHANGED <<bwJobs, bwCount, bwPosts>>

\* The store is memory.
BwServerRestart ==
    /\ BwFault
    /\ bwJobs' = NoJobs
    /\ UNCHANGED <<bwCount, bwAgent, bwPosts>>

BwAgentStep(h) == BwSignal(h) \/ BwFetch(h) \/ BwWork(h) \/ BwRest(h)

BwNext ==
    \/ \E h \in BwHosts : BwAgentStep(h) \/ BwAgentCrash(h) \/ \E k \in BwKeys : BwAsk(h, k)
    \/ \E p \in bwPosts : BwFinish(p)
    \/ BwPoll \/ BwTick \/ BwServerRestart

\* Time passes and the page polls while it shows an unfinished job; nothing is asked of the agent.
BwFairness == WF_bwVars(BwTick) /\ WF_bwVars(BwPoll)

BwSpec == BwInit /\ [][BwNext]_bwVars
BwFairSpec == BwSpec /\ BwFairness
----------------------------------------------------------------------------
\* Jobs and agents are well formed, and the store keeps within its two limits.
BwTypeOK ==
    /\ \A id \in DOMAIN bwJobs :
         bwJobs[id] \in [host : BwHosts, key : BwKeys, state : BwActive \cup BwFinished, result : BwResults, age : 0..BwOldest]
    /\ Cardinality(DOMAIN bwJobs) <= BwGlobalCap
    /\ \A h \in BwHosts : Cardinality({id \in DOMAIN bwJobs : bwJobs[id].host = h /\ bwJobs[id].state \in BwActive}) <= BwHostCap
    /\ \A h \in BwHosts : bwAgent[h].pc \in {"idle", "fetch"} /\ bwAgent[h].todo \subseteq 1..bwCount

(***************************************************************************)
(* Two operators who ask for the same listing share one job: the agent is  *)
(* never given the same request twice at a time, however a timed-out job,  *)
(* its late answer and a repeated request meet.                            *)
(***************************************************************************)
OneJobPerRequest ==
    \A i, j \in DOMAIN bwJobs :
        /\ bwJobs[i].state \in BwActive /\ bwJobs[j].state \in BwActive
        /\ bwJobs[i].host = bwJobs[j].host /\ bwJobs[i].key = bwJobs[j].key
        => i = j

(***************************************************************************)
(* What an agent still has to do is wanted: a job it has fetched is        *)
(* running, or has only been given up for its time, in which case finish   *)
(* takes the late answer.  The jobs behind the first of a list are given   *)
(* up before the agent has even begun them.                                *)
(***************************************************************************)
LateAnswersWelcome ==
    \A h \in BwHosts : \A id \in bwAgent[h].todo :
        id \in DOMAIN bwJobs => bwJobs[id].host = h /\ (bwJobs[id].state = "running" \/ bwJobs[id].result = "timed_out")

(***************************************************************************)
(* An answer once shown stands: a listing or an error does not change      *)
(* until it is dropped; only a job given up for its time may still become  *)
(* something else, and an offline agent's verdict never does.              *)
(***************************************************************************)
AnswersStand ==
    \A id \in DOMAIN bwJobs \cap DOMAIN bwJobs' :
         bwJobs[id].state \in BwFinished /\ bwJobs[id].result # "timed_out" =>
            bwJobs'[id].state = bwJobs[id].state /\ bwJobs'[id].result = bwJobs[id].result

(***************************************************************************)
(* No page waits for ever: every job is settled, also when the agent is    *)
(* offline, dies with fetched jobs or its answers are lost.                *)
(***************************************************************************)
RequestsSettle ==
    \A id \in 1..BwMaxJobs :
        []<>(id \in DOMAIN bwJobs => bwJobs[id].state \in BwFinished)

\* The store keeps its limits, and what an agent works on is wanted, once.
BrowseInv == BwTypeOK /\ OneJobPerRequest /\ LateAnswersWelcome

\* Every request gets its answer, and the answer stands.
RequestsAnswered == [][AnswersStand]_bwVars /\ RequestsSettle
=============================================================================
