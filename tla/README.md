# A TLA+ model of ServerMonitor

ServerMonitor is a Go server with a PostgreSQL/TimescaleDB database and a Go
agent that runs on every monitored host. This directory holds TLA+ modules that
model its concurrent and failure-prone parts, TLC configurations that check
them on small instances, and proofs that TLAPS checks for every instance.

    tlc -workers 2 -config MCBatcher.cfg MCBatcher     # model-check one run
    tlapm BatcherProofs.tla                            # check the proofs

`PROJECT.json` lists the components, the runs with their properties, a mutant
for every property (a plausible bug that the property catches), the source
lines each definition models, the hazards of the code, the findings and the
theorems. Paths below are relative to `src/`.

## 1. Inventory

| Component | State | Operations | Hard behaviour | What makes it correct |
|---|---|---|---|---|
| ingest batcher (`internal/server/ingest`) | reservation counter, channel, retained buffer, counters | `Reserve`, `CommitReserved`, `ReleaseReserved`, loop, shutdown drain | many handlers, one loop; database outages; shutdown while handlers commit | sends never wait, room is neither leaked nor given back twice, every row is accounted for |
| ingest handler (`internal/server/api/ingest.go`) | none of its own | decode, touch host, ban events, snapshots, rows, answer | fails between its steps; the answer may be lost | what the agent may conclude from each answer |
| agent delivery (`internal/agent/runner`, `transport`, `spool`) | event buffer, bolt spool, deregistration flag | tick, `Send`, drain loop, acknowledge, exit on 410 | two posting goroutines; lost, late and duplicated requests; crash; full spool | nothing is lost except on the paths meant to lose it; duplicates only where an answer is missing; the spool drains |
| interval control (`transport`, `runner`, `cmd/agent`) | applied value, two one-slot channels, ticker, `agent.toml` | offer, displace, persist, reset ticker | two goroutines, channels that overflow differently | the last interval chosen wins |
| host registry (`internal/server/storage/hosts.go`) | hosts table, token cache | register, update, delete, archive, resolve, refresh | cache refreshed outside the lock; invalidation races; cooldown of misses | 410 only for deleted hosts; revocation takes hold |
| alert evaluator (`internal/server/alerting`, `api/alerts.go`, `notify`) | `alert_states`, `alert_history` | pass, transition, sweep, rule edit and deletion | statements that fail one by one, restarts, edits during a pass | `for_s`, `cooldown_s`, history in step with state, every alert ends |
| archive job (`internal/server/archive`, `tasks`) | chunks, objects, manifests | archive per host, drop | failure or restart between upload, manifest and drop | nothing lost, nothing archived twice |
| agent ban manager (`internal/agent/ipban`) | policy, guard, tracker, kernel sets | fetch, failure, ticks, unban, fleet | every nftables call may fail; restart adopts the table; DNS | kernel sets equal what the manager believes; allowlist and unban take hold |
| ban tracker (`internal/agent/ipban/tracker.go`) | failures, bans per address | observe, import, unban, prune, set policy | windows, pruning, escalation | every decision equals the one an unpruned log gives |
| ban log source (`internal/agent/ipban/source.go`, `parse.go`) | file and position, cursor of stamps and digests | follow the journal, seed, tail, reopen | rotation, truncation, clock set back, stamps without a year | a line is emitted once, or rejected for a reason |
| ban service (`internal/server/ipban/service.go`) | settings, host policies, fleet bans, commands, version | ingest of reports, promotion, updates, sweep | RepeatableRead transactions, cached settings next to an atomic version, lost commits | promotion needs evidence, operators' decisions hold, agents end with the committed policy |
| self-upgrade (`internal/agent/upgrade`, `cmd/agent`) | binaries, attestation, back-off, stall columns | download, verify, swap, attest, privileged copy, dispatch | crash between steps; two sides that wait | a binary to start at all times; both copies catch up; no host waits for ever |
| backup jobs (`internal/agent/backup`) | lock file, status file, progress file, restic's locks | run, check, restore, unlock, init | processes that die holding the lock, writers without it, other hosts | one job at a time, results are not undone, every job ends |
| backup scheduler (`internal/agent/backupsched`) | next runs, state file | wake, save, run, catch up | crash between save and job, failing save, jitter | no run is put off or repeated |
| backup collector (`internal/agent/collectors/backup.go`) | cached status, gauges, inventory | collect, attach | lost batches, restart, files of another process | the server's picture converges |
| browse jobs (`api/backupbrowse.go`, `cmd/agent`) | jobs in the server's memory | request, poll, pick, finish, clean up | three lifetimes, lost and late answers, restarts | every request settles, an answer stays |
| repository server (`pkg/restserver`, `storage/backuptargets.go`, `api/backuptargets.go`) | objects, usage, quota, cache of targets | upload, delete of locks, revoke, rotate, measure, delete, create | each call between any two steps of an upload; ambiguous failures | append-only, acknowledged is stored, usage covers the store, quota and revocation hold |
| backup tunnel (`api/tunnel.go`, `storage/tunnel.go`, `backup/enroll.go`, `pkg/wgtunnel`) | table of peers, device, keys and settings of hosts | enrol, activate, revoke, delete | table and device change in separate steps | the device routes what the table says; hosts come back |
| storage node (`internal/agent/backupnode`, `storage/nodes.go`) | role and targets, runtime, registry, bindings | reconcile, start, measure, report | configuration read in several queries, uploads meanwhile, failing reports | node follows server, usage is covered and arrives, a rebound name is told |
| managed repositories (`storage/backupdestinations.go`, `backup/managed.go`) | destinations, repositories, files of the agent | create, set credentials, revoke, sync, run | one file per step, failure and crash between them | what is listed has credentials; the files follow the server |
| series and cold tier (`api/series.go`, `host_detail.go`) | none | split a range into raw, aggregated, archived | SQL | not modelled, section 8 |
| SSE hub, sessions, limiter | subscriber channels, sessions, windows | broadcast, login, limit | slow subscribers | not modelled, section 8 |
| collectors, formats, keys, UI, scripts | | | I/O and presentation | not modelled, section 8 |

Interactions. An agent's runner builds a batch and posts it; the handler resolves
the token through the host cache, touches the host row, stores ban events and
snapshots and hands the rows to the batcher. Its answer carries the interval,
the ban version, upgrade instructions and the hint that a browse job waits. The
ban manager takes failures from the log source, pushes events into the buffer
the runner reports from and fetches its policy when the version moves. The
evaluator and the archive job work on the tables the batcher fills. Backup jobs
are processes of their own, started by the scheduler or a service timer; they
meet the agent in the files it collects and the repositories it manages, and
the server, or a host promoted to a node, in the repository endpoint behind the
tunnel.

## 2. Plan

Done, in this order: `Batcher`, `Delivery`, `IntervalControl`, `HostsCache`,
`AlertEngine`, `Archive`, `IPBanAgent`, `BanTracker`, `BatcherProofs`; then
`BanAuthority` and `BanService` with the refinement, `SelfUpgrade`, `BanSource`,
`RunLock` and `BackupJobs` (which composes the lock with the jobs),
`BackupSched`, `BackupReport`, `BrowseJobs`, `RepoStore`, `TunnelPeers`,
`BackupNode`, `ManagedRepos`.

Then the proofs, in eight modules (section 6): `BatcherProofs`,
`HostsCacheProofs`, `RepoStoreProofs`, `BanServiceProofs`, `SafetyProofs` (archive,
alerts, scheduler, tracker, log source), `BackupNodeProofs` (node, managed
repositories), `AgentProofs` (delivery, lock and jobs, report) and `FleetProofs`
(browsing, tunnel, upgrade, ban manager). `IntervalControl` has only a type and
liveness, and stays with TLC. No module of the project declares a RECURSIVE
operator.

## 3. Modules and their correspondence to the code

**Batcher** - one handler goroutine per element of `Request`, the `loop`
goroutine, the process. `pc[r]` follows the handler: reserve, snapshots,
`CommitReserved` one send at a time, answer. `reserved`, `in`, `dropped`,
`flushed` are the fields of the struct; `loop`, `buf`, `retryHold`, `attempt`
are the locals of `loop` and `drainAndFlush`. A copy may fail before or after the
database committed it (`FlushFailed`, `FlushFailedCommitted`). `Signal` and
`Shutdown` are the two steps of `main`. `b.mu` protects short sections only, each
of which is one action; `enqueueMu` is held across the sends and is a variable.
Before the reservation the handler may also refuse the batch; that part is in
`Delivery`.

**Delivery** - the runner and the drainer post; `net` is the set of requests
under way, each may be lost, be handled after the agent has given up on it, or
be answered with any status the handler has. `events` is `Manager.events`,
`spool` the bolt bucket, `fileSize` the size of its file, which never shrinks.
Batches and events are numbered as they are made, so the buffer and the bucket
are sets of numbers, read in increasing order. `excused` collects the events
given up on a path that is meant to lose them.

**IntervalControl** - `postBytes` of each goroutine up to the two sends into
`intervalCh`, the goroutine of `main` that persists and forwards, the ticker.

**HostsCache** - every writer is a commit followed, at some later time, by
`invalidate`; a reader is split at the points where the code releases the lock:
lookup, claim, query, install, answer. Times are three values of `cachedAt` and
the flag `missRecent`.

**AlertEngine** - the series of one rule. A pass loads rule and hosts, then
executes `transition` one statement per action, then sweeps orphans. Ages are
counted in check periods and saturate where the code stops telling them apart.
Aggregation and comparison are the variable `above`.

**Archive** - `RunOnce`: host list, per host read, upload, manifest; drop only
after all hosts. Each step may fail, or succeed and report a failure; a run that
stops anywhere leaves its objects and manifests. Assumption: a bucket is not
materialised any more when it is older than the cutoff (`Lag < Cutoff`). The code
relies on it and the configuration does not enforce it.

**IPBanAgent** - `Manager.Run` is one goroutine, so each case of its select is
one action. Inside it every nftables call may fail; a handler is an operator from
a state to the set of states it may leave. `Take` is what `apply` has changed
before it first calls the kernel; `Detach`, `Adopt` and `Attach` are the parts of
`ensureEnforcer`. `EnsureEnforcer`, `ReconcileProtected`,
`ApplyUnbans`, `ApplyFleet`, `SyncLocalFromTracker`, `DisableEnforcement` carry the
names of the methods. `srv` is what `AgentConfig` would answer; it is changed by
operator actions and sweeps, and `FetchApply` may apply an answer that is old.

**BanTracker** - one address, time in ticks, next to a log that is never pruned;
the properties recompute each decision from the log. `Kept` is the loop of
`Observe` over the failures, as a function of how many it has looked at; `Doubled`
is what the properties measure the length of a ban by.

**BanService** - `db` is what is committed. `Ingested` is the loop over the events
of a report, one after the other. `Ingest` works on a snapshot and fails
at its commit when a row it writes was written meanwhile (`Serializable`); the
operators' calls run at ReadCommitted and take row locks (`Free`, `Release`). A
committed call publishes its version in the steps of `publishVersion` and
`UpdateSettings`: settings, then number. `AgentFetches` is `AgentConfig` as one
answer. **BanAuthority** is the abstract specification: one numbered policy, and a
host that learns a number learns its policy. `ImplementsAuthority` is the
refinement, with the committed settings and the fetched pairs as the mapping.

**SelfUpgrade** - a binary is its version. The server side is `Touch` (`UpReport`,
`UpStallAges`) and the decision of the ingest handler (`Control`); the agent side
`controlLoop` and `upgrade.Run` one step at a time, with the Unix swap (one
rename) and the Windows swap (`UpMoveAway`, `UpMoveIn`); `Sync*` is the privileged
job. A crash may fall between any two steps.

**BanSource** - the log's files are sequences of lines, the last is current. The
source follows the journal (`BsJournalLine`) or the file (`BsOpen`, `BsReadLine`,
`BsAtEnd`, `BsCheck`); writer, logrotate and the clock are the environment. The
model keeps the id and time of a line, the code sees text and a short stamp.
`Seed` sets the cursor from the last `BsSeedLines` lines, which stand for the
2 MiB of `fileSeedBytes`; `bsUnseeded` notes that a longer file was opened.

**RunLock** - `acquireRunLock` and `releaseRunLock`, one system call per step.
**BackupJobs** EXTENDS it: a job that holds the lock goes through its restic
commands, reads the status file and later replaces it; `init` and the enrolment
record do so without the lock. restic is external: a command takes a lock in the
repository, succeeds or fails, and ends. A result in the status file is the job
that had it; what a job may do to the results of others is `RecordedResultsStay`.

**BackupSched** - the loop of `Run`; a day is `SdDay` ticks and a week `SdWeek` days.
`Recent` and `Following` are `mostRecentDaily`/`Weekly` and `nextDaily`/`Weekly`, checked
against a definition over all occurrences (`OccurrencesAreExact`). A container may
start at any time of the first week.

**BackupReport** - collector, batch and server picture; the files are written by
actions that stand for `BackupJobs`.

**BrowseJobs** - the store's map of jobs; every call begins with `Cleanup`, as in
the code. The agent fetches a list, works it one by one, oldest first, and posts; a post is an
element of `bwPosts` until the server handles it.

**RepoStore** - one repository name. A request authenticates against the cache,
reserves, checks for a duplicate, creates, and releases or accounts late, one
statement or call per step, on three backends: directory, S3 with and S3 without
the conditional put. Operator calls are split likewise.

**TunnelPeers** - the table, the device as a function from address to key, the
hosts' key and settings. The table lock of `EnrollPeer` makes it one step;
`SetPeer` on the device is another. Revocation and deletion are a step per call,
and every call may fail: `Demote`, `SetPeer` and the revocation's `RemovePeer` end
their handler there (`TpDemote`, `TpActivateFails`, `TpRemovePeerFails`); of the
deletion, an error of `GetPeer` skips the removal, and errors of `DeletePeer` and
`RemovePeer` are ignored (`TpGetPeer`, `TpDeletePeerFails`, `TpRemovePeerFails`).
`tpLeft` keeps the keys a failing call left routed, or not routed, against the table.

**BackupNode** - one repository, one peer. `reconcile` is a step per query and per
effect (role, targets, peers and enrolment, disable or start, replace, measure,
observe, peers), then
the report; uploads reserve and end beside it.

**ManagedRepos** - two names, two rows, credentials as version numbers. `mgPc`
follows `ApplyManagedBackupConfig` from file to file.

The four sum modules `MCSafety`, `MCFleetLoops`, `MCHostLoops` and `MCAgentLoops` put
components that share no variable into one run: the variable `focus` is chosen
in the initial state and says which component moves; the others rest in an
initial state (pinned to one where there are several, so that it is not counted
again and again). A behaviour of the sum with a given focus is a behaviour of
that component, and every behaviour of the component occurs; nothing is said
about the components together. A liveness property of a component reads
trivially for another focus, as the component rests and its fairness is assumed
only under its own focus; what it says of its own component is unweakened.

## 4. Runs

| Run | Instance | Shows |
|---|---|---|
| `batcher` | 3 requests of 2, 3 and 0 rows, 4 slots, flush at 1 row, retained rows 4, one copy that fails after its commit | sends never block, reservations balance, no uncounted loss; every row sent before the drain saw an empty channel leaves memory |
| `delivery` | 2 batches, 2 events, 2 requests under way, spool of one, one crash | `NoSilentLoss`, `DuplicatesExplained`, `SpoolDrains` |
| `hosts_cache` | 1 host, 2 readers, 2 tokens, 2 writers between commit and invalidate | `GoneIsTrue`, `RevocationTakesHold` |
| `ban_service` | 2 hosts, 2 concurrent calls, 2 pieces of work, one commit whose answer is lost or one restart, a promotion that needs 2 hosts and 2 bans | promotion has evidence, operators' decisions hold, enforcement has an allowlist; refinement of `BanAuthority`; `PolicyReachesAgents` |
| `backup_agent` | 3 jobs in several scenarios (run, check, restore, unlock, init), a lock left by a dead process, one fault, another host using the repository | results stay, young locks stay, the progress file is a live run's, exclusion unless a lock is stolen, every job ends |
| `safety` | alerts: 1 series, `for_s` 1, `cooldown_s` 2, 2 failed statements or restarts, edits and deletion; archive: 2 hosts, 4 buckets, cutoff 2, chunks of 2, 2 runs; repository: 2 clients, a data object and a lock, good and bad content, quotas none and 1, 3 backends, 2 uploads, 1 operator event or failure at a time with re-creation on top; ban manager: 2 addresses (one the server's), 3 policies, 2 versions, 1 command, 1 failing call, 1 restart, failing lookups, with and without the capability; tracker: 5 ticks, 4 log entries; scheduler: 15 ticks of days of 2 and weeks of 3, jitter 1, 2 faults | the safety properties of these six |
| `fleet_loops` | alerts: 2 series, no faults; interval: one poster, 3 values, 1 restart; browse: 2 requests, 3 jobs, caps 2, 1 fault; tunnel: 2 hosts, 2 addresses, 3 keys, 1 operator call, 1 failing call, lost answer or restart; report: 2 repositories, 2 runs, 2 faults | what was started ends, what was lost comes back, an answer stays |
| `host_loops` | node: 1 upload at a time, quota 2, 2 secrets, 3 operator calls, 1 fault; managed: 2 names, 2 rows, 2 credentials, 5 operator calls, 1 fault | node and files follow the server; usage covers and arrives; a rebinding is told; listed has credentials |
| `agent_loops` | ban manager: 2 enforcing policies, 2 failing calls, 1 restart; upgrade: 2 versions, 2 operator calls, 1 fault; log: 2 lines, 1 of them seeded, 3 times with a year of 3, 1 rotation, 1 fault | allowlist and unban take hold; a binary can always start, upgrades arrive or stall, the privileged copy follows; every line is dealt with, once |
| `interval_ticker` (violation) | two posters | the ticker may keep an older interval for ever |
| `ipban_resync` (violation) | 1 failing call | a ban may be missing from the kernel while enforcement reports ok |
| `run_lock` (violation) | 3 jobs, a dead owner | two jobs hold the lock |

Why the bounds are enough. Five rows and a retained buffer of four make the
overflow happen; four slots against five rows make `Reserve` refuse and make two
requests hold reservations at once; a request without rows takes the short paths.
A spool of one batch overflows with the second; an event buffer of one with the
second event; two requests under way let a late one be handled after its retry.
Two readers are the least that race for a claim and for an install, and two
pending writers let an install fall between two invalidations. One chunk lies
beyond the cutoff within four buckets, and the next not yet. Two runs let
the second repeat the failed part of the first, and a host may join between
them. In the ban runs one address fills the local set (`MaxLocal = 1`), so the
second is over the limit. Three jobs are what a stolen lock takes: the reclaimer
that was late, the one whose lock it takes, and the one that finds the path free.
Two uploads are the least that race for one object and for the last byte of a
quota of 1, and with a measurement, a rotation or a deletion between their steps.
Three browse jobs exceed the caps of two. Two hosts and two addresses let the
address of one be given to the other, three keys let one be renewed. Two managed
names and two rows let a name be retired, given again and shared with a local
entry. Faults are counted by a bound in each module; for liveness they mean that
failures do not go on for ever, which every retry loop of the code needs. `safety`
is the largest run and takes two to three minutes; its smaller bounds (one operator
event in the repository, five ticks in the tracker) are set by that.

For every property, and for every named part of one, a mutant of the code was
seen to break it at exactly these bounds; `PROJECT.json` and the modules keep one
per property (definitions named `Mut...`).

The properties. Where a component's properties are all of one kind they are
stated as the conjunction of named parts, each with its own comment in the
module:

| Property | Parts |
|---|---|
| `RowsArrive` (Batcher) | `NothingDroppedAllStored`, `RowsLeaveMemory` |
| `DeliveryInv` (Delivery) | type, `NoSilentLoss`, `DuplicatesExplained` |
| `CacheInv` (HostsCache) | type, `GoneIsTrue` |
| `PolicyInv`, `FleetBansAreJustified` (BanService) | type, `EnforcementHasAllowlist`; `AnnouncedBansRespectOperator`, `PromotionHasEvidence` |
| `JobsInv` (BackupJobs) | type, `ProgressIsLive`, `JobsExcludeUnlessStolen` |
| `FileConverges` (IntervalControl) | type; the file ends with the last interval |
| `BrowseInv`, `RequestsAnswered` (BrowseJobs) | type and caps, `OneJobPerRequest`, `LateAnswersWelcome`; `AnswersStand`, `RequestsSettle` |
| `TunnelInv` (TunnelPeers) | type (one address and one key per row), `DeviceMatchesTable` |
| `AlertInv`, `AlertsClear` (AlertEngine) | type, `CooldownRespected`, `FiresAfterFor`, `HistoryMatchesState`; `FireIsCleared`, `AlertsEnd` |
| `ReportConverges` (BackupReport) | type, `OneGaugeUp`, `GaugesComeDown`, `InventoryArrives` |
| `NodeInv` (BackupNode) | type, `NodeUsageCovers`, `RebindingIsTold` |
| `ManagedInv`, `ManagedConverges` (ManagedRepos) | type, `EveryRowDeliverable`, `ListedHaveCredentials`; `ManagedFollowsServer`, `RetiredNamesGo` |
| `UpgradeIsSafe`, `UpgradesConverge` (SelfUpgrade) | type, `ResidentCanStart`, `PrivilegedOnlyAdvances`; `UpgradeArrivesOrStalls`, `PrivilegedFollows` |
| `EveryLineOnce` (BanSource) | type, `EmittedOnce`, `RejectedForCause`, `EveryLineDealtWith` |
| `KernelFollowsManager`, `ReleasesTakeHold` (IPBanAgent) | type, `KernelMatchesTracker`, `FleetSetMatchesList`; `UnbanReachesKernel`, `AllowlistTakesHold`, `UnbanTakesHold` |
| `DecisionsMatchLog` (BanTracker) | type, `BansOnEvidence`, `NoMissedBan`, `EscalationIsExact` |
| `ArchiveInv` (Archive) | type, `NothingLost`, `ArchivedOnce` |
| `OccurrencesRunOnce` (BackupSched) | type, `NextRunIsNear`, `TriggersAdvance`, `OccurrencesAreExact` |
| `StoreInv`, `StoreSteps` (RepoStore) | type, `NoRebinding`, `UsageCoversStore`, `QuotaHolds`, `AckedIsStored`, `CacheIsCurrent`; `AppendOnly`, `RevokeStopsUploads` |

Deadlock is checked in `hosts_cache` and `ban_service`. The others may stop: after
shutdown (`batcher`), with the agent gone or the bounds used up (`delivery`, the
sums, `backup_agent`, where all jobs have ended).

## 5. Fairness

* `Batcher`: goroutines run, the timer is armed by every flush, and the database
  is not down for ever (strong fairness of `FlushOk`). The shutdown attempts are
  bounded by the code. Nothing obliges a request to arrive or a signal to come.
* `Delivery`: the drainer's timer fires, the HTTP client has a timeout, the
  service manager restarts the agent, and some of the drainer's requests are
  decided by the server. Delete is not expected to fail for ever.
* `IntervalControl`: goroutines run and posts are answered; a select with a
  ready channel is taken in the end (Go chooses among ready cases at random).
* `HostsCache`: callers that started go on, `invalidate` follows a commit, time
  passes. Nobody is obliged to call.
* `AlertEngine`: the engine's goroutine runs and time passes.
* `IPBanAgent`: tickers fire, the service manager restarts the agent, a fetch
  that is repeated is answered. Bans need not expire and the server need not
  sweep. Reading the sets back does not fail in `agent_loops` (`Faulty`): `Active`
  has its error logged and ignored, after which nothing knows of the elements.
* `BanService`: a call that has committed publishes (nothing in between can fail),
  and agents, which post every interval, fetch a version that differs.
* `SelfUpgrade`: the runner posts, the service manager restarts, timers fire.
  Nothing is assumed of the outcome of a download.
* `BanSource`: the goroutine and its timers go on.
* `BackupJobs`: the operating system runs every process, and a restic command ends.
* `BackupReport`: the runner ticks, time passes, a run ends or dies.
* `BrowseJobs`: time passes and the page polls. Nothing is asked of the agent.
* `TunnelPeers`: hosts make their backups, and a handler that has begun goes on.
* `BackupNode`: both tickers fire; strong fairness of the fetch, since Go's select
  chooses among ready tickers at random. A round and an upload end.
* `ManagedRepos`: the sync loop ticks, and a run is started every day and ends.

## 6. Proofs

Eight modules prove what follows for every value of the constants that satisfies
the assumptions. Each theorem `Spec => []Inv` rests on an inductive invariant
(`IInv`, with the prefix of its module), which adds to the property what the code
knows between two of its steps; TLC checked every one of them on the runs'
instances before it was proved.

| Module | Theorems (property of a run) |
|---|---|
| `BatcherProofs` | `TypeCorrect` (`TypeOK`), `SendsNeverBlock` (`CommitNeverBlocks`), `ReservationsAlwaysBalance` (`ReservationsBalance`), `RowsAlwaysAccounted` (`RowsAccounted`), `NothingLostInSilence` (safety part of `RowsArrive`) |
| `HostsCacheProofs` | `CacheCorrect` (`CacheInv`), `TokensDiffer` |
| `RepoStoreProofs` | `StoreCorrect` (`StoreInv`), `StoreStepsHold` (`StoreSteps`) |
| `BanServiceProofs` | `PolicyCorrect` (`PolicyInv`), `FleetBansHold` (`FleetBansAreJustified`), `AuthorityImplemented` (`ImplementsAuthority`) |
| `SafetyProofs` | `ArchiveCorrect` (`ArchiveInv`), `AlertCorrect` (`AlertInv`), `SchedCorrect` (`OccurrencesRunOnce`), `DecisionsAreExact` (`DecisionsMatchLog`), `LinesCountOnce` (safety part of `EveryLineOnce`) |
| `BackupNodeProofs` | `NodeCorrect` (`NodeInv`), `ManagedCorrect` (`ManagedInv`) |
| `AgentProofs` | `DeliveryCorrect` (`DeliveryInv`), `JobsCorrect` (`JobsInv`), `ResultsAlwaysStay` (`RecordedResultsStay`), `YoungLocksAlwaysStay` (`YoungLocksStay`), `LockExcludes`, `OneGaugeShown` (safety part of `ReportConverges`) |
| `FleetProofs` | `BrowseCorrect` (`BrowseInv`), `AnswersAlwaysStand`, `TunnelCorrect` (`TunnelInv`), `TpIInvHolds`, `UpgradeSafe` (`UpgradeIsSafe`), `KernelIsFollowed` (`KernelFollowsManager`), `UnbansReachKernel` |

Why the properties are not inductive as they stand, and what the invariants add:

* **Batcher.** `MutexInv` (whoever is sending holds `enqueueMu`, hence at most one
  does), `LeftInv` (what a handler owes at each control point), `RoomInv`
  (`Len(in) + reserved <= QueueCap`) and `AttemptInv`. `RoomInv` is what `Reserve`
  establishes and every send keeps, as it moves one unit from `reserved` to the
  channel; with the balance it gives the free slot `CommitNeverBlocks` needs.
  `DroppedInv`: every refused point counts as dropped, and while nothing else
  does, each row that was sent is queued, buffered or stored.
* **Host cache.** A 410 may rest on rows of any age. `OldRowsTrue` says what old
  rows can still be trusted for: a deleted host stays deleted and keeps its token;
  `TokenInv`, that no token is drawn twice; `GoneInv`, that the host a reader has
  found deleted is therefore the only one its token can belong to.
* **Repository store.** Usage has to cover more than the store: an upload is owed
  between its reservation and its end, and an object stored without a reservation
  is owed to the row until the late accounting. `UsageCovers` bounds the usage by a
  sum over objects and requests (`RsHeld`, `RsOwed`), an unaccounted one counting
  negatively, and also while there is no row. The remaining parts say which row a
  request was let in for.
* **Ban service.** Two calls each validate what the other one writes; `CallsInv`
  says that the row lock of the settings makes their reading true until they
  commit. `SnapshotInv` says that what a report is about to write is right as long
  as the version has not moved. The refinement maps the committed settings and the
  fetched pairs; `BanAuthority` is implemented step by step, publication lagging
  behind the commit.
* **Archive.** A drop deletes rows because of what the run did host by host
  before it: `HostsDone`, `CurComplete` say what it has established so far,
  `ManifestsComplete` that nothing unsaved lies behind a host's newest manifest,
  which makes `lastArchivedBucket` a sound place to resume from, and `ObjectsOld`
  that archived buckets are beyond the cutoff, where rows no longer appear.
* **Alerts.** The columns the cooldown rests on are read, changed and written in
  several statements. `PassInv`: what a pass has read is what the row still says;
  `QuietInv`, `HighInv`, `HistoryInv` account for the message that is under way.
* **Scheduler.** The loop is armed long before it triggers. `FreshInv`: from the
  time it is armed for, the latest occurrence is one no trigger has had; `ArmedInv`:
  it is armed for what is due; `RecordedInv`: the file is as new as the last trigger
  unless a save failed.
* **Tracker.** It keeps the failures of a window and one number; the properties
  speak of the whole past. `FailuresLogged`: the failures kept are the end of the
  log, and none before them counts any more; `BansLogged`: the number is the length
  of the chain of bans that ends with the latest, and where it is forgotten no
  chain of the log reaches the present.
* **Log source.** A file that is reopened is read from its start, so only the
  cursor keeps a line from being emitted twice. `EmittedCovered`: it rejects all
  that was emitted, wherever the source may meet it again; `CursorBehind`: it is
  not ahead of what is to come; `LinesAhead`: that is every line not dealt with;
  `FilesNested`: a later file has of earlier lines only what the earlier file has.
* **Managed repositories.** The files are written one at a time. `RoundInv` says
  how far a round has come (credentials are on disk before anything later, and
  removed only once the list no longer names them); `RemoteInv` that the answer it
  works from is fit for use, which rests on the server's rows (`RowsInv`).
* **Storage node.** `FlightInv` and `CountsInv`: what an upload in flight owes the
  count while a measurement may replace it; `SecretsInv`: credentials never come
  back; `BindingInv`: the binding file outlives the process.
* **Delivery.** `DlPosts`, `DlRequests` tie requests in flight to the goroutines
  that wait for them, `DlStored` an answer of success to the database, `DlSpooled`
  keeps the spool apart from what the runner still posts; then a batch is stored at
  most once while the agent keeps track of it (`DlTracked`).
* **Backup jobs.** `HeldAtPath` (who made the file at the lock path), `JudgedDead`
  (judged owners stay dead), `SeenInv` (the copy of the status file a job holds
  agrees with the file on every result) and `ListInv` (what a sweep has listed is
  dead for good and stays old).
* **Report.** `ShownInv`: the one gauge the server may show is of the repository
  the batch under way takes down, else of the one the collector remembers.
* **Browse jobs.** `BwWanted` connects the list an agent works through to the store
  it came from, over timeouts, restarts and lost answers.
* **Tunnel.** `DeviceExplained` follows every entry of the device that the row of a
  host that is not deleted does not explain to the request that is about to replace
  or remove it, or to the call that failed to (`tpLeft`); `KeysInv` says that a key
  is one host's, in its file, in requests and in the table.
* **Upgrade.** `ResidentInv`, `PrivilegedInv` keep what the check of a signature
  established until the renames use it, and that what a rename moved away is
  there to be put back.
* **Ban manager.** `apply` calls six handlers in a row, each an operator from a state
  to the states it may leave; each has a lemma. `Clear` (no protected address is
  banned in the tracker, even without an enforcer), `Mirrors` and `FleetRight` (the
  two sets) and `Attached` (a host that enforces has its enforcer) hold after every
  handler as long as no call has failed.

Assumptions. Sets that the code iterates over are finite; sizes, limits and bounds
are naturals, and positive where the configuration refuses 0. Those that say more
than a type: `Lag < Cutoff` (section 3), a reserved value is no client, request or
host, the initial enforcement settings have an allowlist (as the migration's do),
reports and bodies have the fields the decoder fills, jitter is shorter than a
day, at least one credential can be made, objects of no known size cost nothing.

How the arguments go beyond the provers' reach. Induction over data cannot be
cited, but well-founded induction by least counterexample can: the sums of the
repository store, the maxima of the browse jobs and of the scheduler, and the
recursive functions of the tracker and of the ban service (`Kept`, `EarlierBans`,
`Doubled`, `Ingested`) are reasoned about with lemmas proved that way (`SumUpdate`,
`Greatest`, `LeastOf`, `Recursion`).

Model-checked only, and why:

* Liveness, which needs fairness and ENABLED: `RowsLeaveMemory`, `SpoolDrains`,
  `RevocationTakesHold`, `PolicyReachesAgents`, `AlertsClear`, `ManagedConverges`,
  `RequestsSettle`, `UpgradesConverge`, `EveryLineDealtWith`, `FileConverges`,
  `GaugesComeDown`, `InventoryArrives`, the liveness half of `ReleasesTakeHold`,
  and the like.

## 7. What was found

Three runs state what the documentation says and are violated by the code:

* `interval_ticker`: "An interval pushed from the server applies immediately"
  (`deploy/AGENT-DOCKER.md`). `Runner.SetInterval` drops the newer value when its
  channel is full, and the client has already recorded it as applied.
* `ipban_resync`: "banned addresses are dropped by nftables on each capable host"
  (security page). After a failed `AddLocal`, a policy fetch repairs the enforcer
  without writing the bans back.
* `run_lock`: "Overlapping runs are safe" (`deploy/BACKUPS.md`). A reclaimer renames
  whatever lies at the path, which may be the lock another one has just made.

Known weaknesses. The models reach these states too. They are no runs because
the properties above are stated so that they hold beside them; a reader can see
each by checking the formula given.

* A resolver that finds the host cache expired while another one refreshes is
  answered 401, on which the agent drops its batch
  (`outcome[r] = "unknown"` for an active token, `HostsCache`).
* A rule that is deleted while it fires sends no resolve (`FireIsCleared` with
  `MayDelete = TRUE`, `AlertEngine`), although the repository's README says
  "Resolved fires call the channel again so you know it's clear".
* After two failing calls the minute tick may add an allowlisted address to the
  kernel again, until the next refresh
  (`[][nft'.local \ nft.local \subseteq IPs \ m'.pol.allow]_ibVars`, `IPBanAgent`).
* While the server's name cannot be resolved its address can be banned
  (`[][ServerIP \notin nft'.local \ nft.local]_ibVars` with `DNSFails = TRUE`).
* An agent that restarts into an observing policy leaves the old kernel elements
  until they expire (`m.have /\ ~m.pol.enforce => nft.local = {}`).
* An unban is carried out again after a restart and lifts a later ban
  (`[][\A u \in (m'.seen \ m.seen) \cap done : u.ip \notin nft.local]_ibVars`).
* Alerts: a notification that fails is not repeated (`FireIsCleared` is checked
  without faults).
* The key of a deleted host may stay routed. `deleteHostHandler` commits the
  deletion first; if `Demote` fails then (`hosts.go:559`) it answers 500 before the
  tunnel is looked at, and a repetition of the request finds no host. If `GetPeer`
  fails the removal is skipped, and errors of `DeletePeer` and `RemovePeer` are
  ignored. The row, where it is left, can be revoked on the tunnel page; without
  it the key goes with the next restart of the server. `deploy/BACKUPS.md:579`
  says "Deleting a host revokes its peer automatically". (`DeviceMatchesTable`
  without `tpLeft`, with `TpMaxFault = 1`, `TunnelPeers`.)

In the modules added since, the properties name their exceptions:

* Ban service. `UpdateSettings` stores its settings even when a newer version was
  published first, and the cache then stays behind until the next publication
  (`service.go:755`); two reports that each see one half of the evidence promote
  nobody (write skew); `FleetUnban` may delete an active row inserted after it
  selected the hosts to command, so that host gets no command; a spooled ban
  event that arrives after its unban inserts the row again; a commit whose answer
  is lost is announced only with the next change or restart. An unban command is
  dropped after 24 hours, also for a host that was offline all the time.
* Repository server. A measurement that meets a request understates the usage,
  and two deletions of one lock on S3 free it twice (`UsageCoversStore` excepts
  both); a name that is created while a request of its former owner is under way
  is bound to that upload, although `deploy/BACKUPS.md:544` says it "can never
  rebind"; a refresh may install rows read before an invalidation, so a revoked
  credential authenticates for up to 30 seconds, but `ReserveUsage` refuses its
  uploads (`RevokeStopsUploads`). An S3 without the conditional put keeps the
  reservation of an ambiguous failure, and duplicates on S3 are not compared by
  digest.
* Batcher. Rows that a handler sends after the drain has found the channel empty
  are written by nobody and counted by nobody (`batcher.go:175`; the loop's context
  ends before `srv.Shutdown`). `RowsLeaveMemory` asks for those sent before,
  `RowsAccounted` counts them as queued.
* Tunnel. If `SetPeer` fails after the row is committed (`tunnel.go:208`), or
  `RemovePeer` after it is deleted (`tunnel.go:623`), table and device differ until
  the next enrolment or a restart (`tpLeft`). A revocation that meets an enrolment of the same host may leave the key
  active until a restart, and a late activation may take an address given to
  another host (`DeviceMatchesTable` excepts hosts in `tpRaced`). A node drops a
  revoked peer with its next poll only.
* Storage node. A target whose measurement failed is not measured again while the
  runtime lives; uploads in flight during a measurement are forgotten (`ndSkew`);
  a warning is lost when the runtime stops, or its start fails, between the save of
  the bindings and the report (`ndLost`).
* Backup jobs. A run or a check writes the status file back from what it read
  under the lock. A reconcile or a failed enrolment, which take no lock, may add
  a blank entry after that reading; the write-back drops it again
  (`RecordedResultsStay` is about the results of configured repositories). `init` and
  the record of a failed enrolment, which take no lock either, may themselves write
  over a newer file (`bjLost`). `restic unlock --remove-all` takes
  also the locks that came after the listing (`YoungLocksStay` is about those the
  sweep has listed). A lock file without its token, left by a crash between
  creation and write, makes every later job fail once it is a day old
  (`run.go:522`); `EveryJobEnds` counts a job that fails as ended.
* Scheduler. A backup that a crash cuts off after its trigger was saved counts as
  triggered and is not made up for.
* Backup report. When the batch that takes the running gauge down is lost, or the
  agent restarts before it was built, the gauge stays up until the next run
  (`GaugesComeDown` excepts `brForgot`).
* Managed repositories. An application that fails halfway, followed by the list
  that was applied before, matches the signature and leaves the half-written
  files until the next change (`mgTorn`); a retired managed name removes the status
  of a local repository of that name; an unreadable status file stops the whole
  application (`managed.go:167`).
* Log source. Lines written to the old file between the last read and the
  rotation check are lost with it (`EveryLineDealtWith` asks for the others).
  When a file longer than the seeded 2 MiB (`source.go:335`) is opened and later
  replaced by a copy, its older lines are met by a cursor that was never told of
  them: those of the second the cursor stands at, or written before a clock was
  set back, may be emitted again (`EmittedOnce` excepts `bsUnseeded`).

## 8. Not modelled

Collectors and parsers (reading of the operating system), SQL (what a statement
does is an assignment, what it computes over metrics is not modelled), the wire
format, cryptography, configuration parsing, routing, the web interface and the
install scripts hold no state that steps of several actors could spoil. The
series and host-detail handlers (`series.go`, `host_detail.go`) read: whether a
range is answered rightly depends on SQL over continuous aggregates that a model
would have to assume. The SSE hub drops an event for a subscriber whose channel
is full and promises nothing else. Sessions are single statements. The proxy of
`backup/tunnel.go` and the interactive `provision.go` keep no state.

Of modelled components: the lengths of back-offs and timeouts, log messages, and
the contents of rows, objects and notifications are abstracted. A failing
call to the WireGuard device is taken to change nothing. Further simplifications, which no
property depends on unless it is said:

* `RsCreate` is one conditional put. The SDK may repeat a put whose first answer was
  lost, and get 412 for its own object; `post` (`server.go:266`) then releases the
  reservation of an object that is stored. `UsageCoversStore` does not say so, and
  holds of an S3 client that does not retry.
* `Touch` asks for the token of the row, which the code updates by id
  (`hosts.go:456`).
* `Answer` (self-upgrade) reads the row where the code reads a cache of 15 seconds
  (`ingest.go:201`), and a `Touch` that fails (`ingest.go:169`) is one that did not
  happen: both delay the offer, as a lost answer does.
* `SyncCopy` compares with the binary on the disk, the code with the version of the
  running process (`upgrade.go:265`), a one-shot command started from that binary:
  they differ only when two such commands overlap.

Left out are `ConvertBatch`, the
rate gauges of the tracker, `Archiver.Read`, the health file of the agent, the
statistics of tunnel peers, the read-only queries of the ban service (summaries,
paged history) and the sealing of credentials.
