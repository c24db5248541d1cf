---------------------------- MODULE IPBanAgent ----------------------------
(***************************************************************************)
(* The ban manager of the agent (internal/agent/ipban): the goroutine that *)
(* fetches the server's policy, turns login failures into bans, and keeps  *)
(* two sets of the kernel's nftables table in step with what it remembers. *)
(*                                                                         *)
(* Manager.Run is one goroutine, so each of its handlers is one action.    *)
(* Inside a handler every call into nftables may fail, and most failures   *)
(* end the handler early.  A handler is therefore an operator from a state *)
(* s = [m |-> manager, nft |-> kernel] to the SET of states it may leave,  *)
(* one per call that fails.  The table survives the agent; the manager's   *)
(* memory does not.                                                        *)
(*                                                                         *)
(* Time is abstract: a ban ends when Expire says so.  AddLocal gives the   *)
(* kernel the remaining time of the ban, and Import takes the remaining    *)
(* time of the kernel's element, so both ends coincide (up to the one      *)
(* second of minElementTTL).  How failures are counted is in BanTracker.   *)
(***************************************************************************)
EXTENDS Naturals, FiniteSets, Sequences, SequencesExt

CONSTANTS
    IPs,          \* routable and private peer addresses
    Private,      \* the private ones: banned only under ban_private
    ServerIP,     \* an address of the server this agent reports to
    Policies,     \* the policies an operator chooses from
    Caps,         \* whether a process may hold CAP_NET_ADMIN
    DNSFails,     \* TRUE when the lookup of the server's name may fail
    Faulty,       \* the kinds of nftables calls that may fail
    MaxLocal,     \* maxLocalEntries
    MaxVersion, MaxCmds, MaxFaults, MaxCrashes   \* bounds of the model

NoConfig == [version |-> 0]
NftCalls == {"setup", "active", "add", "remove", "flush", "replace"}
PolicySet == [detect : BOOLEAN, enforce : BOOLEAN, applyFleet : BOOLEAN,
              banPrivate : BOOLEAN, allow : SUBSET IPs]

ASSUME IbConstants ==
    /\ Private \subseteq IPs /\ ServerIP \in IPs
    /\ Policies \subseteq PolicySet /\ Policies # {}
    /\ Caps \subseteq BOOLEAN /\ Caps # {} /\ DNSFails \in BOOLEAN
    /\ Faulty \subseteq NftCalls
    /\ {MaxLocal, MaxVersion, MaxCmds, MaxFaults, MaxCrashes} \subseteq Nat /\ MaxVersion # 0

VARIABLES
    m,         \* the Manager with its Tracker and Guard
    nft,       \* the kernel's sets local and fleet, and how many calls failed
    srv,       \* what AgentConfig would answer: policy, fleet list, commands
    aged,      \* commands older than unbanMemory = cmdRetention (24 hours)
    inflight,  \* the answer fetch is waiting to apply
    alive,     \* the process runs
    crashes,
    done       \* (history) commands that were carried out by some process

ibVars == <<m, nft, srv, aged, inflight, alive, crashes, done>>

Cmds == [id : 1..MaxCmds, ip : IPs]
OffPolicy == [detect |-> FALSE, enforce |-> FALSE, applyFleet |-> FALSE,
              banPrivate |-> FALSE, allow |-> {}]

\* New, and the zero values of Manager, Tracker and Guard.
NewManager(hasCap) ==
    [have |-> FALSE, pol |-> OffPolicy, applied |-> 0, cap |-> hasCap,
     source |-> FALSE, failures |-> {},
     enforcer |-> FALSE, state |-> "none",
     trk |-> [ip \in IPs |-> "none"], limited |-> {},
     local |-> {}, fleet |-> {}, seen |-> {}]

(***************************************************************************)
(* Helpers of the manager.                                                 *)
(***************************************************************************)
AndThen(S, Op(_)) == UNION {Op(s) : s \in S}

\* Guard.Protected for the addresses of IPs (loopback, multicast and the
\* like are not among them).
Protected(g) == g.pol.allow \cup g.local
                  \cup (IF g.pol.banPrivate THEN {} ELSE Private)

\* Tracker.ActiveBans
Active(g) == {ip \in IPs : g.trk[ip] = "banned"}

\* currentEnforcer returns an enforcer
Ready(s) == s.m.enforcer /\ s.m.state = "ok"

CanFail(s, call) == call \in Faulty /\ s.nft.faults < MaxFaults

\* setEnforceError
Fail(s) == [s EXCEPT !.m.state = "error", !.nft.faults = @ + 1]

SetTrk(g, S, v) == [ip \in IPs |-> IF ip \in S THEN v ELSE g.trk[ip]]

\* The calls of the Enforcer that succeed, for a set of addresses.
AddLocal(s, S) == [s EXCEPT !.nft.local = @ \cup S]
RemoveLocal(s, S) == [s EXCEPT !.nft.local = @ \ S]
FlushLocal(s) == [s EXCEPT !.nft.local = {}]
ReplaceFleet(s, list) == [s EXCEPT !.nft.fleet = list]

(***************************************************************************)
(* A loop that calls nftables once per element of S, in an order the code  *)
(* does not fix, and stops at the first failure: it ends with all of S     *)
(* handled, or with a proper part of it and the enforcement in error.      *)
(***************************************************************************)
ForEach(s, S, call, Handled(_, _)) ==
    {Handled(s, S)} \cup
    (IF CanFail(s, call) THEN {Fail(Handled(s, R)) : R \in (SUBSET S) \ {S}} ELSE {})

\* Mutant: only the tracker forgets the address.
MutReconcileProtected(s) ==
    {[s EXCEPT !.m.trk = SetTrk(s.m, Active(s.m) \cap Protected(s.m), "none")]}

\* reconcileProtected
ReconcileProtected(s) ==
    LET Forget(t, R) == [t EXCEPT !.m.trk = SetTrk(t.m, R, "none")]
        Release(t, R) == RemoveLocal(Forget(t, R), R)
        P == Active(s.m) \cap Protected(s.m)
    IN IF Ready(s) THEN ForEach(s, P, "remove", Release) ELSE {Forget(s, P)}

\* syncLocalFromTracker
SyncLocalFromTracker(s) ==
    IF Ready(s) THEN ForEach(s, Active(s.m), "add", AddLocal) ELSE {s}

\* applyFleet
ApplyFleet(s, entries) ==
    LET kept == [s EXCEPT !.m.fleet = entries]
        list == IF s.m.have /\ s.m.pol.enforce /\ s.m.pol.applyFleet
                THEN entries \ (Protected(s.m) \cup Private) ELSE {}
    IN IF ~Ready(s) THEN {kept}
       ELSE {ReplaceFleet(kept, list)} \cup
            (IF CanFail(s, "replace") THEN {Fail(kept)} ELSE {})

\* The elements of R are deleted, and those of I become bans of the tracker.
Adopt(s, R, I) == [RemoveLocal(s, R) EXCEPT !.m.trk = SetTrk(s.m, I, "banned")]
Detach(s) == [s EXCEPT !.m.enforcer = FALSE]
Attach(s) == [s EXCEPT !.m.enforcer = TRUE, !.m.state = "ok"]

\* Mutant: a new enforcer does not import what the table holds.
MutEnsureEnforcer(s) ==
    {IF s.m.cap THEN [s EXCEPT !.m.enforcer = TRUE, !.m.state = "ok"]
                ELSE [s EXCEPT !.m.state = "no_permission"]}

(***************************************************************************)
(* ensureEnforcer.  A new enforcer adopts what the table already holds;    *)
(* an error of Active is only logged, so that the sets are then taken to   *)
(* be empty.  The function returned true iff the result is Ready.          *)
(***************************************************************************)
EnsureEnforcer(s) ==
    LET c == Detach(s)
        bad == s.nft.local \cap Protected(s.m)
    IN  IF Ready(s) THEN {s}
        ELSE IF ~s.m.cap THEN {[s EXCEPT !.m.state = "no_permission"]}
        ELSE {Attach(Adopt(c, bad, s.nft.local \ bad))}
             \cup (IF CanFail(s, "setup") THEN {Fail(c)} ELSE {})
             \cup (IF CanFail(s, "active") THEN {Attach([c EXCEPT !.nft.faults = @ + 1])} ELSE {})
             \cup (IF CanFail(s, "remove")
                   THEN {Fail(Adopt(c, R, I)) : R \in (SUBSET bad) \ {bad},
                                                I \in SUBSET (s.nft.local \ bad)}
                   ELSE {})

\* disableEnforcement
DisableEnforcement(s) ==
    IF ~Ready(s) THEN {s}
    ELSE {ReplaceFleet(FlushLocal(s), {})}
         \cup (IF CanFail(s, "flush") THEN {Fail(s)} ELSE {})
         \cup (IF CanFail(s, "replace") THEN {Fail(FlushLocal(s))} ELSE {})

\* One turn of the loop of applyUnbans: an enforcer that fails counts as
\* absent for the rest of the list, which is what Ready says of it.
ApplyUnban(s, u) ==
    LET lifted == [s EXCEPT !.m.trk[u.ip] = "none", !.m.seen = @ \cup {u}]
    IN IF u \in s.m.seen \/ (s.m.pol.enforce /\ ~Ready(s)) THEN {s}
       ELSE IF ~Ready(s) THEN {lifted}
       ELSE {RemoveLocal(lifted, {u.ip})}
            \cup (IF CanFail(s, "remove") THEN {Fail(s)} ELSE {})

\* applyUnbans
ApplyUnbans(s, list) ==
    LET after[k \in 0..Len(list)] ==
          IF k = 0 THEN {s} ELSE UNION {ApplyUnban(t, list[k]) : t \in after[k - 1]}
    IN after[Len(list)]

\* refreshLocalAddrs: the guard's addresses are replaced by what could be
\* found out now.  The agent's own addresses are not among IPs.
RefreshLocalAddrs(s) ==
    LET found == {{ServerIP}} \cup (IF DNSFails THEN {{}} ELSE {})
        Fleet(t) == ApplyFleet(t, t.m.fleet)
    IN UNION {AndThen(ReconcileProtected([s EXCEPT !.m.local = L]), Fleet) : L \in found}

\* retryEnforcer
RetryEnforcer(s) ==
    LET Fleet(t) == ApplyFleet(t, t.m.fleet)
        Resume(t) == IF Ready(t) THEN AndThen(SyncLocalFromTracker(t), Fleet) ELSE {t}
    IN IF s.m.have /\ s.m.pol.enforce /\ s.m.state # "ok"
       THEN AndThen(EnsureEnforcer(s), Resume) ELSE {s}

\* startSource, stopSource: failures already queued stay in the channel.
SetSource(s, detect) == [s EXCEPT !.m.source = detect]

\* The first lines of apply: without an allowlist nothing is enforced.
Take(s, cfg) ==
    [s EXCEPT !.m.pol = [cfg.pol EXCEPT !.enforce = @ /\ cfg.pol.allow # {}],
              !.m.have = TRUE, !.m.applied = cfg.version]

\* apply
ApplyPolicy(s, cfg) ==
    LET set == Take(s, cfg)
        prev == s.m.have /\ s.m.pol.enforce
        Source(t) == {SetSource(t, set.m.pol.detect)}
        SyncUnless(t) == IF Ready(t) /\ ~prev THEN SyncLocalFromTracker(t) ELSE {t}
        Enforce(t) == IF set.m.pol.enforce THEN AndThen(EnsureEnforcer(t), SyncUnless)
                      ELSE DisableEnforcement(t)
        Unbans(t) == ApplyUnbans(t, cfg.cmds)
        Fleet(t) == ApplyFleet(t, cfg.fleet)
    IN AndThen(AndThen(AndThen(AndThen(AndThen(RefreshLocalAddrs(set), Source), Enforce),
                               ReconcileProtected), Unbans), Fleet)

(***************************************************************************)
(* handleFailure.  The failure may be too old for find_time, and Observe   *)
(* may not have counted enough of them yet: then nothing happens.          *)
(***************************************************************************)
Ban(s, ip) ==
    LET b == [s EXCEPT !.m.trk[ip] = "banned", !.m.limited = @ \ {ip}]
    IN IF ~(s.m.have /\ s.m.pol.enforce /\ Ready(s)) THEN {b}
       ELSE IF Cardinality(Active(b.m)) > MaxLocal
            THEN {[b EXCEPT !.m.limited = @ \cup {ip}]}
       ELSE {AddLocal(b, {ip})} \cup
            (IF CanFail(s, "add") THEN {Fail(b)} ELSE {})

HandleFailure(s, ip) ==
    LET r == [s EXCEPT !.m.failures = @ \ {ip}]
    IN IF ip \in Protected(r.m) \cup Active(r.m) THEN {r} ELSE {r} \cup Ban(r, ip)

----------------------------------------------------------------------------
State == [m |-> m, nft |-> nft]

\* The goroutine of Run has handled one case of its select.
Handled(S) == \E s \in S : m' = s.m /\ nft' = s.nft

IbInit ==
    /\ \E c \in Caps : m = NewManager(c)
    /\ nft = [local |-> {}, fleet |-> {}, faults |-> 0]
    /\ \E p \in Policies : srv = [version |-> 1, pol |-> p, fleet |-> {}, cmds |-> <<>>, issued |-> 0]
    /\ aged = {} /\ inflight = NoConfig /\ alive = TRUE /\ crashes = 0 /\ done = {}

Idle == alive /\ inflight = NoConfig

\* The sshd source hands a failure to enqueue.
Enqueue(ip) ==
    /\ alive /\ m.source /\ ip \notin m.failures
    /\ m' = [m EXCEPT !.failures = @ \cup {ip}]
    /\ UNCHANGED <<nft, srv, aged, inflight, alive, crashes, done>>

LoginFailure(ip) ==
    /\ Idle /\ ip \in m.failures
    /\ Handled(HandleFailure(State, ip))
    /\ UNCHANGED <<srv, aged, inflight, alive, crashes, done>>

\* The timer, a signalled version or the five-minute ticker starts a fetch;
\* AgentConfig reads one snapshot.
FetchRead ==
    /\ Idle /\ inflight' = srv
    /\ UNCHANGED <<m, nft, srv, aged, alive, crashes, done>>

FetchFails ==
    /\ alive /\ inflight # NoConfig /\ inflight' = NoConfig
    /\ UNCHANGED <<m, nft, srv, aged, alive, crashes, done>>

FetchApply ==
    /\ alive /\ inflight # NoConfig /\ inflight' = NoConfig
    /\ Handled(ApplyPolicy(State, inflight))
    /\ done' = done \cup (m'.seen \ m.seen)
    /\ UNCHANGED <<srv, aged, alive, crashes>>

\* The minute ticker: Tracker.Prune, pruneUnbans, retryEnforcer.
PruneTick ==
    /\ Idle
    /\ \E lapsed \in SUBSET {ip \in IPs : m.trk[ip] = "lapsed"},
          old \in SUBSET {u \in m.seen : u.id \in aged} :
         Handled(RetryEnforcer([State EXCEPT !.m.trk = SetTrk(m, lapsed, "none"),
                                             !.m.seen = @ \ old]))
    /\ UNCHANGED <<srv, aged, inflight, alive, crashes, done>>

RefreshTick ==
    /\ Idle
    /\ Handled(RefreshLocalAddrs(State))
    /\ UNCHANGED <<srv, aged, inflight, alive, crashes, done>>

\* The process ends, by a signal (shutdown) or a crash; the table stays.
Stop ==
    /\ alive /\ crashes < MaxCrashes
    /\ alive' = FALSE /\ crashes' = crashes + 1 /\ inflight' = NoConfig
    /\ UNCHANGED <<m, nft, srv, aged, done>>

Start ==
    /\ ~alive /\ alive' = TRUE
    /\ \E c \in Caps : m' = NewManager(c)
    /\ UNCHANGED <<nft, srv, aged, inflight, crashes, done>>

\* The time of a ban is over.
Expire(ip) ==
    /\ m.trk[ip] = "banned" \/ ip \in nft.local
    /\ m' = [m EXCEPT !.trk[ip] = IF @ = "banned" THEN "lapsed" ELSE @]
    /\ nft' = [nft EXCEPT !.local = @ \ {ip}]
    /\ UNCHANGED <<srv, aged, inflight, alive, crashes, done>>

\* The time of a fleet entry is over, on the server and in every copy of it.
FleetExpire(ip) ==
    /\ ip \in srv.fleet \cup m.fleet \cup nft.fleet
    /\ srv' = [srv EXCEPT !.fleet = @ \ {ip}]
    /\ m' = [m EXCEPT !.fleet = @ \ {ip}]
    /\ nft' = [nft EXCEPT !.fleet = @ \ {ip}]
    /\ inflight' = IF inflight = NoConfig THEN NoConfig
                   ELSE [inflight EXCEPT !.fleet = @ \ {ip}]
    /\ UNCHANGED <<aged, alive, crashes, done>>

----------------------------------------------------------------------------
(***************************************************************************)
(* The server, as far as AgentConfig shows it.  Every change of it bumps   *)
(* the version.                                                            *)
(***************************************************************************)
Bump(s) == srv.version < MaxVersion /\ srv' = [s EXCEPT !.version = @ + 1]

\* INSERT INTO ipban_host_cmds; issued numbers the commands in time order.
Command(s, ip) == [s EXCEPT !.issued = @ + 1,
                            !.cmds = Append(@, [id |-> s.issued + 1, ip |-> ip])]

UpdatePolicy ==
    /\ \E p \in Policies \ {srv.pol} : Bump([srv EXCEPT !.pol = p])
    /\ UNCHANGED <<m, nft, aged, inflight, alive, crashes, done>>

FleetBan(ip) ==
    /\ ip \notin srv.fleet \cup Private \cup srv.pol.allow
    /\ Bump([srv EXCEPT !.fleet = @ \cup {ip}])
    /\ UNCHANGED <<m, nft, aged, inflight, alive, crashes, done>>

\* The hosts on which the server believes the address banned get a command.
FleetUnban(ip) ==
    /\ ip \in srv.fleet
    /\ LET lifted == [srv EXCEPT !.fleet = @ \ {ip}]
       IN Bump(lifted) \/ (srv.issued < MaxCmds /\ Bump(Command(lifted, ip)))
    /\ UNCHANGED <<m, nft, aged, inflight, alive, crashes, done>>

HostUnban(ip) ==
    /\ srv.issued < MaxCmds /\ Bump(Command(srv, ip))
    /\ UNCHANGED <<m, nft, aged, inflight, alive, crashes, done>>

\* 24 hours after a command was created ...
Age(u) ==
    /\ u \in Range(srv.cmds) /\ u.id \notin aged
    /\ aged' = aged \cup {u.id}
    /\ UNCHANGED <<m, nft, srv, inflight, alive, crashes, done>>

\* ... the next sweep deletes it.
SweepCommand(u) ==
    /\ u.id \in aged
    /\ \E i \in DOMAIN srv.cmds : srv.cmds[i] = u /\ srv' = [srv EXCEPT !.cmds = RemoveAt(@, i)]
    /\ UNCHANGED <<m, nft, aged, inflight, alive, crashes, done>>

IbNext ==
    \/ \E ip \in IPs : Enqueue(ip) \/ LoginFailure(ip) \/ Expire(ip) \/ FleetExpire(ip)
    \/ FetchRead \/ FetchFails \/ FetchApply \/ PruneTick \/ RefreshTick
    \/ Stop \/ Start
    \/ UpdatePolicy
    \/ \E ip \in IPs : FleetBan(ip) \/ FleetUnban(ip) \/ HostUnban(ip)
    \/ \E u \in Cmds : Age(u) \/ SweepCommand(u)

IbSpec == IbInit /\ [][IbNext]_ibVars

(***************************************************************************)
(* Fairness: the timer and the tickers of Run keep firing, the service     *)
(* manager restarts the agent, and a fetch that is tried again and again   *)
(* is answered in the end.  A sweep that never comes, or a ban that never  *)
(* ends, is allowed.                                                       *)
(***************************************************************************)
IbFairSpec == IbSpec /\ WF_ibVars(FetchRead) /\ SF_ibVars(FetchApply)
                 /\ WF_ibVars(PruneTick) /\ WF_ibVars(Start)

----------------------------------------------------------------------------
ConfigOK(c) ==
    /\ c.version \in 1..MaxVersion /\ c.pol \in Policies /\ c.fleet \subseteq IPs
    /\ c.cmds \in Seq(Cmds) /\ c.issued \in 0..MaxCmds

\* The types of the manager's, the kernel's and the server's state.
IbTypeOK ==
    /\ m.have \in BOOLEAN /\ m.pol \in PolicySet /\ m.applied \in 0..MaxVersion
    /\ m.cap \in Caps /\ m.source \in BOOLEAN /\ m.failures \subseteq IPs
    /\ m.enforcer \in BOOLEAN /\ m.state \in {"none", "ok", "error", "no_permission"}
    /\ m.trk \in [IPs -> {"none", "banned", "lapsed"}]
    /\ m.limited \cup m.local \cup m.fleet \subseteq IPs /\ m.seen \subseteq Cmds
    /\ nft.local \cup nft.fleet \subseteq IPs /\ nft.faults \in 0..MaxFaults
    /\ ConfigOK(srv) /\ (inflight = NoConfig \/ ConfigOK(inflight))
    /\ aged \subseteq 1..MaxCmds /\ alive \in BOOLEAN /\ crashes \in 0..MaxCrashes
    /\ done \subseteq Cmds

\* The manager has applied a policy and reports enforcement as working.
Enforcing == alive /\ Ready(State)

(***************************************************************************)
(* While no nftables call has failed and the manager works, the kernel's   *)
(* local set is exactly the tracker's active bans (less the ones over the  *)
(* limit), none of them protected, and empty when the policy observes:     *)
(* through restarts that adopt old elements, policies that toggle, an      *)
(* allowlist that grows and commands that arrive late.                     *)
(***************************************************************************)
KernelMatchesTracker ==
    Enforcing /\ nft.faults = 0 =>
       IF m.pol.enforce
       THEN /\ nft.local \subseteq Active(m)
            /\ Active(m) \ nft.local \subseteq m.limited
            /\ nft.local \cap Protected(m) = {}
       ELSE nft.local = {}

(***************************************************************************)
(* Likewise the kernel's fleet set is the last list the server sent,       *)
(* without the addresses the guard protects NOW: refreshLocalAddrs and the *)
(* retry apply the stored list again, so the filter is never out of date.  *)
(***************************************************************************)
FleetSetMatchesList ==
    Enforcing /\ nft.faults = 0 =>
       nft.fleet = IF m.pol.enforce /\ m.pol.applyFleet
                   THEN m.fleet \ (Protected(m) \cup Private) ELSE {}

(***************************************************************************)
(* An enforcement that fails in the middle never loses an unban: a command *)
(* counts as carried out only if its address is neither in the kernel nor  *)
(* in the tracker at that moment, unless the process only observes and     *)
(* has no enforcer.                                                        *)
(***************************************************************************)
UnbanReachesKernel ==
    \A u \in m'.seen \ m.seen :
        m'.trk[u.ip] # "banned" /\ (m'.pol.enforce => u.ip \notin nft'.local)

(***************************************************************************)
(* "Banned addresses are dropped by nftables on each capable host": while  *)
(* the agent reports enforcement as ok, every active ban below the limit   *)
(* is in the kernel.                                                       *)
(***************************************************************************)
BansAreEnforced ==
    Enforcing /\ m.pol.enforce => Active(m) \ nft.local \subseteq m.limited

(***************************************************************************)
(* An address the operator allowlists does not stay blocked, whatever      *)
(* calls fail on the way (reading the sets back excepted, see Faulty).     *)
(***************************************************************************)
AllowlistTakesHold ==
    \A ip \in IPs : []<>(ip \in srv.pol.allow => ip \notin nft.local)

(***************************************************************************)
(* An unban the server still lists is carried out in the end, through      *)
(* failing calls, lost answers and restarts.                               *)
(***************************************************************************)
UnbanTakesHold ==
    \A u \in Cmds : []<>(u \in Range(srv.cmds) => u \in done)

\* Both of the kernel's sets are what the manager believes them to be.
KernelFollowsManager == IbTypeOK /\ KernelMatchesTracker /\ FleetSetMatchesList

\* What an operator releases, by the allowlist or by an unban, is released, and no unban counts as done before.
ReleasesTakeHold == [][UnbanReachesKernel]_ibVars /\ AllowlistTakesHold /\ UnbanTakesHold
=============================================================================
