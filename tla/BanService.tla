----------------------------- MODULE BanService -----------------------------
(***************************************************************************)
(* The server side of IP banning (internal/server/ipban/service.go): the   *)
(* ipban tables, the calls that change them and the copy of the settings   *)
(* and of the version that the process keeps beside them.                  *)
(*                                                                         *)
(* db is the committed state of the tables.  Ingest runs at RepeatableRead *)
(* on a snapshot and fails when a row it writes was written by a later     *)
(* commit (dirty); the operators' calls run at ReadCommitted, take row     *)
(* locks and see what is committed when each statement runs.  A version    *)
(* is published to the process in steps that follow the commit.            *)
(*                                                                         *)
(* Abstracted: of the settings, those that decide something here (enforce, *)
(* contribute, allowlist); detect and apply_fleet are carried like         *)
(* contribute; expiry is an age that time moves; the unban commands, which *)
(* only AgentConfig reads, are the variable srv of IPBanAgent.             *)
(***************************************************************************)
EXTENDS Naturals, FiniteSets, Sequences

CONSTANTS
  SvHost,          \* registered hosts
  SvAddr,          \* addresses that are banned
  AllowEntry,      \* addresses an allowlist may name
  Routable,        \* the addresses IsRoutable accepts
  SvReport,        \* reports an agent may post, each any number of times
  SvCall,          \* calls the server works on at the same time
  FleetMinHosts,   \* fleet_min_hosts
  FleetMinBans,    \* fleet_min_bans
  InitSettings,    \* the settings row when the server starts
  SettingsPatch,   \* bodies of PUT /ipban/settings
  HostPatch,       \* bodies of PUT /ipban/hosts/{id}
  MaxWork,         \* model bound: calls of operators and passing of time
  MaxLost          \* model bound: commits whose answer is lost, and restarts

Tri == {"unset", "on", "off"}
SvSettings == [enforce : BOOLEAN, contribute : BOOLEAN, allow : SUBSET AllowEntry]
SvOverride == [enforce : Tri, contribute : Tri]
SvPolicy == [enforce : BOOLEAN, allow : SUBSET AllowEntry]
SvEvent == [id : Nat, ip : SvAddr, act : {"ban", "unban"}]

\* A body names some fields of a record, each with a value it may have there.
SomeFields(body, Records) ==
  \E r \in Records : DOMAIN body \subseteq DOMAIN r /\ \A f \in DOMAIN body : body[f] = r[f]

ASSUME BanServiceAssumption ==
  /\ IsFiniteSet(SvHost) /\ Routable \subseteq SvAddr
  /\ FleetMinHosts \in Nat \ {0} /\ FleetMinBans \in Nat \ {0}
  /\ InitSettings \in SvSettings /\ (InitSettings.enforce => InitSettings.allow # {})
  /\ \A p \in SettingsPatch : SomeFields(p, SvSettings)
  /\ \A p \in HostPatch : SomeFields(p, SvOverride)
  /\ \A rep \in SvReport : rep.host \in SvHost /\ rep.events \in Seq(SvEvent)
  /\ "free" \notin SvCall
  /\ MaxWork \in Nat /\ MaxLost \in Nat

VARIABLES
  db,        \* the committed tables
  call,      \* call[c]: what call c is doing
  dirty,     \* dirty[c]: rows committed by others since the snapshot of c
  rowLock,   \* rowLock[r]: the call that holds row r, or "free"
  cached,    \* Service.settings: contents and version
  published, \* Service.version, the number every answer to an agent carries
  view,      \* view[h]: version and policy the agent of h has applied
  lost,      \* ghost: the newest commit was not published
  work,      \* calls of operators and passings of time so far
  losses     \* lost answers and restarts so far

svVars == <<db, call, dirty, rowLock, cached, published, view, lost, work, losses>>

FleetRow == {"none", "fresh", "late", "over", "manual", "manualOver"}
LockedRow == {"settings"} \cup SvAddr
Idle == [pc |-> "idle"]
Max2(m, n) == IF m >= n THEN m ELSE n

-----------------------------------------------------------------------------
(* Policies.                                                               *)

\* effectiveFor: an override decides, the settings otherwise.
Pick(over, base) == IF over = "unset" THEN base ELSE over = "on"

\* AgentConfig: settings and overrides of one snapshot; enforcement is off when
\* the allowlist is empty.
AgentConfig(d, h) ==
  [ver |-> d.ver,
   pol |-> [enforce |-> Pick(d.over[h].enforce, d.set.enforce) /\ d.set.allow # {},
            allow   |-> d.set.allow]]

\* applyInput and the merge of UpdateHostPolicy: the fields the body names.
Merge(current, patch) ==
  [f \in DOMAIN current |-> IF f \in DOMAIN patch THEN patch[f] ELSE current[f]]

\* Validate.
Valid(set) == set.enforce => set.allow # {}

\* What UpdateSettings still asks of the overrides.
OverridesAllow(over, set) ==
  set.allow = {} => \A h \in SvHost : over[h].enforce # "on"

-----------------------------------------------------------------------------
(* Ingest: what one report makes of the snapshot, as the writes of the     *)
(* transaction: new event rows, upserts and deletions of active rows,      *)
(* upserts of fleet rows, and whether the version is raised.               *)

SameKey(ev, h, e) == {r \in ev : r.host = h /\ r.id = e.id}

\* INSERT ... ON CONFLICT (host_id, agent_event_id) DO NOTHING
IsNewEvent(ev, h, e) == SameKey(ev, h, e) = {}

Evidence(ev, ip) == {r \in ev : r.ip = ip /\ r.act = "ban" /\ r.con /\ r.recent}

\* propagate, first part: enough hosts or enough bans, not suppressed, and no
\* row that an operator made.
Promotes(s, ev, ip) ==
  LET rows == Evidence(ev, ip) IN
  /\ \/ Cardinality({r.host : r \in rows}) >= FleetMinHosts
     \/ Cardinality(rows) >= FleetMinBans
  /\ ip \notin s.supp
  /\ s.fleet[ip] \notin {"manual", "manualOver"}

\* propagate, result: a row that is new, or past half of its time to live,
\* must be announced.
MustAnnounce(s, w, ip) ==
  IF ip \in w.fleet THEN FALSE ELSE s.fleet[ip] # "fresh"

IngestEvent(s, h, w, e) ==
  LET con == Pick(s.over[h].contribute, s.set.contribute)
      row == [host |-> h, id |-> e.id, ip |-> e.ip, act |-> e.act, con |-> con,
              recent |-> TRUE, n |-> Cardinality(SameKey(w.ev, h, e))]
      ins == [w EXCEPT !.ev = @ \cup {row}]
  IN  IF ~IsNewEvent(w.ev, h, e) THEN w
      ELSE IF e.act = "unban"
      THEN [ins EXCEPT !.del = @ \cup {<<h, e.ip>>}, !.up = @ \ {<<h, e.ip>>}]
      ELSE LET act == [ins EXCEPT !.up = @ \cup {<<h, e.ip>>}, !.del = @ \ {<<h, e.ip>>}]
           IN  IF con /\ e.ip \in Routable \ s.set.allow /\ Promotes(s, act.ev, e.ip)
               THEN [act EXCEPT !.fleet = @ \cup {e.ip},
                                !.bump = @ \/ MustAnnounce(s, act, e.ip)]
               ELSE act

\* The loop of Ingest over the events of a report: what the first n of them come to.
Ingested(s, rep) ==
  LET w[n \in 0..Len(rep.events)] ==
        IF n = 0 THEN [ev |-> s.ev, up |-> {}, del |-> {}, fleet |-> {}, bump |-> FALSE]
        ELSE IngestEvent(s, rep.host, w[n - 1], rep.events[n])
  IN  w[Len(rep.events)]

\* The snapshot is taken and read when the transaction begins: what is kept of it
\* is what will be written, and what the database compares at the commit.
Writes(s, rep) ==
  LET w == Ingested(s, rep)
  IN  [pc |-> "ingest", new |-> w.ev \ s.ev, up |-> w.up, del |-> w.del \cap s.active,
       fleet |-> w.fleet, bump |-> w.bump, ver |-> IF w.bump THEN s.ver ELSE 0]

\* The transaction on the tables as they are when it commits.
Apply(d, w) ==
  [d EXCEPT !.ev = @ \cup w.new,
            !.active = (@ \ w.del) \cup w.up,
            !.fleet = [ip \in SvAddr |-> IF ip \in w.fleet THEN "fresh" ELSE @[ip]],
            !.ver = IF w.bump THEN @ + 1 ELSE @]

EventKeys(rows) == {<<"event", r.host, r.id>> : r \in rows}
ActiveKeys(pairs) == {<<"active", p[1], p[2]>> : p \in pairs}
FleetKeys(ips) == {<<"fleet", ip>> : ip \in ips}
Keys(w) == EventKeys(w.new) \cup ActiveKeys(w.up \cup w.del) \cup FleetKeys(w.fleet)

\* Mutant: the default isolation level: the raised version meets no conflict.
MutSerializable(d, w, since) ==
  /\ EventKeys(w.new) \cap since = {}
  /\ ActiveKeys((w.up \cap d.active) \cup w.del) \cap since = {}
  /\ FleetKeys({ip \in w.fleet : d.fleet[ip] # "none"}) \cap since = {}

\* PostgreSQL at RepeatableRead: a row that is updated or deleted, or that an
\* insertion meets, must not have been written after the snapshot.  A row that
\* is gone is inserted anew.
Serializable(d, w, since) ==
  /\ EventKeys(w.new) \cap since = {}
  /\ ActiveKeys((w.up \cap d.active) \cup w.del) \cap since = {}
  /\ FleetKeys({ip \in w.fleet : d.fleet[ip] # "none"}) \cap since = {}
  /\ w.bump => d.ver = w.ver

\* A commit that wrote the rows keys: of interest to the open transactions that
\* are about to write one of them.
MarkDirty(keys, others) ==
  dirty' = [c \in SvCall |->
              IF c \in others /\ call[c].pc = "ingest" THEN dirty[c] \cup (keys \cap Keys(call[c])) ELSE {}]

-----------------------------------------------------------------------------
Goto(c, st) == call' = [call EXCEPT ![c] = st]
Free(r) == rowLock[r] = "free"
Release(c) == rowLock' = [r \in LockedRow |-> IF rowLock[r] = c THEN "free" ELSE rowLock[r]]
Operator == work < MaxWork /\ work' = work + 1

\* The commit of a call that goes on to publish its version; or whose answer
\* the connection loses, so that the call returns the error and publishes nothing.
Committed(c, next) ==
  \/ Goto(c, next) /\ UNCHANGED <<lost, losses>>
  \/ /\ losses < MaxLost /\ losses' = losses + 1
     /\ Goto(c, Idle) /\ lost' = TRUE

Publishing(d) == [pc |-> "cas", ver |-> d.ver]

\* POST of a report: the transaction begins and takes its snapshot.
IngestBegin(c, rep) ==
  /\ call[c] = Idle
  /\ Goto(c, Writes(db, rep))
  /\ UNCHANGED <<db, dirty, rowLock, cached, published, view, lost, work, losses>>

IngestCommit(c) ==
  /\ call[c].pc = "ingest"
  /\ LET w == call[c] IN
     /\ Serializable(db, w, dirty[c])
     /\ w.bump => Free("settings")
     /\ \A ip \in w.fleet : Free(ip)
     /\ db' = Apply(db, w)
     /\ MarkDirty(Keys(w), SvCall \ {c})
     /\ IF w.bump THEN Committed(c, Publishing(db')) ELSE Goto(c, Idle) /\ UNCHANGED <<lost, losses>>
  /\ UNCHANGED <<rowLock, cached, published, view, work>>

\* A serialization failure, a lost connection or a client that went away before
\* the commit: the transaction is rolled back and the error is answered.
CallFails(c) ==
  /\ call[c].pc \in {"ingest", "settings", "host", "manual", "unban"}
  /\ Goto(c, Idle) /\ Release(c)
  /\ dirty' = [dirty EXCEPT ![c] = {}]
  /\ UNCHANGED <<db, cached, published, view, lost, work, losses>>

\* UpdateSettings: SELECT ... FOR UPDATE, then validation and UPDATE.
UpdateSettingsBegin(c, patch) ==
  /\ call[c] = Idle /\ Operator /\ Free("settings")
  /\ rowLock' = [rowLock EXCEPT !["settings"] = c]
  /\ Goto(c, [pc |-> "settings", set |-> Merge(db.set, patch), over |-> db.over])
  /\ UNCHANGED <<db, dirty, cached, published, view, lost, losses>>

UpdateSettingsCommit(c) ==
  /\ call[c].pc = "settings"
  /\ LET next == call[c].set IN
     IF Valid(next) /\ OverridesAllow(call[c].over, next)
     THEN /\ db' = [db EXCEPT !.set = next, !.ver = @ + 1]
          /\ Committed(c, [pc |-> "store", set |-> next, ver |-> db'.ver])
     ELSE Goto(c, Idle) /\ UNCHANGED <<db, lost, losses>>
  /\ Release(c)
  /\ UNCHANGED <<dirty, cached, published, view, work>>

\* UpdateSettings after its commit: the cached settings, then the version.
StoreSettings(c) ==
  /\ call[c].pc = "store"
  /\ cached' = IF call[c].ver >= cached.ver THEN [set |-> call[c].set, ver |-> call[c].ver] ELSE cached
  /\ Goto(c, [pc |-> "storever", ver |-> call[c].ver])
  /\ UNCHANGED <<db, dirty, rowLock, published, view, lost, work, losses>>

StoreVersion(c) ==
  /\ call[c].pc = "storever"
  /\ published' = Max2(published, call[c].ver)
  /\ lost' = (lost /\ published' < db.ver)
  /\ Goto(c, Idle)
  /\ UNCHANGED <<db, dirty, rowLock, cached, view, work, losses>>

\* Mutant: the settings row is read without FOR UPDATE.
MutUpdateHostPolicyBegin(c, h, patch) ==
  /\ call[c] = Idle /\ Operator
  /\ Goto(c, [pc |-> "host", host |-> h, over |-> Merge(db.over[h], patch), set |-> db.set])
  /\ UNCHANGED <<db, dirty, rowLock, cached, published, view, lost, losses>>

\* UpdateHostPolicy: the same row lock, the merged override, the version.
UpdateHostPolicyBegin(c, h, patch) ==
  /\ call[c] = Idle /\ Operator /\ Free("settings")
  /\ rowLock' = [rowLock EXCEPT !["settings"] = c]
  /\ Goto(c, [pc |-> "host", host |-> h, over |-> Merge(db.over[h], patch), set |-> db.set])
  /\ UNCHANGED <<db, dirty, cached, published, view, lost, losses>>

UpdateHostPolicyCommit(c) ==
  /\ call[c].pc = "host"
  /\ LET next == call[c].over IN
     IF Pick(next.enforce, call[c].set.enforce) => call[c].set.allow # {}
     THEN /\ db' = [db EXCEPT !.over[call[c].host] = next, !.ver = @ + 1]
          /\ Committed(c, Publishing(db'))
     ELSE Goto(c, Idle) /\ UNCHANGED <<db, lost, losses>>
  /\ Release(c)
  /\ UNCHANGED <<dirty, cached, published, view, work>>

\* ManualBan looks at the cached allowlist before its transaction begins.
ManualBanBegin(c, ip) ==
  /\ call[c] = Idle /\ Operator
  /\ ip \in Routable /\ ip \notin cached.set.allow
  /\ Goto(c, [pc |-> "manual", ip |-> ip])
  /\ UNCHANGED <<db, dirty, rowLock, cached, published, view, lost, losses>>

ManualBanCommit(c) ==
  /\ call[c].pc = "manual"
  /\ LET ip == call[c].ip IN
     /\ Free(ip) /\ Free("settings")
     /\ db' = [db EXCEPT !.supp = @ \ {ip}, !.fleet[ip] = "manual", !.ver = @ + 1]
     /\ MarkDirty(FleetKeys({ip}), SvCall)
  /\ Committed(c, Publishing(db'))
  /\ UNCHANGED <<rowLock, cached, published, view, work>>

\* FleetUnban: the fleet row is deleted first; the active bans are deleted, and
\* the version is raised, by later statements.
FleetUnbanBegin(c, ip) ==
  /\ call[c] = Idle /\ Operator
  /\ Free(ip) /\ db.fleet[ip] # "none"
  /\ rowLock' = [rowLock EXCEPT ![ip] = c]
  /\ Goto(c, [pc |-> "unban", ip |-> ip])
  /\ UNCHANGED <<db, dirty, cached, published, view, lost, losses>>

FleetUnbanCommit(c) ==
  /\ call[c].pc = "unban" /\ Free("settings")
  /\ LET ip == call[c].ip
         gone == {p \in db.active : p[2] = ip} IN
     /\ db' = [db EXCEPT !.fleet[ip] = "none", !.supp = @ \cup {ip}, !.active = @ \ gone, !.ver = @ + 1]
     /\ MarkDirty(FleetKeys({ip}) \cup ActiveKeys(gone), SvCall)
  /\ Committed(c, Publishing(db'))
  /\ Release(c)
  /\ UNCHANGED <<cached, published, view, work>>

\* HostUnban: a command for one host, and the version that makes it ask.
HostUnban(c) ==
  /\ call[c] = Idle /\ Operator /\ Free("settings")
  /\ db' = [db EXCEPT !.ver = @ + 1]
  /\ Committed(c, Publishing(db'))
  /\ UNCHANGED <<dirty, rowLock, cached, published, view>>

\* Mutant: the number is stored without comparing it.
MutPublishVersion(c) ==
  /\ call[c].pc = "cas"
  /\ published' = call[c].ver
  /\ lost' = (lost /\ published' < db.ver)
  /\ Goto(c, [pc |-> "number", ver |-> call[c].ver])
  /\ UNCHANGED <<db, dirty, rowLock, cached, view, work, losses>>

\* publishVersion: the compare-and-swap, then the cached number.
PublishVersion(c) ==
  /\ call[c].pc = "cas"
  /\ published' = Max2(published, call[c].ver)
  /\ lost' = (lost /\ published' < db.ver)
  /\ Goto(c, IF call[c].ver > published THEN [pc |-> "number", ver |-> call[c].ver] ELSE Idle)
  /\ UNCHANGED <<db, dirty, rowLock, cached, view, work, losses>>

PublishNumber(c) ==
  /\ call[c].pc = "number"
  /\ cached' = [cached EXCEPT !.ver = Max2(@, call[c].ver)]
  /\ Goto(c, Idle)
  /\ UNCHANGED <<db, dirty, rowLock, published, view, lost, work, losses>>

-----------------------------------------------------------------------------
(* Time and the sweep.  An active ban, a suppression and a command that    *)
(* have expired are invisible to every reader: expiring and sweeping are   *)
(* one step.  A fleet row is read without its expiry by propagate.         *)

Older(row) == CASE row = "fresh" -> "late" [] row = "late" -> "over"
                [] row = "manual" -> "manualOver" [] OTHER -> row

FleetAges(ip) ==
  /\ Operator /\ Older(db.fleet[ip]) # db.fleet[ip]
  /\ db' = [db EXCEPT !.fleet[ip] = Older(@)]
  /\ UNCHANGED <<call, dirty, rowLock, cached, published, view, lost, losses>>

SweepFleet(ip) ==
  /\ db.fleet[ip] \in {"over", "manualOver"} /\ Free(ip)
  /\ db' = [db EXCEPT !.fleet[ip] = "none"]
  /\ MarkDirty(FleetKeys({ip}), SvCall)
  /\ UNCHANGED <<call, rowLock, cached, published, view, lost, work, losses>>

SweepActive(p) ==
  /\ Operator /\ p \in db.active
  /\ db' = [db EXCEPT !.active = @ \ {p}]
  /\ MarkDirty(ActiveKeys({p}), SvCall)
  /\ UNCHANGED <<call, rowLock, cached, published, view, lost, losses>>

SweepRest ==
  /\ Operator
  /\ \/ db' = [db EXCEPT !.supp = {}]
     \/ db' = [db EXCEPT !.ev = {[r EXCEPT !.recent = FALSE] : r \in @}]
  /\ db' # db
  /\ UNCHANGED <<call, dirty, rowLock, cached, published, view, lost, losses>>

-----------------------------------------------------------------------------
\* A restart: calls end, their transactions are rolled back, Load reads the row.
SvRestart ==
  /\ losses < MaxLost /\ losses' = losses + 1
  /\ call' = [c \in SvCall |-> Idle]
  /\ rowLock' = [r \in LockedRow |-> "free"]
  /\ dirty' = [c \in SvCall |-> {}]
  /\ cached' = [set |-> db.set, ver |-> db.ver]
  /\ published' = db.ver /\ lost' = FALSE
  /\ UNCHANGED <<db, view, work>>

\* Mutant: AgentConfig takes the settings from the process instead of the snapshot.
MutAgentFetches(h) ==
  /\ published # view[h].ver
  /\ view' = [view EXCEPT ![h] = AgentConfig([db EXCEPT !.set = cached.set, !.ver = cached.ver], h)]
  /\ UNCHANGED <<db, call, dirty, rowLock, cached, published, lost, work, losses>>

\* An agent whose answer carried another version than it has applied asks for
\* its configuration.
AgentFetches(h) ==
  /\ published # view[h].ver
  /\ view' = [view EXCEPT ![h] = AgentConfig(db, h)]
  /\ UNCHANGED <<db, call, dirty, rowLock, cached, published, lost, work, losses>>

-----------------------------------------------------------------------------
SvInit ==
  /\ db = [set |-> InitSettings, ver |-> 1,
           over |-> [h \in SvHost |-> [enforce |-> "unset", contribute |-> "unset"]],
           ev |-> {}, active |-> {}, fleet |-> [ip \in SvAddr |-> "none"], supp |-> {}]
  /\ call = [c \in SvCall |-> Idle]
  /\ dirty = [c \in SvCall |-> {}]
  /\ rowLock = [r \in LockedRow |-> "free"]
  /\ cached = [set |-> db.set, ver |-> 1]
  /\ published = 1
  /\ view = [h \in SvHost |-> AgentConfig(db, h)]
  /\ lost = FALSE /\ work = 0 /\ losses = 0

CallStep(c) ==
  \/ IngestCommit(c) \/ CallFails(c)
  \/ UpdateSettingsCommit(c) \/ StoreSettings(c) \/ StoreVersion(c)
  \/ UpdateHostPolicyCommit(c) \/ ManualBanCommit(c) \/ FleetUnbanCommit(c)
  \/ PublishVersion(c) \/ PublishNumber(c)

SvNext ==
  \/ \E c \in SvCall :
       \/ \E rep \in SvReport : IngestBegin(c, rep)
       \/ \E p \in SettingsPatch : UpdateSettingsBegin(c, p)
       \/ \E h \in SvHost, p \in HostPatch : UpdateHostPolicyBegin(c, h, p)
       \/ \E ip \in SvAddr : ManualBanBegin(c, ip) \/ FleetUnbanBegin(c, ip)
       \/ HostUnban(c)
       \/ CallStep(c)
  \/ \E ip \in SvAddr : FleetAges(ip) \/ SweepFleet(ip)
  \/ \E p \in SvHost \X SvAddr : SweepActive(p)
  \/ SweepRest
  \/ SvRestart
  \/ \E h \in SvHost : AgentFetches(h)

SvSpec == SvInit /\ [][SvNext]_svVars

\* A call that has committed publishes: nothing in between can fail.  Agents post
\* every interval, so a version that stays different is fetched.
SvFairness ==
  /\ \A c \in SvCall : WF_svVars(CallStep(c))
  /\ \A h \in SvHost : WF_svVars(AgentFetches(h))

SvFairSpec == SvSpec /\ SvFairness

-----------------------------------------------------------------------------
(* Properties.                                                             *)

\* The committed row, the cached copy and what the agents applied have the shape
\* the code gives them, and no number is ahead of the committed one.
SvTypeOK ==
  /\ db.set \in SvSettings /\ db.over \in [SvHost -> SvOverride] /\ db.ver \in Nat
  /\ db.fleet \in [SvAddr -> FleetRow] /\ db.supp \subseteq SvAddr
  /\ db.active \subseteq SvHost \X SvAddr
  /\ cached.set \in SvSettings /\ cached.ver \in 1..db.ver /\ published \in 1..db.ver
  /\ rowLock \in [LockedRow -> SvCall \cup {"free"}]
  /\ \A h \in SvHost : view[h].pol \in SvPolicy /\ view[h].ver \in 1..db.ver
  /\ lost \in BOOLEAN /\ work \in 0..MaxWork /\ losses \in 0..MaxLost

\* Enforcement is never on, for the fleet or for one host, while the allowlist is
\* empty, although UpdateSettings and UpdateHostPolicy each check only what the
\* other one writes: both hold the settings row from the check to the commit.
EnforcementHasAllowlist ==
  db.set.allow = {} => ~db.set.enforce /\ \A h \in SvHost : db.over[h].enforce # "on"

\* A fleet ban that Ingest makes and announces (the same commit raises the version)
\* contradicts neither the allowlist nor the suppression an operator has committed
\* by then, although both were read from a snapshot.
AnnouncedBansRespectOperator ==
  \A ip \in SvAddr :
       db.fleet[ip] = "none" /\ db'.fleet[ip] = "fresh" /\ db'.ver > db.ver
         => ip \notin db.supp /\ ip \notin db.set.allow

\* An announced fleet ban rests on enough different bans or hosts, however often
\* the agents repeat a report whose answer they missed.
PromotionHasEvidence ==
  \A ip \in SvAddr :
       db.fleet[ip] = "none" /\ db'.fleet[ip] = "fresh" /\ db'.ver > db.ver
         => LET bans == {<<r.host, r.id>> : r \in {x \in db'.ev : x.ip = ip /\ x.act = "ban" /\ x.con}}
            IN  \/ Cardinality({b[1] : b \in bans}) >= FleetMinHosts
                \/ Cardinality(bans) >= FleetMinBans

\* The tables are well formed, and nobody enforces without an allowlist.
PolicyInv == SvTypeOK /\ EnforcementHasAllowlist

\* Every announced fleet ban is one the operators and the evidence allow.
FleetBansAreJustified == [][AnnouncedBansRespectOperator /\ PromotionHasEvidence]_svVars

\* The service implements the numbered policy of BanAuthority: an agent that knows
\* a number knows the policy that was committed under this number.
Authority == INSTANCE BanAuthority WITH
  AuHost <- SvHost, AuPolicy <- SvPolicy,
  number <- db.ver, policy <- [h \in SvHost |-> AgentConfig(db, h).pol], known <- view

ImplementsAuthority == Authority!AuthSpec

\* When operators have stopped, every agent ends with the committed policy, unless
\* the last commit was reported as failed (nothing announces its version then).
PolicyReachesAgents ==
  <>[](lost \/ \A h \in SvHost : view[h] = AgentConfig(db, h))
=============================================================================
