----------------------------- MODULE RepoStore -----------------------------
(***************************************************************************)
(* The REST repository endpoint for one repository name: the row of        *)
(* backup_targets with its usage and quota, the authorisation cache in     *)
(* front of it, the store (a directory, S3, or an S3 without conditional   *)
(* puts), requests that upload and delete, and the operator who creates,   *)
(* changes, measures, revokes and deletes the repository.  Every step is   *)
(* one statement on the database, one call of the store or one critical    *)
(* section of the cache.                                                   *)
(***************************************************************************)
EXTENDS Integers, FiniteSets, FiniteSetsExt, Functions

CONSTANTS
    RsClients,     \* numbers of the requests served at a time
    RsData, RsLocks, RsConfigs,  \* object names by type; data is named by its digest
    RsSize,        \* bytes of an object
    RsContents,    \* what a body may hold
    RsGood,        \* the content whose digest is the name
    RsQuotas,      \* quotas an operator sets, 0 for none
    RsBackends,    \* a subset of {"disk", "s3", "s3plain"}
    RsMaxPosts,    \* model bound: requests
    RsMaxEvents    \* model bound: operations of the operator (a target that was deleted may be created again),
                   \* failures, crashes and objects removed on the backend

RsObjects == RsData \cup RsLocks \cup RsConfigs

ASSUME RsAssumption ==
    /\ RsSize \in [RsObjects -> Nat] /\ RsGood \in RsContents /\ 0 \in RsQuotas
    /\ RsClients \subseteq Nat /\ RsQuotas \subseteq Nat /\ RsMaxPosts \in Nat /\ RsMaxEvents \in Nat
    /\ IsFiniteSet(RsClients) /\ IsFiniteSet(RsObjects)
    /\ RsContents \cap {"delete", "absent"} = {}  \* what the model keeps for a removal and for no object

VARIABLES
    rsBackend,
    rsRow,      \* the row of backup_targets, or NoRow
    rsIds,      \* ids and secrets handed out so far
    rsCache,    \* BackupTargets.byName and cachedAt
    rsObjs,     \* the namespace of the store
    rsReq,      \* the requests being served
    rsAdmin,    \* the operator's request
    rsPosts, rsEvents,
    rsOwner,    \* history: the row whose upload stored an object
    rsAcked,    \* history: uploads answered with 200 and not deleted since
    rsCeil,     \* history: the largest quota of the row so far, 0 once there was none
    rsCaught,   \* history: requests that had reserved before the row was revoked
    rsRaced,    \* history: a credential changed while a request was reading the rows
    rsCauses    \* history: events after which the recorded usage may fall short

rsVars == <<rsBackend, rsRow, rsIds, rsCache, rsObjs, rsReq, rsAdmin, rsPosts, rsEvents,
            rsOwner, rsAcked, rsCeil, rsCaught, rsRaced, rsCauses>>
rsHistory == <<rsOwner, rsAcked, rsCeil, rsCaught, rsRaced, rsCauses>>
rsBounds == <<rsPosts, rsEvents>>

NoRow == [id |-> 0, secret |-> 0, revoked |-> FALSE, quota |-> 0, used |-> 0]
NoEntry == [id |-> 0, secret |-> 0, revoked |-> FALSE]
RsIdle == [pc |-> "idle", obj |-> "", body |-> "", secret |-> 0, id |-> 0, reserved |-> FALSE, freed |-> 0, rows |-> NoEntry]
AdminIdle == [pc |-> "idle", seen |-> 0, overlap |-> FALSE]
Absent == "absent"

Entry == [id |-> rsRow.id, secret |-> rsRow.secret, revoked |-> rsRow.revoked]
RsHeld == [o \in RsObjects |-> IF rsObjs[o] = Absent THEN 0 ELSE RsSize[o]]
Bytes == SumFunction(RsHeld)
Busy == {c \in RsClients : rsReq[c].pc # "idle"}

\* A repository in service, possibly empty
RsInit ==
    /\ rsBackend \in RsBackends
    /\ rsObjs \in [RsObjects -> {RsGood, Absent}]
    /\ rsRow \in [id : {1}, secret : {1}, revoked : {FALSE}, quota : RsQuotas, used : {Bytes}]
    /\ rsRow.quota = 0 \/ rsRow.used <= rsRow.quota
    /\ rsIds = 1
    /\ rsCache = [fresh |-> FALSE, entry |-> NoEntry]
    /\ rsReq = [c \in RsClients |-> RsIdle]
    /\ rsAdmin = AdminIdle
    /\ rsPosts = 0 /\ rsEvents = 0
    /\ rsOwner = [o \in RsObjects |-> 1]
    /\ rsAcked = [o \in RsObjects |-> {rsObjs[o]} \ {Absent}]
    /\ rsCeil = rsRow.quota
    /\ rsCaught = {}
    /\ rsRaced = FALSE
    /\ rsCauses = {}

RsFault == rsEvents < RsMaxEvents /\ rsEvents' = rsEvents + 1
Go(c, pc) == rsReq' = [rsReq EXCEPT ![c].pc = pc]
Answered(c) == rsReq' = [rsReq EXCEPT ![c] = RsIdle]
----------------------------------------------------------------------------
(* The registry: BackupTargets *)

\* The row's quota is looked at, its revocation is not.
MutAdmits(id, n) ==
    /\ rsRow.id = id
    /\ rsRow.quota = 0 \/ rsRow.used + n <= rsRow.quota

\* The WHERE clause of ReserveUsage
Admits(id, n) ==
    /\ rsRow.id = id /\ ~rsRow.revoked
    /\ rsRow.quota = 0 \/ rsRow.used + n <= rsRow.quota

\* ReserveUsage's row afterwards; nothing to reserve is always granted.
Reserved(id, n) == IF n > 0 /\ Admits(id, n) THEN [rsRow EXCEPT !.used = @ + n] ELSE rsRow
Grants(id, n) == n = 0 \/ Admits(id, n)

\* ReleaseUsage
Released(id, n) ==
    IF n > 0 /\ rsRow.id = id THEN [rsRow EXCEPT !.used = IF @ > n THEN @ - n ELSE 0] ELSE rsRow

\* matchTarget
Matches(e, secret) == e.id # 0 /\ e.secret = secret /\ ~e.revoked

\* A request arrives with the secret of some time and is looked up in a cache that is still fresh.
RsArrive(c, o, body, secret) ==
    /\ rsReq[c].pc = "idle" /\ \A d \in RsClients : d < c => rsReq[d].pc # "idle"
    /\ rsPosts < RsMaxPosts
    /\ rsPosts' = rsPosts + 1
    /\ LET new == [RsIdle EXCEPT !.obj = o, !.body = body]
       IN IF ~rsCache.fresh
          THEN rsReq' = [rsReq EXCEPT ![c] = [new EXCEPT !.pc = "refresh", !.secret = secret, !.rows = Entry]]
          ELSE /\ Matches(rsCache.entry, secret)
               /\ rsReq' = [rsReq EXCEPT ![c] = [new EXCEPT !.pc = "authed", !.id = rsCache.entry.id]]
    /\ rsAdmin' = [rsAdmin EXCEPT !.overlap = rsAdmin.pc \in {"measured", "insert"}]
    /\ rsCaught' = rsCaught \ {c}
    /\ UNCHANGED <<rsBackend, rsRow, rsIds, rsCache, rsObjs, rsEvents, rsOwner, rsAcked, rsCeil, rsRaced, rsCauses>>

\* refresh installs what it read, whatever has been invalidated meanwhile.
RsRefresh(c) ==
    /\ rsReq[c].pc = "refresh"
    /\ LET e == rsReq[c].rows
       IN /\ rsCache' = [fresh |-> TRUE, entry |-> e]
          /\ IF Matches(e, rsReq[c].secret)
             THEN rsReq' = [rsReq EXCEPT ![c].pc = "authed", ![c].id = e.id, ![c].secret = 0, ![c].rows = NoEntry]
             ELSE Answered(c)
    /\ UNCHANGED <<rsBackend, rsRow, rsIds, rsObjs, rsAdmin, rsBounds, rsHistory>>

\* The cache's thirty seconds are over.
RsExpire ==
    /\ rsCache.fresh
    /\ rsCache' = [fresh |-> FALSE, entry |-> NoEntry]
    /\ UNCHANGED <<rsBackend, rsRow, rsIds, rsObjs, rsReq, rsAdmin, rsBounds, rsHistory>>
----------------------------------------------------------------------------
(* post *)

\* ReserveUsage; without a reservation only a name that is already there may go on, and never a lock.
RsReserve(c) ==
    /\ rsReq[c].pc = "authed" /\ rsReq[c].body # "delete"
    /\ LET r == rsReq[c]
           n == RsSize[r.obj]
       IN \/ /\ Grants(r.id, n)
             /\ rsRow' = Reserved(r.id, n)
             /\ rsReq' = [rsReq EXCEPT ![c].pc = "create", ![c].reserved = TRUE]
          \/ /\ ~Grants(r.id, n) /\ r.obj \notin RsLocks
             /\ Go(c, "stat") /\ UNCHANGED rsRow
          \/ /\ ~Grants(r.id, n) /\ r.obj \in RsLocks
             /\ Answered(c) /\ UNCHANGED rsRow
    /\ UNCHANGED <<rsBackend, rsIds, rsCache, rsObjs, rsAdmin, rsBounds, rsHistory>>

\* objectPresent
RsStat(c) ==
    /\ rsReq[c].pc = "stat"
    /\ IF rsObjs[rsReq[c].obj] = Absent THEN Answered(c) ELSE Go(c, "create")
    /\ UNCHANGED <<rsBackend, rsRow, rsIds, rsCache, rsObjs, rsAdmin, rsBounds, rsHistory>>

\* classifyDuplicate: S3 is believed to hold what it was given, a file is read again.
Identical(o, body) ==
    IF o \in RsConfigs THEN rsObjs[o] = body
    ELSE body = RsGood /\ (rsBackend = "disk" => rsObjs[o] = RsGood)

\* A duplicate is identical, different, or cannot be compared; the reservation goes back in each case.
Duplicate(c) ==
    LET r == rsReq[c]
    IN /\ rsObjs[r.obj] # Absent
       /\ \/ /\ Identical(r.obj, r.body)
             /\ rsAcked' = [rsAcked EXCEPT ![r.obj] = @ \cup {r.body}]
             /\ UNCHANGED rsEvents
          \/ ~Identical(r.obj, r.body) /\ UNCHANGED <<rsAcked, rsEvents>>
          \/ RsFault /\ UNCHANGED rsAcked
       /\ IF r.reserved THEN Go(c, "release") ELSE Answered(c)
       /\ UNCHANGED <<rsRow, rsObjs, rsOwner, rsCauses>>

\* The object becomes visible under its name.
Commit(c) ==
    LET r == rsReq[c]
    IN /\ rsObjs' = [rsObjs EXCEPT ![r.obj] = r.body]
       /\ rsOwner' = [rsOwner EXCEPT ![r.obj] = r.id]
       /\ UNCHANGED rsRow

Stored(c) ==
    /\ Commit(c)
    /\ rsAcked' = [rsAcked EXCEPT ![rsReq[c].obj] = {rsReq[c].body}]
    /\ IF rsReq[c].reserved THEN Answered(c) ELSE Go(c, "late")
    /\ UNCHANGED <<rsEvents, rsCauses>>

\* An ambiguous failure gives the reservation back.
MutAmbiguous(c) ==
    /\ RsFault
    /\ IF rsReq[c].reserved THEN Go(c, "release") ELSE Answered(c)
    /\ UNCHANGED <<rsAcked, rsCauses>>
    /\ \/ UNCHANGED <<rsRow, rsObjs, rsOwner>>
       \/ rsBackend = "s3" /\ rsObjs[rsReq[c].obj] = Absent /\ Commit(c)

\* An ambiguous failure: the reservation is kept, and on S3 the object may be there all the same.
Ambiguous(c) ==
    /\ RsFault
    /\ Answered(c)
    /\ UNCHANGED rsAcked
    /\ \/ UNCHANGED <<rsRow, rsObjs, rsOwner, rsCauses>>
       \/ /\ (rsBackend = "s3" /\ rsObjs[rsReq[c].obj] = Absent) \/ (rsBackend = "s3plain" /\ rsReq[c].pc = "commit")
          /\ Commit(c)
          /\ rsCauses' = IF rsReq[c].reserved THEN rsCauses ELSE rsCauses \cup {"unreserved"}

\* Create, up to the complete temporary file or the conditional put
RsCreate(c) ==
    /\ rsReq[c].pc = "create"
    /\ LET r == rsReq[c]
           absent == rsObjs[r.obj] = Absent
       IN \/ rsBackend # "s3plain" /\ Duplicate(c)
          \/ rsBackend = "disk" /\ absent /\ Go(c, "commit") /\ UNCHANGED <<rsRow, rsObjs, rsOwner, rsAcked, rsEvents, rsCauses>>
          \/ rsBackend = "s3" /\ absent /\ Stored(c)
          \/ rsBackend = "s3plain" /\ r.obj \in RsLocks /\ Duplicate(c)
          \/ rsBackend = "s3plain" /\ r.obj \in RsLocks /\ absent
             /\ Go(c, "commit") /\ UNCHANGED <<rsRow, rsObjs, rsOwner, rsAcked, rsEvents, rsCauses>>
          \/ rsBackend = "s3plain" /\ r.obj \notin RsLocks
             /\ Answered(c) /\ UNCHANGED <<rsRow, rsObjs, rsOwner, rsAcked, rsEvents, rsCauses>>
          \/ Ambiguous(c)
    /\ UNCHANGED <<rsBackend, rsIds, rsCache, rsAdmin, rsPosts, rsCeil, rsCaught, rsRaced>>

\* os.Link, or the unconditional put of a lock
RsCommit(c) ==
    /\ rsReq[c].pc = "commit"
    /\ \/ (rsBackend = "s3plain" \/ rsObjs[rsReq[c].obj] = Absent) /\ Stored(c)
       \/ rsBackend = "disk" /\ Duplicate(c)
       \/ Ambiguous(c)
    /\ UNCHANGED <<rsBackend, rsIds, rsCache, rsAdmin, rsPosts, rsCeil, rsCaught, rsRaced>>

\* releaseUsage; a release that fails leaves the usage too high.
RsRelease(c) ==
    /\ rsReq[c].pc = "release"
    /\ Answered(c)
    /\ \/ rsRow' = Released(rsReq[c].id, RsSize[rsReq[c].obj]) /\ UNCHANGED rsEvents
       \/ RsFault /\ UNCHANGED rsRow
    /\ UNCHANGED <<rsBackend, rsIds, rsCache, rsObjs, rsAdmin, rsPosts, rsHistory>>

\* reserveAfterUnaccountedCommit
RsLate(c) ==
    /\ rsReq[c].pc = "late"
    /\ Answered(c)
    /\ LET r == rsReq[c]
           n == RsSize[r.obj]
       IN /\ rsRow' = Reserved(r.id, n)
          /\ rsCauses' = IF Grants(r.id, n) THEN rsCauses ELSE rsCauses \cup {"unreserved"}
    /\ UNCHANGED <<rsBackend, rsIds, rsCache, rsObjs, rsAdmin, rsBounds, rsOwner, rsAcked, rsCeil, rsCaught, rsRaced>>
----------------------------------------------------------------------------
(* handleDelete: only locks *)

RsDeleteStat(c) ==
    /\ rsReq[c].pc = "authed" /\ rsReq[c].body = "delete"
    /\ rsReq' = [rsReq EXCEPT ![c].pc = "unlink",
                    ![c].freed = IF rsObjs[rsReq[c].obj] = Absent THEN 0 ELSE RsSize[rsReq[c].obj]]
    /\ UNCHANGED <<rsBackend, rsRow, rsIds, rsCache, rsObjs, rsAdmin, rsBounds, rsHistory>>

\* Removing a file that is gone frees nothing; S3 deletes what is not there with success.
RsUnlink(c) ==
    /\ rsReq[c].pc = "unlink"
    /\ LET r == rsReq[c]
           gone == rsObjs[r.obj] = Absent
           freed == IF gone /\ rsBackend = "disk" THEN 0 ELSE r.freed
       IN /\ rsObjs' = [rsObjs EXCEPT ![r.obj] = Absent]
          /\ rsAcked' = [rsAcked EXCEPT ![r.obj] = {}]
          /\ rsCauses' = IF gone /\ freed > 0 THEN rsCauses \cup {"freed twice"} ELSE rsCauses
          /\ IF freed > 0 THEN Go(c, "release") ELSE Answered(c)
    /\ UNCHANGED <<rsBackend, rsRow, rsIds, rsCache, rsAdmin, rsBounds, rsOwner, rsCeil, rsCaught, rsRaced>>
----------------------------------------------------------------------------
(* The operator: one statement, then invalidate where the code does *)

AdminBegins == rsAdmin.pc = "idle" /\ rsEvents < RsMaxEvents /\ rsEvents' = rsEvents + 1
AdminGo(pc) == rsAdmin' = [AdminIdle EXCEPT !.pc = pc]
CredentialChanges == rsRaced' = (rsRaced \/ \E c \in RsClients : rsReq[c].pc = "refresh")

\* The larger of two quotas, none being the largest
Wider(q, r) == IF q = 0 \/ r = 0 THEN 0 ELSE Max({q, r})

RsRevoke ==
    /\ AdminBegins /\ rsRow.id # 0 /\ ~rsRow.revoked
    /\ rsRow' = [rsRow EXCEPT !.revoked = TRUE]
    /\ rsCaught' = {c \in Busy : rsReq[c].reserved}
    /\ CredentialChanges
    /\ AdminGo("invalidate")
    /\ UNCHANGED <<rsBackend, rsIds, rsCache, rsObjs, rsReq, rsPosts, rsOwner, rsAcked, rsCeil, rsCauses>>

\* Rotate also takes a revocation back.
RsRotate ==
    /\ AdminBegins /\ rsRow.id # 0
    /\ rsIds' = rsIds + 1
    /\ rsRow' = [rsRow EXCEPT !.secret = rsIds', !.revoked = FALSE]
    /\ CredentialChanges
    /\ AdminGo("invalidate")
    /\ UNCHANGED <<rsBackend, rsCache, rsObjs, rsReq, rsPosts, rsOwner, rsAcked, rsCeil, rsCaught, rsCauses>>

RsSetQuota(q) ==
    /\ AdminBegins /\ rsRow.id # 0 /\ q # rsRow.quota
    /\ rsRow' = [rsRow EXCEPT !.quota = q]
    /\ rsCeil' = Wider(rsCeil, q)
    /\ AdminGo("invalidate")
    /\ UNCHANGED <<rsBackend, rsIds, rsCache, rsObjs, rsReq, rsPosts, rsOwner, rsAcked, rsCaught, rsRaced, rsCauses>>

RsInvalidate ==
    /\ rsAdmin.pc = "invalidate"
    /\ rsCache' = [fresh |-> FALSE, entry |-> NoEntry]
    /\ AdminGo("idle")
    /\ UNCHANGED <<rsBackend, rsRow, rsIds, rsObjs, rsReq, rsBounds, rsHistory>>

\* measureBackupTargetHandler: RepoUsage, then SetUsage
RsMeasure ==
    /\ AdminBegins /\ rsRow.id # 0
    /\ rsAdmin' = [pc |-> "measured", seen |-> Bytes, overlap |-> Busy # {}]
    /\ UNCHANGED <<rsBackend, rsRow, rsIds, rsCache, rsObjs, rsReq, rsPosts, rsHistory>>

RsSetUsage ==
    /\ rsAdmin.pc = "measured"
    /\ rsRow' = [rsRow EXCEPT !.used = rsAdmin.seen]
    /\ rsCauses' = IF rsAdmin.overlap THEN rsCauses \cup {"measured"} ELSE rsCauses
    /\ AdminGo("idle")
    /\ UNCHANGED <<rsBackend, rsIds, rsCache, rsObjs, rsReq, rsBounds, rsOwner, rsAcked, rsCeil, rsCaught, rsRaced>>

\* backupTargetDeletable
Deletable == rsRow.used = 0 /\ \A o \in RsObjects : rsObjs[o] = Absent

\* deleteBackupTargetHandler: a preflight, then the row
RsDeleteCheck ==
    /\ AdminBegins /\ rsRow.id # 0 /\ Deletable
    /\ AdminGo("delete")
    /\ UNCHANGED <<rsBackend, rsRow, rsIds, rsCache, rsObjs, rsReq, rsPosts, rsHistory>>

RsDelete ==
    /\ rsAdmin.pc = "delete"
    /\ rsRow' = NoRow
    /\ CredentialChanges
    /\ AdminGo("invalidate")
    /\ UNCHANGED <<rsBackend, rsIds, rsCache, rsObjs, rsReq, rsBounds, rsOwner, rsAcked, rsCeil, rsCaught, rsCauses>>

\* createBackupTargetHandler: RepoHasObjects, then the row
RsCreateCheck ==
    /\ rsAdmin.pc = "idle" /\ rsRow.id = 0
    /\ \A o \in RsObjects : rsObjs[o] = Absent
    /\ rsAdmin' = [pc |-> "insert", seen |-> 0, overlap |-> Busy # {}]
    /\ UNCHANGED <<rsBackend, rsRow, rsIds, rsCache, rsObjs, rsReq, rsBounds, rsHistory>>

RsInsert(q) ==
    /\ rsAdmin.pc = "insert"
    /\ rsIds' = rsIds + 1
    /\ rsRow' = [id |-> rsIds', secret |-> rsIds', revoked |-> FALSE, quota |-> q, used |-> 0]
    /\ rsCeil' = q
    /\ rsCauses' = IF rsAdmin.overlap THEN rsCauses \cup {"created"} ELSE rsCauses
    /\ CredentialChanges
    /\ AdminGo("invalidate")
    /\ UNCHANGED <<rsBackend, rsCache, rsObjs, rsReq, rsBounds, rsOwner, rsAcked, rsCaught>>
----------------------------------------------------------------------------
(* The world *)

\* Objects are reclaimed on the backend directly.
RsReclaim(o) ==
    /\ rsObjs[o] # Absent /\ RsFault
    /\ rsObjs' = [rsObjs EXCEPT ![o] = Absent]
    /\ rsAcked' = [rsAcked EXCEPT ![o] = {}]
    /\ UNCHANGED <<rsBackend, rsRow, rsIds, rsCache, rsReq, rsAdmin, rsPosts, rsOwner, rsCeil, rsCaught, rsRaced, rsCauses>>

\* The server dies: what is in flight is gone, what it reserved stays reserved.
RsCrash ==
    /\ RsFault
    /\ rsCache' = [fresh |-> FALSE, entry |-> NoEntry]
    /\ rsReq' = [c \in RsClients |-> RsIdle]
    /\ rsAdmin' = AdminIdle
    /\ rsCauses' = IF \E c \in RsClients : rsReq[c].pc = "late" THEN rsCauses \cup {"unreserved"} ELSE rsCauses
    /\ UNCHANGED <<rsBackend, rsRow, rsIds, rsObjs, rsPosts, rsOwner, rsAcked, rsCeil, rsCaught, rsRaced>>

RsRequest(c) ==
    \/ \E o \in RsObjects \ RsLocks, b \in RsContents, s \in 1..rsIds : RsArrive(c, o, b, s)
    \/ \E o \in RsLocks, b \in {RsGood, "delete"}, s \in 1..rsIds : RsArrive(c, o, b, s)
    \/ RsRefresh(c) \/ RsReserve(c) \/ RsStat(c) \/ RsCreate(c) \/ RsCommit(c) \/ RsRelease(c) \/ RsLate(c)
    \/ RsDeleteStat(c) \/ RsUnlink(c)

RsOperator ==
    \/ RsRevoke \/ RsRotate \/ RsInvalidate \/ RsMeasure \/ RsSetUsage \/ RsDeleteCheck \/ RsDelete \/ RsCreateCheck
    \/ \E q \in RsQuotas : RsSetQuota(q) \/ RsInsert(q)

RsNext ==
    \/ \E c \in RsClients : RsRequest(c)
    \/ RsOperator
    \/ RsExpire \/ RsCrash \/ \E o \in RsObjects : RsReclaim(o)

RsSpec == RsInit /\ [][RsNext]_rsVars
----------------------------------------------------------------------------
RsPcs == {"idle", "refresh", "authed", "stat", "create", "commit", "release", "late", "unlink"}

\* The request, the row and the namespace are well formed; a request at work knows the row it was let in for.
RsTypeOK ==
    /\ rsBackend \in RsBackends
    /\ rsRow \in [id : 0..rsIds, secret : 0..rsIds, revoked : BOOLEAN, quota : RsQuotas, used : Nat]
    /\ rsCache.fresh \in BOOLEAN /\ rsCache.entry \in [id : 0..rsIds, secret : 0..rsIds, revoked : BOOLEAN]
    /\ rsObjs \in [RsObjects -> RsContents \cup {Absent}]
    /\ \A c \in RsClients : rsReq[c].pc \in RsPcs /\ (rsReq[c].pc \notin {"idle", "refresh"} => rsReq[c].id \in 1..rsIds)
    /\ rsAdmin.pc \in {"idle", "invalidate", "measured", "delete", "insert"}

\* Bytes of the requests in flight that the row has to answer for: reserved and not yet stored or given back.
RsOwed ==
    [c \in RsClients |-> IF rsReq[c].id = rsRow.id /\ rsReq[c].reserved THEN RsSize[rsReq[c].obj] ELSE 0]
InFlight == SumFunction(RsOwed)

(***************************************************************************)
(* Recorded usage never falls short of what the store holds plus what      *)
(* uploads have reserved, whatever uploads, duplicates, lock removals,     *)
(* failures and crashes meet.  Four things the code does break it, each    *)
(* named: a measurement while a request is served, a row created while one *)
(* of its predecessor is, a lock freed by two deletes on S3, an upload of  *)
(* a name that was reclaimed while it was being judged a duplicate.        *)
(***************************************************************************)
UsageCoversStore ==
    rsRow.id # 0 /\ rsCauses = {} /\ (\A c \in RsClients : rsReq[c].pc # "late") => rsRow.used >= Bytes + InFlight

\* Concurrent uploads together never store more than the largest quota the repository has had.
QuotaHolds == rsCeil # 0 /\ rsCauses = {} /\ (\A c \in RsClients : rsReq[c].pc # "late") => Bytes <= rsCeil

(***************************************************************************)
(* An upload that was answered with success is what the directory holds    *)
(* under its name until it is deleted: two uploads of one name and a       *)
(* damaged object never make a client believe that its data is safe.       *)
(***************************************************************************)
AckedIsStored == rsBackend = "disk" => \A o \in RsObjects : rsAcked[o] \subseteq {rsObjs[o]}

(***************************************************************************)
(* A new repository never finds objects of an earlier one of the same      *)
(* name, unless it was created while a request of the earlier one was      *)
(* still being served: the check and the row are two steps.  A request     *)
(* that was reading the rows when the earlier one was deleted may let its  *)
(* secret in again; what costs no usage is then stored without a row.      *)
(***************************************************************************)
NoRebinding ==
    rsRow.id # 0 /\ "created" \notin rsCauses /\ ~rsRaced =>
        \A o \in RsObjects : rsObjs[o] # Absent => rsOwner[o] = rsRow.id

(***************************************************************************)
(* The endpoint is append-only: data and configuration, once stored, do    *)
(* not change and are removed by nothing but the operator of the backend.  *)
(***************************************************************************)
AppendOnly ==
    \A o \in RsObjects \ RsLocks : rsObjs[o] # Absent => rsObjs'[o] = rsObjs[o] \/ RsReclaim(o)

(***************************************************************************)
(* Revoking stops uploads: bytes stored on a reservation while the row is  *)
(* revoked were reserved before it was, also when a refresh of the cache   *)
(* brings the credential back for a while.                                 *)
(***************************************************************************)
RevokeStopsUploads ==
    \A c \in RsClients, o \in RsObjects :
         /\ rsRow.revoked /\ rsRow'.revoked /\ rsReq'[c] # rsReq[c] /\ rsReq[c].obj = o /\ rsReq[c].reserved
         /\ rsObjs[o] = Absent /\ rsObjs'[o] # Absent /\ RsSize[o] > 0 /\ rsReq[c].id = rsRow.id
         => c \in rsCaught

(***************************************************************************)
(* A credential that was rotated, revoked or deleted is refused as soon as *)
(* the operator has the answer: a fresh cache holds the row's credential,  *)
(* unless a request was reading the rows meanwhile.                        *)
(***************************************************************************)
CacheIsCurrent ==
    rsCache.fresh /\ rsAdmin.pc # "invalidate" /\ ~rsRaced => rsCache.entry = Entry

\* The books of the repository are right: usage, quota, acknowledged objects, their owner and the cache.
StoreInv == RsTypeOK /\ NoRebinding /\ UsageCoversStore /\ QuotaHolds /\ AckedIsStored /\ CacheIsCurrent

\* No step takes or changes a stored object, and none adds one on a revoked credential.
StoreSteps == [][AppendOnly /\ RevokeStopsUploads]_rsVars
=============================================================================
