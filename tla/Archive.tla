------------------------------- MODULE Archive -------------------------------
(***************************************************************************)
(* The archive job (internal/server/archive/archive.go, run by             *)
(* internal/server/tasks): it moves the rows of metric_points_5m that are  *)
(* older than the cutoff to one object per host and run, records each      *)
(* object in archive_manifests, and drops the chunks only when every host  *)
(* succeeded.  Uploads, manifests and the drop are separate steps; any of  *)
(* them may fail, and the process may stop between any two.  Rows of one   *)
(* bucket of one host are one unit.                                        *)
(***************************************************************************)
EXTENDS Integers, FiniteSets

CONSTANTS
  Host,        \* ids of the hosts table
  MaxTime,     \* model bound: time runs from 0 to MaxTime, in buckets
  Cutoff,      \* cfg.Cutoff, in buckets
  Lag,         \* age up to which a bucket may still be materialised
  ChunkSize,   \* buckets per chunk of metric_points_5m
  MaxRuns      \* model bound: runs of the job

(***************************************************************************)
(* Rows appear in metric_points_5m for a while after their time: ingest    *)
(* accepts points up to two hours old and the aggregate is refreshed with  *)
(* an end offset.  The retention of the aggregate is longer than that.     *)
(***************************************************************************)
ASSUME ArchiveAssumption ==
  /\ IsFiniteSet(Host)
  /\ MaxTime \in Nat /\ MaxRuns \in Nat
  /\ Cutoff \in Nat /\ Lag \in Nat /\ Lag < Cutoff
  /\ ChunkSize \in Nat \ {0}

VARIABLES
  now,         \* the time
  hosts,       \* rows of the hosts table: deleting a host keeps its row
  warm,        \* metric_points_5m: pairs of host and bucket
  objects,     \* objects in the bucket
  manifests,   \* archive_manifests
  arPc,        \* control point of RunOnce
  queue,       \* hosts still to be archived in this run
  cutoff,      \* cutoff of this run
  arCur,       \* the object being written for one host
  failed,      \* some host of this run failed
  runs,        \* runs so far
  made         \* history: every row that was ever materialised

arVars == <<now, hosts, warm, objects, manifests, arPc, queue, cutoff, arCur, failed, runs, made>>
job == <<arPc, queue, cutoff, arCur, failed, runs>>

Bucket == 0..MaxTime
Cell == Host \X Bucket
Object == [host : Host, from : Bucket, to : Bucket, rows : SUBSET Bucket]
NoObject == [host |-> CHOOSE h \in Host : TRUE, from |-> 0, to |-> 0, rows |-> {}]

ArInit ==
  /\ now = 0 /\ hosts = {} /\ warm = {} /\ objects = {} /\ manifests = {}
  /\ arPc = "idle" /\ queue = {} /\ cutoff = 0 /\ arCur = NoObject /\ failed = FALSE /\ runs = 0
  /\ made = {}

-----------------------------------------------------------------------------
(* Around the job.                                                         *)

ArTick ==
  /\ now < MaxTime
  /\ now' = now + 1
  /\ UNCHANGED <<hosts, warm, objects, manifests, job, made>>

\* Hosts.Register, at any time, also during a run.
AddHost(h) ==
  /\ h \notin hosts
  /\ hosts' = hosts \cup {h}
  /\ UNCHANGED <<now, warm, objects, manifests, job, made>>

\* The aggregate is refreshed: a bucket that is recent enough appears.
Materialise(h, b) ==
  /\ h \in hosts /\ <<h, b>> \notin made
  /\ b <= now /\ now - b <= Lag
  /\ warm' = warm \cup {<<h, b>>}
  /\ made' = made \cup {<<h, b>>}
  /\ UNCHANGED <<now, hosts, objects, manifests, job>>

-----------------------------------------------------------------------------
(* The job.                                                                *)

\* The scheduler starts RunOnce: the host list, then the cutoff.
RunOnce ==
  /\ arPc = "idle" /\ runs < MaxRuns
  /\ runs' = runs + 1
  /\ queue' = hosts /\ cutoff' = now - Cutoff /\ failed' = FALSE
  /\ arPc' = "hosts"
  /\ UNCHANGED <<now, hosts, warm, objects, manifests, arCur, made>>

\* lastArchivedBucket: MAX(bucket_to) of the manifests of the host.
Since(h) == {m.to : m \in {o \in manifests : o.host = h}}

\* The rows archiveHost selects.
Selected(h) == {b \in Bucket : <<h, b>> \in warm /\ b < cutoff /\ \A t \in Since(h) : b > t}

FirstOf(S) == CHOOSE x \in S : \A y \in S : x <= y
LastOf(S) == CHOOSE x \in S : \A y \in S : x >= y

\* archiveHost reads the rows of one host into a file; with no rows it is
\* done.
ReadRows(h) ==
  /\ arPc = "hosts" /\ h \in queue
  /\ queue' = queue \ {h}
  /\ IF Selected(h) = {}
     THEN UNCHANGED <<arPc, arCur>>
     ELSE /\ arPc' = "upload"
          /\ arCur' = [host |-> h, from |-> FirstOf(Selected(h)), to |-> LastOf(Selected(h)),
                     rows |-> Selected(h)]
  /\ UNCHANGED <<now, hosts, warm, objects, manifests, cutoff, failed, runs, made>>

\* PutObject; the key is made of host, first and last bucket.
Key(o) == <<o.host, o.from, o.to>>

Upload ==
  /\ arPc = "upload"
  /\ objects' = {o \in objects : Key(o) # Key(arCur)} \cup {arCur}
  /\ arPc' = "manifest"
  /\ UNCHANGED <<now, hosts, warm, manifests, queue, cutoff, arCur, failed, runs, made>>

\* The manifest row.
InsertManifest ==
  /\ arPc = "manifest"
  /\ manifests' = manifests \cup {arCur}
  /\ arPc' = "hosts" /\ arCur' = NoObject
  /\ UNCHANGED <<now, hosts, warm, objects, queue, cutoff, failed, runs, made>>

\* Mutant: a failed host is only logged.
MutHostFails ==
  /\ arPc \in {"hosts", "upload", "manifest"} /\ (arPc = "hosts" => queue # {})
  /\ arPc' = "hosts" /\ arCur' = NoObject
  /\ queue' \in IF arPc = "hosts" THEN {queue \ {h} : h \in queue} ELSE {queue}
  /\ UNCHANGED <<now, hosts, warm, objects, manifests, cutoff, failed, runs, made>>

\* A query, the upload or the manifest fails; the other hosts go on.
HostFails ==
  /\ arPc \in {"hosts", "upload", "manifest"} /\ (arPc = "hosts" => queue # {})
  /\ arPc' = "hosts" /\ arCur' = NoObject
  /\ queue' \in IF arPc = "hosts" THEN {queue \ {h} : h \in queue} ELSE {queue}
  /\ failed' = TRUE
  /\ UNCHANGED <<now, hosts, warm, objects, manifests, cutoff, runs, made>>

\* PutObject reports an error although the object was stored.
UploadUnsure ==
  /\ arPc = "upload"
  /\ objects' = {o \in objects : Key(o) # Key(arCur)} \cup {arCur}
  /\ arPc' = "hosts" /\ arCur' = NoObject /\ failed' = TRUE
  /\ UNCHANGED <<now, hosts, warm, manifests, queue, cutoff, runs, made>>

\* The INSERT reports an error although it was committed.
ManifestUnsure ==
  /\ arPc = "manifest"
  /\ manifests' = manifests \cup {arCur}
  /\ arPc' = "hosts" /\ arCur' = NoObject /\ failed' = TRUE
  /\ UNCHANGED <<now, hosts, warm, objects, queue, cutoff, runs, made>>

\* drop_chunks takes the chunks that end at or before the cutoff.
Dropped == {c \in warm : (c[2] \div ChunkSize + 1) * ChunkSize <= cutoff}

\* archiveThenDrop, after the last host: drop, unless a host failed.
DropChunks ==
  /\ arPc = "hosts" /\ queue = {} /\ ~failed
  /\ warm' = warm \ Dropped
  /\ arPc' = "idle"
  /\ UNCHANGED <<now, hosts, objects, manifests, queue, cutoff, arCur, failed, runs, made>>

\* archiveThenDrop returns an error, drop_chunks fails, or the process stops.
RunEnds ==
  /\ arPc # "idle"
  /\ arPc' = "idle" /\ queue' = {} /\ arCur' = NoObject
  /\ UNCHANGED <<now, hosts, warm, objects, manifests, cutoff, failed, runs, made>>

ArNext ==
  \/ ArTick \/ \E h \in Host : AddHost(h) \/ ReadRows(h) \/ \E b \in Bucket : Materialise(h, b)
  \/ RunOnce \/ Upload \/ InsertManifest \/ HostFails \/ UploadUnsure \/ ManifestUnsure
  \/ DropChunks \/ RunEnds

ArSpec == ArInit /\ [][ArNext]_arVars

-----------------------------------------------------------------------------
(* Properties.                                                             *)

ArTypeOK ==
  /\ now \in Bucket /\ hosts \subseteq Host
  /\ warm \subseteq Cell /\ made \subseteq Cell
  /\ objects \subseteq Object /\ manifests \subseteq Object
  /\ arPc \in {"idle", "hosts", "upload", "manifest"}
  /\ queue \subseteq hosts /\ cutoff \in Int /\ failed \in BOOLEAN
  /\ IF arPc \in {"idle", "hosts"} THEN arCur = NoObject ELSE arCur \in Object
  /\ runs \in 0..MaxRuns

\* What Archiver.Read can find: objects that a manifest leads to by its key.
Readable(h, b) ==
  \E m \in manifests, o \in objects : Key(m) = Key(o) /\ o.host = h /\ b \in o.rows

\* Every bucket that was ever aggregated is still in metric_points_5m or in an
\* object that a manifest leads to: the job never deletes what it has not
\* archived, whatever fails or stops on the way.
NothingLost == \A c \in made : c \in warm \/ Readable(c[1], c[2])

\* No bucket is in two objects that manifests lead to, so a reader that
\* concatenates the objects counts nothing twice.
ArchivedOnce ==
  \A o1, o2 \in manifests : o1 # o2 /\ o1.host = o2.host => o1.rows \cap o2.rows = {}

\* The job moves every bucket, and moves it once.
ArchiveInv == ArTypeOK /\ NothingLost /\ ArchivedOnce
=============================================================================
