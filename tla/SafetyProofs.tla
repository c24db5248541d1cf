---------------------------- MODULE SafetyProofs ----------------------------
(*****************************************************************************)
(* Proofs about the loops that must not lose or repeat what they did: the    *)
(* archive job, the alert evaluator and the scheduler of the backups, and    *)
(* about the ban manager's log source and the tracker that decides on bans.  *)
(*****************************************************************************)
EXTENDS Archive, AlertEngine, BackupSched, BanTracker, BanSource, FiniteSetTheorems, TLAPS, WellFoundedInduction

-----------------------------------------------------------------------------
(*****************************************************************************)
(* The archive job, for every set of hosts, every cutoff that is longer than *)
(* the lag of the aggregate, every chunk size and number of runs.            *)
(*                                                                           *)
(* NothingLost is not inductive: DropChunks deletes rows because of what the *)
(* run did before, host by host.  The invariant says what a run has          *)
(* established so far (HostsDone, CurComplete), that the newest manifest of a*)
(* host has nothing unsaved behind it, which is what makes lastArchivedBucket*)
(* a sound place to resume from (ManifestsComplete), and that archived buckets*)
(* lie beyond the cutoff, where no row appears any more (ObjectsOld).        *)
(*****************************************************************************)
InFlight == arPc \in {"upload", "manifest"}

\* The row is in an object that has its manifest.
Saved(c) == \E m \in manifests : m.host = c[1] /\ c[2] \in m.rows

\* What there is to archive: rows of registered hosts, none in the future.
MadeInv ==
  /\ warm \subseteq made
  /\ \A c \in made : c[1] \in hosts /\ c[2] <= now

\* The rows of an object lie between its ends and beyond the cutoff of the
\* moment.
OldRows(o) == o.rows \subseteq o.from..o.to /\ o.from <= o.to /\ o.to + Cutoff < now

ObjectsOld ==
  /\ arPc # "idle" => cutoff <= now - Cutoff
  /\ \A m \in manifests : OldRows(m)
  /\ InFlight => OldRows(arCur)

\* A manifest's object is there, no later upload has replaced it, and the
\* objects of a host follow one another.
ManifestsInv ==
  /\ manifests \subseteq objects
  /\ arPc = "manifest" => arCur \in objects
  /\ \A m, n \in manifests : m # n /\ m.host = n.host => m.to < n.from \/ n.to < m.from
  /\ InFlight => \A m \in manifests : m.host = arCur.host => m.to < arCur.from

\* Nothing is deleted that is not saved, and up to the end of an object every
\* row of the host is saved.
ManifestsComplete ==
  /\ \A c \in made : c \in warm \/ Saved(c)
  /\ \A m \in manifests, c \in made : c[1] = m.host /\ c[2] <= m.to => Saved(c)

\* The object on its way has every row of its host below the cutoff that is
\* not saved yet.
CurComplete ==
  InFlight => /\ arCur.host \notin queue
              /\ arCur.to < cutoff
              /\ \A c \in made : c[1] = arCur.host /\ c[2] < cutoff => Saved(c) \/ c[2] \in arCur.rows

\* A host this run is through with has no unsaved row below the cutoff.
HostsDone ==
  (arPc # "idle" /\ ~failed) =>
    \A c \in made : /\ c[2] < cutoff /\ c[1] \notin queue
                    /\ InFlight => c[1] # arCur.host
                    => Saved(c)

ArIInv ==
  /\ ArTypeOK /\ MadeInv /\ ObjectsOld /\ ManifestsInv
  /\ ManifestsComplete /\ CurComplete /\ HostsDone

-----------------------------------------------------------------------------
(* Facts about the model's operators.                                      *)

\* A set of buckets that is not empty has a first and a last one.
LEMMA FirstLast ==
  ASSUME NEW S \in SUBSET Bucket, S # {}
  PROVE  /\ FirstOf(S) \in S /\ \A y \in S : FirstOf(S) <= y
         /\ LastOf(S) \in S /\ \A y \in S : LastOf(S) >= y
<1>1. Bucket \subseteq Nat /\ \A x \in Bucket : x <= MaxTime
  BY ArchiveAssumption DEF Bucket
<1>2. ASSUME NEW T \in SUBSET Nat, T # {}
      PROVE  \E x \in T : \A y \in T : x <= y
  <2> DEFINE R == OpToRel(<, Nat)
  <2>1. IsWellFoundedOn(R, Nat)
    BY NatLessThanWellFounded
  <2>2. \A x, y \in Nat : y < x => <<y, x>> \in R
    BY DEF OpToRel
  <2> HIDE DEF R
  <2>3. PICK x \in T : \A y \in T : ~(<<y, x>> \in R)
    BY <1>2, <2>1, WFMin
  <2>4. ASSUME NEW y \in T PROVE x <= y
    <3>1. x \in Nat /\ y \in Nat
      BY <1>2
    <3>2. ~(y < x)
      BY <2>2, <2>3, <3>1
    <3> QED
      BY <3>1, <3>2
  <2> QED
    BY <2>4
<1>3. \E x \in S : \A y \in S : x <= y
  BY <1>1, <1>2
<1>4. \E x \in S : \A y \in S : x >= y
  <2> DEFINE T == {MaxTime - x : x \in S}
  <2>1. T \in SUBSET Nat /\ T # {}
    <3>1. \A x \in S : MaxTime - x \in Nat
      BY <1>1, ArchiveAssumption
    <3> QED
      BY <3>1
  <2>2. PICK z \in T : \A y \in T : z <= y
    BY <1>2, <2>1
  <2>3. PICK x \in S : z = MaxTime - x
    BY <2>2
  <2>4. \A y \in S : MaxTime - x <= MaxTime - y
    BY <2>2, <2>3
  <2> QED
    BY <2>4, <1>1, ArchiveAssumption
<1>5. FirstOf(S) \in S /\ \A y \in S : FirstOf(S) <= y
  BY <1>3 DEF FirstOf
<1>6. LastOf(S) \in S /\ \A y \in S : LastOf(S) >= y
  BY <1>4 DEF LastOf
<1> QED
  BY <1>5, <1>6

\* The chunk of a row ends after the row.
LEMMA ChunkEnd ==
  ASSUME NEW b \in Nat
  PROVE  b < (b \div ChunkSize + 1) * ChunkSize
BY ArchiveAssumption

\* A row that DropChunks deletes lies below the cutoff of the run.
LEMMA DroppedOld ==
  ASSUME ArTypeOK, NEW c \in Dropped
  PROVE  c[2] < cutoff
<1>1. c[2] \in Nat
  BY ArchiveAssumption DEF Dropped, ArTypeOK, Cell, Bucket
<1>2. c[2] \div ChunkSize \in Int /\ (c[2] \div ChunkSize + 1) * ChunkSize \in Int
  BY <1>1, ArchiveAssumption
<1> QED
  BY <1>1, <1>2, ChunkEnd DEF Dropped, ArTypeOK

-----------------------------------------------------------------------------
(* The invariant is kept.                                                  *)

\* The archive job starts in the invariant.
LEMMA ArInitIInv == ArInit => ArIInv
<1> SUFFICES ASSUME ArInit PROVE ArIInv
  OBVIOUS
<1>1. ArTypeOK
  <2>1. 0 \in Bucket /\ 0 \in 0..MaxRuns
    BY ArchiveAssumption DEF Bucket
  <2>2. failed \in BOOLEAN /\ (arPc \in {"idle", "hosts"} /\ arCur = NoObject)
    BY DEF ArInit
  <2>3. /\ now \in Bucket /\ hosts \subseteq Host /\ warm \subseteq Cell /\ made \subseteq Cell
        /\ objects \subseteq Object /\ manifests \subseteq Object
    BY <2>1 DEF ArInit
  <2>4. queue \subseteq hosts /\ cutoff \in Int /\ runs \in 0..MaxRuns
    BY <2>1 DEF ArInit
  <2> QED
    BY <2>2, <2>3, <2>4 DEF ArTypeOK
<1>2. MadeInv /\ ObjectsOld /\ ManifestsInv /\ ManifestsComplete /\ CurComplete /\ HostsDone
  BY DEF ArInit, MadeInv, ObjectsOld, ManifestsInv, ManifestsComplete, CurComplete, HostsDone, InFlight
<1> QED
  BY <1>1, <1>2 DEF ArIInv

\* Time passes and hosts are registered: nothing about the rows changes.
LEMMA AroundIInv ==
  ASSUME ArIInv, ArTick \/ \E h \in Host : AddHost(h)
  PROVE  ArIInv'
<1> USE DEF ArIInv
<1>1. /\ UNCHANGED <<warm, objects, manifests, arPc, queue, cutoff, arCur, failed, runs, made>>
      /\ now' \in Bucket /\ now' >= now /\ hosts' \subseteq Host /\ hosts \subseteq hosts'
  BY ArchiveAssumption DEF ArTick, AddHost, job, ArTypeOK, Bucket
<1>2. now \in Int /\ now' \in Int /\ Cutoff \in Int
  BY <1>1, ArchiveAssumption DEF ArTypeOK, Bucket
<1>3. ArTypeOK'
  BY <1>1 DEF ArTypeOK
<1>4. MadeInv'
  <2>1. \A c \in made : c[2] \in Int
    BY ArchiveAssumption DEF ArTypeOK, Cell, Bucket
  <2> QED
    BY <1>1, <1>2, <2>1 DEF MadeInv
<1>5. ObjectsOld'
  <2>1. ASSUME NEW o \in Object, OldRows(o) PROVE OldRows(o)'
    BY <1>1, <1>2, <2>1, ArchiveAssumption DEF OldRows, Object, Bucket
  <2>2. (arPc # "idle" => cutoff <= now - Cutoff)'
    <3>1. cutoff \in Int /\ (arPc # "idle" => cutoff <= now - Cutoff) /\ cutoff' = cutoff /\ arPc' = arPc
      BY <1>1 DEF ObjectsOld, ArTypeOK
    <3>2. now' >= now
      BY <1>1
    <3>3. \A i, j, k, n \in Int : i <= j - k /\ n >= j => i <= n - k
      OBVIOUS
    <3>4. cutoff <= now - Cutoff => cutoff <= now' - Cutoff
      BY <1>2, <3>1, <3>2, <3>3
    <3> QED
      BY <3>1, <3>4
  <2>3. \A m \in manifests' : OldRows(m)'
    BY <1>1, <2>1 DEF ObjectsOld, ArTypeOK
  <2>4. InFlight' => OldRows(arCur)'
    <3> SUFFICES ASSUME InFlight PROVE OldRows(arCur)'
      BY <1>1 DEF InFlight
    <3>1. arCur \in Object /\ OldRows(arCur)
      BY DEF ArTypeOK, InFlight, ObjectsOld
    <3> QED
      BY <1>1, <1>2, <3>1, ArchiveAssumption DEF OldRows, Object, Bucket
  <2> QED
    BY <1>1, <2>2, <2>3, <2>4 DEF ObjectsOld
<1>6. ManifestsInv' /\ ManifestsComplete' /\ CurComplete' /\ HostsDone'
  BY <1>1 DEF ManifestsInv, ManifestsComplete, CurComplete, HostsDone, Saved, InFlight
<1> QED
  BY <1>3, <1>4, <1>5, <1>6

\* A row appears: it is younger than the cutoff of any run, so beyond nothing
\* that a run has established.
LEMMA MaterialiseIInv ==
  ASSUME ArIInv, NEW h \in Host, NEW b \in Bucket, Materialise(h, b)
  PROVE  ArIInv'
<1> USE DEF ArIInv
<1> DEFINE cell == <<h, b>>
<1>1. /\ UNCHANGED <<now, hosts, objects, manifests, arPc, queue, cutoff, arCur, failed, runs>>
      /\ warm' = warm \cup {cell} /\ made' = made \cup {cell}
      /\ h \in hosts /\ b <= now /\ now - b <= Lag
  BY DEF Materialise, job
<1>2. now \in Int /\ b \in Int /\ Cutoff \in Int /\ Lag \in Int /\ Lag < Cutoff /\ cutoff \in Int
  BY ArchiveAssumption DEF ArTypeOK, Bucket
<1>3. arPc # "idle" => ~(b < cutoff)
  BY <1>1, <1>2 DEF ObjectsOld
<1>4. \A m \in manifests : ~(b <= m.to)
  <2>1. \A m \in manifests : m.to \in Int
    BY ArchiveAssumption DEF ArTypeOK, Object, Bucket
  <2> QED
    BY <1>1, <1>2, <2>1 DEF ObjectsOld, OldRows
<1>5. cell[1] = h /\ cell[2] = b /\ cell \in Cell
  BY DEF Cell
<1> HIDE DEF cell
<1>6. ArTypeOK'
  BY <1>1, <1>5 DEF ArTypeOK
<1>7. MadeInv'
  BY <1>1, <1>5 DEF MadeInv
<1>8. ObjectsOld' /\ ManifestsInv'
  BY <1>1 DEF ObjectsOld, ManifestsInv, OldRows, InFlight
<1>9. ManifestsComplete'
  BY <1>1, <1>4, <1>5 DEF ManifestsComplete, Saved
<1>10. CurComplete' /\ HostsDone'
  BY <1>1, <1>3, <1>5 DEF CurComplete, HostsDone, Saved, InFlight
<1> QED
  BY <1>6, <1>7, <1>8, <1>9, <1>10

\* The run starts: nothing established yet, every host still to do.
LEMMA RunOnceIInv ==
  ASSUME ArIInv, RunOnce
  PROVE  ArIInv'
<1> USE DEF ArIInv
<1>1. ArTypeOK'
  <2>1. cutoff' \in Int /\ runs' \in 0..MaxRuns
    BY ArchiveAssumption DEF RunOnce, ArTypeOK, Bucket
  <2> QED
    BY <2>1 DEF RunOnce, ArTypeOK
<1>2. MadeInv' /\ ManifestsInv' /\ ManifestsComplete'
  BY DEF RunOnce, MadeInv, ManifestsInv, ManifestsComplete, Saved, InFlight
<1>3. ObjectsOld'
  <2>1. cutoff' <= now' - Cutoff
    BY ArchiveAssumption DEF RunOnce, ArTypeOK, Bucket
  <2> QED
    BY <2>1 DEF RunOnce, ObjectsOld, OldRows, InFlight
<1>4. CurComplete' /\ HostsDone'
  BY DEF RunOnce, MadeInv, CurComplete, HostsDone, InFlight
<1> QED
  BY <1>1, <1>2, <1>3, <1>4

\* A row of the host below the cutoff is selected or saved already.
LEMMA SelectedOrSaved ==
  ASSUME ArIInv, NEW c \in made, c[2] < cutoff
  PROVE  Saved(c) \/ c[2] \in Selected(c[1])
<1> USE DEF ArIInv
<1>1. CASE c \notin warm
  BY <1>1 DEF ManifestsComplete
<1>2. CASE c \in warm /\ \E t \in Since(c[1]) : ~(c[2] > t)
  <2>1. PICK m \in manifests : m.host = c[1] /\ ~(c[2] > m.to)
    BY <1>2 DEF Since
  <2>2. c[2] <= m.to
    BY <2>1, ArchiveAssumption DEF ArTypeOK, Cell, Object, Bucket
  <2> QED
    BY <2>1, <2>2 DEF ManifestsComplete
<1>3. CASE c \in warm /\ \A t \in Since(c[1]) : c[2] > t
  <2>1. c = <<c[1], c[2]>> /\ c[2] \in Bucket
    BY DEF ArTypeOK, Cell
  <2> QED
    BY <1>3, <2>1 DEF Selected
<1> QED
  BY <1>1, <1>2, <1>3

\* A host is taken from the queue: it has nothing to archive, or the object
\* has all there is.
LEMMA ReadRowsIInv ==
  ASSUME ArIInv, NEW h \in Host, ReadRows(h)
  PROVE  ArIInv'
<1> USE DEF ArIInv
<1>1. /\ arPc = "hosts" /\ h \in queue /\ queue' = queue \ {h}
      /\ UNCHANGED <<now, hosts, warm, objects, manifests, cutoff, failed, runs, made>>
  BY DEF ReadRows
<1>2. MadeInv' /\ ManifestsComplete'
  BY <1>1 DEF MadeInv, ManifestsComplete, Saved
<1>3. CASE Selected(h) = {}
  <2>1. UNCHANGED <<arPc, arCur>>
    BY <1>3 DEF ReadRows
  <2>2. ArTypeOK' /\ ObjectsOld' /\ ManifestsInv' /\ CurComplete'
    BY <1>1, <2>1 DEF ArTypeOK, ObjectsOld, OldRows, ManifestsInv, CurComplete, Saved, InFlight
  <2>3. HostsDone'
    BY <1>1, <1>3, <2>1, SelectedOrSaved DEF HostsDone, Saved, InFlight
  <2> QED
    BY <1>2, <2>2, <2>3
<1>4. CASE Selected(h) # {}
  <2> DEFINE S == Selected(h)
  <2>1. arPc' = "upload" /\ arCur' = [host |-> h, from |-> FirstOf(S), to |-> LastOf(S), rows |-> S]
    BY <1>4 DEF ReadRows
  <2>2. S \subseteq Bucket /\ \A b \in S : b < cutoff /\ \A t \in Since(h) : b > t
    BY DEF Selected
  <2>3. /\ FirstOf(S) \in S /\ \A y \in S : FirstOf(S) <= y
        /\ LastOf(S) \in S /\ \A y \in S : LastOf(S) >= y
    BY <1>4, <2>2, FirstLast
  <2>4. /\ arCur'.host = h /\ arCur'.from = FirstOf(S) /\ arCur'.to = LastOf(S) /\ arCur'.rows = S
        /\ arCur' \in Object
    BY <2>1, <2>2, <2>3 DEF Object
  <2>5. /\ FirstOf(S) \in Int /\ LastOf(S) \in Int /\ S \subseteq Int /\ now \in Int
        /\ cutoff \in Int /\ Cutoff \in Int /\ cutoff <= now - Cutoff
    BY <1>1, <2>2, <2>3, ArchiveAssumption DEF Bucket, ArTypeOK, ObjectsOld
  <2>6. LastOf(S) < cutoff /\ \A m \in manifests : m.host = h => FirstOf(S) > m.to
    BY <2>2, <2>3 DEF Since
  <2>7. \A c \in made : c[1] = h /\ c[2] < cutoff => Saved(c) \/ c[2] \in S
    BY SelectedOrSaved
  <2> HIDE DEF S
  <2>8. ArTypeOK'
    BY <1>1, <2>1, <2>4 DEF ArTypeOK
  <2>9. ObjectsOld'
    <3>1. S \subseteq FirstOf(S)..LastOf(S)
      BY <2>3, <2>5
    <3>2. FirstOf(S) <= LastOf(S) /\ LastOf(S) + Cutoff < now
      BY <2>3, <2>5, <2>6
    <3>3. OldRows(arCur)'
      BY <1>1, <2>4, <3>1, <3>2 DEF OldRows
    <3> QED
      BY <1>1, <2>5, <3>3 DEF ObjectsOld, OldRows
  <2>10. ManifestsInv'
    <3>1. \A m \in manifests : m.host = h => m.to < FirstOf(S)
      BY <2>5, <2>6, ArchiveAssumption DEF ArTypeOK, Object, Bucket
    <3> QED
      BY <1>1, <2>1, <2>4, <3>1 DEF ManifestsInv
  <2>11. CurComplete'
    BY <1>1, <2>4, <2>6, <2>7 DEF CurComplete, Saved
  <2>12. HostsDone'
    BY <1>1, <2>1, <2>4 DEF HostsDone, Saved, InFlight
  <2> QED
    BY <1>2, <2>8, <2>9, <2>10, <2>11, <2>12
<1> QED
  BY <1>3, <1>4

\* PutObject: an object with the key of one that has a manifest would have to
\* end where that one ends, and it begins after it.
LEMMA PutKeepsManifests ==
  ASSUME ArIInv, arPc = "upload", objects' = {o \in objects : Key(o) # Key(arCur)} \cup {arCur}
  PROVE  manifests \subseteq objects' /\ arCur \in objects' /\ objects' \subseteq Object
<1> USE DEF ArIInv
<1>1. arCur \in Object /\ manifests \subseteq Object
  BY DEF ArTypeOK
<1>2. ASSUME NEW m \in manifests PROVE Key(m) # Key(arCur)
  <2>1. m.host = arCur.host => m.to < arCur.from /\ arCur.from <= arCur.to
    BY DEF ManifestsInv, ObjectsOld, OldRows, InFlight
  <2>2. m.host = arCur.host => m.to # arCur.to
    BY <1>1, <2>1, ArchiveAssumption DEF Object, Bucket
  <2> QED
    BY <2>2 DEF Key
<1> QED
  BY <1>1, <1>2 DEF ArTypeOK, ManifestsInv

\* Uploading an object, before its manifest, keeps the invariant.
LEMMA UploadIInv ==
  ASSUME ArIInv, Upload
  PROVE  ArIInv'
<1> USE DEF ArIInv
<1>1. /\ arPc = "upload" /\ arPc' = "manifest"
      /\ objects' = {o \in objects : Key(o) # Key(arCur)} \cup {arCur}
      /\ UNCHANGED <<now, hosts, warm, manifests, queue, cutoff, arCur, failed, runs, made>>
  BY DEF Upload
<1>2. manifests \subseteq objects' /\ arCur \in objects' /\ objects' \subseteq Object
  BY <1>1, PutKeepsManifests
<1>3. ArTypeOK'
  BY <1>1, <1>2 DEF ArTypeOK
<1>4. MadeInv' /\ ObjectsOld'
  BY <1>1 DEF MadeInv, ObjectsOld, OldRows, InFlight
<1>5. ManifestsInv'
  BY <1>1, <1>2 DEF ManifestsInv, InFlight
<1>6. ManifestsComplete' /\ CurComplete' /\ HostsDone'
  BY <1>1 DEF ManifestsComplete, CurComplete, HostsDone, Saved, InFlight
<1> QED
  BY <1>3, <1>4, <1>5, <1>6

\* The object gets its manifest: all its host had below the cutoff is saved.
LEMMA ManifestIInv ==
  ASSUME ArIInv, InsertManifest \/ ManifestUnsure
  PROVE  ArIInv'
<1> USE DEF ArIInv
<1>1. /\ arPc = "manifest" /\ arPc' = "hosts" /\ arCur' = NoObject
      /\ manifests' = manifests \cup {arCur}
      /\ failed' \in {failed, TRUE}
      /\ UNCHANGED <<now, hosts, warm, objects, queue, cutoff, runs, made>>
  BY DEF InsertManifest, ManifestUnsure
<1>2. arCur \in Object /\ arCur \in objects
  BY <1>1 DEF ArTypeOK, ManifestsInv
<1>3. \A c : Saved(c) => Saved(c)'
  BY <1>1 DEF Saved
<1>4. \A c \in made : c[1] = arCur.host /\ c[2] < cutoff => Saved(c)'
  <2>1. \A c \in made : c[1] = arCur.host /\ c[2] \in arCur.rows => Saved(c)'
    BY <1>1 DEF Saved
  <2> QED
    BY <1>1, <1>3, <2>1 DEF CurComplete, InFlight
<1>5. ArTypeOK'
  BY <1>1, <1>2 DEF ArTypeOK
<1>6. MadeInv' /\ ObjectsOld'
  BY <1>1 DEF MadeInv, ObjectsOld, OldRows, InFlight
<1>7. ManifestsInv'
  BY <1>1, <1>2 DEF ManifestsInv, InFlight
<1>8. ManifestsComplete'
  <2>1. \A c \in made : c[1] = arCur.host /\ c[2] <= arCur.to => c[2] < cutoff
    BY <1>1, <1>2, ArchiveAssumption DEF CurComplete, InFlight, ArTypeOK, Cell, Object, Bucket
  <2> QED
    BY <1>1, <1>3, <1>4, <2>1 DEF ManifestsComplete
<1>9. CurComplete'
  BY <1>1 DEF CurComplete, InFlight
<1>10. HostsDone'
  BY <1>1, <1>3, <1>4 DEF HostsDone, InFlight
<1> QED
  BY <1>5, <1>6, <1>7, <1>8, <1>9, <1>10

\* A host fails, with or without its object stored: the run will not drop.
LEMMA FailIInv ==
  ASSUME ArIInv, HostFails \/ UploadUnsure
  PROVE  ArIInv'
<1> USE DEF ArIInv
<1>1. /\ arPc # "idle" /\ arPc' = "hosts" /\ arCur' = NoObject /\ failed' = TRUE /\ queue' \subseteq queue
      /\ UNCHANGED <<now, hosts, warm, manifests, cutoff, runs, made>>
  BY DEF HostFails, UploadUnsure
<1>2. objects' \subseteq Object /\ manifests \subseteq objects'
  <2>1. CASE HostFails
    BY <2>1 DEF HostFails, ArTypeOK, ManifestsInv
  <2>2. CASE UploadUnsure
    BY <2>2, PutKeepsManifests DEF UploadUnsure
  <2> QED
    BY <2>1, <2>2
<1>3. ArTypeOK'
  BY <1>1, <1>2 DEF ArTypeOK
<1>4. MadeInv' /\ ObjectsOld' /\ ManifestsInv'
  BY <1>1, <1>2 DEF MadeInv, ObjectsOld, OldRows, ManifestsInv, InFlight
<1>5. ManifestsComplete' /\ CurComplete' /\ HostsDone'
  BY <1>1 DEF ManifestsComplete, CurComplete, HostsDone, Saved, InFlight
<1> QED
  BY <1>3, <1>4, <1>5

\* drop_chunks deletes rows of hosts the run is through with, all below the
\* cutoff: they are saved.
LEMMA DropIInv ==
  ASSUME ArIInv, DropChunks
  PROVE  ArIInv'
<1> USE DEF ArIInv
<1>1. /\ arPc = "hosts" /\ queue = {} /\ ~failed /\ arPc' = "idle" /\ warm' = warm \ Dropped
      /\ UNCHANGED <<now, hosts, objects, manifests, queue, cutoff, arCur, failed, runs, made>>
  BY DEF DropChunks
<1>2. \A c \in Dropped : Saved(c)
  BY <1>1, DroppedOld DEF Dropped, HostsDone, MadeInv, InFlight
<1>3. ArTypeOK'
  BY <1>1 DEF ArTypeOK
<1>4. MadeInv' /\ ObjectsOld' /\ ManifestsInv'
  BY <1>1 DEF MadeInv, ObjectsOld, OldRows, ManifestsInv, InFlight
<1>5. ManifestsComplete'
  BY <1>1, <1>2 DEF ManifestsComplete, Saved
<1>6. CurComplete' /\ HostsDone'
  BY <1>1 DEF CurComplete, HostsDone, InFlight
<1> QED
  BY <1>3, <1>4, <1>5, <1>6

\* A run that fails or is stopped keeps the invariant.
LEMMA RunEndsIInv ==
  ASSUME ArIInv, RunEnds
  PROVE  ArIInv'
<1> USE DEF ArIInv, RunEnds
<1>1. ArTypeOK'
  BY DEF ArTypeOK
<1>2. MadeInv' /\ ObjectsOld' /\ ManifestsInv'
  BY DEF MadeInv, ObjectsOld, OldRows, ManifestsInv, InFlight
<1>3. ManifestsComplete' /\ CurComplete' /\ HostsDone'
  BY DEF ManifestsComplete, CurComplete, HostsDone, Saved, InFlight
<1> QED
  BY <1>1, <1>2, <1>3

\* ArIInv is an invariant of the archive job and of what goes on around it.
THEOREM ArIInvHolds == ArSpec => []ArIInv
<1>1. ASSUME ArIInv, [ArNext]_arVars
      PROVE  ArIInv'
  <2>1. CASE UNCHANGED arVars
    BY <1>1, <2>1 DEF arVars, ArIInv, ArTypeOK, MadeInv, ObjectsOld, OldRows, ManifestsInv,
       ManifestsComplete, CurComplete, HostsDone, Saved, InFlight
  <2>2. CASE ArNext
    BY <1>1, <2>2, AroundIInv, MaterialiseIInv, RunOnceIInv, ReadRowsIInv, UploadIInv, ManifestIInv,
       FailIInv, DropIInv, RunEndsIInv DEF ArNext
  <2> QED
    BY <1>1, <2>1, <2>2
<1> QED
  BY <1>1, ArInitIInv, PTL DEF ArSpec

(***************************************************************************)
(* Every aggregated row is in metric_points_5m or in an object that a      *)
(* manifest leads to, and in one such object only, whichever upload,       *)
(* manifest or drop fails, is only seemingly lost, or is cut short by a    *)
(* stop, and for any number of runs.                                       *)
(***************************************************************************)
THEOREM ArchiveCorrect == ArSpec => []ArchiveInv
<1>1. ArIInv => ArchiveInv
  <2> SUFFICES ASSUME ArIInv PROVE ArchiveInv
    OBVIOUS
  <2> USE DEF ArIInv
  <2>1. NothingLost
    BY DEF ManifestsComplete, ManifestsInv, Saved, NothingLost, Readable
  <2>2. ArchivedOnce
    <3> SUFFICES ASSUME NEW o1 \in manifests, NEW o2 \in manifests, o1 # o2, o1.host = o2.host,
                        NEW b, b \in o1.rows, b \in o2.rows
                 PROVE  FALSE
      BY DEF ArchivedOnce
    <3>1. b \in o1.from..o1.to /\ b \in o2.from..o2.to
      BY DEF ObjectsOld, OldRows
    <3>2. o1.from \in Int /\ o1.to \in Int /\ o2.from \in Int /\ o2.to \in Int
      BY ArchiveAssumption DEF ArTypeOK, Object, Bucket
    <3>3. o1.to < o2.from \/ o2.to < o1.from
      BY DEF ManifestsInv
    <3> QED
      BY <3>1, <3>2, <3>3
  <2> QED
    BY <2>1, <2>2 DEF ArchiveInv
<1> QED
  BY <1>1, ArIInvHolds, PTL

-----------------------------------------------------------------------------
(*****************************************************************************)
(* The alert evaluator, for every set of series, every for_s and cooldown.   *)
(*                                                                           *)
(* What the cooldown promises of the channel (quiet) is kept by columns that *)
(* a pass reads, changes and writes in several statements, so the invariant  *)
(* follows a series through the pass: what was read is what the row still    *)
(* says (PassInv), and between the statements the message that is on its way *)
(* is accounted for (QuietInv, HighInv, HistoryInv).                         *)
(*****************************************************************************)

\* A row as readSeriesState returns it.
Seen == [state : {"ok", "pending", "firing"}, since : 0..ForS, notified : 0..CooldownS]

\* Where a pass has taken a series in hand.
InHand == {"transition", "resolveOrphan", "fire", "recordFire", "clear", "clearOrphan"}

\* A pass that has read a row still finds it there, unless the rule was deleted;
\* a deleted rule keeps no rows.
PassInv ==
  /\ seen \in Seen
  /\ pc \in InHand => cur \in Series
  /\ rule = "deleted" => \A s \in Series : state[s] = "ok"
  /\ pc = "resolveOrphan" => ~fired
  /\ Row => /\ Handling => seen.state = state[cur]
            /\ pc = "fire" => state[cur] = "pending"
            /\ pc = "recordFire" => state[cur] = "firing" /\ notified[cur] = 0
            /\ pc \in {"clear", "clearOrphan"} => state[cur] = "ok"

\* The channel has been quiet for as long as the row says, and for the whole
\* cooldown when the series does not fire.
QuietInv ==
  /\ Row => \A s \in Series \ doubted : ~(pc \in {"clear", "clearOrphan"} /\ s = cur) =>
       IF state[s] = "firing" THEN quiet[s] >= notified[s] ELSE quiet[s] = CooldownS
  /\ cur \in Series \ doubted =>
       /\ Handling /\ seen.state = "firing" => quiet[cur] >= seen.notified
       /\ Handling /\ seen.state = "pending" => quiet[cur] = CooldownS
       /\ pc \in {"fire", "recordFire"} => quiet[cur] = CooldownS
  /\ early \subseteq doubted

\* A pending series has crossed for longer than its row says.
HighInv ==
  /\ Row => \A s \in Series \ doubted : state[s] = "pending" /\ ~(Handling /\ ~fired /\ s = cur) => high[s] > since[s]
  /\ cur \in Series \ doubted =>
       /\ pc = "transition" /\ fired => high[cur] > 0
       /\ pc = "transition" /\ fired /\ seen.state = "pending" => high[cur] > seen.since
       /\ pc = "fire" => high[cur] > ForS
  /\ hasty \subseteq doubted

\* The history is in step with the states but for the series in hand.
HistoryInv ==
  Row => \A s \in Series \ doubted :
    open[s] = IF s = cur /\ pc = "recordFire" THEN 0
              ELSE IF s = cur /\ pc \in {"clear", "clearOrphan"} THEN 1
              ELSE IF state[s] = "firing" THEN 1 ELSE 0

\* The inductive invariant of the evaluator.
AlIInv == TypeOK /\ PassInv /\ QuietInv /\ HighInv /\ HistoryInv

\* The limits are numbers, and no series is called NoSeries.
LEMMA Sizes == ForS \in Nat /\ CooldownS \in Nat /\ MaxFault \in Nat /\ NoSeries \notin Series
BY AlertAssumption

\* The row a pass starts with is a row.
LEMMA NoneSeen == None \in Seen /\ None.state = "ok"
BY Sizes DEF None, Seen

\* Ages stay within their limit.
LEMMA OlderType ==
  ASSUME NEW limit \in Nat, NEW age \in [Series -> 0..limit]
  PROVE  Older(age, limit) \in [Series -> 0..limit]
BY DEF Older

\* Reading a row.
LEMMA ReadType ==
  ASSUME TypeOK, NEW s \in Series
  PROVE  [state |-> state[s], since |-> since[s], notified |-> notified[s]] \in Seen
BY DEF TypeOK, Seen

\* The parts of the type invariant: the world, the tables, the pass and the history.
WorldOK == rule \in {"enabled", "disabled", "deleted"} /\ matched \subseteq Series /\ above \subseteq Series

TablesOK ==
  /\ state \in [Series -> {"ok", "pending", "firing"}]
  /\ since \in [Series -> 0..ForS] /\ notified \in [Series -> 0..CooldownS]
  /\ open \in [Series -> 0..2]

PassOK ==
  /\ selected \subseteq Series /\ todo \subseteq Series
  /\ pc \in {"idle", "evaluate", "transition", "fire", "recordFire", "clear", "sweep",
             "resolveOrphan", "clearOrphan"}
  /\ loaded \in {"enabled", "disabled"}
  /\ cur \in Series \cup {NoSeries} /\ fired \in BOOLEAN /\ due \in BOOLEAN

HistOK ==
  /\ told \in [Series -> {"none", "fire", "resolve"}]
  /\ quiet \in [Series -> 0..CooldownS] /\ high \in [Series -> 0..ForS + 1]
  /\ {early, hasty, doubted} \subseteq SUBSET Series
  /\ faults \in 0..MaxFault

\* The type invariant, part by part.
LEMMA TypeIs == TypeOK <=> WorldOK /\ TablesOK /\ PassOK /\ HistOK
BY DEF TypeOK, WorldOK, TablesOK, PassOK, HistOK

\* The rule and the values of the series stay what they are.
LEMMA WorldSteps ==
  ASSUME TypeOK, [Next]_vars
  PROVE  WorldOK'
<1>1. UNCHANGED world \/ World
  BY DEF Next, Engine, Failure, vars, Load, LoadFails, EvaluateDone, SweepDone, Evaluate, Sweep, BecomePending,
     StaysPending, Fire, RecordFire, StaysFiring, Resolve, Clear, StaysOk, Abort, RenotifyUnrecorded, HistoryLost,
     NotificationLost, Crash, TimePasses
<1> QED
  BY <1>1 DEF world, World, ToggleRule, DeleteRule, ValueCrosses, HostMoves, TypeOK, WorldOK

\* The series a step of the pass handles.
LEMMA Current ==
  ASSUME PassInv
  PROVE  pc \in InHand => cur \in Series
BY DEF PassInv

\* The columns stay what they are.
LEMMA TablesSteps ==
  ASSUME TypeOK, PassInv, [Next]_vars
  PROVE  TablesOK'
<1> USE Sizes
<1>1. CASE UNCHANGED tables
  BY <1>1 DEF tables, TypeOK, TablesOK
<1>2. CASE BecomePending \/ Resolve
  BY <1>2, Current DEF InHand, BecomePending, Resolve, Pend, Handling, TypeOK, TablesOK
<1>3. CASE Fire
  BY <1>3, Current DEF InHand, Fire, MarkFiring, TypeOK, TablesOK
<1>4. CASE RecordFire \/ StaysFiring \/ Clear \/ NotificationLost
  <2>1. cur \in Series /\ state' = state /\ since' = since
    BY <1>4, Current DEF InHand, RecordFire, StaysFiring, Clear, NotificationLost
  <2>2. open' \in [Series -> 0..2] /\ notified' \in [Series -> 0..CooldownS]
    BY <1>4, <2>1 DEF RecordFire, StaysFiring, Clear, NotificationLost, Close, TypeOK
  <2> QED
    BY <2>1, <2>2 DEF TypeOK, TablesOK
<1>5. CASE DeleteRule
  BY <1>5 DEF DeleteRule, TablesOK
<1>6. CASE TimePasses
  <2>1. since' \in [Series -> 0..ForS] /\ notified' \in [Series -> 0..CooldownS]
    BY <1>6, OlderType DEF TimePasses, TypeOK
  <2> QED
    BY <1>6, <2>1 DEF TimePasses, TypeOK, TablesOK
<1> QED
  BY <1>1, <1>2, <1>3, <1>4, <1>5, <1>6
  DEF Next, Engine, Failure, World, vars, Load, LoadFails, EvaluateDone, SweepDone, Evaluate, Sweep, StaysPending,
      StaysOk, Abort, RenotifyUnrecorded, HistoryLost, Crash, ToggleRule, ValueCrosses, HostMoves

\* What a pass keeps stays what it is.
LEMMA PassSteps ==
  ASSUME TypeOK, PassInv, [Next]_vars
  PROVE  PassOK' /\ seen' \in Seen
<1> USE Sizes, NoneSeen
<1>1. CASE UNCHANGED pass
  BY <1>1 DEF pass, TypeOK, PassOK, PassInv
<1>2. CASE Load \/ LoadFails \/ EvaluateDone \/ SweepDone
  <2>1. PassOK'
    BY <1>2 DEF Load, LoadFails, EvaluateDone, SweepDone, TypeOK, PassOK, Goto, MatchedHosts
  <2>2. seen' = seen
    BY <1>2 DEF Load, LoadFails, EvaluateDone, SweepDone
  <2> QED
    BY <2>1, <2>2 DEF PassInv
<1>3. ASSUME NEW s \in Series, Evaluate(s) \/ Sweep(s) PROVE PassOK' /\ seen' \in Seen
  <2>1. Read(s, s \in above) \/ Read(s, FALSE)
    BY <1>3 DEF Evaluate, Sweep, Crosses
  <2>2. (s \in above) \in BOOLEAN /\ FALSE \in BOOLEAN
    OBVIOUS
  <2>3. seen' \in Seen
    BY <2>1, ReadType DEF Read
  <2>4. fired' \in BOOLEAN
    BY <2>1, <2>2 DEF Read
  <2> QED
    BY <2>1, <2>3, <2>4 DEF Read, TypeOK, PassOK
<1>4. ASSUME NEW p \in {"evaluate", "sweep", "fire", "recordFire", "clear", "clearOrphan"}, Then(p)
      PROVE  PassOK' /\ seen' \in Seen
  BY <1>4 DEF Then, TypeOK, PassOK, PassInv
<1>5. CASE \/ BecomePending \/ StaysPending \/ Fire \/ RecordFire \/ StaysFiring \/ Resolve \/ Clear \/ StaysOk
           \/ RenotifyUnrecorded \/ HistoryLost \/ NotificationLost
  <2>1. \E p \in {"evaluate", "sweep", "fire", "recordFire", "clear", "clearOrphan"} : Then(p)
    BY <1>5 DEF BecomePending, StaysPending, Fire, RecordFire, StaysFiring, Resolve, Clear, StaysOk, RenotifyUnrecorded,
       HistoryLost, NotificationLost, Loop
  <2> QED
    BY <1>4, <2>1
<1>6. CASE Abort \/ Crash
  BY <1>6 DEF Abort, Crash, Goto, TypeOK, PassOK
<1>7. CASE TimePasses
  BY <1>7 DEF TimePasses, TypeOK, PassOK, PassInv
<1> QED
  BY <1>1, <1>2, <1>3, <1>5, <1>6, <1>7
  DEF Next, Engine, Failure, World, vars, ToggleRule, DeleteRule, ValueCrosses, HostMoves

\* The history of the world stays what it is.
LEMMA HistSteps ==
  ASSUME TypeOK, PassInv, [Next]_vars
  PROVE  HistOK'
<1> USE Sizes
<1>1. CASE UNCHANGED <<hist, faults>>
  BY <1>1 DEF hist, TypeOK, HistOK
<1>2. CASE LoadFails
  BY <1>2 DEF LoadFails, hist, TypeOK, HistOK
<1>3. ASSUME NEW s \in Series, Evaluate(s) \/ Sweep(s) PROVE HistOK'
  <2>1. PICK v \in 0..(ForS + 1) : high' = [high EXCEPT ![s] = v]
    <3>1. CASE Sweep(s)
      <4>1. 0 \in 0..(ForS + 1) /\ high' = [high EXCEPT ![s] = 0]
        BY <3>1 DEF Sweep
      <4> QED
        BY <4>1
    <3>2. CASE Evaluate(s)
      <4>1. high[s] \in 0..(ForS + 1) /\ 0 \in 0..(ForS + 1) /\ 1 \in 0..(ForS + 1)
        BY DEF TypeOK
      <4> QED
        BY <3>2, <4>1 DEF Evaluate
    <3> QED
      BY <1>3, <3>1, <3>2
  <2>2. UNCHANGED <<told, quiet, early, hasty, doubted, faults>>
    BY <1>3 DEF Evaluate, Sweep
  <2> QED
    BY <2>1, <2>2 DEF TypeOK, HistOK
<1>4. CASE Fire
  BY <1>4, Current DEF InHand, Fire, TypeOK, HistOK
<1>5. CASE RecordFire \/ StaysFiring \/ Clear \/ RenotifyUnrecorded \/ HistoryLost \/ NotificationLost
  <2>1. cur \in Series
    BY <1>5, Current DEF InHand, RecordFire, StaysFiring, Clear, RenotifyUnrecorded, HistoryLost, NotificationLost
  <2>2. quiet' \in [Series -> 0..CooldownS] /\ told' \in [Series -> {"none", "fire", "resolve"}] /\ early' \in SUBSET Series
    BY <1>5, <2>1 DEF RecordFire, StaysFiring, Clear, RenotifyUnrecorded, HistoryLost, NotificationLost, Notify, TypeOK
  <2>3. doubted' \in SUBSET Series /\ UNCHANGED <<high, hasty>>
    BY <1>5, <2>1 DEF RecordFire, StaysFiring, Clear, RenotifyUnrecorded, HistoryLost, NotificationLost, Doubt, TypeOK
  <2>4. faults' \in 0..MaxFault
    BY <1>5 DEF RecordFire, StaysFiring, Clear, RenotifyUnrecorded, HistoryLost, NotificationLost, TypeOK
  <2> QED
    BY <2>2, <2>3, <2>4 DEF TypeOK, HistOK
<1>6. CASE Abort \/ Crash
  <2>1. doubted' \in SUBSET Series
    BY <1>6 DEF Abort, Crash, Doubt, TypeOK
  <2>2. faults' \in 0..MaxFault /\ UNCHANGED <<told, quiet, high, early, hasty>>
    BY <1>6 DEF Abort, Crash, TypeOK
  <2> QED
    BY <2>1, <2>2 DEF TypeOK, HistOK
<1>7. CASE TimePasses
  <2>1. quiet' \in [Series -> 0..CooldownS]
    BY <1>7, OlderType DEF TimePasses, TypeOK
  <2>2. high' \in [Series -> 0..ForS + 1]
    <3>1. high \in [Series -> 0..ForS + 1]
      BY DEF TypeOK
    <3>2. \A s \in Series : (IF high[s] > 0 /\ high[s] <= ForS THEN high[s] + 1 ELSE high[s]) \in 0..ForS + 1
      BY <3>1
    <3> QED
      BY <1>7, <3>2 DEF TimePasses
  <2> QED
    BY <1>7, <2>1, <2>2 DEF TimePasses, TypeOK, HistOK
<1> QED
  BY <1>1, <1>2, <1>3, <1>4, <1>5, <1>6, <1>7
  DEF Next, Engine, Failure, World, vars, Load, EvaluateDone, SweepDone, BecomePending, StaysPending, Resolve, StaysOk,
      ToggleRule, DeleteRule, ValueCrosses, HostMoves

\* No step breaks the types.
LEMMA TypeHolds ==
  ASSUME TypeOK, PassInv, [Next]_vars
  PROVE  TypeOK'
<1>1. WorldOK' /\ TablesOK' /\ PassOK' /\ HistOK'
  BY WorldSteps, TablesSteps, PassSteps, HistSteps
<1>2. (TypeOK <=> WorldOK /\ TablesOK /\ PassOK /\ HistOK)'
  BY TypeIs, PTL
<1> QED
  BY <1>1, <1>2

-----------------------------------------------------------------------------
(* What a pass has read.                                                   *)

\* No step breaks what a pass may rely on.
LEMMA PassHolds ==
  ASSUME TypeOK, PassInv, [Next]_vars
  PROVE  PassInv'
<1>1. seen' \in Seen
  BY PassSteps
<1> DEFINE Rest == /\ pc \in InHand => cur \in Series
                   /\ rule = "deleted" => \A s \in Series : state[s] = "ok"
                   /\ pc = "resolveOrphan" => ~fired
                   /\ Row => /\ Handling => seen.state = state[cur]
                             /\ pc = "fire" => state[cur] = "pending"
                             /\ pc = "recordFire" => state[cur] = "firing" /\ notified[cur] = 0
                             /\ pc \in {"clear", "clearOrphan"} => state[cur] = "ok"
<1>2. Rest
  BY DEF PassInv
<1> SUFFICES Rest'
  BY <1>1 DEF PassInv
<1>3. state \in [Series -> {"ok", "pending", "firing"}] /\ notified \in [Series -> 0..CooldownS] /\ todo \subseteq Series
  BY DEF TypeOK
<1>4. CASE UNCHANGED vars \/ World \/ TimePasses
  <2>1. CASE DeleteRule
    BY <1>2, <2>1 DEF DeleteRule, pass, Row, Handling, InHand
  <2> QED
    BY <1>2, <1>4, <2>1 DEF vars, world, tables, pass, World, ToggleRule, ValueCrosses, HostMoves, TimePasses, Row,
       Handling, InHand
<1>5. CASE Load \/ LoadFails \/ EvaluateDone \/ SweepDone \/ Abort \/ Crash
  <2>1. pc' \in {"idle", "evaluate", "sweep"} /\ UNCHANGED <<rule, state>>
    BY <1>5 DEF Load, LoadFails, EvaluateDone, SweepDone, Abort, Crash, Goto, world, tables
  <2> QED
    BY <1>2, <2>1 DEF Row, Handling, InHand
<1>6. ASSUME NEW s \in Series, Evaluate(s) \/ Sweep(s) PROVE Rest'
  <2>1. UNCHANGED <<rule, state>> /\ cur' = s /\ seen'.state = state[s]
    BY <1>6 DEF Evaluate, Sweep, Read, world, tables
  <2>2. pc' = "transition" \/ (pc' = "resolveOrphan" /\ ~fired')
    BY <1>6 DEF Evaluate, Sweep, Read
  <2> QED
    BY <1>2, <2>1, <2>2 DEF Row, Handling, InHand
<1>7. CASE \/ StaysPending \/ RecordFire \/ StaysFiring \/ Clear \/ StaysOk \/ RenotifyUnrecorded \/ HistoryLost
           \/ NotificationLost
  <2>1. pc' \in {"evaluate", "sweep"} /\ UNCHANGED <<rule, state>>
    BY <1>7 DEF StaysPending, RecordFire, StaysFiring, Clear, StaysOk, RenotifyUnrecorded, HistoryLost,
       NotificationLost, Then, Loop, world, tables
  <2> QED
    BY <1>2, <2>1 DEF Row, Handling, InHand
<1>8. CASE BecomePending
  <2>1. rule # "deleted" /\ rule' = rule /\ cur \in Series /\ state' = [state EXCEPT ![cur] = "pending"]
        /\ (pc' = "evaluate" \/ (pc' = "fire" /\ cur' = cur))
    BY <1>2, <1>8 DEF BecomePending, Pend, Then, world, Row, InHand
  <2> QED
    BY <1>3, <2>1 DEF Row, Handling, InHand
<1>9. CASE Fire
  <2>1. rule' = rule /\ cur \in Series /\ pc' = "recordFire" /\ cur' = cur
        /\ state' = (IF rule # "deleted" THEN [state EXCEPT ![cur] = "firing"] ELSE state)
        /\ notified' = (IF rule # "deleted" THEN [notified EXCEPT ![cur] = 0] ELSE notified)
    BY <1>2, <1>9 DEF Fire, MarkFiring, Then, world, Row, InHand
  <2> QED
    BY <1>2, <1>3, <2>1 DEF Row, Handling, InHand
<1>10. CASE Resolve
  <2>1. rule' = rule /\ cur \in Series /\ state' = [state EXCEPT ![cur] = "ok"]
        /\ (pc' \in {"evaluate", "sweep"} \/ (pc' \in {"clear", "clearOrphan"} /\ cur' = cur))
    BY <1>2, <1>10 DEF Resolve, Then, Loop, world, Handling, InHand
  <2> QED
    BY <1>2, <1>3, <2>1 DEF Row, Handling, InHand
<1> HIDE DEF Rest
<1> QED
  BY <1>4, <1>5, <1>6, <1>7, <1>8, <1>9, <1>10 DEF Next, Engine, Failure

-----------------------------------------------------------------------------
(* The cooldown.                                                           *)

\* Ages that a pass compares are numbers.
LEMMA Ages ==
  ASSUME TypeOK, PassInv
  PROVE  /\ \A s \in Series : /\ quiet[s] \in 0..CooldownS /\ notified[s] \in 0..CooldownS
                              /\ high[s] \in 0..(ForS + 1) /\ since[s] \in 0..ForS
         /\ seen.notified \in 0..CooldownS /\ seen.since \in 0..ForS
BY DEF TypeOK, PassInv, Seen

\* The channel has been quiet for as long as the row of the series says.
Quiet(s) == IF state[s] = "firing" THEN quiet[s] >= notified[s] ELSE quiet[s] = CooldownS

\* QuietInv with its conditions named.
LEMMA QuietIs ==
  QuietInv <=>
    /\ Row => \A s \in Series \ doubted : ~(pc \in {"clear", "clearOrphan"} /\ s = cur) => Quiet(s)
    /\ cur \in Series \ doubted =>
         /\ Handling /\ seen.state = "firing" => quiet[cur] >= seen.notified
         /\ Handling /\ seen.state = "pending" => quiet[cur] = CooldownS
         /\ pc \in {"fire", "recordFire"} => quiet[cur] = CooldownS
    /\ early \subseteq doubted
BY DEF QuietInv, Quiet

\* A step that leaves the columns, the notifications and the series in hand alone.
LEMMA QuietStill ==
  ASSUME QuietInv, UNCHANGED <<state, notified, quiet, early>>, doubted \subseteq doubted', Row' => Row,
         pc \in {"clear", "clearOrphan"} => cur \in doubted',
         pc' \notin InHand
  PROVE  QuietInv'
BY DEF QuietInv, Row, InHand, Handling

\* No step breaks the cooldown of a series that no fault has touched.
LEMMA QuietHolds ==
  ASSUME TypeOK, PassInv, QuietInv, [Next]_vars
  PROVE  QuietInv'
<1> USE Sizes, Ages
<1>1. CASE UNCHANGED vars \/ World
  <2>1. UNCHANGED <<quiet, early, doubted, pass>> /\ (Row' => Row /\ UNCHANGED <<state, notified>>)
    BY <1>1 DEF vars, world, tables, hist, World, ToggleRule, DeleteRule, ValueCrosses, HostMoves, Row
  <2> QED
    BY <2>1 DEF QuietInv, pass, Handling
<1>2. CASE Load \/ LoadFails \/ EvaluateDone \/ SweepDone \/ StaysPending \/ StaysOk
  <2>1. pc' \notin InHand /\ pc \notin {"clear", "clearOrphan"} /\ UNCHANGED <<rule, state, notified, quiet, early, doubted>>
    BY <1>2 DEF Load, LoadFails, EvaluateDone, SweepDone, StaysPending, StaysOk, Goto, world, tables, hist, Then, Loop,
       Handling, InHand
  <2> QED
    BY <2>1, QuietStill DEF Row
<1>3. CASE Abort \/ Crash
  <2>1. pc' \notin InHand /\ UNCHANGED <<rule, state, notified, quiet, early>> /\ Doubt(cur)
    BY <1>3 DEF Abort, Crash, Goto, world, tables, InHand
  <2>2. doubted \subseteq doubted' /\ (pc \in {"clear", "clearOrphan"} => cur \in doubted')
    BY <2>1, Current DEF InHand, Doubt
  <2> QED
    BY <2>1, <2>2, QuietStill DEF Row
<1>4. CASE TimePasses
  <2>1. pc = "idle" /\ pc' = "idle" /\ quiet' = Older(quiet, CooldownS) /\ notified' = Older(notified, CooldownS)
        /\ UNCHANGED <<rule, state, early, doubted>>
    BY <1>4 DEF TimePasses, world
  <2>2. ASSUME NEW s \in Series, Quiet(s) PROVE Quiet(s)'
    <3>1. quiet'[s] = (IF quiet[s] < CooldownS THEN quiet[s] + 1 ELSE CooldownS)
          /\ notified'[s] = (IF notified[s] < CooldownS THEN notified[s] + 1 ELSE CooldownS)
      BY <2>1 DEF Older
    <3>2. (quiet[s] >= notified[s] => quiet'[s] >= notified'[s]) /\ (quiet[s] = CooldownS => quiet'[s] = CooldownS)
      BY <3>1
    <3> QED
      BY <2>1, <2>2, <3>2 DEF Quiet
  <2> QED
    BY <2>1, <2>2 DEF QuietInv, Quiet, Row, Handling
<1>5. ASSUME NEW s \in Series, Evaluate(s) \/ Sweep(s) PROVE QuietInv'
  <2>1. /\ UNCHANGED <<rule, state, notified, quiet, early, doubted>> /\ cur' = s
        /\ seen'.state = state[s] /\ seen'.notified = notified[s]
        /\ pc' \in {"transition", "resolveOrphan"} /\ pc \in {"evaluate", "sweep"}
    BY <1>5 DEF Evaluate, Sweep, Read, world, tables
  <2>2. Row => \A r \in Series \ doubted : Quiet(r)
    BY <2>1 DEF QuietInv, Quiet
  <2>3. ~Row => state[s] = "ok"
    BY DEF PassInv, Row
  <2> QED
    BY <2>1, <2>2, <2>3 DEF QuietInv, Quiet, Row, Handling
<1>6. CASE BecomePending
  <2>1. /\ UNCHANGED <<rule, notified, quiet, early, doubted>> /\ Row /\ pc = "transition" /\ state[cur] = "ok" /\ cur \in Series
        /\ state' = [state EXCEPT ![cur] = "pending"] /\ (pc' = "evaluate" \/ (pc' = "fire" /\ cur' = cur))
    BY <1>6, Current DEF BecomePending, Pend, Then, world, hist, InHand, PassInv, Handling
  <2>2. \A s \in Series \ doubted : Quiet(s)
    BY <2>1 DEF QuietInv, Quiet
  <2>3. \A s \in Series : state'[s] = (IF s = cur THEN "pending" ELSE state[s])
    BY <2>1 DEF TypeOK
  <2> QED
    BY <2>1, <2>2, <2>3 DEF QuietInv, Quiet, Row, Handling
<1>7. CASE Fire
  <2>1. /\ UNCHANGED <<rule, quiet, early, doubted>> /\ cur \in Series /\ cur' = cur /\ pc' = "recordFire"
        /\ pc \in {"transition", "fire"} /\ (pc = "transition" => seen.state = "pending")
        /\ MarkFiring(cur)
    BY <1>7, Current DEF Fire, Then, world, InHand
  <2>2. cur \notin doubted => quiet[cur] = CooldownS
    BY <2>1 DEF QuietInv, Handling
  <2>3. Row => \A s \in Series \ doubted : Quiet(s)
    BY <2>1 DEF QuietInv, Quiet
  <2>4. Row => \A s \in Series : /\ state'[s] = (IF s = cur THEN "firing" ELSE state[s])
                                 /\ notified'[s] = (IF s = cur THEN 0 ELSE notified[s])
    BY <2>1 DEF MarkFiring, TypeOK
  <2>5. Row' <=> Row
    BY <2>1 DEF Row
  <2>6. Row' => \A s \in Series \ doubted' : Quiet(s)'
    BY <2>1, <2>2, <2>3, <2>4, <2>5 DEF Quiet
  <2> QED
    BY <2>1, <2>2, <2>6 DEF QuietInv, Quiet, Handling
<1>8. CASE RecordFire \/ (StaysFiring /\ CooledDown)
  <2>1. /\ UNCHANGED <<rule, state, doubted>> /\ cur \in Series /\ pc' = "evaluate" /\ pc \notin {"clear", "clearOrphan"}
        /\ Notify(cur, "fire")
    BY <1>8, Current DEF RecordFire, StaysFiring, Then, world, InHand, hist
  <2>2. cur \notin doubted => quiet[cur] >= CooldownS
    BY <1>8, <2>1 DEF QuietInv, RecordFire, StaysFiring, CooledDown, Handling
  <2>3. early' \subseteq doubted'
    BY <2>1, <2>2 DEF QuietInv, Notify
  <2>4. \A s \in Series : quiet'[s] = (IF s = cur THEN 0 ELSE quiet[s])
    BY <2>1 DEF Notify, TypeOK
  <2>5. Row => notified'[cur] = 0 /\ state[cur] = "firing" /\ \A s \in Series \ {cur} : notified'[s] = notified[s]
    <3>1. CASE RecordFire
      BY <3>1 DEF RecordFire, PassInv
    <3>2. CASE StaysFiring /\ CooledDown
      <4>1. Row => notified' = [notified EXCEPT ![cur] = 0] /\ state[cur] = "firing"
        BY <3>2 DEF StaysFiring, PassInv, Handling
      <4> QED
        BY <2>1, <4>1 DEF TypeOK
    <3> QED
      BY <1>8, <3>1, <3>2
  <2>6. Row => \A s \in Series \ doubted : Quiet(s)
    BY <2>1 DEF QuietInv, Quiet
  <2>7. Row' => \A s \in Series \ doubted' : Quiet(s)'
    BY <2>1, <2>4, <2>5, <2>6 DEF Quiet, Row
  <2> QED
    BY <2>1, <2>3, <2>7 DEF QuietInv, Quiet, Handling
<1>9. CASE StaysFiring /\ ~CooledDown
  <2>1. pc' \notin InHand /\ pc \notin {"clear", "clearOrphan"} /\ UNCHANGED <<rule, state, notified, quiet, early, doubted>>
    BY <1>9 DEF StaysFiring, Then, world, InHand
  <2> QED
    BY <2>1, QuietStill DEF Row
<1>10. CASE RenotifyUnrecorded \/ HistoryLost \/ NotificationLost \/ Clear
  <2>1. /\ UNCHANGED <<rule, state, notified>> /\ cur \in Series /\ pc' \in {"evaluate", "sweep"} /\ pc \in InHand
        /\ \A s \in Series \ {cur} : quiet'[s] = quiet[s]
    BY <1>10, Current DEF RenotifyUnrecorded, HistoryLost, NotificationLost, Clear, Then, Loop, world, tables, InHand,
       Notify, TypeOK
  <2>2. \/ cur \in doubted' /\ doubted \subseteq doubted' /\ early' \subseteq early \cup {cur}
        \/ doubted' = doubted /\ early' = early /\ quiet'[cur] = CooldownS
    BY <1>10, <2>1 DEF RenotifyUnrecorded, HistoryLost, NotificationLost, Clear, Notify, Doubt, TypeOK
  <2>3. Row => \A s \in Series \ doubted : s # cur => Quiet(s)
    BY <2>1 DEF QuietInv, Quiet
  <2>4. notified[cur] \in 0..CooldownS
    BY <2>1
  <2>5. Row' => \A s \in Series \ doubted' : Quiet(s)'
    <3>1. CooldownS >= notified[cur]
      BY <2>4
    <3> QED
      BY <2>1, <2>2, <2>3, <3>1 DEF Quiet, Row
  <2> QED
    BY <2>1, <2>2, <2>5 DEF QuietInv, Quiet, Handling
<1>11. CASE Resolve
  <2>1. /\ UNCHANGED <<rule, notified, quiet, early, doubted>> /\ cur \in Series /\ Handling
        /\ state' = [state EXCEPT ![cur] = "ok"]
        /\ \/ pc' \in {"evaluate", "sweep"} /\ seen.state = "pending"
           \/ pc' \in {"clear", "clearOrphan"} /\ cur' = cur
    BY <1>11, Current DEF Resolve, Then, Loop, world, hist, InHand, Handling
  <2>2. Row => \A s \in Series \ doubted : Quiet(s)
    BY <2>1 DEF QuietInv, Quiet, Handling
  <2>3. \A s \in Series : state'[s] = (IF s = cur THEN "ok" ELSE state[s])
    BY <2>1 DEF TypeOK
  <2>4. seen.state = "pending" /\ cur \notin doubted => quiet[cur] = CooldownS
    BY <2>1 DEF QuietInv
  <2>5. Row' => \A s \in Series \ doubted' : ~(pc' \in {"clear", "clearOrphan"} /\ s = cur') => Quiet(s)'
    BY <2>1, <2>2, <2>3, <2>4 DEF Quiet, Row
  <2> QED
    BY <2>1, <2>5 DEF QuietInv, Quiet, Handling
<1> QED
  BY <1>1, <1>2, <1>3, <1>4, <1>5, <1>6, <1>7, <1>8, <1>9, <1>10, <1>11 DEF Next, Engine, Failure

-----------------------------------------------------------------------------
(* for_s.                                                                  *)

\* A step that leaves the columns and the evaluations alone, and hands the series back.
LEMMA HighStill ==
  ASSUME HighInv, UNCHANGED <<state, since, high, hasty>>, doubted \subseteq doubted', Row' => Row,
         Handling /\ ~fired => cur \in doubted' \/ state[cur] # "pending" \/ ~Row,
         pc' \notin InHand
  PROVE  HighInv'
BY DEF HighInv, Row, InHand, Handling

\* No step breaks the count of the crossings.
LEMMA HighHolds ==
  ASSUME TypeOK, PassInv, HighInv, [Next]_vars
  PROVE  HighInv'
<1> USE Sizes, Ages
<1>1. CASE UNCHANGED vars \/ World
  <2>1. UNCHANGED <<high, hasty, doubted, pass>> /\ (Row' => Row /\ UNCHANGED <<state, since>>)
    BY <1>1 DEF vars, world, tables, hist, World, ToggleRule, DeleteRule, ValueCrosses, HostMoves, Row
  <2> QED
    BY <2>1 DEF HighInv, pass, Handling
<1>2. CASE \/ Load \/ LoadFails \/ EvaluateDone \/ SweepDone \/ StaysPending \/ RecordFire \/ StaysFiring \/ Clear
           \/ NotificationLost \/ RenotifyUnrecorded \/ HistoryLost
  <2>1. /\ pc' \notin InHand /\ ~(Handling /\ ~fired) /\ UNCHANGED <<rule, state, since, high, hasty>>
        /\ doubted \subseteq doubted'
    BY <1>2 DEF Load, LoadFails, EvaluateDone, SweepDone, StaysPending, RecordFire, StaysFiring, Clear, NotificationLost,
       RenotifyUnrecorded, HistoryLost, Doubt, Goto, world, tables, hist, Then, Loop, Handling, InHand
  <2> QED
    BY <2>1, HighStill DEF Row
<1>3. CASE StaysOk
  <2>1. /\ pc' \notin InHand /\ Handling /\ seen.state = "ok" /\ UNCHANGED <<rule, state, since, high, hasty, doubted>>
    BY <1>3 DEF StaysOk, world, tables, hist, Then, Loop, Handling, InHand
  <2>2. Row => state[cur] = "ok"
    BY <2>1 DEF PassInv
  <2> QED
    BY <2>1, <2>2, HighStill DEF Row
<1>4. CASE Abort \/ Crash
  <2>1. pc' \notin InHand /\ UNCHANGED <<rule, state, since, high, hasty>> /\ Doubt(cur)
    BY <1>4 DEF Abort, Crash, Goto, world, tables, InHand
  <2>2. doubted \subseteq doubted' /\ (Handling => cur \in doubted')
    BY <2>1, Current DEF InHand, Doubt, Handling
  <2> QED
    BY <2>1, <2>2, HighStill DEF Row
<1>5. CASE TimePasses
  <2>1. pc = "idle" /\ pc' = "idle" /\ UNCHANGED <<rule, state, hasty, doubted>>
    BY <1>5 DEF TimePasses, world
  <2>2. ASSUME NEW s \in Series, high[s] > since[s] PROVE high'[s] > since'[s]
    <3>1. high'[s] = (IF high[s] > 0 /\ high[s] <= ForS THEN high[s] + 1 ELSE high[s])
          /\ since'[s] = (IF since[s] < ForS THEN since[s] + 1 ELSE ForS)
      BY <1>5 DEF TimePasses, Older
    <3>2. PICK i \in 0..(ForS + 1), n \in 0..ForS : i = high[s] /\ n = since[s]
      OBVIOUS
    <3> QED
      BY <2>2, <3>1, <3>2
  <2> QED
    BY <2>1, <2>2 DEF HighInv, Row, Handling
<1>6. ASSUME NEW s \in Series, Evaluate(s) \/ Sweep(s) PROVE HighInv'
  <2>1. /\ UNCHANGED <<rule, state, since, hasty, doubted>> /\ cur' = s
        /\ seen'.state = state[s] /\ seen'.since = since[s]
        /\ pc' \in {"transition", "resolveOrphan"} /\ pc \in {"evaluate", "sweep"}
    BY <1>6 DEF Evaluate, Sweep, Read, world, tables
  <2>2. /\ \A r \in Series \ {s} : high'[r] = high[r]
        /\ fired' => high'[s] = IF high[s] = 0 THEN 1 ELSE high[s]
    BY <1>6 DEF Evaluate, Sweep, Read, TypeOK
  <2>3. fired' => high'[s] > 0 /\ (high[s] > since[s] => high'[s] > since[s])
    <3>1. PICK i \in 0..(ForS + 1), n \in 0..ForS : i = high[s] /\ n = since[s]
      OBVIOUS
    <3> QED
      BY <2>2, <3>1
  <2>4. Row => \A r \in Series \ doubted : state[r] = "pending" => high[r] > since[r]
    BY <2>1 DEF HighInv, Handling
  <2>5. ~Row => state[s] = "ok"
    BY DEF PassInv, Row
  <2>6. (pc' = "transition") => (fired' => high'[s] > 0 /\ (seen'.state = "pending" /\ s \notin doubted => high'[s] > seen'.since))
    BY <2>1, <2>3, <2>4, <2>5
  <2>7. Row' => \A r \in Series \ doubted' : state'[r] = "pending" /\ ~(~fired' /\ r = s) => high'[r] > since'[r]
    BY <2>1, <2>2, <2>3, <2>4 DEF Row
  <2> QED
    BY <2>1, <2>6, <2>7 DEF HighInv, Handling
<1>7. CASE BecomePending
  <2>1. /\ UNCHANGED <<rule, high, hasty, doubted>> /\ Row /\ pc = "transition" /\ fired /\ cur \in Series
        /\ state' = [state EXCEPT ![cur] = "pending"] /\ since' = [since EXCEPT ![cur] = 0]
        /\ (pc' = "evaluate" \/ (pc' = "fire" /\ cur' = cur /\ ~(ForS > 0)))
    BY <1>7, Current DEF BecomePending, Pend, Then, world, hist, InHand
  <2>2. \A s \in Series \ doubted : state[s] = "pending" => high[s] > since[s]
    BY <2>1 DEF HighInv
  <2>3. cur \notin doubted => high[cur] > 0
    BY <2>1 DEF HighInv
  <2>4. \A s \in Series : /\ state'[s] = (IF s = cur THEN "pending" ELSE state[s])
                          /\ since'[s] = (IF s = cur THEN 0 ELSE since[s])
    BY <2>1 DEF TypeOK
  <2>5. \A s \in Series \ doubted' : state'[s] = "pending" => high'[s] > since'[s]
    BY <2>1, <2>2, <2>3, <2>4
  <2>6. pc' = "fire" /\ cur \notin doubted => high[cur] > ForS
    <3>1. ~(ForS > 0) => ForS = 0
      OBVIOUS
    <3> QED
      BY <2>1, <2>3, <3>1
  <2> QED
    BY <2>1, <2>5, <2>6 DEF HighInv, Handling
<1>8. CASE Fire
  <2>1. /\ UNCHANGED <<rule, high, doubted>> /\ cur \in Series /\ cur' = cur /\ pc' = "recordFire"
        /\ (pc = "fire" \/ (pc = "transition" /\ fired /\ seen.state = "pending" /\ seen.since >= ForS))
        /\ hasty' = (IF high[cur] <= ForS THEN hasty \cup {cur} ELSE hasty)
        /\ MarkFiring(cur)
    BY <1>8, Current DEF Fire, Then, world, InHand
  <2>2. cur \notin doubted => high[cur] > ForS
    <3>1. CASE pc = "fire"
      BY <2>1, <3>1 DEF HighInv
    <3>2. CASE pc = "transition" /\ cur \notin doubted
      <4>1. high[cur] > seen.since /\ seen.since >= ForS
        BY <2>1, <3>2 DEF HighInv
      <4>2. PICK i \in 0..(ForS + 1), n \in 0..ForS : i = high[cur] /\ n = seen.since
        BY <2>1
      <4> QED
        BY <4>1, <4>2
    <3> QED
      BY <2>1, <3>1, <3>2
  <2>3. hasty' \subseteq doubted'
    <3>1. high[cur] > ForS => ~(high[cur] <= ForS)
      BY <2>1
    <3> QED
      BY <2>1, <2>2, <3>1 DEF HighInv
  <2>4. Row' => \A s \in Series : /\ state'[s] = (IF s = cur THEN "firing" ELSE state[s])
                                  /\ s # cur => since'[s] = since[s]
    BY <2>1 DEF MarkFiring, TypeOK, Row
  <2>5. Row => \A s \in Series \ doubted : state[s] = "pending" /\ s # cur => high[s] > since[s]
    BY <2>1 DEF HighInv
  <2>6. Row' => \A s \in Series \ doubted' : state'[s] = "pending" => high'[s] > since'[s]
    BY <2>1, <2>4, <2>5 DEF Row
  <2> QED
    BY <2>1, <2>3, <2>6 DEF HighInv, Handling
<1>9. CASE Resolve
  <2>1. /\ UNCHANGED <<rule, high, hasty, doubted>> /\ cur \in Series /\ pc' \notin {"transition", "resolveOrphan", "fire"}
        /\ state' = [state EXCEPT ![cur] = "ok"] /\ since' = [since EXCEPT ![cur] = 0]
    BY <1>9, Current DEF Resolve, Then, Loop, world, hist, InHand, Handling
  <2>2. \A s \in Series : /\ state'[s] = (IF s = cur THEN "ok" ELSE state[s])
                          /\ s # cur => since'[s] = since[s]
    BY <2>1 DEF TypeOK
  <2>3. Row => \A s \in Series \ doubted : state[s] = "pending" /\ s # cur => high[s] > since[s]
    BY <2>1 DEF HighInv
  <2>4. Row' => \A s \in Series \ doubted' : state'[s] = "pending" => high'[s] > since'[s]
    BY <2>1, <2>2, <2>3 DEF Row
  <2> QED
    BY <2>1, <2>4 DEF HighInv, Handling
<1> QED
  BY <1>1, <1>2, <1>3, <1>4, <1>5, <1>6, <1>7, <1>8, <1>9 DEF Next, Engine, Failure

-----------------------------------------------------------------------------
(* The history.                                                            *)

\* The open entry of the history is there when the series fires, and only then.
Opened(s) ==
  open[s] = IF s = cur /\ pc = "recordFire" THEN 0
            ELSE IF s = cur /\ pc \in {"clear", "clearOrphan"} THEN 1
            ELSE IF state[s] = "firing" THEN 1 ELSE 0

\* HistoryInv with its condition named.
LEMMA HistoryIs == HistoryInv <=> (Row => \A s \in Series \ doubted : Opened(s))
BY DEF HistoryInv, Opened

\* No step sets the history apart from the states.
LEMMA HistoryHolds ==
  ASSUME TypeOK, PassInv, HistoryInv, [Next]_vars
  PROVE  HistoryInv'
<1>1. CASE UNCHANGED vars \/ World
  <2>1. UNCHANGED <<doubted, pass>> /\ (Row' => Row /\ UNCHANGED <<state, open>>)
    BY <1>1 DEF vars, world, tables, hist, World, ToggleRule, DeleteRule, ValueCrosses, HostMoves, Row
  <2> QED
    BY <2>1 DEF HistoryInv, pass
<1>2. CASE \/ Load \/ LoadFails \/ EvaluateDone \/ SweepDone \/ StaysPending \/ StaysFiring \/ StaysOk \/ TimePasses
           \/ RenotifyUnrecorded \/ \E s \in Series : Evaluate(s) \/ Sweep(s)
  <2>1. /\ pc \notin {"recordFire", "clear", "clearOrphan"} /\ pc' \notin {"recordFire", "clear", "clearOrphan"}
        /\ UNCHANGED <<rule, state, open>> /\ doubted \subseteq doubted'
    BY <1>2 DEF Load, LoadFails, EvaluateDone, SweepDone, StaysPending, StaysFiring, StaysOk, TimePasses, RenotifyUnrecorded,
       Evaluate, Sweep, Read, Doubt, Goto, world, tables, hist, Then, Loop, Handling
  <2> QED
    BY <2>1 DEF HistoryInv, Row
<1>3. CASE Abort \/ Crash \/ HistoryLost
  <2>1. /\ pc' \notin {"recordFire", "clear", "clearOrphan"} /\ UNCHANGED <<rule, state, open>> /\ Doubt(cur)
    BY <1>3 DEF Abort, Crash, HistoryLost, Goto, world, tables, Then, Loop
  <2>2. doubted \subseteq doubted' /\ (pc \in InHand => cur \in doubted')
    BY <2>1, Current DEF Doubt
  <2> QED
    BY <2>1, <2>2 DEF HistoryInv, Row, InHand
<1>4. CASE RecordFire \/ Clear \/ NotificationLost
  <2>1. /\ cur \in Series /\ pc' \notin {"recordFire", "clear", "clearOrphan"} /\ UNCHANGED <<rule, state, doubted>>
        /\ \/ pc = "recordFire" /\ open' = [open EXCEPT ![cur] = IF open[cur] < 2 THEN open[cur] + 1 ELSE 2]
           \/ pc \in {"clear", "clearOrphan"} /\ open' = [open EXCEPT ![cur] = IF open[cur] > 0 THEN open[cur] - 1 ELSE 0]
    BY <1>4, Current DEF RecordFire, Clear, NotificationLost, Close, Then, Loop, world, InHand
  <2>2. \A s \in Series \ {cur} : open'[s] = open[s]
    BY <2>1 DEF TypeOK
  <2>3. Row /\ cur \notin doubted => open'[cur] = IF state[cur] = "firing" THEN 1 ELSE 0
    <3>1. CASE pc = "recordFire"
      <4>1. Row /\ cur \notin doubted => open[cur] = 0 /\ state[cur] = "firing"
        BY <2>1, <3>1 DEF HistoryInv, PassInv
      <4> QED
        BY <2>1, <3>1, <4>1 DEF TypeOK
    <3>2. CASE pc \in {"clear", "clearOrphan"}
      <4>1. Row /\ cur \notin doubted => open[cur] = 1 /\ state[cur] = "ok"
        BY <2>1, <3>2 DEF HistoryInv, PassInv
      <4> QED
        BY <2>1, <3>2, <4>1 DEF TypeOK
    <3> QED
      BY <2>1, <3>1, <3>2
  <2> QED
    BY <2>1, <2>2, <2>3 DEF HistoryInv, Row
<1>5. CASE BecomePending \/ Fire \/ Resolve
  <2>1. /\ cur \in Series /\ UNCHANGED <<rule, open, doubted>> /\ pc \notin {"recordFire", "clear", "clearOrphan"}
        /\ pc' \in {"recordFire", "clear", "clearOrphan"} => cur' = cur
        /\ Row => \A s \in Series \ {cur} : state'[s] = state[s]
    BY <1>5, Current DEF BecomePending, Fire, Resolve, Pend, MarkFiring, Then, Loop, world, hist, InHand, Handling, TypeOK
  <2>2. Row => \/ /\ state[cur] # "firing"
                  /\ \/ pc' = "recordFire"
                     \/ pc' \notin {"recordFire", "clear", "clearOrphan"} /\ state'[cur] # "firing"
               \/ state[cur] = "firing" /\ pc' \in {"clear", "clearOrphan"}
    <3>1. CASE BecomePending
      BY <2>1, <3>1 DEF BecomePending, Pend, Then, PassInv, Handling, TypeOK
    <3>2. CASE Fire
      BY <2>1, <3>2 DEF Fire, Then, PassInv, Handling
    <3>3. CASE Resolve
      <4>1. state'[cur] = "ok" /\ seen.state \in {"pending", "firing"} /\ (Row => seen.state = state[cur])
        BY <2>1, <3>3 DEF Resolve, PassInv, Handling, TypeOK, Seen
      <4> QED
        BY <3>3, <4>1 DEF Resolve, Then, Loop
    <3> QED
      BY <1>5, <3>1, <3>2, <3>3
  <2> QED
    BY <2>1, <2>2 DEF HistoryInv, Row
<1> QED
  BY <1>1, <1>2, <1>3, <1>4, <1>5 DEF Next, Engine, Failure

-----------------------------------------------------------------------------
\* The evaluator starts in the invariant.
LEMMA AlInit ==
  ASSUME Init
  PROVE  AlIInv
<1> USE Sizes, NoneSeen
<1>1. TypeOK
  <2>1. 0 \in 0..ForS /\ CooldownS \in 0..CooldownS /\ 0 \in 0..ForS + 1 /\ 0 \in 0..MaxFault /\ 0 \in 0..2
    OBVIOUS
  <2>2. WorldOK /\ PassOK
    BY DEF Init, WorldOK, PassOK
  <2>3. TablesOK
    BY <2>1 DEF Init, TablesOK
  <2>4. HistOK
    BY <2>1 DEF Init, HistOK
  <2> QED
    BY <2>2, <2>3, <2>4, TypeIs
<1>2. PassInv
  BY DEF Init, PassInv, InHand, Handling, Row
<1>3. QuietInv /\ HighInv /\ HistoryInv
  BY DEF Init, QuietInv, HighInv, HistoryInv, Handling
<1> QED
  BY <1>1, <1>2, <1>3 DEF AlIInv

\* The inductive invariant of the evaluator: what the columns say of a series that
\* no fault has touched.
THEOREM AlIInvHolds == Spec => []AlIInv
<1>1. Init => AlIInv
  BY AlInit
<1>2. AlIInv /\ [Next]_vars => AlIInv'
  BY TypeHolds, PassHolds, QuietHolds, HighHolds, HistoryHolds DEF AlIInv
<1> QED
  BY <1>1, <1>2, PTL DEF Spec

\* The cooldown, for_s and the history are kept whatever the operator and the values
\* do, but for the series a statement failed for.
THEOREM AlertCorrect == Spec => []AlertInv
<1>1. AlIInv => AlertInv
  <2>1. TypeOK /\ Row /\ HistoryInv /\ pc = "idle" => HistoryMatchesState
    BY DEF HistoryInv, HistoryMatchesState, Row
  <2> QED
    BY <2>1 DEF AlIInv, AlertInv, QuietInv, HighInv, CooldownRespected, FiresAfterFor, HistoryMatchesState, Row
<1> QED
  BY <1>1, AlIInvHolds, PTL

-----------------------------------------------------------------------------
(*****************************************************************************)
(* The scheduler, for every length of the day and of the week, every schedule,*)
(* any jitter, restarts and failed writes of the state file.                 *)
(*                                                                           *)
(* That no occurrence is triggered twice is not inductive: a loop is armed   *)
(* long before it triggers, by a start or by the trigger before, and a jitter*)
(* later than the schedule says.  The invariant says what arming promised:   *)
(* from that time on the latest occurrence is one that no trigger has had    *)
(* (FreshInv), and the loop is armed for what is due (ArmedInv).  Both rest on*)
(* the occurrences being exactly a period apart, and on the file being as new*)
(* as the last trigger (RecordedInv).                                        *)
(*****************************************************************************)

\* Times of a period: products and remainders.
LEMMA TimesGrow ==
  ASSUME NEW P \in Nat, NEW a \in Int, NEW b \in Int, a <= b
  PROVE  a * P <= b * P
OBVIOUS

\* Every number is a number of periods and a rest.
LEMMA Splits ==
  ASSUME NEW P \in Nat \ {0}, NEW n \in Int
  PROVE  /\ n \div P \in Int /\ n % P \in 0..(P - 1)
         /\ n = (n \div P) * P + (n % P)
OBVIOUS

\* The rest of a number of periods and a rest is the rest.
LEMMA SplitIs ==
  ASSUME NEW P \in Nat \ {0}, NEW q \in Int, NEW r \in 0..(P - 1)
  PROVE  (q * P + r) % P = r
OBVIOUS

\* Products distribute over sums and differences.
LEMMA Distribute ==
  ASSUME NEW P \in Nat, NEW a \in Int, NEW b \in Int
  PROVE  (a + b) * P = a * P + b * P /\ (a - b) * P = a * P - b * P /\ 1 * P = P /\ (0-1) * P = 0 - P
OBVIOUS

\* How far apart the occurrences of a job are, and where in the period they lie.
Period(j) == IF j = "b" THEN SdDay ELSE SdWeekTicks
Offset(j) == IF j = "b" THEN SdBackupAt ELSE SdCheckDay * SdDay + SdCheckAt
Occurrence(j, t) == \E q \in Int : t = q * Period(j) + Offset(j)

\* A period is positive, and an occurrence lies within it.
LEMMA Periods ==
  ASSUME NEW j \in Jobs2
  PROVE  Period(j) \in Nat \ {0} /\ Offset(j) \in 0..(Period(j) - 1)
<1>1. CASE j = "b"
  BY <1>1, SdAssumption DEF Period, Offset
<1>2. CASE j = "c"
  <2>1. SdWeekTicks \in Nat \ {0} /\ SdCheckDay * SdDay \in Nat
    BY SdAssumption DEF SdWeekTicks
  <2>2. SdCheckDay * SdDay <= (SdWeek - 1) * SdDay
    BY SdAssumption, TimesGrow
  <2>3. (SdWeek - 1) * SdDay = SdWeekTicks - SdDay
    BY SdAssumption, Distribute DEF SdWeekTicks
  <2> QED
    BY <1>2, <2>1, <2>2, <2>3, SdAssumption DEF Period, Offset
<1> QED
  BY <1>1, <1>2 DEF Jobs2

\* Two occurrences are a period apart.
LEMMA Apart ==
  ASSUME NEW j \in Jobs2, NEW s \in Int, NEW t \in Int, Occurrence(j, s), Occurrence(j, t), s < t
  PROVE  s + Period(j) <= t
<1> DEFINE P == Period(j)
           A == Offset(j)
<1>1. PICK a \in Int, b \in Int : s = a * P + A /\ t = b * P + A
  BY DEF Occurrence
<1>2. P \in Nat /\ A \in Nat
  BY Periods
<1> HIDE DEF P, A
<1>3. a < b
  <2> SUFFICES ASSUME b <= a PROVE FALSE
    OBVIOUS
  <2>1. b * P <= a * P
    BY <1>2, TimesGrow
  <2> QED
    BY <1>1, <1>2, <2>1
<1>4. (a + 1) * P <= b * P
  BY <1>2, <1>3, TimesGrow
<1>5. (a + 1) * P = a * P + P
  BY <1>2, Distribute
<1>6. s + P <= t
  BY <1>1, <1>2, <1>4, <1>5
<1> QED
  BY <1>6 DEF P

\* The days since, and until, a day of the week.
LEMMA DaysApart ==
  ASSUME NEW n \in Nat \ {0}, NEW v \in 0..(n - 1), NEW w \in 0..(n - 1)
  PROVE  ((v - w) + n) % n = (IF v >= w THEN v - w ELSE (v - w) + n)
<1>1. CASE v >= w
  <2>1. v - w \in 0..(n - 1) /\ (v - w) + n = 1 * n + (v - w)
    BY <1>1
  <2>2. (1 * n + (v - w)) % n = v - w
    BY <2>1, SplitIs
  <2> QED
    BY <1>1, <2>1, <2>2
<1>2. CASE ~(v >= w)
  <2>1. (v - w) + n \in 0..(n - 1) /\ (v - w) + n = 0 * n + ((v - w) + n)
    BY <1>2
  <2>2. (0 * n + ((v - w) + n)) % n = (v - w) + n
    BY <2>1, SplitIs
  <2> QED
    BY <1>2, <2>1, <2>2
<1> QED
  BY <1>1, <1>2

\* The latest daily occurrence up to a time, and the next one a day later.
LEMMA DailyIs ==
  ASSUME NEW time \in Nat
  PROVE  /\ MostRecentDaily(time) \in Int /\ Occurrence("b", MostRecentDaily(time))
         /\ MostRecentDaily(time) <= time /\ time < MostRecentDaily(time) + SdDay
         /\ NextDaily(time) = MostRecentDaily(time) + SdDay
<1> DEFINE d == DayOf(time)
           x == d * SdDay
<1>1. d \in Int /\ x \in Int /\ time - x \in 0..(SdDay - 1)
  BY SdAssumption, Splits DEF DayOf
<1>2. (d - 1) * SdDay = x - SdDay
  BY <1>1, SdAssumption, Distribute
<1>3. Occurrence("b", x + SdBackupAt) /\ Occurrence("b", (x - SdDay) + SdBackupAt)
  <2>1. d - 1 \in Int
    BY <1>1
  <2> HIDE DEF d
  <2> QED
    BY <1>1, <1>2, <2>1 DEF Occurrence, Period, Offset
<1>4. /\ MostRecentDaily(time) = (IF x + SdBackupAt > time THEN (x + SdBackupAt) - SdDay ELSE x + SdBackupAt)
      /\ NextDaily(time) = (IF x + SdBackupAt <= time THEN (x + SdBackupAt) + SdDay ELSE x + SdBackupAt)
  BY DEF MostRecentDaily, NextDaily
<1> HIDE DEF x
<1>5. /\ MostRecentDaily(time) \in Int /\ MostRecentDaily(time) <= time /\ time < MostRecentDaily(time) + SdDay
      /\ NextDaily(time) = MostRecentDaily(time) + SdDay
  BY <1>1, <1>4, SdAssumption
<1>6. (x + SdBackupAt) - SdDay = (x - SdDay) + SdBackupAt
  BY <1>1, SdAssumption
<1> QED
  BY <1>3, <1>4, <1>5, <1>6

\* A week is no shorter than a day.
LEMMA WeekIs ==
  /\ SdWeekTicks \in Nat /\ SdWeekTicks = SdWeek * SdDay
  /\ SdDay <= SdWeekTicks /\ (SdWeek - 1) * SdDay = SdWeekTicks - SdDay
<1>1. 1 * SdDay <= SdWeek * SdDay
  BY SdAssumption, TimesGrow
<1>2. (SdWeek - 1) * SdDay = SdWeek * SdDay - SdDay
  BY SdAssumption, Distribute
<1> QED
  BY <1>1, <1>2, SdAssumption DEF SdWeekTicks

\* The latest weekly occurrence up to a time, and the next one a week later.
LEMMA WeeklyIs ==
  ASSUME NEW time \in Nat
  PROVE  /\ MostRecentWeekly(time) \in Int /\ Occurrence("c", MostRecentWeekly(time))
         /\ MostRecentWeekly(time) <= time /\ time < MostRecentWeekly(time) + SdWeekTicks
         /\ NextWeekly(time) = MostRecentWeekly(time) + SdWeekTicks
<1> DEFINE d == DayOf(time)
           x == d * SdDay
           w == Weekday(time)
           k == d \div SdWeek
           passed == ((w - SdCheckDay) + SdWeek) % SdWeek
           left == ((SdCheckDay - w) + SdWeek) % SdWeek
           y == (d - passed) * SdDay
           z == (d + left) * SdDay
           C == SdCheckDay * SdDay
<1>1. d \in Int /\ x \in Int /\ time - x \in 0..(SdDay - 1)
  BY SdAssumption, Splits DEF DayOf
<1>2. /\ MostRecentWeekly(time) = (IF y + SdCheckAt > time THEN (y + SdCheckAt) - SdWeekTicks ELSE y + SdCheckAt)
      /\ NextWeekly(time) = (IF z + SdCheckAt <= time THEN (z + SdCheckAt) + SdWeekTicks ELSE z + SdCheckAt)
  BY DEF MostRecentWeekly, NextWeekly
<1> HIDE DEF d
<1>3. w \in 0..(SdWeek - 1) /\ k \in Int /\ d = k * SdWeek + w
  BY <1>1, SdAssumption, Splits DEF Weekday, d
<1> HIDE DEF w, k
<1>4. /\ passed = (IF w >= SdCheckDay THEN w - SdCheckDay ELSE (w - SdCheckDay) + SdWeek)
      /\ left = (IF SdCheckDay >= w THEN SdCheckDay - w ELSE (SdCheckDay - w) + SdWeek)
  BY <1>3, SdAssumption, DaysApart
<1> HIDE DEF passed, left
<1>5. passed \in 0..(SdWeek - 1) /\ left = (IF passed = 0 THEN 0 ELSE SdWeek - passed)
  BY <1>3, <1>4, SdAssumption
<1>6. PICK h \in Int : d - passed = h * SdWeek + SdCheckDay
  <2>1. (k - 1) * SdWeek = k * SdWeek - SdWeek /\ k * SdWeek \in Int /\ k - 1 \in Int
    BY <1>3, SdAssumption, Distribute
  <2>2. d - passed = k * SdWeek + SdCheckDay \/ d - passed = (k - 1) * SdWeek + SdCheckDay
    <3> DEFINE kw == k * SdWeek
               kv == (k - 1) * SdWeek
    <3> SUFFICES d - passed = kw + SdCheckDay \/ d - passed = kv + SdCheckDay
      OBVIOUS
    <3>1. kw \in Int /\ kv = kw - SdWeek /\ d = kw + w
      BY <1>3, <2>1
    <3> HIDE DEF kw, kv
    <3> QED
      BY <1>3, <1>4, <3>1, SdAssumption
  <2> QED
    BY <1>3, <2>1, <2>2
<1>7. y = h * SdWeekTicks + C /\ C \in Int /\ h * SdWeekTicks \in Int
  <2>1. y = (h * SdWeek) * SdDay + C
    BY <1>6, SdAssumption, Distribute
  <2>2. (h * SdWeek) * SdDay = h * SdWeekTicks
    BY <1>6, SdAssumption DEF SdWeekTicks
  <2> QED
    BY <1>6, <2>1, <2>2, WeekIs, SdAssumption
<1>8. (h - 1) * SdWeekTicks = h * SdWeekTicks - SdWeekTicks
  BY <1>6, WeekIs, Distribute
<1>9. Occurrence("c", y + SdCheckAt) /\ Occurrence("c", (y + SdCheckAt) - SdWeekTicks)
  <2> DEFINE hw == h * SdWeekTicks
             hv == (h - 1) * SdWeekTicks
  <2>1. y + SdCheckAt = hw + (C + SdCheckAt) /\ (y + SdCheckAt) - SdWeekTicks = hv + (C + SdCheckAt)
    <3>1. y = hw + C /\ hv = hw - SdWeekTicks /\ hw \in Int
      BY <1>7, <1>8
    <3> HIDE DEF hw, hv, y, C
    <3> QED
      BY <1>7, <3>1, WeekIs, SdAssumption
  <2>2. h - 1 \in Int
    BY <1>6
  <2> QED
    BY <1>6, <2>1, <2>2 DEF Occurrence, Period, Offset
<1>10. y \in Int /\ z \in Int /\ x - y \in 0..(SdWeekTicks - SdDay) /\ (passed = 0 => y = x)
       /\ (passed # 0 => x - y >= SdDay) /\ z = (IF passed = 0 THEN x ELSE y + SdWeekTicks)
  <2> DEFINE s == passed * SdDay
  <2>1. y = x - s /\ s \in Int
    BY <1>1, <1>5, SdAssumption, Distribute
  <2>2. 0 * SdDay <= s /\ s <= (SdWeek - 1) * SdDay
    BY <1>5, SdAssumption, TimesGrow
  <2>3. passed # 0 => 1 * SdDay <= s
    BY <1>5, SdAssumption, TimesGrow
  <2>4. passed = 0 => s = 0 /\ z = x
    BY <1>1, <1>5, SdAssumption
  <2>5. passed # 0 => z = y + SdWeekTicks
    <3> SUFFICES ASSUME passed # 0 PROVE z = y + SdWeekTicks
      OBVIOUS
    <3>1. d + left = (d - passed) + SdWeek /\ d - passed \in Int
      BY <1>1, <1>5, SdAssumption
    <3>2. ((d - passed) + SdWeek) * SdDay = y + SdWeek * SdDay
      BY <3>1, SdAssumption, Distribute
    <3> QED
      BY <3>1, <3>2, WeekIs
  <2>6. 0 * SdDay = 0 /\ 1 * SdDay = SdDay
    BY SdAssumption
  <2> HIDE DEF s, x, y, z
  <2> QED
    BY <1>1, <2>1, <2>2, <2>3, <2>4, <2>5, <2>6, WeekIs, SdAssumption
<1> HIDE DEF x, y, z
<1>11. /\ MostRecentWeekly(time) \in Int /\ MostRecentWeekly(time) <= time
       /\ time < MostRecentWeekly(time) + SdWeekTicks
       /\ NextWeekly(time) = MostRecentWeekly(time) + SdWeekTicks
  <2>1. SdWeekTicks \in Nat /\ SdDay <= SdWeekTicks
    BY WeekIs
  <2>2. CASE passed = 0
    BY <1>1, <1>2, <1>10, <2>1, <2>2, SdAssumption
  <2>3. CASE passed # 0
    BY <1>1, <1>2, <1>10, <2>1, <2>3, SdAssumption
  <2> QED
    BY <2>2, <2>3
<1> QED
  BY <1>2, <1>9, <1>11

\* The latest occurrence up to a time, and the next one a period later.
LEMMA RecentIs ==
  ASSUME NEW j \in Jobs2, NEW time \in Nat
  PROVE  /\ Recent(j, time) \in Int /\ Occurrence(j, Recent(j, time))
         /\ Recent(j, time) <= time /\ time < Recent(j, time) + Period(j)
         /\ Following(j, time) = Recent(j, time) + Period(j)
<1>1. CASE j = "b"
  BY <1>1, DailyIs DEF Recent, Following, Period
<1>2. CASE j = "c"
  BY <1>2, WeeklyIs DEF Recent, Following, Period
<1> QED
  BY <1>1, <1>2 DEF Jobs2

\* The latest occurrence moves on with the time, a period at a time.
LEMMA Later ==
  ASSUME NEW j \in Jobs2, NEW s \in Nat, NEW t \in Nat, s <= t
  PROVE  /\ Recent(j, s) <= Recent(j, t)
         /\ Recent(j, s) # Recent(j, t) => Following(j, s) <= Recent(j, t)
<1> DEFINE P == Period(j)
           r == Recent(j, s)
           u == Recent(j, t)
<1>1. /\ r \in Int /\ u \in Int /\ P \in Nat /\ Occurrence(j, r) /\ Occurrence(j, u)
      /\ r <= s /\ u <= t /\ s < r + P /\ t < u + P /\ Following(j, s) = r + P
  BY RecentIs, Periods
<1>2. r < u => r + P <= u
  BY <1>1, Apart
<1>3. u < r => u + P <= r
  BY <1>1, Apart
<1> HIDE DEF P, r, u
<1>4. r <= u
  BY <1>1, <1>3
<1>5. r # u => r + P <= u
  BY <1>1, <1>2, <1>4
<1> QED
  BY <1>1, <1>4, <1>5 DEF r, u

\* Every job's times, as functions on the two jobs.
SdTimes(f) == f \in [Jobs2 -> Int]

\* The loop of a process that is up, and what the schedule knows of the past.
SdTypes ==
  /\ sdNow \in 0..SdMaxNow /\ sdWoke \in 0..sdNow
  /\ sdPc \in {"down", "sleep", "backup", "check"}
  /\ SdTimes(sdFile) /\ SdTimes(sdSt) /\ SdTimes(sdNext) /\ SdTimes(sdLast)
  /\ \A j \in Jobs2 : sdFile[j] <= sdNow /\ sdSt[j] <= sdNow /\ sdLast[j] <= sdNow
  /\ sdUnsaved \in BOOLEAN /\ sdFaults \in Nat

\* An occurrence that was triggered is on the disk, and in the loop's copy of it.
RecordedInv ==
  ~sdUnsaved => \A j \in Jobs2 : sdLast[j] <= sdFile[j] /\ (sdPc # "down" => sdLast[j] <= sdSt[j])

\* From the time a job is armed for, the latest occurrence is one that has not been triggered.
FreshInv ==
  (sdPc # "down" /\ ~sdUnsaved) =>
     \A j \in Jobs2 : \A t \in Nat : t >= sdNext[j] => Recent(j, t) > sdLast[j]

\* A job is armed for now, if an occurrence has passed that was not triggered, or for the next.
Due(j) == IF sdSt[j] < Recent(j, sdNow) THEN sdNow ELSE Following(j, sdNow)
ArmedInv == sdPc # "down" => \A j \in Jobs2 : sdNext[j] <= SdJitter + Due(j)

\* The inductive invariant of the scheduler.
SdIInv == SdTypes /\ RecordedInv /\ FreshInv /\ ArmedInv

\* The scheduler starts in the invariant.
LEMMA SdInitGood == SdInit => SdIInv
<1> SUFFICES ASSUME SdInit PROVE SdIInv
  OBVIOUS
<1>1. sdNow \in 0..SdMaxNow /\ sdWoke \in 0..sdNow /\ sdPc = "down"
  BY SdAssumption, WeekIs DEF SdInit
<1>2. /\ SdTimes(sdFile) /\ SdTimes(sdSt) /\ SdTimes(sdNext) /\ SdTimes(sdLast)
      /\ \A j \in Jobs2 : sdFile[j] = -1 /\ sdSt[j] = -1 /\ sdLast[j] = -1
  BY DEF SdInit, SdTimes, NoFile
<1>3. SdTypes
  <2>1. \A j \in Jobs2 : sdFile[j] <= sdNow /\ sdSt[j] <= sdNow /\ sdLast[j] <= sdNow
    BY <1>1, <1>2
  <2>2. sdUnsaved \in BOOLEAN /\ sdFaults \in Nat
    BY DEF SdInit
  <2> QED
    BY <1>1, <1>2, <2>1, <2>2 DEF SdTypes
<1> QED
  BY <1>1, <1>2, <1>3 DEF SdIInv, RecordedInv, FreshInv, ArmedInv

\* A time up to now is a time, and the latest occurrence up to it is no later.
LEMMA TimesAre ==
  ASSUME SdTypes
  PROVE  sdNow \in Nat /\ sdWoke \in Nat /\ sdWoke <= sdNow
BY SdAssumption DEF SdTypes

\* A write of the state file, which may fail.
LEMMA SaveIs ==
  ASSUME SdTypes, NEW saved, SaveState(saved)
  PROVE  /\ sdFile' = sdFile \/ sdFile' = saved
         /\ ~sdUnsaved' => ~sdUnsaved /\ sdFile' = saved
         /\ sdUnsaved' \in BOOLEAN /\ sdFaults' \in Nat
<1>1. sdUnsaved \in BOOLEAN /\ sdFaults \in Nat
  BY DEF SdTypes
<1>2. CASE sdFile' = saved /\ UNCHANGED <<sdUnsaved, sdFaults>>
  BY <1>1, <1>2
<1>3. CASE sdFaults' = sdFaults + 1 /\ sdUnsaved' = TRUE /\ UNCHANGED sdFile
  BY <1>1, <1>3
<1> QED
  BY <1>2, <1>3 DEF SaveState

\* A process that starts is armed for what it has missed, or for what comes next.
LEMMA StartGood ==
  ASSUME SdIInv, SdStart
  PROVE  SdIInv'
<1> DEFINE first == sdFile = NoFile
           saved == IF first THEN [j \in Jobs2 |-> sdNow] ELSE sdFile
<1>1. SdTypes /\ RecordedInv /\ sdNow \in Nat /\ SdJitter \in Nat
  BY TimesAre, SdAssumption DEF SdIInv
<1>2. PICK k \in [Jobs2 -> 0..SdJitter] : sdNext' = [j \in Jobs2 |-> Arm(j, saved[j]) + k[j]]
  BY DEF SdStart
<1>3. /\ sdSt' = saved /\ sdPc' = "sleep" /\ UNCHANGED <<sdNow, sdWoke, sdLast>>
      /\ IF first THEN SaveState(saved) ELSE UNCHANGED <<sdFile, sdUnsaved, sdFaults>>
  BY DEF SdStart
<1>4. SdTimes(saved) /\ \A j \in Jobs2 : saved[j] \in Int /\ saved[j] <= sdNow
  BY <1>1 DEF SdTypes, SdTimes
<1>5. /\ sdFile' = sdFile \/ sdFile' = saved
      /\ ~sdUnsaved' => ~sdUnsaved /\ sdFile' = saved
      /\ sdUnsaved' \in BOOLEAN /\ sdFaults' \in Nat
  <2>1. CASE first
    BY <1>1, <1>3, <2>1, SaveIs
  <2>2. CASE ~first
    BY <1>1, <1>3, <2>2 DEF SdTypes
  <2> QED
    BY <2>1, <2>2
<1>6. ~sdUnsaved => \A j \in Jobs2 : sdLast[j] <= saved[j]
  BY <1>1 DEF RecordedInv, SdTypes, SdTimes
<1> HIDE DEF first, saved
<1>7. \A j \in Jobs2 : /\ Recent(j, sdNow) \in Int /\ Following(j, sdNow) \in Int
                       /\ Following(j, sdNow) > sdNow /\ Recent(j, sdNow) <= sdNow
  <2> SUFFICES ASSUME NEW j \in Jobs2
               PROVE  /\ Recent(j, sdNow) \in Int /\ Following(j, sdNow) \in Int
                      /\ Following(j, sdNow) > sdNow /\ Recent(j, sdNow) <= sdNow
    OBVIOUS
  <2> QED
    BY <1>1, RecentIs, Periods
<1>8. \A j \in Jobs2 : /\ sdNext'[j] = (IF saved[j] < Recent(j, sdNow) THEN sdNow ELSE Following(j, sdNow)) + k[j]
                       /\ k[j] \in 0..SdJitter
  BY <1>2 DEF Arm
<1>9. SdTimes(sdNext')
  BY <1>1, <1>2, <1>7, <1>8 DEF SdTimes
<1>10. SdTypes'
  <2>1. \A j \in Jobs2 : sdFile'[j] <= sdNow' /\ sdSt'[j] <= sdNow' /\ sdLast'[j] <= sdNow'
    BY <1>1, <1>3, <1>4, <1>5 DEF SdTypes
  <2>2. SdTimes(sdFile') /\ SdTimes(sdSt') /\ SdTimes(sdLast')
    BY <1>1, <1>3, <1>4, <1>5 DEF SdTypes
  <2> QED
    BY <1>1, <1>3, <1>5, <1>9, <2>1, <2>2 DEF SdTypes
<1>11. RecordedInv'
  BY <1>3, <1>5, <1>6 DEF RecordedInv
<1>12. FreshInv'
  <2> SUFFICES ASSUME ~sdUnsaved', NEW j \in Jobs2, NEW t \in Nat, t >= sdNext'[j]
               PROVE  Recent(j, t) > sdLast[j]
    BY <1>3 DEF FreshInv
  <2>1. sdLast[j] <= saved[j] /\ saved[j] <= sdNow /\ saved[j] \in Int /\ sdLast[j] \in Int
    BY <1>1, <1>4, <1>5, <1>6 DEF SdTypes, SdTimes
  <2>2. Recent(j, t) \in Int /\ t < Recent(j, t) + Period(j) /\ Period(j) \in Nat
    BY RecentIs, Periods
  <2>3. CASE saved[j] < Recent(j, sdNow)
    <3>1. sdNow <= t
      BY <1>1, <1>8, <2>3
    <3>2. Recent(j, sdNow) <= Recent(j, t)
      BY <1>1, <3>1, Later
    <3> QED
      BY <1>7, <2>1, <2>2, <2>3, <3>2
  <2>4. CASE ~(saved[j] < Recent(j, sdNow))
    <3>1. Following(j, sdNow) <= t /\ sdNow <= t
      BY <1>1, <1>7, <1>8, <2>4
    <3>2. Following(j, sdNow) <= Recent(j, t)
      <4>1. Following(j, sdNow) = Recent(j, sdNow) + Period(j)
        BY <1>1, RecentIs
      <4>2. Recent(j, sdNow) # Recent(j, t)
        BY <1>7, <2>2, <3>1, <4>1
      <4> QED
        BY <1>1, <3>1, <4>2, Later
    <3> QED
      BY <1>1, <1>7, <2>1, <2>2, <3>2
  <2> QED
    BY <2>3, <2>4
<1>13. ArmedInv'
  <2> SUFFICES ASSUME NEW j \in Jobs2 PROVE sdNext'[j] <= SdJitter + Due(j)'
    BY DEF ArmedInv
  <2>1. Due(j)' = (IF saved[j] < Recent(j, sdNow) THEN sdNow ELSE Following(j, sdNow))
    BY <1>3 DEF Due
  <2> QED
    BY <1>1, <1>7, <1>8, <2>1
<1> QED
  BY <1>10, <1>11, <1>12, <1>13 DEF SdIInv

\* A job that is triggered at the time the loop woke, or now: its latest occurrence is recorded, and
\* is a later one than the last that was.
LEMMA TriggerGood ==
  ASSUME SdIInv, sdPc # "down", NEW j \in Jobs2, NEW time \in Nat, time <= sdNow, time >= sdNext[j],
         Trigger(j, time), UNCHANGED sdNow, sdWoke' \in 0..sdNow, sdPc' \in {"backup", "check"}
  PROVE  /\ SdIInv'
         /\ ~sdUnsaved => sdLast'[j] > sdLast[j]
         /\ \A o \in Jobs2 : o # j => sdNext'[o] = sdNext[o]
<1> DEFINE r == Recent(j, time)
           f == Following(j, time)
<1>1. SdTypes /\ RecordedInv /\ FreshInv /\ ArmedInv /\ sdNow \in Nat /\ SdJitter \in Nat
  BY TimesAre, SdAssumption DEF SdIInv
<1>2. PICK k \in 0..SdJitter : sdNext' = [sdNext EXCEPT ![j] = f + k]
  BY DEF Trigger
<1>3. /\ sdSt' = [sdSt EXCEPT ![j] = r] /\ sdLast' = [sdLast EXCEPT ![j] = r]
      /\ SaveState(sdSt')
  BY DEF Trigger
<1>4. /\ sdFile' = sdFile \/ sdFile' = sdSt'
      /\ ~sdUnsaved' => ~sdUnsaved /\ sdFile' = sdSt'
      /\ sdUnsaved' \in BOOLEAN /\ sdFaults' \in Nat
  BY <1>1, <1>3, SaveIs
<1>5. r \in Int /\ r <= time /\ f \in Int /\ f > time /\ Period(j) \in Nat /\ f = r + Period(j)
  BY RecentIs, Periods
<1>6. ~sdUnsaved => r > sdLast[j]
  BY <1>1 DEF FreshInv
<1>7. \A t \in Nat : t >= f => Recent(j, t) >= f
  <2> SUFFICES ASSUME NEW t \in Nat, t >= f PROVE Recent(j, t) >= f
    OBVIOUS
  <2>1. Recent(j, t) \in Int /\ t < Recent(j, t) + Period(j) /\ time <= t
    BY <1>5, RecentIs
  <2>2. r # Recent(j, t)
    BY <1>5, <2>1
  <2> QED
    BY <1>5, <2>1, <2>2, Later
<1>8. Due(j)' >= f
  <2>1. time <= sdNow /\ r <= Recent(j, sdNow) /\ (r # Recent(j, sdNow) => f <= Recent(j, sdNow))
    BY <1>1, Later
  <2>2. /\ Recent(j, sdNow) \in Int /\ Recent(j, sdNow) <= sdNow
        /\ Following(j, sdNow) = Recent(j, sdNow) + Period(j)
    BY <1>1, RecentIs
  <2>3. sdSt'[j] = r
    BY <1>1, <1>3 DEF SdTypes, SdTimes
  <2>4. Due(j)' = (IF r < Recent(j, sdNow) THEN sdNow ELSE Following(j, sdNow))
    BY <2>3 DEF Due
  <2> HIDE DEF r, f
  <2> QED
    BY <1>1, <1>5, <2>1, <2>2, <2>4
<1> HIDE DEF r, f
<1>9. /\ SdTimes(sdNext) /\ SdTimes(sdSt) /\ SdTimes(sdFile) /\ SdTimes(sdLast)
      /\ \A o \in Jobs2 : sdFile[o] <= sdNow /\ sdSt[o] <= sdNow /\ sdLast[o] <= sdNow
  BY <1>1 DEF SdTypes
<1>10. /\ SdTimes(sdNext') /\ SdTimes(sdSt') /\ SdTimes(sdFile') /\ SdTimes(sdLast')
       /\ sdSt'[j] = r /\ sdLast'[j] = r /\ sdNext'[j] = f + k
       /\ \A o \in Jobs2 : o # j => sdSt'[o] = sdSt[o] /\ sdLast'[o] = sdLast[o] /\ sdNext'[o] = sdNext[o]
  <2>1. f + k \in Int
    BY <1>2, <1>5
  <2> QED
    BY <1>2, <1>3, <1>4, <1>5, <1>9, <2>1 DEF SdTimes
<1>11. SdTypes'
  <2>1. \A o \in Jobs2 : sdSt'[o] <= sdNow /\ sdLast'[o] <= sdNow
    BY <1>1, <1>5, <1>9, <1>10
  <2>2. \A o \in Jobs2 : sdFile'[o] <= sdNow
    BY <1>4, <1>9, <2>1
  <2> QED
    BY <1>1, <1>4, <1>10, <2>1, <2>2 DEF SdTypes
<1>12. RecordedInv'
  <2> SUFFICES ASSUME ~sdUnsaved', NEW o \in Jobs2 PROVE sdLast'[o] <= sdFile'[o] /\ sdLast'[o] <= sdSt'[o]
    BY DEF RecordedInv
  <2>1. sdLast'[o] <= sdSt'[o]
    BY <1>1, <1>4, <1>5, <1>10 DEF RecordedInv
  <2> QED
    BY <1>4, <2>1
<1>13. FreshInv'
  <2> SUFFICES ASSUME ~sdUnsaved', NEW o \in Jobs2, NEW t \in Nat, t >= sdNext'[o]
               PROVE  Recent(o, t) > sdLast'[o]
    BY DEF FreshInv
  <2>1. CASE o = j
    <3>1. t >= f
      BY <1>2, <1>5, <1>10, <2>1
    <3>2. Recent(j, t) >= f /\ Recent(j, t) \in Int
      BY <1>7, <3>1, RecentIs
    <3> QED
      BY <1>5, <1>10, <2>1, <3>2
  <2>2. CASE o # j
    BY <1>1, <1>4, <1>10, <2>2 DEF FreshInv
  <2> QED
    BY <2>1, <2>2
<1>14. ArmedInv'
  <2> SUFFICES ASSUME NEW o \in Jobs2 PROVE sdNext'[o] <= SdJitter + Due(o)'
    BY DEF ArmedInv
  <2>1. CASE o = j
    <3>1. Due(j)' \in Int
      <4>1. sdNow \in Int /\ Following(j, sdNow) \in Int
        BY <1>1, RecentIs, Periods
      <4> QED
        BY <4>1 DEF Due
    <3> QED
      BY <1>1, <1>2, <1>5, <1>8, <1>10, <2>1, <3>1
  <2>2. CASE o # j
    <3>1. Due(o)' = Due(o)
      BY <1>10, <2>2 DEF Due
    <3> QED
      BY <1>1, <1>10, <2>2, <3>1 DEF ArmedInv
  <2> QED
    BY <2>1, <2>2
<1>15. (~sdUnsaved => sdLast'[j] > sdLast[j]) /\ (\A o \in Jobs2 : o # j => sdNext'[o] = sdNext[o])
  BY <1>6, <1>10
<1> QED
  BY <1>11, <1>12, <1>13, <1>14, <1>15 DEF SdIInv

\* Time passes: what is armed is armed for what is due then.
LEMMA TickGood ==
  ASSUME SdIInv, SdTick
  PROVE  SdIInv'
<1>1. SdTypes /\ RecordedInv /\ FreshInv /\ ArmedInv /\ sdNow \in Nat /\ SdJitter \in Nat
  BY TimesAre, SdAssumption DEF SdIInv
<1>2. /\ sdNow < SdMaxNow /\ sdNow' = sdNow + 1
      /\ UNCHANGED <<sdFile, sdSt, sdNext, sdPc, sdWoke, sdLast, sdUnsaved, sdFaults>>
  BY DEF SdTick
<1>3. SdTypes'
  <2>1. sdNow' \in 0..SdMaxNow /\ sdWoke' \in 0..sdNow'
    BY <1>1, <1>2, TimesAre, SdAssumption DEF SdTypes
  <2>2. \A j \in Jobs2 : sdFile'[j] <= sdNow' /\ sdSt'[j] <= sdNow' /\ sdLast'[j] <= sdNow'
    BY <1>1, <1>2 DEF SdTypes, SdTimes
  <2>3. /\ SdTimes(sdFile') /\ SdTimes(sdSt') /\ SdTimes(sdNext') /\ SdTimes(sdLast')
        /\ sdPc' \in {"down", "sleep", "backup", "check"} /\ sdUnsaved' \in BOOLEAN /\ sdFaults' \in Nat
    BY <1>1, <1>2 DEF SdTypes
  <2> QED
    BY <2>1, <2>2, <2>3 DEF SdTypes
<1>4. RecordedInv' /\ FreshInv'
  BY <1>1, <1>2 DEF RecordedInv, FreshInv
<1>5. ArmedInv'
  <2> SUFFICES ASSUME sdPc # "down", NEW j \in Jobs2 PROVE sdNext[j] <= SdJitter + Due(j)'
    BY <1>2 DEF ArmedInv
  <2>1. sdNow' \in Nat /\ sdNow <= sdNow'
    BY <1>1, <1>2
  <2>2. /\ Recent(j, sdNow) <= Recent(j, sdNow')
        /\ Recent(j, sdNow) # Recent(j, sdNow') => Following(j, sdNow) <= Recent(j, sdNow')
    BY <1>1, <2>1, Later
  <2>3. /\ Recent(j, sdNow) \in Int /\ Recent(j, sdNow') \in Int /\ Period(j) \in Nat
        /\ Recent(j, sdNow') <= sdNow'
        /\ Following(j, sdNow) = Recent(j, sdNow) + Period(j)
        /\ Following(j, sdNow') = Recent(j, sdNow') + Period(j)
    BY <1>1, <2>1, RecentIs, Periods
  <2>4. /\ Due(j) = (IF sdSt[j] < Recent(j, sdNow) THEN sdNow ELSE Following(j, sdNow))
        /\ Due(j)' = (IF sdSt[j] < Recent(j, sdNow') THEN sdNow' ELSE Following(j, sdNow'))
    BY <1>2 DEF Due
  <2>5. sdSt[j] \in Int /\ sdNext[j] \in Int /\ sdNext[j] <= SdJitter + Due(j)
    BY <1>1 DEF SdTypes, SdTimes, ArmedInv
  <2>6. Due(j) <= Due(j)' /\ Due(j) \in Int /\ Due(j)' \in Int
    BY <1>1, <2>1, <2>2, <2>3, <2>4, <2>5
  <2> QED
    BY <1>1, <2>5, <2>6
<1> QED
  BY <1>3, <1>4, <1>5 DEF SdIInv

\* A step that only moves the loop on, or stops it, keeps the invariant.
LEMMA LoopGood ==
  ASSUME SdIInv, UNCHANGED <<sdNow, sdFile, sdSt, sdNext, sdWoke, sdLast, sdUnsaved>>, sdFaults' \in Nat,
         sdPc' = "down" \/ (sdPc' \in {"sleep", "backup", "check"} /\ sdPc # "down")
  PROVE  SdIInv'
<1>1. SdTypes /\ RecordedInv /\ FreshInv /\ ArmedInv
  BY DEF SdIInv
<1>2. SdTypes'
  BY <1>1 DEF SdTypes
<1>3. RecordedInv' /\ FreshInv'
  BY <1>1 DEF RecordedInv, FreshInv
<1>4. ArmedInv'
  BY <1>1 DEF ArmedInv, Due
<1> QED
  BY <1>2, <1>3, <1>4 DEF SdIInv

\* The backup's end, at which a check that was due when the loop woke is triggered.
LEMMA BackupEndsGood ==
  ASSUME SdIInv, SdBackupEnds
  PROVE  SdIInv' /\ TriggersAdvance
<1>1. sdNow \in Nat /\ sdWoke \in Nat /\ sdWoke <= sdNow /\ sdFaults \in Nat /\ "c" \in Jobs2 /\ sdWoke \in 0..sdNow
  BY TimesAre DEF SdIInv, SdTypes, Jobs2
<1>2. CASE sdWoke >= sdNext["c"]
  <2>1. Trigger("c", sdWoke) /\ sdPc' = "check" /\ UNCHANGED <<sdNow, sdWoke>> /\ sdPc = "backup"
    BY <1>2 DEF SdBackupEnds
  <2>2. SdIInv' /\ (~sdUnsaved => sdLast'["c"] > sdLast["c"]) /\ \A o \in Jobs2 : o # "c" => sdNext'[o] = sdNext[o]
    BY <1>1, <1>2, <2>1, TriggerGood
  <2> QED
    BY <2>2 DEF TriggersAdvance
<1>3. CASE ~(sdWoke >= sdNext["c"])
  <2>1. /\ sdPc' = "sleep" /\ sdPc = "backup"
        /\ UNCHANGED <<sdNow, sdWoke, sdSt, sdFile, sdUnsaved, sdFaults, sdNext, sdLast>>
    BY <1>3 DEF SdBackupEnds
  <2> QED
    BY <1>1, <2>1, LoopGood DEF TriggersAdvance
<1> QED
  BY <1>2, <1>3

\* Every step of the scheduler keeps the invariant, and triggers no occurrence a second time.
LEMMA SdStepGood == SdIInv /\ [SdNextStep]_sdVars => SdIInv' /\ (SdNextStep => TriggersAdvance)
<1> SUFFICES ASSUME SdIInv, [SdNextStep]_sdVars PROVE SdIInv' /\ (SdNextStep => TriggersAdvance)
  OBVIOUS
<1>1. sdNow \in Nat /\ sdWoke \in Nat /\ sdWoke <= sdNow /\ sdFaults \in Nat /\ Jobs2 = {"b", "c"} /\ sdNow \in 0..sdNow
      /\ sdNow <= sdNow /\ sdPc \in {"down", "sleep", "backup", "check"} /\ sdUnsaved \in BOOLEAN
  BY TimesAre DEF SdIInv, SdTypes, Jobs2
<1>2. CASE SdStart
  <2>1. sdPc = "down"
    BY <1>2 DEF SdStart
  <2> QED
    BY <1>2, <2>1, StartGood DEF TriggersAdvance
<1>3. CASE SdWakeBackup
  <2>1. /\ sdPc = "sleep" /\ sdNow >= sdNext["b"] /\ Trigger("b", sdNow) /\ sdPc' = "backup" /\ sdWoke' = sdNow
        /\ UNCHANGED sdNow
    BY <1>3 DEF SdWakeBackup
  <2>2. SdIInv' /\ (~sdUnsaved => sdLast'["b"] > sdLast["b"]) /\ \A o \in Jobs2 : o # "b" => sdNext'[o] = sdNext[o]
    BY <1>1, <2>1, TriggerGood
  <2> QED
    BY <2>2 DEF TriggersAdvance
<1>4. CASE SdWakeCheck
  <2>1. /\ sdPc = "sleep" /\ sdNow >= sdNext["c"] /\ Trigger("c", sdNow) /\ sdPc' = "check" /\ sdWoke' = sdNow
        /\ UNCHANGED sdNow
    BY <1>4 DEF SdWakeCheck
  <2>2. SdIInv' /\ (~sdUnsaved => sdLast'["c"] > sdLast["c"]) /\ \A o \in Jobs2 : o # "c" => sdNext'[o] = sdNext[o]
    BY <1>1, <2>1, TriggerGood
  <2> QED
    BY <2>2 DEF TriggersAdvance
<1>5. CASE SdBackupEnds
  BY <1>5, BackupEndsGood
<1>6. CASE SdCheckEnds \/ SdCrash
  <2>1. /\ UNCHANGED <<sdNow, sdFile, sdSt, sdNext, sdWoke, sdLast, sdUnsaved>> /\ sdFaults' \in Nat
        /\ sdPc # "down" /\ sdPc' \in {"sleep", "down"}
    BY <1>1, <1>6 DEF SdCheckEnds, SdCrash
  <2>2. SdIInv'
    BY <2>1, LoopGood
  <2> QED
    BY <2>1, <2>2 DEF TriggersAdvance
<1>7. CASE SdTick
  <2>1. UNCHANGED sdNext
    BY <1>7 DEF SdTick
  <2> QED
    BY <1>7, <2>1, TickGood DEF TriggersAdvance
<1>8. CASE UNCHANGED sdVars
  <2>1. UNCHANGED <<sdNow, sdFile, sdSt, sdNext, sdPc, sdWoke, sdLast, sdUnsaved, sdFaults>>
    BY <1>8 DEF sdVars
  <2>2. SdIInv'
    BY <1>1, <2>1, LoopGood
  <2> QED
    BY <2>1, <2>2 DEF TriggersAdvance
<1> QED
  BY <1>2, <1>3, <1>4, <1>5, <1>6, <1>7, <1>8 DEF SdNextStep

\* A time is an occurrence of a schedule if it is the right time of the period.
LEMMA OccursAt ==
  ASSUME NEW j \in Jobs2, NEW t \in Int
  PROVE  Occurrence(j, t) <=> t % Period(j) = Offset(j)
<1> DEFINE P == Period(j)
           A == Offset(j)
<1>1. P \in Nat \ {0} /\ A \in 0..(P - 1)
  BY Periods
<1> HIDE DEF P, A
<1>2. ASSUME NEW q \in Int, t = q * P + A PROVE t % P = A
  BY <1>1, <1>2, SplitIs
<1>3. ASSUME t % P = A PROVE \E q \in Int : t = q * P + A
  <2>1. t \div P \in Int /\ t = (t \div P) * P + A
    BY <1>1, <1>3, Splits
  <2> QED
    BY <2>1
<1>4. Occurrence(j, t) <=> \E q \in Int : t = q * P + A
  BY DEF Occurrence, P, A
<1>5. Occurrence(j, t) <=> t % P = A
  BY <1>2, <1>3, <1>4
<1> QED
  BY <1>5 DEF P, A

\* The four functions of the schedule are exact at every time, for every day and week.
LEMMA OccurrencesExact ==
  ASSUME sdNow \in Nat
  PROVE  OccurrencesAreExact
<1> DEFINE span == (sdNow - 2 * SdWeekTicks)..(sdNow + 2 * SdWeekTicks)
           at(j) == {t \in span : IF j = "b" THEN t % SdDay = SdBackupAt
                                  ELSE t % SdWeekTicks = SdCheckDay * SdDay + SdCheckAt}
<1>1. \A j \in Jobs2 : at(j) = {t \in span : Occurrence(j, t)}
  <2> SUFFICES ASSUME NEW j \in Jobs2, NEW t \in span
               PROVE  Occurrence(j, t) <=> (IF j = "b" THEN t % SdDay = SdBackupAt
                                            ELSE t % SdWeekTicks = SdCheckDay * SdDay + SdCheckAt)
    OBVIOUS
  <2>1. t \in Int
    BY WeekIs
  <2> HIDE DEF span
  <2>2. Occurrence(j, t) <=> t % Period(j) = Offset(j)
    BY <2>1, OccursAt
  <2> QED
    BY <2>2 DEF Period, Offset
<1> HIDE DEF at
<1> SUFFICES ASSUME NEW j \in Jobs2
             PROVE  /\ Recent(j, sdNow) = Max({t \in at(j) : t <= sdNow})
                    /\ Following(j, sdNow) = Min({t \in at(j) : t > sdNow})
  BY DEF OccurrencesAreExact, at
<1> DEFINE r == Recent(j, sdNow)
           f == Following(j, sdNow)
           P == Period(j)
<1>2. /\ r \in Int /\ Occurrence(j, r) /\ r <= sdNow /\ sdNow < r + P /\ f = r + P /\ P \in Nat
  BY RecentIs, Periods
<1>3. P <= SdWeekTicks /\ SdWeekTicks \in Nat
  BY WeekIs DEF Period
<1>4. Occurrence(j, f)
  <2>1. PICK q \in Int : r = q * P + Offset(j)
    BY <1>2 DEF Occurrence
  <2>2. (q + 1) * P = q * P + P /\ q * P \in Int /\ Offset(j) \in Int
    BY <1>2, <2>1, Distribute, Periods
  <2>3. f = (q + 1) * P + Offset(j)
    <3> DEFINE x == q * P
    <3> HIDE DEF x, P, r, f
    <3> QED
      BY <1>2, <2>1, <2>2 DEF x
  <2> QED
    BY <2>1, <2>3 DEF Occurrence
<1> HIDE DEF r, f, P
<1>5. r \in span /\ f \in span
  BY <1>2, <1>3
<1>6. r \in {t \in at(j) : t <= sdNow} /\ f \in {t \in at(j) : t > sdNow}
  BY <1>1, <1>2, <1>4, <1>5
<1>7. \A t \in at(j) : t \in Int /\ Occurrence(j, t)
  BY <1>1, <1>3
<1>8. \A t \in {t \in at(j) : t <= sdNow} : t <= r
  <2> SUFFICES ASSUME NEW t \in at(j), t <= sdNow, r < t PROVE FALSE
    BY <1>2, <1>7
  <2>1. r + P <= t
    BY <1>2, <1>7, Apart DEF P
  <2> QED
    BY <1>2, <1>7, <2>1
<1>9. \A t \in {t \in at(j) : t > sdNow} : f <= t
  <2> SUFFICES ASSUME NEW t \in at(j), t > sdNow PROVE f <= t
    OBVIOUS
  <2>1. r < t
    BY <1>2, <1>7
  <2> QED
    BY <1>2, <1>7, <2>1, Apart DEF P
<1>10. r = Max({t \in at(j) : t <= sdNow})
  <2> DEFINE S == {t \in at(j) : t <= sdNow}
  <2>1. r \in S /\ \A t \in S : t \in Int /\ t <= r
    BY <1>6, <1>7, <1>8
  <2> HIDE DEF S
  <2>2. \E x \in S : \A y \in S : x >= y
    BY <1>2, <2>1
  <2>3. Max(S) \in S /\ \A y \in S : Max(S) >= y
    BY <2>2 DEF Max
  <2>4. r = Max(S)
    <3>1. Max(S) \in Int /\ Max(S) <= r /\ Max(S) >= r /\ r \in Int
      BY <2>1, <2>3
    <3> QED
      BY <3>1
  <2> QED
    BY <2>4 DEF S
<1>11. f = Min({t \in at(j) : t > sdNow})
  <2> DEFINE S == {t \in at(j) : t > sdNow}
  <2>1. f \in S /\ \A t \in S : t \in Int /\ f <= t
    BY <1>6, <1>7, <1>9
  <2> HIDE DEF S
  <2>2. \E x \in S : \A y \in S : x =< y
    BY <2>1
  <2>3. Min(S) \in S /\ \A y \in S : Min(S) =< y
    BY <2>2 DEF Min
  <2>4. f = Min(S)
    BY <2>1, <2>3
  <2> QED
    BY <2>4 DEF S
<1> QED
  BY <1>10, <1>11 DEF r, f

\* The inductive invariant holds in every reachable state of the scheduler.
THEOREM SdIInvHolds == SdSpec => []SdIInv
<1>1. SdIInv /\ [SdNextStep]_sdVars => SdIInv'
  BY SdStepGood
<1> QED
  BY <1>1, SdInitGood, PTL DEF SdSpec

\* For every length of the day and the week, every schedule, any jitter, crashes and failed writes: no
\* occurrence of a backup or a check is passed over, none is triggered twice, and the times the schedule
\* computes are the ones the calendar has.
THEOREM SchedCorrect == SdSpec => OccurrencesRunOnce
<1>1. SdIInv /\ [SdNextStep]_sdVars =>
        [SdTypeOK /\ NextRunIsNear /\ TriggersAdvance /\ (sdNow' # sdNow => OccurrencesAreExact)]_sdVars
  <2> SUFFICES ASSUME SdIInv, SdNextStep
               PROVE  SdTypeOK /\ NextRunIsNear /\ TriggersAdvance /\ OccurrencesAreExact
    OBVIOUS
  <2>1. SdTypeOK
    BY DEF SdIInv, SdTypes, SdTypeOK
  <2>2. NextRunIsNear
    BY DEF SdIInv, ArmedInv, Due, NextRunIsNear
  <2>3. TriggersAdvance
    BY SdStepGood
  <2>4. OccurrencesAreExact
    BY OccurrencesExact, TimesAre DEF SdIInv
  <2> QED
    BY <2>1, <2>2, <2>3, <2>4
<1> QED
  BY <1>1, SdIInvHolds, PTL DEF SdSpec, OccurrencesRunOnce

-----------------------------------------------------------------------------
(***************************************************************************)
(* The ban tracker, for any policies, any find time, escalation window and *)
(* order of failures, imports, unbans, prunings and changes of the policy. *)
(*                                                                         *)
(* The tracker keeps the failures of a window and one number per address;  *)
(* that this is enough for decisions about the whole past is what the      *)
(* invariant says.  The failures it keeps are the end of the log, and none *)
(* before them counts any more (FailuresLogged); the number of bans is the *)
(* length of the chain that ends with the latest ban, and where it has     *)
(* forgotten a ban, the log has no chain that reaches the present          *)
(* (BansLogged).  Its loops are recursive functions, about which one       *)
(* argues on sets of numbers (UpTo, Recursion).                            *)
(***************************************************************************)

\* A set of numbers that is not empty has a least member.
LEMMA LeastOf ==
  ASSUME NEW S \in SUBSET Nat, S # {}
  PROVE  \E x \in S : \A y \in S : x <= y
<1> DEFINE R == OpToRel(<, Nat)
<1>1. IsWellFoundedOn(R, Nat)
  BY NatLessThanWellFounded
<1>2. \A x, y \in Nat : y < x => <<y, x>> \in R
  BY DEF OpToRel
<1> HIDE DEF R
<1>3. PICK x \in S : \A y \in S : ~(<<y, x>> \in R)
  BY <1>1, WFMin
<1>4. ASSUME NEW y \in S PROVE x <= y
  <2>1. x \in Nat /\ y \in Nat
    OBVIOUS
  <2>2. ~(y < x)
    BY <1>2, <1>3, <2>1
  <2> QED
    BY <2>1, <2>2
<1> QED
  BY <1>4

\* Induction on the numbers up to N, for a set instead of a predicate.
LEMMA UpTo ==
  ASSUME NEW N \in Nat, NEW G, 0 \in G, \A i \in 1..N : i - 1 \in G => i \in G
  PROVE  \A i \in 0..N : i \in G
<1> DEFINE Bad == {i \in 0..N : i \notin G}
<1> SUFFICES ASSUME Bad # {} PROVE FALSE
  OBVIOUS
<1>1. Bad \in SUBSET Nat
  OBVIOUS
<1>2. PICK i \in Bad : \A y \in Bad : i <= y
  <2> HIDE DEF Bad
  <2> QED
    BY <1>1, LeastOf
<1>3. i \in 1..N /\ i \notin G
  BY <1>2
<1>4. i - 1 \in 0..N /\ ~(i <= i - 1)
  BY <1>3
<1>5. i - 1 \in G
  BY <1>2, <1>4
<1> QED
  BY <1>3, <1>5

\* A recursion on the numbers up to N: g[i] makes the i-th value from the one before.
Recurs(w, N, S, a, g) == w \in [0..N -> S] /\ w[0] = a /\ \A i \in 1..N : w[i] = g[i][w[i - 1]]

LEMMA Recursion ==
  ASSUME NEW N \in Nat, NEW S, NEW a \in S, NEW g \in [1..N -> [S -> S]]
  PROVE  \E w : Recurs(w, N, S, a, g)
<1> DEFINE Solves(w, n) == w[0] = a /\ \A i \in 1..n : w[i] = g[i][w[i - 1]]
           G == {n \in 0..N : \E w \in [0..n -> S] : Solves(w, n)}
<1>1. 0 \in G
  <2> DEFINE w == [i \in 0..0 |-> a]
  <2>1. w \in [0..0 -> S] /\ w[0] = a /\ \A i \in 1..0 : FALSE
    OBVIOUS
  <2>2. Solves(w, 0)
    <3> HIDE DEF w
    <3> QED
      BY <2>1
  <2>3. w \in [0..0 -> S] /\ 0 \in 0..N
    BY <2>1
  <2> HIDE DEF w, Solves
  <2> QED
    BY <2>2, <2>3
<1>2. ASSUME NEW n \in 1..N, n - 1 \in G PROVE n \in G
  <2>1. PICK v \in [0..(n - 1) -> S] : Solves(v, n - 1)
    BY <1>2
  <2> DEFINE w == [i \in 0..n |-> IF i = n THEN g[n][v[n - 1]] ELSE v[i]]
  <2>2. n \in Nat /\ n # 0 /\ n - 1 \in 0..(n - 1) /\ \A i \in 0..n : i = n \/ i \in 0..(n - 1)
    OBVIOUS
  <2>3. g[n][v[n - 1]] \in S
    BY <2>2
  <2>4. \A i \in 0..n : w[i] = IF i = n THEN g[n][v[n - 1]] ELSE v[i]
    OBVIOUS
  <2>5. w \in [0..n -> S]
    BY <2>2, <2>3
  <2>6. w[0] = a
    <3>1. 0 \in 0..n /\ 0 # n
      OBVIOUS
    <3> QED
      BY <2>1, <2>4, <3>1
  <2>7. ASSUME NEW i \in 1..n PROVE w[i] = g[i][w[i - 1]]
    <3>1. i \in 0..n /\ i - 1 \in 0..n /\ i - 1 # n /\ (i # n => i \in 1..(n - 1))
      OBVIOUS
    <3>2. w[i - 1] = v[i - 1]
      BY <2>4, <3>1
    <3>3. CASE i = n
      BY <2>4, <3>1, <3>2, <3>3
    <3>4. CASE i # n
      BY <2>1, <2>4, <3>1, <3>2, <3>4
    <3> QED
      BY <3>3, <3>4
  <2>8. Solves(w, n)
    BY <2>6, <2>7
  <2> HIDE DEF w, Solves
  <2> QED
    BY <2>5, <2>8
<1>3. N \in G
  <2> HIDE DEF G
  <2>1. \A i \in 0..N : i \in G
    BY <1>1, <1>2, UpTo
  <2> QED
    BY <2>1
<1> QED
  BY <1>3 DEF Recurs

\* What Observe keeps of the failures.
Keeps(k) ==
  k = [n \in 0..Len(st.failures) |->
         IF n = 0 THEN <<>>
         ELSE IF RecentlyFailed(st.failures[n]) THEN Append(k[n - 1], st.failures[n]) ELSE k[n - 1]]

LEMMA KeptIs == Kept = (CHOOSE k : Keeps(k))[Len(st.failures)]
BY Zenon DEF Kept, Keeps

\* The last n - m of the first n failures.
KeepsFrom(s, m, n) ==
  /\ s \in Seq(Nat) /\ m \in 0..n /\ Len(s) = n - m
  /\ \A i \in 1..(n - m) : s[i] = st.failures[m + i]
  /\ \A i \in 1..m : ~RecentlyFailed(st.failures[i])
  /\ \A i \in (m + 1)..n : RecentlyFailed(st.failures[i])

InOrder(f) == \A i, j \in 1..Len(f) : i <= j => f[i] <= f[j]

\* The failures come in order, so those it keeps are the latest.
LEMMA KeptIsSuffix ==
  ASSUME st.failures \in Seq(Nat), InOrder(st.failures), btNow \in Nat, pol.findTime \in Nat
  PROVE  \E m \in 0..Len(st.failures) : KeepsFrom(Kept, m, Len(st.failures))
<1> DEFINE f == st.failures
           L == Len(f)
           S == Seq(Nat)
           g == [i \in 1..L |-> [t \in S |-> IF RecentlyFailed(f[i]) THEN Append(t, f[i]) ELSE t]]
<1>1. L \in Nat /\ \A i \in 1..L : f[i] \in Nat
  OBVIOUS
<1>2. g \in [1..L -> [S -> S]]
  <2>1. ASSUME NEW i \in 1..L, NEW t \in S
        PROVE  (IF RecentlyFailed(f[i]) THEN Append(t, f[i]) ELSE t) \in S
    <3>1. f[i] \in Nat
      BY <1>1
    <3>2. Append(t, f[i]) \in S
      BY <3>1
    <3> QED
      BY <3>2
  <2> QED
    BY <2>1
<1>3. PICK w \in [0..L -> S] : w[0] = <<>> /\ \A i \in 1..L : w[i] = g[i][w[i - 1]]
  <2> DEFINE e == <<>>
  <2>1. e \in S
    OBVIOUS
  <2>2. g \in [1..L -> [S -> S]] /\ L \in Nat
    BY <1>1, <1>2
  <2>3. \E w : Recurs(w, L, S, e, g)
    <3> HIDE DEF g, S, L, e
    <3> QED
      BY <2>1, <2>2, Recursion
  <2> HIDE DEF g
  <2> QED
    BY <2>3 DEF Recurs
<1>4. ASSUME NEW i \in 1..L
      PROVE  w[i] = IF RecentlyFailed(f[i]) THEN Append(w[i - 1], f[i]) ELSE w[i - 1]
  <2>1. i - 1 \in 0..L
    BY <1>1
  <2>2. w[i - 1] \in S
    BY <1>3, <2>1
  <2>3. g[i] = [t \in S |-> IF RecentlyFailed(f[i]) THEN Append(t, f[i]) ELSE t]
    OBVIOUS
  <2>4. g[i][w[i - 1]] = IF RecentlyFailed(f[i]) THEN Append(w[i - 1], f[i]) ELSE w[i - 1]
    BY <2>2, <2>3
  <2> QED
    BY <1>3, <2>4
<1>5. Keeps(w)
  <2> DEFINE h == [n \in 0..L |-> IF n = 0 THEN <<>>
                                  ELSE IF RecentlyFailed(f[n]) THEN Append(w[n - 1], f[n]) ELSE w[n - 1]]
  <2>1. DOMAIN w = 0..L /\ DOMAIN h = 0..L
    BY <1>3
  <2>2. ASSUME NEW n \in 0..L PROVE w[n] = h[n]
    <3>1. n = 0 \/ n \in 1..L
      BY <1>1
    <3>2. CASE n = 0
      BY <1>3, <3>2
    <3>3. CASE n \in 1..L
      BY <1>4, <3>3
    <3> QED
      BY <3>1, <3>2, <3>3
  <2>3. w = [n \in 0..L |-> w[n]] /\ h = [n \in 0..L |-> h[n]]
    BY <1>3
  <2>4. w = h
    <3> HIDE DEF h
    <3> QED
      BY <2>2, <2>3
  <2> QED
    BY <2>4 DEF Keeps
<1>6. PICK k : k = (CHOOSE v : Keeps(v)) /\ Keeps(k)
  BY <1>5
<1>7. Kept = k[L]
  BY <1>6, KeptIs
<1>8. ASSUME NEW n \in 0..L
      PROVE  k[n] = IF n = 0 THEN <<>>
                    ELSE IF RecentlyFailed(f[n]) THEN Append(k[n - 1], f[n]) ELSE k[n - 1]
  BY <1>6 DEF Keeps
<1> DEFINE G == {n \in 0..L : \E m \in 0..n : KeepsFrom(k[n], m, n)}
<1>9. 0 \in G
  <2>1. 0 \in 0..L /\ 0 \in 0..0
    BY <1>1
  <2>2. k[0] = <<>>
    BY <1>8, <2>1
  <2>3. KeepsFrom(k[0], 0, 0)
    BY <2>2 DEF KeepsFrom
  <2> QED
    BY <2>1, <2>3
<1>10. ASSUME NEW n \in 1..L, n - 1 \in G PROVE n \in G
  <2>1. PICK m \in 0..(n - 1) : KeepsFrom(k[n - 1], m, n - 1)
    BY <1>10
  <2>2. n \in 0..L /\ n # 0 /\ n \in 0..n /\ m \in 0..n /\ f[n] \in Nat /\ m \in Nat /\ n \in Nat
    BY <1>1
  <2>3. CASE RecentlyFailed(f[n])
    <3>1. k[n] = Append(k[n - 1], f[n])
      BY <1>8, <2>2, <2>3
    <3>2. k[n - 1] \in Seq(Nat) /\ Len(k[n - 1]) = n - 1 - m
      BY <2>1 DEF KeepsFrom
    <3>3. k[n] \in Seq(Nat) /\ Len(k[n]) = n - m
      BY <2>2, <3>1, <3>2
    <3>4. ASSUME NEW i \in 1..(n - m) PROVE k[n][i] = f[m + i]
      <4>1. CASE i = n - m
        BY <2>2, <3>1, <3>2, <4>1
      <4>2. CASE i # n - m
        <5>1. i \in 1..(n - 1 - m) /\ i \in 1..Len(k[n - 1])
          BY <2>2, <3>2, <4>2
        <5>2. k[n][i] = k[n - 1][i]
          BY <2>2, <3>1, <3>2, <5>1
        <5> QED
          BY <2>1, <5>1, <5>2 DEF KeepsFrom
      <4> QED
        BY <4>1, <4>2
    <3>5. \A i \in (m + 1)..n : i = n \/ i \in (m + 1)..(n - 1)
      BY <2>2
    <3>6. KeepsFrom(k[n], m, n)
      BY <2>1, <2>2, <2>3, <3>3, <3>4, <3>5 DEF KeepsFrom
    <3> QED
      BY <2>2, <3>6
  <2>4. CASE ~RecentlyFailed(f[n])
    <3>1. ASSUME NEW i \in 1..n PROVE ~RecentlyFailed(f[i])
      <4>1. i \in 1..L /\ n \in 1..L /\ i <= n /\ f[i] \in Nat
        BY <1>1
      <4>2. f[i] <= f[n]
        BY <4>1 DEF InOrder
      <4> QED
        BY <2>2, <2>4, <4>1, <4>2 DEF RecentlyFailed
    <3>2. m = n - 1
      <4> SUFFICES ASSUME m # n - 1 PROVE FALSE
        OBVIOUS
      <4>1. m + 1 \in (m + 1)..(n - 1) /\ m + 1 \in 1..n
        BY <2>2
      <4>2. RecentlyFailed(f[m + 1])
        BY <2>1, <4>1 DEF KeepsFrom
      <4> QED
        BY <3>1, <4>1, <4>2
    <3>3. k[n] = k[n - 1]
      BY <1>8, <2>2, <2>4
    <3>4. k[n] \in Seq(Nat) /\ Len(k[n]) = n - n
      <4>1. k[n - 1] \in Seq(Nat) /\ Len(k[n - 1]) = n - 1 - m
        BY <2>1 DEF KeepsFrom
      <4> QED
        BY <2>2, <3>2, <3>3, <4>1
    <3>5. (\A i \in 1..(n - n) : FALSE) /\ (\A i \in (n + 1)..n : FALSE)
      BY <2>2
    <3>6. KeepsFrom(k[n], n, n)
      BY <2>2, <3>1, <3>4, <3>5 DEF KeepsFrom
    <3> QED
      BY <2>2, <3>6
  <2> QED
    BY <2>3, <2>4
<1>11. L \in G
  <2> HIDE DEF G
  <2>1. \A i \in 0..L : i \in G
    BY <1>1, <1>9, <1>10, UpTo
  <2> QED
    BY <1>1, <2>1
<1> QED
  BY <1>7, <1>11

\* t doubled i times ...
Doubles(d, t, n) == d = [i \in 0..n |-> IF i = 0 THEN t ELSE 2 * d[i - 1]]

\* ... and while it is below the maximum.
Escalates(d, p, n) ==
  d = [i \in 0..n |-> IF i = 0 THEN p.banTime ELSE IF d[i - 1] < p.banTimeMax THEN 2 * d[i - 1] ELSE d[i - 1]]

Capped(t, p) == IF t > p.banTimeMax THEN p.banTimeMax ELSE t

LEMMA DoubledIs ==
  ASSUME NEW t, NEW n
  PROVE  Doubled(t, n) = (CHOOSE d : Doubles(d, t, n))[n]
BY Zenon DEF Doubled, Doubles

LEMMA DurationIs ==
  ASSUME NEW p, NEW n
  PROVE  Duration(p, n) = Capped((CHOOSE d : Escalates(d, p, n))[n], p)
BY Zenon DEF Duration, Escalates, Capped

LEMMA DoublesExists ==
  ASSUME NEW t \in Nat, NEW n \in Nat
  PROVE  \E d : Doubles(d, t, n)
<1> DEFINE g == [i \in 1..n |-> [x \in Nat |-> 2 * x]]
<1>1. g \in [1..n -> [Nat -> Nat]]
  OBVIOUS
<1>2. PICK w : Recurs(w, n, Nat, t, g)
  <2> HIDE DEF g
  <2> QED
    BY <1>1, Recursion
<1>3. w \in [0..n -> Nat] /\ w[0] = t
  BY <1>2 DEF Recurs
<1>4. ASSUME NEW i \in 1..n PROVE w[i] = 2 * w[i - 1]
  <2>1. i - 1 \in 0..n /\ w[i - 1] \in Nat
    BY <1>3
  <2>2. g[i][w[i - 1]] = 2 * w[i - 1]
    BY <2>1
  <2> QED
    BY <1>2, <2>2 DEF Recurs
<1> DEFINE h == [i \in 0..n |-> IF i = 0 THEN t ELSE 2 * w[i - 1]]
<1>5. ASSUME NEW i \in 0..n PROVE w[i] = h[i]
  <2>1. i = 0 \/ i \in 1..n
    OBVIOUS
  <2> QED
    BY <1>3, <1>4, <2>1
<1>6. w = [i \in 0..n |-> w[i]] /\ h = [i \in 0..n |-> h[i]]
  BY <1>3
<1>7. w = h
  <2> HIDE DEF h
  <2> QED
    BY <1>5, <1>6
<1> QED
  BY <1>7 DEF Doubles

LEMMA EscalatesExists ==
  ASSUME NEW p, p.banTime \in Nat, p.banTimeMax \in Nat, NEW n \in Nat
  PROVE  \E d : Escalates(d, p, n)
<1> DEFINE t == p.banTime
           max == p.banTimeMax
           step(x) == IF x < max THEN 2 * x ELSE x
           g == [i \in 1..n |-> [x \in Nat |-> step(x)]]
<1>1. g \in [1..n -> [Nat -> Nat]] /\ t \in Nat /\ max \in Nat
  OBVIOUS
<1>2. PICK w : Recurs(w, n, Nat, t, g)
  <2> HIDE DEF g, t
  <2> QED
    BY <1>1, Recursion
<1>3. w \in [0..n -> Nat] /\ w[0] = t
  BY <1>2 DEF Recurs
<1>4. ASSUME NEW i \in 1..n PROVE w[i] = step(w[i - 1])
  <2>1. i - 1 \in 0..n /\ w[i - 1] \in Nat
    BY <1>3
  <2>2. g[i][w[i - 1]] = step(w[i - 1])
    BY <2>1
  <2>3. w[i] = g[i][w[i - 1]]
    BY <1>2 DEF Recurs
  <2> QED
    BY <2>2, <2>3
<1> DEFINE h == [i \in 0..n |-> IF i = 0 THEN t ELSE step(w[i - 1])]
<1>5. ASSUME NEW i \in 0..n PROVE w[i] = h[i]
  <2>1. i = 0 \/ i \in 1..n
    OBVIOUS
  <2> HIDE DEF step
  <2> QED
    BY <1>3, <1>4, <2>1
<1>6. w = [i \in 0..n |-> w[i]] /\ h = [i \in 0..n |-> h[i]]
  BY <1>3
<1>7. w = h
  <2> HIDE DEF h
  <2> QED
    BY <1>5, <1>6
<1> QED
  BY <1>7 DEF Escalates

\* Stopping at the maximum and cutting to it is as good as cutting in the end.
LEMMA DurationDoubles ==
  ASSUME NEW p, p.banTime \in Nat, p.banTimeMax \in Nat, NEW n \in Nat
  PROVE  Duration(p, n) \in Nat /\ Duration(p, n) = Capped(Doubled(p.banTime, n), p)
<1> DEFINE t == p.banTime
           max == p.banTimeMax
<1>1. PICK d : d = (CHOOSE v : Doubles(v, t, n)) /\ Doubles(d, t, n)
  BY DoublesExists
<1>2. PICK e : e = (CHOOSE v : Escalates(v, p, n)) /\ Escalates(e, p, n)
  BY EscalatesExists
<1>3. Doubled(t, n) = d[n] /\ Duration(p, n) = Capped(e[n], p)
  BY <1>1, <1>2, DoubledIs, DurationIs
<1>4. \A i \in 0..n : d[i] = IF i = 0 THEN t ELSE 2 * d[i - 1]
  BY <1>1 DEF Doubles
<1>5. \A i \in 0..n : e[i] = IF i = 0 THEN t ELSE IF e[i - 1] < max THEN 2 * e[i - 1] ELSE e[i - 1]
  BY <1>2 DEF Escalates
<1>6. t \in Nat /\ max \in Nat
  OBVIOUS
<1> DEFINE Alike(i) == d[i] \in Nat /\ e[i] \in Nat /\ (d[i] = e[i] \/ (d[i] >= max /\ e[i] >= max))
           G == {i \in 0..n : Alike(i)}
<1>7. 0 \in G
  <2>1. 0 \in 0..n
    OBVIOUS
  <2>2. d[0] = t /\ e[0] = t
    BY <1>4, <1>5, <2>1
  <2> QED
    BY <1>6, <2>1, <2>2
<1>8. ASSUME NEW i \in 1..n, i - 1 \in G PROVE i \in G
  <2>1. i \in 0..n /\ i # 0
    OBVIOUS
  <2>2. d[i] = 2 * d[i - 1]
    BY <1>4, <2>1
  <2>3. e[i] = IF e[i - 1] < max THEN 2 * e[i - 1] ELSE e[i - 1]
    BY <1>5, <2>1
  <2>4. Alike(i - 1)
    BY <1>8
  <2>5. Alike(i)
    <3> HIDE DEF max
    <3> QED
      BY <1>6, <2>2, <2>3, <2>4
  <2> QED
    BY <2>1, <2>5
<1>9. Alike(n)
  <2>1. n \in G
    <3> HIDE DEF G
    <3>1. \A i \in 0..n : i \in G
      BY <1>7, <1>8, UpTo
    <3> QED
      BY <3>1
  <2> QED
    BY <2>1
<1>10. Capped(d[n], p) = Capped(e[n], p) /\ Capped(e[n], p) \in Nat
  BY <1>6, <1>9 DEF Capped
<1> QED
  BY <1>3, <1>10

-----------------------------------------------------------------------------
\* The log.
BtEntry == [kind : {"failure", "ban", "unban"}, at : Nat, until : Nat]

BtTypes ==
  /\ btNow \in 1..BtMaxTime /\ widened \in BOOLEAN
  /\ pol \in [maxRetry : Nat \ {0}, findTime : Nat \ {0}, banTime : Nat \ {0}, banTimeMax : Nat]
  /\ pol.banTime <= pol.banTimeMax
  /\ st \in [failures : Seq(Nat), bans : Nat, lastBan : Nat, bannedUntil : Nat, present : BOOLEAN]
  /\ log \in Seq(BtEntry) /\ Len(log) <= MaxLog

LogInOrder ==
  /\ \A i \in 1..Len(log) : At(i) \in 1..btNow
  /\ \A i, j \in 1..Len(log) : i <= j => At(i) <= At(j)

\* The failures f are the latest entries of the log.
Logged(f) ==
  /\ Len(f) <= Len(log)
  /\ \A k \in 1..Len(f) : LET i == Len(log) - Len(f) + k
                          IN log[i].kind = "failure" /\ At(i) = f[k]

\* No failure before the latest n entries counts.
RestOld(n) ==
  \A i \in 1..(Len(log) - n) :
     (\A j \in i..Len(log) : log[j].kind = "failure") => ~RecentlyFailed(At(i))

IsBan(l, i) == l[i].kind = "ban"

\* The bans up to b of which each followed the one before soon enough.
Chain(l, b) ==
  {i \in 1..b : /\ IsBan(l, i) /\ \A j \in i..b : l[j].kind # "unban"
                /\ \A j \in i..(b - 1) :
                     IsBan(l, j) => \E k \in (j + 1)..b : IsBan(l, k) /\ l[k].at - l[j].at <= EscalationWindow}

\* The ban at b is the latest, and what st says of it is what the log says.
LatestBan(b) ==
  /\ IsBan(log, b) /\ At(b) = st.lastBan /\ st.bans = Cardinality(Chain(log, b))
  /\ \A j \in (b + 1)..Len(log) : log[j].kind = "failure"

\* No ban of the log lengthens the next one.
NoSpell ==
  \A i \in 1..Len(log) :
     IsBan(log, i) => btNow - At(i) > EscalationWindow \/ \E j \in i..Len(log) : log[j].kind = "unban"

BansLogged ==
  IF st.lastBan = 0 THEN st.bans = 0 /\ NoSpell ELSE \E b \in 1..Len(log) : LatestBan(b)

FailuresLogged == Logged(st.failures) /\ (~widened => RestOld(Len(st.failures)))

BtIInv == BtTypes /\ LogInOrder /\ FailuresLogged /\ BansLogged

LEMMA EntriesTyped ==
  ASSUME BtTypes
  PROVE  /\ Len(log) \in Nat /\ DOMAIN log = 1..Len(log) /\ btNow \in Nat /\ EscalationWindow \in Nat
         /\ \A i \in 1..Len(log) : log[i] \in BtEntry /\ At(i) \in Nat
<1>1. log \in Seq(BtEntry)
  BY DEF BtTypes
<1>2. Len(log) \in Nat /\ DOMAIN log = 1..Len(log) /\ \A i \in 1..Len(log) : log[i] \in BtEntry
  BY <1>1
<1>3. \A i \in 1..Len(log) : At(i) \in Nat
  BY <1>2 DEF BtEntry, At
<1>4. btNow \in Nat /\ EscalationWindow \in Nat
  BY BtConstants DEF BtTypes
<1> QED
  BY <1>2, <1>3, <1>4

\* What Observe keeps of the failures is, like them, the end of the log, and
\* what it drops does not count any more.
LEMMA KeptIsLogged ==
  ASSUME BtIInv
  PROVE  /\ Kept \in Seq(Nat) /\ Logged(Kept) /\ (~widened => RestOld(Len(Kept)))
         /\ \A k \in 1..Len(Kept) : RecentlyFailed(Kept[k])
<1> DEFINE f == st.failures
           n == Len(f)
           L == Len(log)
<1>1. f \in Seq(Nat) /\ n \in Nat /\ L \in Nat /\ btNow \in Nat /\ pol.findTime \in Nat /\ n <= L
  BY EntriesTyped DEF BtIInv, BtTypes, FailuresLogged, Logged
<1>2. \A k \in 1..n : log[L - n + k].kind = "failure" /\ At(L - n + k) = f[k]
  BY DEF BtIInv, FailuresLogged, Logged
<1>3. InOrder(f)
  <2> SUFFICES ASSUME NEW i \in 1..n, NEW j \in 1..n, i <= j PROVE f[i] <= f[j]
    BY DEF InOrder
  <2>1. L - n + i \in 1..L /\ L - n + j \in 1..L /\ L - n + i <= L - n + j
    BY <1>1
  <2>2. At(L - n + i) <= At(L - n + j)
    BY <2>1 DEF BtIInv, LogInOrder
  <2> QED
    BY <1>2, <2>2
<1>4. PICK m \in 0..n : KeepsFrom(Kept, m, n)
  BY <1>1, <1>3, KeptIsSuffix
<1>5. /\ Kept \in Seq(Nat) /\ Len(Kept) = n - m /\ m \in Nat /\ m <= n
      /\ \A i \in 1..(n - m) : Kept[i] = f[m + i]
      /\ \A i \in 1..m : ~RecentlyFailed(f[i])
      /\ \A i \in (m + 1)..n : RecentlyFailed(f[i])
  BY <1>1, <1>4 DEF KeepsFrom
<1> DEFINE c == Len(Kept)
<1>6. c \in Nat /\ c = n - m /\ c <= L
  BY <1>1, <1>5
<1>7. ASSUME NEW k \in 1..c PROVE log[L - c + k].kind = "failure" /\ At(L - c + k) = Kept[k] /\ RecentlyFailed(Kept[k])
  <2>1. m + k \in 1..n /\ m + k \in (m + 1)..n /\ k \in 1..(n - m) /\ L - c + k = L - n + (m + k)
    <3>1. m \in Nat /\ n \in Nat /\ L \in Nat /\ m <= n /\ n <= L /\ c = n - m /\ k \in 1..c
      BY <1>1, <1>5, <1>6, <1>7
    <3> HIDE DEF c, L, n
    <3> QED
      BY <3>1
  <2>2. Kept[k] = f[m + k]
    BY <1>5, <2>1
  <2> QED
    BY <1>2, <1>5, <2>1, <2>2
<1>8. Logged(Kept)
  BY <1>6, <1>7 DEF Logged
<1>9. ASSUME ~widened, NEW i \in 1..(L - c), \A j \in i..L : log[j].kind = "failure"
      PROVE  ~RecentlyFailed(At(i))
  <2>1. CASE i \in 1..(L - n)
    BY <1>9, <2>1 DEF BtIInv, FailuresLogged, RestOld
  <2>2. CASE i \notin 1..(L - n)
    <3> DEFINE k == i - (L - n)
    <3>1. k \in 1..m /\ k \in 1..n /\ L - n + k = i
      <4>1. m \in Nat /\ m <= n /\ c = n - m /\ i \in 1..(L - c)
        BY <1>5, <1>6, <1>9
      <4> HIDE DEF c, L, n
      <4> QED
        BY <1>1, <2>2, <4>1
    <3>2. At(i) = f[k]
      BY <1>2, <3>1
    <3> QED
      BY <1>5, <3>1, <3>2
  <2> QED
    BY <2>1, <2>2
<1>10. ~widened => RestOld(c)
  BY <1>9 DEF RestOld
<1> QED
  BY <1>5, <1>7, <1>8, <1>10

\* So the number of failures it keeps is what the log says, or less when the
\* window was made longer.
LEMMA KeptCounts ==
  ASSUME BtIInv
  PROVE  /\ Len(Kept) \in Nat /\ Cardinality(Evidence) \in Nat
         /\ Len(Kept) <= Cardinality(Evidence)
         /\ ~widened => Cardinality(Evidence) <= Len(Kept)
<1> DEFINE L == Len(log)
           c == Len(Kept)
           Last == (L - c + 1)..L
<1>1. /\ c \in Nat /\ L \in Nat /\ c <= L /\ DOMAIN log = 1..L
      /\ \A k \in 1..c : log[L - c + k].kind = "failure" /\ RecentlyFailed(At(L - c + k))
  BY KeptIsLogged, EntriesTyped DEF BtIInv, Logged
<1>2. IsFiniteSet(Last) /\ Cardinality(Last) = c
  <2>1. L - c + 1 \in Int /\ L \in Int
    BY <1>1
  <2>2. Cardinality(Last) = IF L - c + 1 > L THEN 0 ELSE L - (L - c + 1) + 1
    BY <2>1, FS_Interval
  <2>3. (IF L - c + 1 > L THEN 0 ELSE L - (L - c + 1) + 1) = c
    BY <1>1
  <2> QED
    BY <2>1, <2>2, <2>3, FS_Interval
<1>3. IsFiniteSet(Evidence)
  <2>1. IsFiniteSet(1..L)
    <3>1. 1 \in Int /\ L \in Int
      BY <1>1
    <3> QED
      BY <3>1, FS_Interval
  <2>2. Evidence \in SUBSET (1..L)
    BY <1>1 DEF Evidence
  <2> QED
    BY <2>1, <2>2, FS_Subset
<1>4. Last \subseteq Evidence
  <2> SUFFICES ASSUME NEW i \in Last PROVE i \in Evidence
    OBVIOUS
  <2>1. \A j \in i..L : j - (L - c) \in 1..c /\ L - c + (j - (L - c)) = j
    BY <1>1
  <2>2. \A j \in i..L : log[j].kind = "failure" /\ RecentlyFailed(At(j))
    BY <1>1, <2>1
  <2>3. i \in i..L /\ i \in DOMAIN log
    BY <1>1
  <2> QED
    BY <2>2, <2>3 DEF Evidence
<1>5. ASSUME ~widened PROVE Evidence \subseteq Last
  <2> SUFFICES ASSUME NEW i \in Evidence, i \notin Last PROVE FALSE
    OBVIOUS
  <2>1. i \in 1..(L - c) /\ RecentlyFailed(At(i)) /\ \A j \in i..L : log[j].kind = "failure"
    BY <1>1 DEF Evidence
  <2> QED
    BY <1>5, <2>1, KeptIsLogged DEF RestOld
<1>6. Cardinality(Evidence) \in Nat
  BY <1>3, FS_CardinalityType
<1>7. c <= Cardinality(Evidence)
  BY <1>2, <1>3, <1>4, FS_Subset
<1>8. ~widened => Cardinality(Evidence) <= c
  BY <1>2, <1>5, FS_Subset
<1> QED
  BY <1>1, <1>6, <1>7, <1>8

\* The ban at j is followed soon enough, by a later one or by the present.
Linked(j) ==
  \/ btNow - At(j) <= EscalationWindow
  \/ \E k \in (j + 1)..Len(log) : IsBan(log, k) /\ At(k) - At(j) <= EscalationWindow

LEMMA SpellIs ==
  ASSUME BtTypes
  PROVE  Spell = {i \in 1..Len(log) : /\ IsBan(log, i) /\ \A j \in i..Len(log) : log[j].kind # "unban"
                                      /\ \A j \in i..Len(log) : IsBan(log, j) => Linked(j)}
<1> DEFINE L == Len(log)
           Bans == {i \in DOMAIN log : log[i].kind = "ban"}
           After(i) == {At(j) : j \in {k \in Bans : k > i}} \cup {btNow}
           Follows(i) == \E t \in After(i) : t - At(i) <= EscalationWindow /\ \A u \in After(i) : t <= u
<1>1. Spell = {i \in Bans : /\ \A j \in i..L : log[j].kind # "unban"
                            /\ \A j \in {k \in Bans : k >= i} : Follows(j)}
  BY DEF Spell
<1>2. /\ L \in Nat /\ DOMAIN log = 1..L /\ btNow \in Nat /\ EscalationWindow \in Nat
      /\ \A i \in 1..L : At(i) \in Nat
  BY EntriesTyped
<1>3. \A i : i \in Bans <=> i \in 1..L /\ IsBan(log, i)
  BY <1>2 DEF IsBan
<1>4. ASSUME NEW j \in Bans PROVE Follows(j) <=> Linked(j)
  <2>1. At(j) \in Nat /\ j \in 1..L
    BY <1>2, <1>3
  <2>2. After(j) \in SUBSET Nat /\ btNow \in After(j)
    BY <1>2
  <2>3. PICK t \in After(j) : \A u \in After(j) : t <= u
    <3> HIDE DEF After
    <3> QED
      BY <2>2, LeastOf
  <2>4. (\E u \in After(j) : u - At(j) <= EscalationWindow) <=> Linked(j)
    <3>1. ASSUME NEW u \in After(j), u - At(j) <= EscalationWindow PROVE Linked(j)
      <4>1. CASE u = btNow
        BY <3>1, <4>1 DEF Linked
      <4>2. CASE u # btNow
        <5>1. PICK k \in Bans : k > j /\ u = At(k)
          BY <4>2
        <5>2. k \in (j + 1)..L /\ IsBan(log, k)
          BY <1>2, <1>3, <2>1, <5>1
        <5> QED
          BY <3>1, <5>1, <5>2 DEF Linked
      <4> QED
        BY <4>1, <4>2
    <3>2. ASSUME Linked(j) PROVE \E u \in After(j) : u - At(j) <= EscalationWindow
      <4>1. CASE btNow - At(j) <= EscalationWindow
        BY <2>2, <4>1
      <4>2. CASE \E k \in (j + 1)..L : IsBan(log, k) /\ At(k) - At(j) <= EscalationWindow
        <5>1. PICK k \in (j + 1)..L : IsBan(log, k) /\ At(k) - At(j) <= EscalationWindow
          BY <4>2
        <5>2. k \in 1..L /\ k > j
          BY <1>2, <2>1
        <5>3. At(k) \in After(j)
          BY <1>3, <5>1, <5>2
        <5> QED
          BY <5>1, <5>3
      <4> QED
        BY <3>2, <4>1, <4>2 DEF Linked
    <3> HIDE DEF After
    <3> QED
      BY <3>1, <3>2
  <2>5. Follows(j) <=> \E u \in After(j) : u - At(j) <= EscalationWindow
    <3>1. ASSUME NEW u \in After(j), u - At(j) <= EscalationWindow PROVE t - At(j) <= EscalationWindow
      <4>1. t \in Nat /\ u \in Nat /\ t <= u
        <5> HIDE DEF After
        <5> QED
          BY <2>2, <2>3
      <4> QED
        BY <1>2, <2>1, <3>1, <4>1
    <3> HIDE DEF After
    <3> QED
      BY <2>3, <3>1
  <2> QED
    BY <2>4, <2>5
<1>5. ASSUME NEW i \in Bans
      PROVE  (\A j \in {k \in Bans : k >= i} : Follows(j)) <=> \A j \in i..L : IsBan(log, j) => Linked(j)
  <2>1. \A j : j \in {k \in Bans : k >= i} <=> j \in i..L /\ IsBan(log, j)
    BY <1>2, <1>3
  <2>2. \A j \in {k \in Bans : k >= i} : j \in Bans
    OBVIOUS
  <2> HIDE DEF Bans, Follows
  <2> QED
    BY <1>4, <2>1, <2>2
<1> HIDE DEF Bans, Follows
<1> QED
  BY <1>1, <1>3, <1>5

\* The next ban prolongs the spell by itself.
LEMMA ChainGrows ==
  ASSUME BtTypes, NEW l, Len(l) = Len(log) + 1, \A i \in 1..Len(log) : l[i] = log[i],
         IsBan(l, Len(log) + 1), l[Len(log) + 1].at = btNow
  PROVE  Chain(l, Len(log) + 1) = Spell \cup {Len(log) + 1}
<1> DEFINE L == Len(log)
           N == L + 1
<1>1. L \in Nat /\ N \in Nat /\ \A i \in 1..L : i \in 1..N /\ i # N /\ l[i] = log[i] /\ IsBan(l, i) = IsBan(log, i) /\ l[i].at = At(i)
  BY EntriesTyped DEF IsBan, At
<1>2. ASSUME NEW j \in 1..L
      PROVE  (\E k \in (j + 1)..N : IsBan(l, k) /\ l[k].at - l[j].at <= EscalationWindow) <=> Linked(j)
  <2>1. \A k : k \in (j + 1)..N <=> k = N \/ k \in (j + 1)..L
    BY <1>1
  <2>2. \A k \in (j + 1)..L : k \in 1..L
    BY <1>1
  <2>3. IsBan(l, N) /\ l[N].at = btNow /\ l[j].at = At(j)
    BY <1>1
  <2> HIDE DEF L, N
  <2>4. ASSUME NEW k \in (j + 1)..L
        PROVE  (IsBan(l, k) <=> IsBan(log, k)) /\ l[k].at = At(k)
    BY <1>1, <2>2
  <2> QED
    BY <2>1, <2>3, <2>4 DEF Linked, L
<1>3. ASSUME NEW i \in 1..L
      PROVE  i \in Chain(l, N) <=> i \in Spell
  <2>1. \A j : j \in i..N <=> j = N \/ j \in i..L
    BY <1>1
  <2>2. \A j \in i..L : j \in 1..L
    BY <1>1
  <2>3. i..(N - 1) = i..L
    BY <1>1
  <2>4. (\A j \in i..N : l[j].kind # "unban") <=> \A j \in i..L : log[j].kind # "unban"
    <3>1. l[N].kind # "unban"
      BY DEF IsBan
    <3>2. \A j \in i..L : l[j] = log[j]
      BY <2>2
    <3> HIDE DEF N, L
    <3> QED
      BY <2>1, <3>1, <3>2
  <2>5. ASSUME NEW j \in i..L
        PROVE  (IsBan(l, j) => \E k \in (j + 1)..N : IsBan(l, k) /\ l[k].at - l[j].at <= EscalationWindow)
               <=> (IsBan(log, j) => Linked(j))
    <3>1. j \in 1..L
      BY <2>2
    <3> HIDE DEF N, L
    <3> QED
      BY <1>1, <1>2, <3>1
  <2>6. i \in 1..N /\ (IsBan(l, i) <=> IsBan(log, i))
    BY <1>1
  <2>7. i \in Chain(l, N) <=> /\ IsBan(l, i) /\ \A j \in i..N : l[j].kind # "unban"
                              /\ \A j \in i..L : IsBan(l, j) => \E k \in (j + 1)..N :
                                    IsBan(l, k) /\ l[k].at - l[j].at <= EscalationWindow
    BY <2>3, <2>6 DEF Chain
  <2>8. i \in Spell <=> /\ IsBan(log, i) /\ \A j \in i..L : log[j].kind # "unban"
                        /\ \A j \in i..L : IsBan(log, j) => Linked(j)
    BY SpellIs
  <2> HIDE DEF N, L
  <2> QED
    BY <2>4, <2>5, <2>6, <2>7, <2>8
<1>4. N \in Chain(l, N)
  <2>1. N..N = {N} /\ (\A j \in N..(N - 1) : FALSE) /\ N \in 1..N /\ l[N].kind # "unban"
    BY <1>1 DEF IsBan
  <2> HIDE DEF N
  <2> QED
    BY <2>1 DEF Chain, N
<1>5. \A i \in Chain(l, N) : i \in 1..N
  BY DEF Chain
<1>6. \A i \in Spell : i \in 1..L
  BY SpellIs
<1>7. \A i \in 1..N : i = N \/ i \in 1..L
  BY <1>1
<1> HIDE DEF N, L
<1>8. Chain(l, N) = Spell \cup {N}
  BY <1>3, <1>4, <1>5, <1>6, <1>7
<1> QED
  BY <1>8 DEF N, L

LEMMA SpellFinite ==
  ASSUME BtTypes
  PROVE  IsFiniteSet(Spell) /\ Cardinality(Spell) \in Nat /\ Cardinality(Spell) <= Len(log)
<1>1. IsFiniteSet(1..Len(log)) /\ Cardinality(1..Len(log)) = Len(log)
  <2>1. Len(log) \in Int /\ 1 \in Int /\ (IF 1 > Len(log) THEN 0 ELSE Len(log) - 1 + 1) = Len(log)
    BY EntriesTyped
  <2> QED
    BY <2>1, FS_Interval
<1>2. Spell \in SUBSET (1..Len(log))
  BY SpellIs
<1> QED
  BY <1>1, <1>2, FS_Subset, FS_CardinalityType

\* What st remembers of earlier bans is what the log says of them.
LEMMA SpellCounts ==
  ASSUME BtIInv
  PROVE  EarlierBans = Cardinality(Spell)
<1> DEFINE L == Len(log)
           W == EscalationWindow
<1>1. BtTypes /\ BansLogged /\ LogInOrder
  BY DEF BtIInv
<1>2. /\ L \in Nat /\ btNow \in Nat /\ W \in Nat /\ st.lastBan \in Nat /\ st.bans \in Nat
      /\ \A i \in 1..L : At(i) \in Nat /\ At(i) <= btNow
  BY <1>1, EntriesTyped DEF BtTypes, LogInOrder
<1>3. \A i : i \in Spell <=> /\ i \in 1..L /\ IsBan(log, i) /\ \A j \in i..L : log[j].kind # "unban"
                             /\ \A j \in i..L : IsBan(log, j) => Linked(j)
  BY <1>1, SpellIs
<1>4. CASE st.lastBan = 0
  <2>1. st.bans = 0 /\ NoSpell
    BY <1>1, <1>4 DEF BansLogged
  <2>2. Spell = {}
    <3> SUFFICES ASSUME NEW i \in Spell PROVE FALSE
      OBVIOUS
    <3> DEFINE D == {L - k : k \in {n \in i..L : IsBan(log, n)}}
    <3>1. i \in 1..L /\ IsBan(log, i) /\ i \in i..L
      BY <1>2, <1>3
    <3>2. D \in SUBSET Nat /\ D # {}
      <4>1. \A n \in i..L : L - n \in Nat
        BY <1>2, <3>1
      <4> QED
        BY <3>1, <4>1
    <3>3. PICK d \in D : \A y \in D : d <= y
      <4> HIDE DEF D
      <4> QED
        BY <3>2, LeastOf
    <3>4. PICK k \in i..L : IsBan(log, k) /\ d = L - k
      BY <3>3
    <3>5. ASSUME NEW n \in (k + 1)..L PROVE ~IsBan(log, n)
      <4>1. n \in i..L /\ ~(L - k <= L - n)
        BY <1>2, <3>1
      <4> QED
        BY <3>3, <3>4, <4>1
    <3>6. Linked(k) /\ k \in 1..L /\ \A j \in k..L : j \in i..L
      BY <1>2, <1>3, <3>1, <3>4
    <3>7. btNow - At(k) <= W
      BY <3>5, <3>6 DEF Linked
    <3>8. \A j \in k..L : log[j].kind # "unban"
      BY <1>3, <3>6
    <3>9. btNow - At(k) > W
      BY <2>1, <3>4, <3>6, <3>8 DEF NoSpell
    <3> QED
      BY <1>2, <3>6, <3>7, <3>9
  <2>3. EarlierBans = 0
    BY <1>4, <2>1 DEF EarlierBans
  <2> QED
    BY <2>2, <2>3, FS_EmptySet
<1>5. CASE st.lastBan # 0
  <2>1. PICK b \in 1..L : LatestBan(b)
    BY <1>1, <1>5 DEF BansLogged
  <2>2. /\ IsBan(log, b) /\ At(b) = st.lastBan /\ st.bans = Cardinality(Chain(log, b))
        /\ \A j \in (b + 1)..L : ~IsBan(log, j) /\ log[j].kind # "unban"
    BY <2>1 DEF LatestBan, IsBan
  <2>3. Linked(b) <=> btNow - At(b) <= W
    BY <2>2 DEF Linked
  <2>4. \A i \in 1..L : i <= b \/ i \in (b + 1)..L
    BY <1>2
  <2>5. CASE btNow - At(b) > W
    <3>1. EarlierBans = 0
      BY <1>5, <2>2, <2>5 DEF EarlierBans
    <3>2. Spell = {}
      <4> SUFFICES ASSUME NEW i \in Spell PROVE FALSE
        OBVIOUS
      <4>1. i \in 1..L /\ IsBan(log, i)
        BY <1>3
      <4>2. i <= b
        BY <2>2, <2>4, <4>1
      <4>3. b \in i..L
        BY <1>2, <4>1, <4>2
      <4>4. btNow - At(b) <= W
        BY <1>3, <2>2, <2>3, <4>3
      <4> QED
        BY <1>2, <2>5, <4>4
    <3> QED
      BY <3>1, <3>2, FS_EmptySet
  <2>6. CASE ~(btNow - At(b) > W)
    <3>1. EarlierBans = st.bans
      BY <2>2, <2>6 DEF EarlierBans
    <3>2. btNow - At(b) <= W
      BY <1>2, <2>6
    <3>3. ASSUME NEW j \in 1..L, j < b
          PROVE  Linked(j) <=> \E k \in (j + 1)..b : IsBan(log, k) /\ log[k].at - log[j].at <= W
      <4>1. \A k \in (j + 1)..b : k \in (j + 1)..L
        BY <1>2
      <4>2. \A k \in (j + 1)..L : k \in (j + 1)..b \/ k \in (b + 1)..L
        BY <1>2
      <4>3. b \in (j + 1)..b
        BY <1>2, <3>3
      <4>4. btNow - At(j) <= W => At(b) - At(j) <= W
        BY <1>2
      <4>5. \A k : At(k) = log[k].at
        BY DEF At
      <4> HIDE DEF L, W
      <4> QED
        BY <2>2, <4>1, <4>2, <4>3, <4>4, <4>5 DEF Linked, L, W
    <3>4. ASSUME NEW i \in 1..b PROVE i \in Spell <=> i \in Chain(log, b)
      <4>1. i \in 1..L /\ (\A j \in i..b : j \in i..L) /\ (\A j \in i..L : j \in i..b \/ j \in (b + 1)..L)
        BY <1>2
      <4>2. (\A j \in i..L : log[j].kind # "unban") <=> \A j \in i..b : log[j].kind # "unban"
        BY <2>2, <4>1
      <4>3. (\A j \in i..L : IsBan(log, j) => Linked(j)) <=> \A j \in i..(b - 1) : IsBan(log, j) => Linked(j)
        <5>1. \A j \in i..L : j = b \/ j \in i..(b - 1) \/ j \in (b + 1)..L
          BY <1>2
        <5>2. \A j \in i..(b - 1) : j \in i..L
          BY <1>2
        <5> QED
          BY <2>2, <2>3, <3>2, <5>1, <5>2
      <4>4. (\A j \in i..(b - 1) : IsBan(log, j) => Linked(j))
            <=> \A j \in i..(b - 1) : IsBan(log, j) => \E k \in (j + 1)..b : IsBan(log, k) /\ log[k].at - log[j].at <= W
        <5>1. \A j \in i..(b - 1) : j \in 1..L /\ j < b
          BY <1>2
        <5> HIDE DEF L, W
        <5> QED
          BY <3>3, <5>1
      <4>5. i \in Chain(log, b) <=> /\ IsBan(log, i) /\ \A j \in i..b : log[j].kind # "unban"
                                    /\ \A j \in i..(b - 1) : IsBan(log, j) => \E k \in (j + 1)..b :
                                          IsBan(log, k) /\ log[k].at - log[j].at <= W
        BY DEF Chain
      <4> HIDE DEF L, W
      <4> QED
        BY <1>3, <4>1, <4>2, <4>3, <4>4, <4>5
    <3>5. \A i \in Spell : i \in 1..b
      <4>1. \A i \in 1..L : i <= b => i \in 1..b
        BY <1>2
      <4> QED
        BY <1>3, <2>2, <2>4, <4>1
    <3>6. \A i \in Chain(log, b) : i \in 1..b
      BY DEF Chain
    <3>7. Spell = Chain(log, b)
      BY <3>4, <3>5, <3>6
    <3> QED
      BY <2>2, <3>1, <3>7
  <2> QED
    BY <2>5, <2>6
<1> QED
  BY <1>4, <1>5

-----------------------------------------------------------------------------
\* The invariant, action by action.
LEMMA NormalizedTyped ==
  ASSUME NEW p \in [maxRetry : Nat, findTime : Nat, banTime : Nat, banTimeMax : Nat]
  PROVE  /\ Normalized(p) \in [maxRetry : Nat \ {0}, findTime : Nat \ {0}, banTime : Nat \ {0}, banTimeMax : Nat]
         /\ Normalized(p).banTime <= Normalized(p).banTimeMax
<1>1. p.maxRetry \in Nat /\ p.findTime \in Nat /\ p.banTime \in Nat /\ p.banTimeMax \in Nat
  OBVIOUS
<1>2. FindDefault \in Nat \ {0} /\ BanDefault \in Nat \ {0}
  BY BtConstants
<1> QED
  BY <1>1, <1>2 DEF Normalized

LEMMA AppendFacts ==
  ASSUME BtTypes, NEW e \in BtEntry, log' = Append(log, e)
  PROVE  /\ log' \in Seq(BtEntry) /\ Len(log') = Len(log) + 1 /\ Len(log) \in Nat
         /\ \A i \in 1..Len(log) : log'[i] = log[i] /\ At(i)' = At(i)
         /\ log'[Len(log) + 1] = e
<1>1. log \in Seq(BtEntry)
  BY DEF BtTypes
<1>2. /\ log' \in Seq(BtEntry) /\ Len(log') = Len(log) + 1 /\ Len(log) \in Nat
      /\ (\A i \in 1..Len(log) : log'[i] = log[i]) /\ log'[Len(log) + 1] = e
  BY <1>1
<1> QED
  BY <1>2 DEF At

LEMMA AppendInOrder ==
  ASSUME BtTypes, LogInOrder, NEW e \in BtEntry, e.at = btNow, log' = Append(log, e), btNow' = btNow
  PROVE  LogInOrder'
<1> DEFINE L == Len(log)
<1>1. /\ Len(log') = L + 1 /\ L \in Nat /\ btNow \in Nat /\ btNow >= 1
      /\ (\A i \in 1..L : log'[i].at = At(i) /\ At(i) \in Nat)
      /\ log'[L + 1].at = btNow
      /\ \A i \in 1..(L + 1) : i = L + 1 \/ i \in 1..L
  BY AppendFacts, EntriesTyped DEF BtTypes, At
<1>2. (\A i \in 1..L : At(i) \in 1..btNow) /\ \A i, j \in 1..L : i <= j => At(i) <= At(j)
  BY DEF LogInOrder
<1>3. \A i : At(i)' = log'[i].at
  BY DEF At
<1> HIDE DEF L
<1>4. ASSUME NEW i \in 1..(L + 1) PROVE log'[i].at \in 1..btNow
  <2>1. CASE i = L + 1
    BY <1>1, <2>1
  <2>2. CASE i \in 1..L
    BY <1>1, <1>2, <2>2
  <2> QED
    BY <1>1, <2>1, <2>2
<1>5. ASSUME NEW i \in 1..(L + 1), NEW j \in 1..(L + 1), i <= j PROVE log'[i].at <= log'[j].at
  <2>1. CASE j = L + 1
    <3>1. log'[i].at \in 1..btNow
      BY <1>4
    <3> QED
      BY <1>1, <2>1, <3>1
  <2>2. CASE j # L + 1
    <3>1. i \in 1..L /\ j \in 1..L
      BY <1>1, <1>5, <2>2
    <3>2. At(i) <= At(j)
      BY <1>2, <1>5, <3>1
    <3> QED
      BY <1>1, <3>1, <3>2
  <2> QED
    BY <2>1, <2>2
<1> QED
  BY <1>1, <1>3, <1>4, <1>5 DEF LogInOrder

\* While the log and the record of the address stand, so do the bans.
LEMMA BansStand ==
  ASSUME BtIInv, UNCHANGED log, st'.lastBan = st.lastBan, st'.bans = st.bans, btNow' \in Nat, btNow <= btNow'
  PROVE  BansLogged'
<1>1. \A i \in 1..Len(log) : At(i) \in Nat
  BY EntriesTyped DEF BtIInv
<1>2. btNow \in Nat /\ EscalationWindow \in Nat
  BY EntriesTyped DEF BtIInv
<1>3. NoSpell => NoSpell'
  BY <1>1, <1>2 DEF NoSpell, At
<1>4. \A b \in 1..Len(log) : LatestBan(b) => LatestBan(b)'
  BY DEF LatestBan, At
<1> QED
  BY <1>3, <1>4 DEF BtIInv, BansLogged

LEMMA TickInv ==
  ASSUME BtIInv, Tick
  PROVE  BtIInv'
<1>1. btNow \in 1..BtMaxTime /\ BtMaxTime \in Nat /\ btNow' = btNow + 1 /\ btNow < BtMaxTime /\ UNCHANGED <<st, pol, log, widened>>
  BY BtConstants DEF BtIInv, BtTypes, Tick
<1>2. BtTypes'
  BY <1>1 DEF BtIInv, BtTypes
<1>3. LogInOrder'
  <2>1. \A i \in 1..Len(log) : At(i) \in 1..btNow'
    BY <1>1 DEF BtIInv, LogInOrder
  <2> QED
    BY <1>1, <2>1 DEF BtIInv, LogInOrder, At
<1>4. FailuresLogged'
  <2>1. Logged(st.failures)'
    BY <1>1 DEF BtIInv, FailuresLogged, Logged, At
  <2>2. \A i \in 1..Len(log) : At(i) \in Nat /\ (~RecentlyFailed(At(i)) => ~RecentlyFailed(At(i))')
    <3>1. \A i \in 1..Len(log) : At(i) \in Nat
      BY EntriesTyped DEF BtIInv
    <3>2. pol.findTime \in Nat
      BY DEF BtIInv, BtTypes
    <3> QED
      BY <1>1, <3>1, <3>2 DEF RecentlyFailed, At
  <2>3. \A i \in 1..(Len(log) - Len(st.failures)) : i \in 1..Len(log)
    BY EntriesTyped DEF BtIInv, BtTypes
  <2>4. ~widened => RestOld(Len(st.failures))'
    BY <1>1, <2>2, <2>3 DEF BtIInv, FailuresLogged, RestOld
  <2> QED
    BY <1>1, <2>1, <2>4 DEF FailuresLogged
<1>5. BansLogged'
  BY <1>1, BansStand
<1> QED
  BY <1>2, <1>3, <1>4, <1>5 DEF BtIInv

LEMMA SetPolicyInv ==
  ASSUME BtIInv, SetPolicy
  PROVE  BtIInv'
<1>1. PICK p \in BtPolicies : pol' = Normalized(p) /\ widened' = (widened \/ (pol'.findTime > pol.findTime))
  BY DEF SetPolicy
<1>2. UNCHANGED <<st, btNow, log>>
  BY DEF SetPolicy
<1>3. /\ pol' \in [maxRetry : Nat \ {0}, findTime : Nat \ {0}, banTime : Nat \ {0}, banTimeMax : Nat]
      /\ pol'.banTime <= pol'.banTimeMax
  BY <1>1, NormalizedTyped, BtConstants
<1>4. widened' \in BOOLEAN
  BY <1>1 DEF BtIInv, BtTypes
<1>5. BtTypes'
  BY <1>2, <1>3, <1>4 DEF BtIInv, BtTypes
<1>6. LogInOrder'
  BY <1>2 DEF BtIInv, LogInOrder, At
<1>7. FailuresLogged'
  <2>1. Logged(st.failures)'
    BY <1>2 DEF BtIInv, FailuresLogged, Logged, At
  <2>2. ASSUME ~widened' PROVE RestOld(Len(st.failures))'
    <3>1. ~widened /\ ~(pol'.findTime > pol.findTime)
      BY <1>1, <2>2
    <3>2. pol.findTime \in Nat /\ pol'.findTime \in Nat /\ btNow \in Nat
      BY <1>3, EntriesTyped DEF BtIInv, BtTypes
    <3>3. \A i \in 1..Len(log) : At(i) \in Nat /\ (~RecentlyFailed(At(i)) => ~RecentlyFailed(At(i))')
      <4>1. \A i \in 1..Len(log) : At(i) \in Nat
        BY EntriesTyped DEF BtIInv
      <4> QED
        BY <1>2, <3>1, <3>2, <4>1 DEF RecentlyFailed, At
    <3>4. \A i \in 1..(Len(log) - Len(st.failures)) : i \in 1..Len(log)
      BY EntriesTyped DEF BtIInv, BtTypes
    <3> QED
      BY <1>2, <3>1, <3>3, <3>4 DEF BtIInv, FailuresLogged, RestOld
  <2> QED
    BY <2>1, <2>2 DEF FailuresLogged
<1>8. BansLogged'
  BY <1>2, BansStand, EntriesTyped DEF BtIInv
<1> QED
  BY <1>5, <1>6, <1>7, <1>8 DEF BtIInv

LEMMA ChainSame ==
  ASSUME NEW l, NEW k, NEW b \in Nat, \A i \in 1..b : l[i] = k[i]
  PROVE  Chain(l, b) = Chain(k, b)
<1>1. ASSUME NEW i \in 1..b
      PROVE  i \in Chain(l, b) <=> i \in Chain(k, b)
  <2>1. (\A j \in i..b : j \in 1..b) /\ \A j \in i..(b - 1) : j \in 1..b /\ \A n \in (j + 1)..b : n \in 1..b
    OBVIOUS
  <2>2. \A j \in i..b : l[j] = k[j]
    BY <2>1
  <2>3. \A j \in i..(b - 1) : l[j] = k[j] /\ \A n \in (j + 1)..b : l[n] = k[n]
    BY <2>1
  <2>4. l[i] = k[i]
    OBVIOUS
  <2> QED
    BY <2>2, <2>3, <2>4 DEF Chain, IsBan
<1>2. (\A i \in Chain(l, b) : i \in 1..b) /\ \A i \in Chain(k, b) : i \in 1..b
  BY DEF Chain
<1> QED
  BY <1>1, <1>2

LEMMA ObserveFailureInv ==
  ASSUME BtIInv, ObserveFailure
  PROVE  BtIInv'
<1> DEFINE L == Len(log)
           c == Len(Kept)
           e == [kind |-> "failure", at |-> btNow, until |-> 0]
<1>1. /\ st' = [st EXCEPT !.present = TRUE, !.failures = Append(Kept, btNow)]
      /\ L < MaxLog /\ log' = Append(log, e) /\ UNCHANGED <<pol, btNow, widened>>
  BY DEF ObserveFailure, Record
<1>2. BtTypes /\ LogInOrder /\ BansLogged
  BY DEF BtIInv
<1>3. /\ Kept \in Seq(Nat) /\ Logged(Kept) /\ (~widened => RestOld(c)) /\ c \in Nat /\ L \in Nat /\ btNow \in Nat /\ c <= L
      /\ MaxLog \in Nat
  BY <1>2, KeptIsLogged, EntriesTyped, BtConstants DEF Logged
<1>4. e \in BtEntry /\ e.at = btNow
  BY <1>3 DEF BtEntry
<1>5. /\ log' \in Seq(BtEntry) /\ Len(log') = L + 1
      /\ (\A i \in 1..L : log'[i] = log[i] /\ At(i)' = At(i)) /\ log'[L + 1] = e
  BY <1>1, <1>2, <1>4, AppendFacts
<1>6. st'.failures = Append(Kept, btNow) /\ st'.lastBan = st.lastBan /\ st'.bans = st.bans
  BY <1>1, <1>2 DEF BtTypes
<1>7. /\ Len(st'.failures) = c + 1 /\ st'.failures \in Seq(Nat)
      /\ (\A k \in 1..c : st'.failures[k] = Kept[k]) /\ st'.failures[c + 1] = btNow
  BY <1>3, <1>6
<1>8. BtTypes'
  <2>1. L + 1 <= MaxLog
    BY <1>1, <1>3
  <2>2. st' \in [failures : Seq(Nat), bans : Nat, lastBan : Nat, bannedUntil : Nat, present : BOOLEAN]
    BY <1>1, <1>2, <1>6, <1>7 DEF BtTypes
  <2> HIDE DEF e, L
  <2> QED
    BY <1>1, <1>2, <1>5, <2>1, <2>2 DEF BtTypes
<1>9. LogInOrder'
  BY <1>1, <1>2, <1>4, AppendInOrder
<1>10. FailuresLogged'
  <2>0. Len(st'.failures) = c + 1 /\ Len(log') = L + 1 /\ widened' = widened
    BY <1>1, <1>5, <1>7
  <2>1. ASSUME NEW k \in 1..(c + 1), NEW i, i = L - c + k
        PROVE  log'[i].kind = "failure" /\ log'[i].at = st'.failures[k]
    <3>1. CASE k = c + 1
      <4>1. i = L + 1
        BY <1>3, <2>1, <3>1
      <4>2. log'[i].kind = "failure" /\ log'[i].at = btNow
        BY <1>5, <4>1
      <4>3. st'.failures[k] = btNow
        BY <1>7, <3>1
      <4> QED
        BY <4>2, <4>3
    <3>2. CASE k # c + 1
      <4>1. k \in 1..c /\ i \in 1..L
        BY <1>3, <2>1, <3>2
      <4>2. log[i].kind = "failure" /\ log[i].at = Kept[k]
        BY <1>3, <2>1, <4>1 DEF Logged, At
      <4>3. log'[i] = log[i] /\ st'.failures[k] = Kept[k]
        BY <1>5, <1>7, <4>1
      <4> QED
        BY <4>2, <4>3
    <3> QED
      BY <3>1, <3>2
  <2>2. Len(st'.failures) <= Len(log')
    BY <1>3, <1>5, <1>7
  <2>3. Logged(st.failures)'
    <3>1. ASSUME NEW k \in 1..Len(st'.failures)
          PROVE  log'[Len(log') - Len(st'.failures) + k].kind = "failure"
                 /\ log'[Len(log') - Len(st'.failures) + k].at = st'.failures[k]
      <4>1. k \in 1..(c + 1) /\ Len(log') - Len(st'.failures) + k = L - c + k
        BY <1>3, <2>0
      <4> HIDE DEF L, c, e
      <4> QED
        BY <2>1, <4>1
    <3> QED
      BY <2>2, <3>1 DEF Logged, At
  <2>4. ASSUME ~widened', NEW i \in 1..(Len(log') - Len(st'.failures)), \A j \in i..Len(log') : log'[j].kind = "failure"
        PROVE  ~RecentlyFailed(At(i))'
    <3>1. i \in 1..(L - c) /\ i \in 1..L /\ \A j \in i..L : j \in i..Len(log') /\ j \in 1..L
      BY <1>3, <2>0
    <3>2. \A j \in i..L : log[j].kind = "failure"
      BY <1>5, <2>4, <3>1
    <3>3. ~RecentlyFailed(At(i))
      BY <1>3, <2>0, <2>4, <3>1, <3>2 DEF RestOld
    <3> QED
      BY <1>1, <1>5, <3>1, <3>3 DEF RecentlyFailed
  <2>5. ~widened' => RestOld(Len(st.failures))'
    <3> HIDE DEF L, c, e
    <3> QED
      BY <2>4 DEF RestOld
  <2> QED
    BY <2>3, <2>5 DEF FailuresLogged
<1>11. BansLogged'
  <2>1. ~IsBan(log', L + 1) /\ log'[L + 1].kind = "failure"
    BY <1>5 DEF IsBan
  <2>2. \A i \in 1..(L + 1) : i = L + 1 \/ i \in 1..L
    BY <1>3
  <2>3. CASE st.lastBan = 0
    <3>1. st.bans = 0 /\ NoSpell
      BY <1>2, <2>3 DEF BansLogged
    <3>2. ASSUME NEW i \in 1..(L + 1), IsBan(log', i)
          PROVE  btNow' - At(i)' > EscalationWindow \/ \E j \in i..(L + 1) : log'[j].kind = "unban"
      <4>1. i \in 1..L /\ IsBan(log, i) /\ \A j \in i..L : j \in i..(L + 1) /\ j \in 1..L
        BY <1>3, <1>5, <2>1, <2>2, <3>2 DEF IsBan
      <4>2. btNow - At(i) > EscalationWindow \/ \E j \in i..L : log[j].kind = "unban"
        BY <3>1, <4>1 DEF NoSpell
      <4> HIDE DEF L, e
      <4> QED
        BY <1>1, <1>5, <4>1, <4>2
    <3>3. NoSpell'
      BY <1>5, <3>2 DEF NoSpell
    <3> QED
      BY <1>6, <2>3, <3>1, <3>3 DEF BansLogged
  <2>4. CASE st.lastBan # 0
    <3>1. PICK b \in 1..L : LatestBan(b)
      BY <1>2, <2>4 DEF BansLogged
    <3>2. b \in Nat /\ b \in 1..(L + 1) /\ \A i \in 1..b : i \in 1..L
      BY <1>3
    <3>3. Chain(log', b) = Chain(log, b)
      BY <1>5, <3>2, ChainSame
    <3>4. IsBan(log', b) /\ At(b)' = st'.lastBan /\ st'.bans = Cardinality(Chain(log', b))
      BY <1>5, <1>6, <3>1, <3>3 DEF LatestBan, IsBan
    <3>5. \A j \in (b + 1)..(L + 1) : log'[j].kind = "failure"
      <4>1. \A j \in (b + 1)..(L + 1) : j = L + 1 \/ (j \in (b + 1)..L /\ j \in 1..L)
        BY <1>3, <3>2
      <4> QED
        BY <1>5, <2>1, <3>1, <4>1 DEF LatestBan
    <3>6. LatestBan(b)'
      BY <1>5, <3>4, <3>5 DEF LatestBan
    <3> QED
      BY <1>5, <1>6, <2>4, <3>2, <3>6 DEF BansLogged
  <2> QED
    BY <2>3, <2>4
<1> QED
  BY <1>8, <1>9, <1>10, <1>11 DEF BtIInv

\* A ban and an unban use up all failures.
LEMMA ClosingEntry ==
  ASSUME BtTypes, NEW e \in BtEntry, e.kind # "failure", log' = Append(log, e), st'.failures = <<>>
  PROVE  FailuresLogged'
<1>1. Len(log') = Len(log) + 1 /\ Len(log) \in Nat /\ log'[Len(log) + 1] = e
  BY AppendFacts
<1>2. Logged(st.failures)'
  <2>1. Len(st'.failures) <= Len(log') /\ \A k \in 1..Len(st'.failures) : FALSE
    BY <1>1
  <2> QED
    BY <2>1 DEF Logged
<1>3. RestOld(Len(st.failures))'
  <2>1. \A i \in 1..(Len(log') - Len(st'.failures)) : Len(log) + 1 \in i..Len(log')
    BY <1>1
  <2>2. \A i \in 1..(Len(log') - Len(st'.failures)) : ~\A j \in i..Len(log') : log'[j].kind = "failure"
    BY <1>1, <2>1
  <2> QED
    BY <2>2 DEF RestOld
<1> QED
  BY <1>2, <1>3 DEF FailuresLogged

LEMMA ObserveBanInv ==
  ASSUME BtIInv, ObserveBan
  PROVE  BtIInv'
<1> DEFINE L == Len(log)
           until == btNow + Duration(pol, EarlierBans)
           e == [kind |-> "ban", at |-> btNow, until |-> until]
<1>1. /\ st' = [present |-> TRUE, failures |-> <<>>, bans |-> EarlierBans + 1, lastBan |-> btNow, bannedUntil |-> until]
      /\ L < MaxLog /\ log' = Append(log, e) /\ UNCHANGED <<pol, btNow, widened>>
  BY DEF ObserveBan, Record
<1>2. BtTypes /\ LogInOrder
  BY DEF BtIInv
<1>3. EarlierBans = Cardinality(Spell) /\ EarlierBans \in Nat /\ IsFiniteSet(Spell)
  BY <1>2, SpellCounts, SpellFinite
<1>4. until \in Nat
  <2>1. pol.banTime \in Nat /\ pol.banTimeMax \in Nat
    BY <1>2 DEF BtTypes
  <2>2. Duration(pol, EarlierBans) \in Nat
    BY <1>3, <2>1, DurationDoubles
  <2> QED
    BY <1>2, <2>2, EntriesTyped
<1>5. L \in Nat /\ btNow \in Nat /\ btNow # 0 /\ MaxLog \in Nat
  BY <1>2, EntriesTyped, BtConstants DEF BtTypes
<1>6. e \in BtEntry /\ e.at = btNow /\ e.kind = "ban"
  <2> HIDE DEF until
  <2> QED
    BY <1>4, <1>5 DEF BtEntry
<1> HIDE DEF until
<1>7. /\ log' \in Seq(BtEntry) /\ Len(log') = L + 1
      /\ (\A i \in 1..L : log'[i] = log[i]) /\ log'[L + 1] = e
  <2> HIDE DEF e
  <2> QED
    BY <1>1, <1>2, <1>6, AppendFacts
<1>8. st'.failures = <<>> /\ st'.lastBan = btNow /\ st'.bans = EarlierBans + 1
  BY <1>1
<1>9. BtTypes'
  <2>1. st' \in [failures : Seq(Nat), bans : Nat, lastBan : Nat, bannedUntil : Nat, present : BOOLEAN]
    <3>1. EarlierBans + 1 \in Nat /\ <<>> \in Seq(Nat)
      BY <1>3
    <3> QED
      BY <1>1, <1>4, <1>5, <3>1
  <2>2. L + 1 <= MaxLog
    BY <1>1, <1>5
  <2> HIDE DEF e, L
  <2> QED
    BY <1>1, <1>2, <1>7, <2>1, <2>2 DEF BtTypes
<1>10. LogInOrder'
  BY <1>1, <1>2, <1>6, AppendInOrder
<1>11. FailuresLogged'
  BY <1>1, <1>2, <1>6, <1>8, ClosingEntry
<1>12. BansLogged'
  <2>1. PICK b : b = L + 1
    OBVIOUS
  <2>2. IsBan(log', b) /\ log'[b].at = btNow
    BY <1>6, <1>7, <2>1 DEF IsBan
  <2>3. Chain(log', L + 1) = Spell \cup {L + 1}
    <3> HIDE DEF e
    <3> QED
      BY <1>2, <1>7, <2>1, <2>2, ChainGrows
  <2>4. L + 1 \notin Spell
    BY <1>2, <1>5, SpellIs
  <2>5. Cardinality(Chain(log', b)) = Cardinality(Spell) + 1
    BY <1>3, <2>1, <2>3, <2>4, FS_AddElement
  <2>6. \A j \in (b + 1)..Len(log') : FALSE
    BY <1>5, <1>7, <2>1
  <2>7. LatestBan(b)'
    BY <1>3, <1>8, <2>2, <2>5, <2>6 DEF LatestBan, At
  <2>8. b \in 1..Len(log')
    BY <1>5, <1>7, <2>1
  <2> QED
    BY <1>5, <1>8, <2>7, <2>8 DEF BansLogged
<1> QED
  BY <1>9, <1>10, <1>11, <1>12 DEF BtIInv

LEMMA ImportInv ==
  ASSUME BtIInv, Import
  PROVE  BtIInv'
<1>1. PICK until \in (btNow + 1)..BtMaxTime :
         st' = [st EXCEPT !.present = TRUE, !.bannedUntil = IF until > @ THEN until ELSE @]
  BY DEF Import
<1>2. UNCHANGED <<pol, btNow, log, widened>>
  BY DEF Import
<1>3. btNow \in Nat /\ BtMaxTime \in Nat
  BY EntriesTyped, BtConstants DEF BtIInv
<1>4. until \in Nat
  BY <1>3
<1>5. st' \in [failures : Seq(Nat), bans : Nat, lastBan : Nat, bannedUntil : Nat, present : BOOLEAN]
  BY <1>1, <1>4 DEF BtIInv, BtTypes
<1>6. st'.failures = st.failures /\ st'.lastBan = st.lastBan /\ st'.bans = st.bans
  BY <1>1 DEF BtIInv, BtTypes
<1>7. BtTypes'
  BY <1>2, <1>5 DEF BtIInv, BtTypes
<1>8. LogInOrder'
  BY <1>2 DEF BtIInv, LogInOrder, At
<1>9. FailuresLogged'
  BY <1>2, <1>6 DEF BtIInv, FailuresLogged, Logged, RestOld, RecentlyFailed, At
<1>10. BansLogged'
  BY <1>2, <1>3, <1>6, BansStand
<1> QED
  BY <1>7, <1>8, <1>9, <1>10 DEF BtIInv

LEMMA UnbanInv ==
  ASSUME BtIInv, Unban
  PROVE  BtIInv'
<1> DEFINE L == Len(log)
           e == [kind |-> "unban", at |-> btNow, until |-> 0]
<1>1. /\ st' = BtAbsent /\ L < MaxLog /\ log' = Append(log, e) /\ UNCHANGED <<pol, btNow, widened>>
  BY DEF Unban, Record
<1>2. BtTypes /\ LogInOrder
  BY DEF BtIInv
<1>3. L \in Nat /\ btNow \in Nat /\ MaxLog \in Nat
  BY <1>2, EntriesTyped, BtConstants
<1>4. e \in BtEntry /\ e.at = btNow /\ e.kind # "failure" /\ e.kind = "unban"
  BY <1>3 DEF BtEntry
<1>5. log' \in Seq(BtEntry) /\ Len(log') = L + 1 /\ log'[L + 1] = e
  BY <1>1, <1>2, <1>4, AppendFacts
<1>6. st'.failures = <<>> /\ st'.lastBan = 0 /\ st'.bans = 0
  BY <1>1 DEF BtAbsent
<1>7. BtTypes'
  <2>1. st' \in [failures : Seq(Nat), bans : Nat, lastBan : Nat, bannedUntil : Nat, present : BOOLEAN]
    BY <1>1 DEF BtAbsent
  <2>2. L + 1 <= MaxLog
    BY <1>1, <1>3
  <2> HIDE DEF e, L
  <2> QED
    BY <1>1, <1>2, <1>5, <2>1, <2>2 DEF BtTypes
<1>8. LogInOrder'
  BY <1>1, <1>2, <1>4, AppendInOrder
<1>9. FailuresLogged'
  BY <1>1, <1>2, <1>4, <1>6, ClosingEntry
<1>10. BansLogged'
  <2>1. \A i \in 1..Len(log') : L + 1 \in i..Len(log')
    BY <1>3, <1>5
  <2>2. \A i \in 1..Len(log') : \E j \in i..Len(log') : log'[j].kind = "unban"
    BY <1>4, <1>5, <2>1
  <2>3. NoSpell'
    BY <2>2 DEF NoSpell
  <2> QED
    BY <1>6, <2>3 DEF BansLogged
<1> QED
  BY <1>7, <1>8, <1>9, <1>10 DEF BtIInv

\* Pruning forgets failures that do not count any more, and bans that lengthen
\* no later one: the log has no spell then.
LEMMA PruneInv ==
  ASSUME BtIInv, Prune
  PROVE  BtIInv'
<1> DEFINE L == Len(log)
           W == EscalationWindow
           Stays == st.bans > 0 /\ btNow - st.lastBan <= W
<1>1. /\ Kept = <<>> /\ UNCHANGED <<pol, btNow, log, widened>>
      /\ st' = IF Stays THEN [st EXCEPT !.failures = <<>>] ELSE BtAbsent
  BY DEF Prune
<1>2. BtTypes /\ LogInOrder /\ BansLogged
  BY DEF BtIInv
<1>3. L \in Nat /\ btNow \in Nat /\ W \in Nat /\ \A i \in 1..L : At(i) \in Nat
  BY <1>2, EntriesTyped
<1>4. st'.failures = <<>>
  BY <1>1, <1>2 DEF BtTypes, BtAbsent
<1>5. BtTypes'
  <2>1. st' \in [failures : Seq(Nat), bans : Nat, lastBan : Nat, bannedUntil : Nat, present : BOOLEAN]
    <3>1. [st EXCEPT !.failures = <<>>] \in [failures : Seq(Nat), bans : Nat, lastBan : Nat, bannedUntil : Nat, present : BOOLEAN]
      <4>1. <<>> \in Seq(Nat)
        OBVIOUS
      <4>2. PICK none \in Seq(Nat) : none = <<>>
        BY <4>1
      <4>3. [st EXCEPT !.failures = none] \in [failures : Seq(Nat), bans : Nat, lastBan : Nat, bannedUntil : Nat, present : BOOLEAN]
        BY <1>2 DEF BtTypes
      <4> QED
        BY <4>2, <4>3
    <3>2. BtAbsent \in [failures : Seq(Nat), bans : Nat, lastBan : Nat, bannedUntil : Nat, present : BOOLEAN]
      BY DEF BtAbsent
    <3> QED
      BY <1>1, <3>1, <3>2
  <2> QED
    BY <1>1, <1>2, <2>1 DEF BtTypes
<1>6. LogInOrder'
  BY <1>1, <1>2 DEF LogInOrder, At
<1>7. FailuresLogged'
  <2>1. Len(st'.failures) = 0 /\ Len(Kept) = 0
    BY <1>1, <1>4
  <2>2. Logged(st.failures)'
    <3>1. Len(st'.failures) <= Len(log') /\ \A k \in 1..Len(st'.failures) : FALSE
      BY <1>1, <1>3, <2>1
    <3> QED
      BY <3>1 DEF Logged
  <2>3. ~widened => RestOld(0)
    BY <2>1, KeptIsLogged
  <2>4. ~widened' => RestOld(Len(st.failures))'
    BY <1>1, <2>1, <2>3 DEF RestOld, RecentlyFailed, At
  <2> QED
    BY <2>2, <2>4 DEF FailuresLogged
<1>8. BansLogged'
  <2>1. CASE Stays
    <3>1. st'.lastBan = st.lastBan /\ st'.bans = st.bans
      BY <1>1, <1>2, <2>1 DEF BtTypes
    <3> QED
      BY <1>1, <1>3, <3>1, BansStand
  <2>2. CASE ~Stays
    <3>1. st'.lastBan = 0 /\ st'.bans = 0
      BY <1>1, <2>2 DEF BtAbsent
    <3>2. NoSpell
      <4>1. CASE st.lastBan = 0
        BY <1>2, <4>1 DEF BansLogged
      <4>2. CASE st.lastBan # 0
        <5>1. PICK b \in 1..L : LatestBan(b)
          BY <1>2, <4>2 DEF BansLogged
        <5>2. st.bans > 0
          <6>1. b \in Nat /\ b \in 1..b /\ b..b = {b} /\ \A j \in b..(b - 1) : FALSE
            BY <1>3
          <6>2. b \in Chain(log, b)
            BY <5>1, <6>1 DEF Chain, LatestBan, IsBan
          <6>3. IsFiniteSet(Chain(log, b))
            <7>1. IsFiniteSet(1..b)
              BY <6>1, FS_Interval
            <7>2. Chain(log, b) \in SUBSET (1..b)
              BY DEF Chain
            <7> QED
              BY <7>1, <7>2, FS_Subset
          <6>4. Cardinality(Chain(log, b)) # 0 /\ Cardinality(Chain(log, b)) \in Nat
            BY <6>2, <6>3, FS_EmptySet, FS_CardinalityType
          <6> QED
            BY <5>1, <6>4 DEF LatestBan
        <5>3. btNow - At(b) > W
          <6>1. st.lastBan \in Nat /\ st.lastBan = At(b)
            BY <1>2, <5>1 DEF BtTypes, LatestBan
          <6>2. ~(btNow - st.lastBan <= W)
            BY <2>2, <5>2
          <6> QED
            BY <1>3, <6>1, <6>2
        <5>4. ASSUME NEW i \in 1..L, IsBan(log, i) PROVE btNow - At(i) > W
          <6>1. i <= b \/ i \in (b + 1)..L
            BY <1>3
          <6>2. i \notin (b + 1)..L
            BY <5>1, <5>4 DEF LatestBan, IsBan
          <6>3. At(i) <= At(b)
            BY <1>2, <6>1, <6>2 DEF LogInOrder
          <6>4. At(i) \in Nat /\ At(b) \in Nat
            BY <1>3
          <6> QED
            BY <1>3, <5>3, <6>3, <6>4
        <5> QED
          BY <5>4 DEF NoSpell
      <4> QED
        BY <4>1, <4>2
    <3>3. NoSpell'
      BY <1>1, <3>2 DEF NoSpell, At
    <3> QED
      BY <3>1, <3>3 DEF BansLogged
  <2> QED
    BY <2>1, <2>2
<1> QED
  BY <1>5, <1>6, <1>7, <1>8 DEF BtIInv

LEMMA BtInitInv ==
  ASSUME BtInit
  PROVE  BtIInv
<1> DEFINE zero == [maxRetry |-> 0, findTime |-> 0, banTime |-> 0, banTimeMax |-> 0]
<1>1. st = BtAbsent /\ btNow = 1 /\ log = <<>> /\ widened = FALSE /\ pol = Normalized(zero)
  BY DEF BtInit
<1>2. /\ pol \in [maxRetry : Nat \ {0}, findTime : Nat \ {0}, banTime : Nat \ {0}, banTimeMax : Nat]
      /\ pol.banTime <= pol.banTimeMax
  <2>1. zero \in [maxRetry : Nat, findTime : Nat, banTime : Nat, banTimeMax : Nat]
    OBVIOUS
  <2> HIDE DEF zero
  <2> QED
    BY <1>1, <2>1, NormalizedTyped
<1>3. st \in [failures : Seq(Nat), bans : Nat, lastBan : Nat, bannedUntil : Nat, present : BOOLEAN]
  BY <1>1 DEF BtAbsent
<1>4. Len(log) = 0 /\ log \in Seq(BtEntry) /\ 0 <= MaxLog /\ 1 \in 1..BtMaxTime
  BY <1>1, BtConstants
<1> HIDE DEF zero
<1>5. BtTypes
  BY <1>1, <1>2, <1>3, <1>4 DEF BtTypes
<1>6. LogInOrder
  BY <1>4 DEF LogInOrder
<1>7. FailuresLogged
  <2>1. Len(st.failures) = 0
    BY <1>1 DEF BtAbsent
  <2>2. (\A i \in 1..0 : FALSE) /\ (\A i \in 1..(0 - 0) : FALSE) /\ 0 <= 0
    OBVIOUS
  <2> QED
    BY <1>4, <2>1, <2>2 DEF FailuresLogged, Logged, RestOld
<1>8. BansLogged
  <2>1. st.lastBan = 0 /\ st.bans = 0
    BY <1>1 DEF BtAbsent
  <2>2. \A i \in 1..0 : FALSE
    OBVIOUS
  <2> QED
    BY <1>4, <2>1, <2>2 DEF BansLogged, NoSpell
<1> QED
  BY <1>5, <1>6, <1>7, <1>8 DEF BtIInv

LEMMA BtStep ==
  ASSUME BtIInv, [BtNext]_btVars
  PROVE  BtIInv'
<1>1. CASE UNCHANGED btVars
  BY <1>1 DEF btVars, BtIInv, BtTypes, LogInOrder, FailuresLogged, Logged, RestOld, RecentlyFailed,
              BansLogged, NoSpell, LatestBan, At
<1>2. CASE ObserveBanned
  <2>1. UNCHANGED btVars
    BY <1>2 DEF ObserveBanned
  <2> QED
    BY <1>1, <2>1
<1> QED
  BY <1>1, <1>2, TickInv, SetPolicyInv, ObserveFailureInv, ObserveBanInv, ImportInv, UnbanInv, PruneInv DEF BtNext

\* The type invariant follows from the log: no count can exceed its length.
LEMMA BtTypesHold ==
  ASSUME BtIInv
  PROVE  BtTypeOK
<1>1. BtTypes /\ LogInOrder /\ FailuresLogged /\ BansLogged
  BY DEF BtIInv
<1>2. /\ Len(log) \in Nat /\ DOMAIN log = 1..Len(log) /\ btNow \in 1..BtMaxTime /\ btNow \in Nat
      /\ BtMaxTime \in Nat /\ MaxLog \in Nat /\ Len(log) <= MaxLog
  BY <1>1, EntriesTyped, BtConstants DEF BtTypes
<1>3. /\ st.present \in BOOLEAN /\ st.bannedUntil \in Nat /\ st.bans \in Nat /\ st.lastBan \in Nat
      /\ st.failures \in Seq(Nat)
  BY <1>1 DEF BtTypes
<1>4. st.failures \in Seq(1..BtMaxTime) /\ Len(st.failures) <= MaxLog
  <2> DEFINE f == st.failures
             n == Len(f)
  <2>1. n \in Nat /\ n <= Len(log)
    BY <1>1, <1>3 DEF FailuresLogged, Logged
  <2>0. \A k \in 1..n : At(Len(log) - n + k) = f[k]
    BY <1>1 DEF FailuresLogged, Logged
  <2>2. ASSUME NEW k \in 1..n PROVE f[k] \in 1..BtMaxTime
    <3>1. Len(log) - n + k \in 1..Len(log)
      BY <1>2, <2>1
    <3>2. f[k] \in 1..btNow
      BY <1>1, <2>0, <3>1 DEF LogInOrder
    <3> QED
      BY <1>2, <3>2
  <2>3. f \in Seq(1..BtMaxTime)
    <3>1. f \in [1..n -> 1..BtMaxTime]
      <4>1. f = [k \in 1..n |-> f[k]]
        BY <1>3
      <4> HIDE DEF f, n
      <4> QED
        BY <2>2, <4>1
    <3> HIDE DEF f, n
    <3>2. \A S, k : k \in Nat /\ f \in [1..k -> S] => f \in Seq(S)
      OBVIOUS
    <3> QED
      BY <2>1, <3>1, <3>2
  <2> QED
    BY <1>2, <2>1, <2>3
<1>5. st.bans \in 0..MaxLog /\ st.lastBan \in 0..BtMaxTime
  <2>1. CASE st.lastBan = 0
    BY <1>1, <1>2, <2>1 DEF BansLogged
  <2>2. CASE st.lastBan # 0
    <3>1. PICK b \in 1..Len(log) : LatestBan(b)
      BY <1>1, <2>2 DEF BansLogged
    <3>2. At(b) \in 1..btNow /\ st.lastBan = At(b)
      BY <1>1, <3>1 DEF LogInOrder, LatestBan
    <3>3. b \in Nat /\ IsFiniteSet(1..b) /\ Cardinality(1..b) = b /\ b <= Len(log)
      <4>1. b \in Nat /\ b \in Int /\ 1 \in Int /\ b <= Len(log) /\ (IF 1 > b THEN 0 ELSE b - 1 + 1) = b
        BY <1>2
      <4> QED
        BY <4>1, FS_Interval
    <3>4. Chain(log, b) \in SUBSET (1..b)
      BY DEF Chain
    <3>5. Cardinality(Chain(log, b)) <= b
      BY <3>3, <3>4, FS_Subset
    <3>6. st.bans <= b
      BY <3>1, <3>5 DEF LatestBan
    <3> QED
      BY <1>2, <1>3, <3>2, <3>3, <3>6
  <2> QED
    BY <2>1, <2>2
<1>6. \A i \in DOMAIN log : log[i].kind \in {"failure", "ban", "unban"} /\ At(i) \in 1..btNow
  <2>1. \A i \in 1..Len(log) : log[i].kind \in {"failure", "ban", "unban"}
    BY <1>1, EntriesTyped DEF BtEntry
  <2>2. \A i \in 1..Len(log) : At(i) \in 1..btNow
    BY <1>1 DEF LogInOrder
  <2> QED
    BY <1>2, <2>1, <2>2
<1>7. /\ widened \in BOOLEAN /\ pol.banTime <= pol.banTimeMax
      /\ pol \in [maxRetry : Nat \ {0}, findTime : Nat \ {0}, banTime : Nat \ {0}, banTimeMax : Nat]
  BY <1>1 DEF BtTypes
<1> QED
  BY <1>2, <1>3, <1>4, <1>5, <1>6, <1>7 DEF BtTypeOK

\* What a step of the tracker adds to the log.
LEMMA NewEntries ==
  ASSUME BtIInv, [BtNext]_btVars
  PROVE  /\ NewEntry("ban") => ObserveBan
         /\ NewEntry("failure") => ObserveFailure
<1>1. log \in Seq(BtEntry) /\ Len(log) \in Nat
  BY EntriesTyped DEF BtIInv, BtTypes
<1>2. CASE UNCHANGED log
  BY <1>1, <1>2 DEF NewEntry
<1>3. CASE Unban
  <2> DEFINE e == [kind |-> "unban", at |-> btNow, until |-> 0]
  <2>1. log' = Append(log, e)
    BY <1>3 DEF Unban, Record
  <2>2. log'[Len(log')].kind = "unban"
    BY <1>1, <2>1
  <2> QED
    BY <2>2 DEF NewEntry
<1>4. CASE ObserveFailure
  <2> DEFINE e == [kind |-> "failure", at |-> btNow, until |-> 0]
  <2>1. log' = Append(log, e)
    BY <1>4 DEF ObserveFailure, Record
  <2>2. log'[Len(log')].kind = "failure"
    BY <1>1, <2>1
  <2> QED
    BY <1>4, <2>2 DEF NewEntry
<1>5. CASE ObserveBan
  <2> DEFINE e == [kind |-> "ban", at |-> btNow, until |-> btNow + Duration(pol, EarlierBans)]
  <2>1. log' = Append(log, e)
    BY <1>5 DEF ObserveBan, Record
  <2>2. log'[Len(log')].kind = "ban"
    BY <1>1, <2>1
  <2> QED
    BY <1>5, <2>2 DEF NewEntry
<1>6. Tick \/ SetPolicy \/ ObserveBanned \/ Import \/ Prune => UNCHANGED log
  BY DEF Tick, SetPolicy, ObserveBanned, Import, Prune, btVars
<1>7. UNCHANGED btVars => UNCHANGED log
  BY DEF btVars
<1> QED
  BY <1>2, <1>3, <1>4, <1>5, <1>6, <1>7 DEF BtNext

-----------------------------------------------------------------------------
\* The inductive invariant of the tracker.
THEOREM BtIInvHolds == BtSpec => []BtIInv
<1>1. BtInit => BtIInv
  BY BtInitInv
<1>2. BtIInv /\ [BtNext]_btVars => BtIInv'
  BY BtStep
<1> QED
  BY <1>1, <1>2, PTL DEF BtSpec

(***************************************************************************)
(* Whatever Observe, Import, Unban, Prune and SetPolicy have done, every   *)
(* decision of the tracker is the one its whole past calls for: a ban has  *)
(* its failures, no ban is missed unless the window was made longer, and   *)
(* its length counts exactly the bans of the current spell.                *)
(***************************************************************************)
THEOREM DecisionsAreExact == BtSpec => DecisionsMatchLog
<1>1. ASSUME BtIInv, [BtNext]_btVars
      PROVE  BtTypeOK /\ BansOnEvidence /\ NoMissedBan /\ EscalationIsExact
  <2>1. BtTypeOK
    BY <1>1, BtTypesHold
  <2>2. /\ Len(Kept) \in Nat /\ Cardinality(Evidence) \in Nat /\ Len(Kept) <= Cardinality(Evidence)
        /\ (~widened => Cardinality(Evidence) <= Len(Kept)) /\ pol.maxRetry \in Nat
    BY <1>1, KeptCounts DEF BtIInv, BtTypes
  <2>3. BansOnEvidence
    <3> SUFFICES ASSUME NewEntry("ban") PROVE Cardinality(Evidence) + 1 >= pol.maxRetry
      BY DEF BansOnEvidence
    <3>1. Len(Kept) + 1 >= pol.maxRetry
      BY <1>1, NewEntries DEF ObserveBan
    <3> QED
      BY <2>2, <3>1
  <2>4. NoMissedBan
    <3> SUFFICES ASSUME NewEntry("failure"), ~widened PROVE Cardinality(Evidence) + 1 < pol.maxRetry
      BY DEF NoMissedBan
    <3>1. Len(Kept) + 1 < pol.maxRetry
      BY <1>1, NewEntries DEF ObserveFailure
    <3> QED
      BY <2>2, <3>1
  <2>5. EscalationIsExact
    <3> DEFINE d == Duration(pol, EarlierBans)
               e == [kind |-> "ban", at |-> btNow, until |-> btNow + d]
               full == Doubled(pol.banTime, Cardinality(Spell))
    <3> SUFFICES ASSUME NewEntry("ban")
                 PROVE  log'[Len(log')].until - log'[Len(log')].at = IF full > pol.banTimeMax THEN pol.banTimeMax ELSE full
      BY DEF EscalationIsExact
    <3>1. log' = Append(log, e)
      BY <1>1, NewEntries DEF ObserveBan, Record
    <3>2. log'[Len(log')] = e
      <4>1. log \in Seq(BtEntry)
        BY <1>1 DEF BtIInv, BtTypes
      <4> HIDE DEF e
      <4> QED
        BY <3>1, <4>1
    <3>3. EarlierBans = Cardinality(Spell) /\ EarlierBans \in Nat
      BY <1>1, SpellCounts, SpellFinite DEF BtIInv
    <3>4. pol.banTime \in Nat /\ pol.banTimeMax \in Nat /\ btNow \in Nat
      BY <1>1, EntriesTyped DEF BtIInv, BtTypes
    <3>5. d \in Nat /\ d = Capped(full, pol)
      BY <3>3, <3>4, DurationDoubles
    <3>6. e.until - e.at = d
      <4> HIDE DEF d
      <4> QED
        BY <3>4, <3>5
    <3> HIDE DEF d, e, full
    <3> QED
      BY <3>2, <3>5, <3>6 DEF Capped
  <2> QED
    BY <2>1, <2>3, <2>4, <2>5
<1>2. [BtNext]_btVars /\ BtIInv => [BtTypeOK /\ BansOnEvidence /\ NoMissedBan /\ EscalationIsExact]_btVars
  BY <1>1
<1> QED
  BY <1>2, BtIInvHolds, PTL DEF BtSpec, DecisionsMatchLog

-----------------------------------------------------------------------------
(***************************************************************************)
(* The log source, for every length of a year and a day, any number of     *)
(* seeded lines, any texts, and every order of lines, rotations, copies,   *)
(* truncations, restarts, modes and clocks that are set back.              *)
(*                                                                         *)
(* That no line is emitted twice is not inductive: a file that is reopened *)
(* is read from its start, and only the cursor keeps what was emitted from *)
(* being emitted again.  The invariant says of the cursor that it rejects  *)
(* all of that, wherever the source may meet it (EmittedCovered), and that *)
(* it is not ahead of what is to come (CursorBehind).  What is to come is  *)
(* everything not dealt with (LinesAhead), and a later file has of the     *)
(* earlier lines only what the earlier file has (FilesNested), so that a   *)
(* reopened file brings nothing the cursor does not know.                  *)
(***************************************************************************)

\* The lines of the log that s has, and those it has after the k-th.
IdsOf(s) == {s[k].id : k \in 1..Len(s)}
Rest(s, k) == {s[j].id : j \in (k + 1)..Len(s)}

\* Lines of the log L, in the order they were written.
FromLog(s, L) ==
  /\ \A k \in 1..Len(s) : s[k].id \in 1..Len(L) /\ s[k] = L[s[k].id]
  /\ \A j, k \in 1..Len(s) : j < k => s[j].id < s[k].id

\* What a line may say.
BsWords == {t.text : t \in BsTexts}

BsLine == [id : Nat, when : Nat, kind : {"failure", "probe"}, text : BsWords]
BsDigests == (0..(BsYear - 1)) \X BsWords

FilesTyped ==
  /\ bsLog \in Seq(BsLine) /\ Len(bsLog) <= BsMaxLines
  /\ \A id \in 1..Len(bsLog) : bsLog[id].id = id
  /\ bsInodes \in Seq(Seq(BsLine)) /\ bsPipe \in Seq(BsLine)
  /\ \A i \in 1..BsCur : FromLog(bsInodes[i], bsLog) /\ Len(bsInodes[i]) <= Len(bsLog)
  /\ FromLog(bsPipe, bsLog)
  /\ bsWriter \in 1..BsCur

BsFds == [pc : {"off", "journal", "open", "read", "check"}, inode : 0..BsCur, pos : 0..Len(bsLog)]

SourceTyped ==
  /\ bsFd \in BsFds
  /\ Reading => bsFd.inode # 0
  /\ bsFd.pc # "journal" => bsPipe = <<>>
  /\ bsJournal \in {"unavailable", "ok"}
  /\ bsClock \in 1..(BsMaxClock + 1)
  /\ bsLatest \in 0..(BsMaxClock + BsYear) /\ bsSeen \in SUBSET BsDigests
  /\ bsEmitted \in Seq(1..Len(bsLog)) /\ DOMAIN bsMissed \subseteq 1..Len(bsLog)
  /\ bsBack \in BOOLEAN /\ bsMisdated \in BOOLEAN /\ bsUnseeded \in BOOLEAN

\* While the clock is not set back, lines are written in the order of their times.
TimesInOrder ==
  ~bsBack =>
     /\ \A i \in 1..Len(bsLog) : bsLog[i].when <= bsClock
     /\ \A i, j \in 1..Len(bsLog) : i <= j => bsLog[i].when <= bsLog[j].when

\* What a later file has of the lines up to the last one of an earlier file is
\* in the earlier file as well: it is a copy of it, or was begun after it.
FilesNested ==
  /\ \A i, j \in 1..BsCur : i < j =>
       \A p \in IdsOf(bsInodes[j]), x \in IdsOf(bsInodes[i]) : p <= x => p \in IdsOf(bsInodes[i])
  /\ \A j \in 1..BsCur : bsWriter < j => IdsOf(bsInodes[j]) \subseteq IdsOf(bsInodes[bsWriter])

Handled == Range(bsEmitted) \cup DOMAIN bsMissed

\* What lies ahead of the source: what it has not read of its file, and later files.
Coming(id) ==
  \/ id \in Unread
  \/ \E i \in 1..BsCur : bsFd.inode < i /\ id \in IdsOf(bsInodes[i])

\* A line that is not dealt with lies ahead, in the pipe or in the files.
LinesAhead ==
  /\ \A id \in 1..Len(bsLog) \ Handled :
       /\ bsFd.pc \notin {"off", "open"}
       /\ bsFd.pc = "journal" => id \in IdsOf(bsPipe)
       /\ Reading => Coming(id)
  /\ IdsOf(bsPipe) \cap Range(bsEmitted) = {}
  /\ Reading /\ bsFd.pos <= Len(bsInodes[bsFd.inode]) =>
       \A k \in 1..bsFd.pos : bsInodes[bsFd.inode][k].id \in Handled

\* The cursor is not ahead of what is to come, and knows only lines dealt with.
CursorBehind ==
  Reading =>
    /\ ~bsBack /\ ~bsMisdated =>
         bsLatest <= bsClock /\ \A id \in 1..Len(bsLog) \ Handled : bsLatest <= bsLog[id].when
    /\ \A s \in bsSeen : \E id \in Handled :
         bsLog[id].text = s[2] /\ (bsLog[id].when = bsLatest \/ bsMisdated)

\* A cursor rejects a line.
Rejects(latest, known, line) == line.when < latest \/ (line.when = latest /\ Digest(line) \in known)

\* It rejects what was emitted, wherever the source may meet it again.
EmittedCovered ==
  Reading /\ ~bsMisdated /\ ~bsUnseeded =>
    \A i \in 1..BsCur : bsFd.inode <= i =>
       \A id \in IdsOf(bsInodes[i]) \cap Range(bsEmitted) : Rejects(bsLatest, bsSeen, bsLog[id])

BsIInv ==
  /\ FilesTyped /\ SourceTyped /\ TimesInOrder /\ FilesNested /\ LinesAhead
  /\ CursorBehind /\ EmittedCovered /\ EmittedOnce /\ RejectedForCause

\* What is assumed of the constants.
LEMMA BsSizes ==
  /\ BsYear \in Nat /\ BsYear >= 1 /\ BsDay \in Nat /\ BsSeedLines \in Nat /\ BsMaxLines \in Nat /\ BsMaxClock \in Nat
  /\ \A t \in BsTexts : t.kind \in {"failure", "probe"} /\ t.text \in BsWords
BY BsAssumption DEF BsWords

LEMMA InRange ==
  ASSUME NEW S, NEW s \in Seq(S), NEW x
  PROVE  /\ x \in Range(s) <=> \E i \in 1..Len(s) : s[i] = x
         /\ Range(s) \in SUBSET S
BY DEF Range

LEMMA RangeAppend ==
  ASSUME NEW S, NEW s \in Seq(S), NEW x \in S
  PROVE  Range(Append(s, x)) = Range(s) \cup {x}
<1>1. Append(s, x) \in Seq(S) /\ Len(Append(s, x)) = Len(s) + 1 /\ Len(s) \in Nat
  OBVIOUS
<1>2. ASSUME NEW y PROVE y \in Range(Append(s, x)) <=> y \in Range(s) \cup {x}
  <2>1. (\E i \in 1..Len(Append(s, x)) : Append(s, x)[i] = y) <=> (\E i \in 1..Len(s) : s[i] = y) \/ y = x
    <3>1. \A i \in 1..Len(s) : Append(s, x)[i] = s[i]
      OBVIOUS
    <3>2. Append(s, x)[Len(s) + 1] = x
      OBVIOUS
    <3>3. \A i \in 1..Len(Append(s, x)) : i \in 1..Len(s) \/ i = Len(s) + 1
      BY <1>1
    <3>4. Len(s) + 1 \in 1..Len(Append(s, x)) /\ \A i \in 1..Len(s) : i \in 1..Len(Append(s, x))
      BY <1>1
    <3> QED
      BY <3>1, <3>2, <3>3, <3>4
  <2>2. y \in Range(Append(s, x)) <=> \E i \in 1..Len(Append(s, x)) : Append(s, x)[i] = y
    <3> DEFINE t == Append(s, x)
    <3>1. t \in Seq(S)
      BY <1>1
    <3> HIDE DEF t
    <3>2. y \in Range(t) <=> \E i \in 1..Len(t) : t[i] = y
      BY <3>1, InRange
    <3> QED
      BY <3>2 DEF t
  <2>3. y \in Range(s) <=> \E i \in 1..Len(s) : s[i] = y
    BY InRange
  <2> QED
    BY <2>1, <2>2, <2>3
<1> QED
  BY <1>2

\* Who is left out is recorded, unless it was emitted, and keeps its first reason.
LEMMA MissIs ==
  ASSUME NEW ids, NEW why, Miss(ids, why)
  PROVE  /\ DOMAIN bsMissed' = DOMAIN bsMissed \cup (ids \ Range(bsEmitted))
         /\ \A id \in DOMAIN bsMissed : bsMissed'[id] = bsMissed[id]
         /\ \A id \in DOMAIN bsMissed' : id \notin DOMAIN bsMissed => bsMissed'[id] = why
BY DEF Miss

LEMMA MissHandles ==
  ASSUME NEW ids, NEW why, Miss(ids, why), bsEmitted' = bsEmitted
  PROVE  Handled' = Handled \cup ids
BY MissIs DEF Handled

LEMMA FilesAre ==
  ASSUME FilesTyped
  PROVE  /\ bsLog \in Seq(BsLine) /\ Len(bsLog) \in Nat /\ BsCur \in Nat /\ BsCur >= 1
         /\ \A id \in 1..Len(bsLog) : bsLog[id] \in BsLine /\ bsLog[id].id = id
         /\ DOMAIN bsInodes = 1..BsCur
         /\ \A i \in 1..BsCur : /\ bsInodes[i] \in Seq(BsLine) /\ Len(bsInodes[i]) \in Nat
                                /\ DOMAIN bsInodes[i] = 1..Len(bsInodes[i])
                                /\ FromLog(bsInodes[i], bsLog) /\ IdsOf(bsInodes[i]) \in SUBSET (1..Len(bsLog))
         /\ DOMAIN bsLog = 1..Len(bsLog)
<1>1. bsInodes \in Seq(Seq(BsLine)) /\ bsWriter \in 1..Len(bsInodes)
  BY DEF FilesTyped, BsCur
<1>2. Len(bsInodes) \in Nat /\ Len(bsInodes) >= 1 /\ DOMAIN bsInodes = 1..Len(bsInodes)
  BY <1>1
<1>3. \A i \in 1..BsCur : bsInodes[i] \in Seq(BsLine) /\ FromLog(bsInodes[i], bsLog)
  BY <1>1 DEF FilesTyped, BsCur
<1>4. ASSUME NEW i \in 1..BsCur
      PROVE  /\ Len(bsInodes[i]) \in Nat /\ DOMAIN bsInodes[i] = 1..Len(bsInodes[i])
             /\ IdsOf(bsInodes[i]) \in SUBSET (1..Len(bsLog))
  BY <1>3 DEF FromLog, IdsOf
<1>5. bsLog \in Seq(BsLine) /\ \A id \in 1..Len(bsLog) : bsLog[id].id = id
  BY DEF FilesTyped
<1>6. Len(bsLog) \in Nat /\ DOMAIN bsLog = 1..Len(bsLog) /\ \A id \in 1..Len(bsLog) : bsLog[id] \in BsLine
  BY <1>5
<1> QED
  BY <1>2, <1>3, <1>4, <1>5, <1>6 DEF BsCur

LEMMA PartIs ==
  ASSUME NEW s \in Seq(BsLine), NEW k \in Nat
  PROVE  {s[j].id : j \in {n \in DOMAIN s : n > k}} = Rest(s, k) /\ Rest(s, 0) = IdsOf(s)
<1>1. DOMAIN s = 1..Len(s) /\ Len(s) \in Nat
  OBVIOUS
<1>2. {n \in DOMAIN s : n > k} = (k + 1)..Len(s)
  BY <1>1
<1>3. 0 + 1 = 1
  OBVIOUS
<1> QED
  BY <1>2, <1>3 DEF Rest, IdsOf

LEMMA SeqWider ==
  ASSUME NEW S, NEW T, S \subseteq T, NEW s \in Seq(S)
  PROVE  s \in Seq(T)
OBVIOUS

\* The model's ids of a file, and of its unread part.
LEMMA IdsFromIs ==
  ASSUME FilesTyped, NEW i \in 1..BsCur, NEW k \in Nat
  PROVE  IdsFrom(i, k) = Rest(bsInodes[i], k) /\ IdsFrom(i, 0) = IdsOf(bsInodes[i])
BY FilesAre, PartIs DEF IdsFrom

LEMMA UnreadIs ==
  ASSUME FilesTyped, SourceTyped, Reading
  PROVE  LET s == bsInodes[bsFd.inode]
         IN /\ bsFd.inode \in 1..BsCur /\ bsFd.pos \in Nat
            /\ bsFd.pos <= Len(s) => Unread = Rest(s, bsFd.pos)
            /\ bsFd.pos > Len(s) => Unread = IdsOf(s)
            /\ Unread \in SUBSET IdsOf(s)
<1> DEFINE s == bsInodes[bsFd.inode]
<1>1. bsFd.inode \in 0..BsCur /\ bsFd.inode # 0 /\ bsFd.pos \in 0..Len(bsLog)
  BY DEF SourceTyped, BsFds
<1>2. bsFd.inode \in 1..BsCur /\ bsFd.pos \in Nat
  BY <1>1, FilesAre
<1>3. Len(s) \in Nat
  BY <1>2, FilesAre
<1>4. bsFd.pos <= Len(s) => Unread = Rest(s, bsFd.pos)
  BY <1>2, <1>3, IdsFromIs DEF Unread
<1>5. bsFd.pos > Len(s) => Unread = IdsOf(s)
  BY <1>2, <1>3, IdsFromIs DEF Unread
<1>6. Rest(s, bsFd.pos) \in SUBSET IdsOf(s)
  BY <1>2, <1>3 DEF Rest, IdsOf
<1>7. bsFd.pos <= Len(s) \/ bsFd.pos > Len(s)
  BY <1>2, <1>3
<1> QED
  BY <1>2, <1>4, <1>5, <1>6, <1>7

\* A line that is written last is the last of its file.
LEMMA AppendLine ==
  ASSUME NEW L \in Seq(BsLine), NEW line \in BsLine, line.id = Len(L) + 1
  PROVE  /\ Append(L, line) \in Seq(BsLine) /\ Len(Append(L, line)) = Len(L) + 1
         /\ \A i \in 1..Len(L) : Append(L, line)[i] = L[i]
         /\ Append(L, line)[Len(L) + 1] = line
         /\ \A s \in Seq(BsLine) : FromLog(s, L) => FromLog(s, Append(L, line))
         /\ \A s \in Seq(BsLine) : FromLog(s, L) =>
               /\ FromLog(Append(s, line), Append(L, line)) /\ Append(s, line) \in Seq(BsLine)
               /\ Len(Append(s, line)) = Len(s) + 1
               /\ IdsOf(Append(s, line)) = IdsOf(s) \cup {Len(L) + 1}
               /\ \A k \in 1..Len(s) : Append(s, line)[k] = s[k]
               /\ \A k \in 0..Len(s) : Rest(Append(s, line), k) = Rest(s, k) \cup {Len(L) + 1}
<1> DEFINE M == Append(L, line)
<1>1. /\ M \in Seq(BsLine) /\ Len(M) = Len(L) + 1 /\ Len(L) \in Nat
      /\ \A i \in 1..Len(L) : M[i] = L[i] /\ i \in 1..Len(M)
      /\ M[Len(L) + 1] = line /\ Len(L) + 1 \in 1..Len(M)
  OBVIOUS
<1> HIDE DEF M
<1>2. ASSUME NEW s \in Seq(BsLine), FromLog(s, L) PROVE FromLog(s, M)
  BY <1>1, <1>2 DEF FromLog
<1>3. ASSUME NEW s \in Seq(BsLine), FromLog(s, L)
      PROVE  /\ FromLog(Append(s, line), M) /\ Append(s, line) \in Seq(BsLine)
             /\ Len(Append(s, line)) = Len(s) + 1
             /\ IdsOf(Append(s, line)) = IdsOf(s) \cup {Len(L) + 1}
             /\ \A k \in 1..Len(s) : Append(s, line)[k] = s[k]
             /\ \A k \in 0..Len(s) : Rest(Append(s, line), k) = Rest(s, k) \cup {Len(L) + 1}
  <2> DEFINE t == Append(s, line)
             n == Len(s)
  <2>1. /\ t \in Seq(BsLine) /\ Len(t) = n + 1 /\ n \in Nat /\ t[n + 1] = line
        /\ \A k \in 1..n : t[k] = s[k]
    OBVIOUS
  <2> HIDE DEF t, n
  <2>2. \A k \in 1..(n + 1) : k \in 1..n \/ k = n + 1
    BY <2>1
  <2>3. \A k \in 1..n : s[k].id \in 1..Len(L) /\ s[k] = L[s[k].id]
    BY <1>3 DEF FromLog, n
  <2>4. ASSUME NEW k \in 1..(n + 1) PROVE t[k].id \in 1..Len(M) /\ t[k] = M[t[k].id]
    <3>1. CASE k \in 1..n
      BY <1>1, <2>1, <2>3, <3>1
    <3>2. CASE k = n + 1
      BY <1>1, <2>1, <3>2
    <3> QED
      BY <2>2, <3>1, <3>2
  <2>5. ASSUME NEW j \in 1..(n + 1), NEW k \in 1..(n + 1), j < k PROVE t[j].id < t[k].id
    <3>1. j \in 1..n
      BY <2>1, <2>5
    <3>2. CASE k \in 1..n
      BY <1>3, <2>1, <2>5, <3>1, <3>2 DEF FromLog, n
    <3>3. CASE k = n + 1
      <4>1. t[k].id = Len(L) + 1
        BY <2>1, <3>3
      <4>2. t[j].id \in 1..Len(L)
        BY <2>1, <2>3, <3>1
      <4> QED
        BY <1>1, <4>1, <4>2
    <3> QED
      BY <2>2, <3>2, <3>3
  <2>6. FromLog(t, M)
    BY <2>1, <2>4, <2>5 DEF FromLog
  <2>7. \A k \in 0..n : Rest(t, k) = Rest(s, k) \cup {Len(L) + 1}
    <3> SUFFICES ASSUME NEW k \in 0..n PROVE Rest(t, k) = Rest(s, k) \cup {Len(L) + 1}
      OBVIOUS
    <3>1. (k + 1)..Len(t) = ((k + 1)..n) \cup {n + 1}
      BY <2>1
    <3>2. \A j \in (k + 1)..n : t[j] = s[j]
      BY <2>1
    <3>3. Rest(s, k) = {s[j].id : j \in (k + 1)..n}
      BY DEF Rest, n
    <3>4. t[n + 1].id = Len(L) + 1
      BY <2>1
    <3> QED
      BY <3>1, <3>2, <3>3, <3>4 DEF Rest
  <2>8. \A u : IdsOf(u) = Rest(u, 0)
    BY DEF IdsOf, Rest
  <2>9. 0 \in 0..n
    BY <2>1
  <2> QED
    BY <2>1, <2>6, <2>7, <2>8, <2>9 DEF t, n
<1> QED
  BY <1>1, <1>2, <1>3 DEF M

\* What is left of the pipe when its first line is taken.
LEMMA TakeLine ==
  ASSUME NEW L, NEW s \in Seq(BsLine), s # <<>>, FromLog(s, L)
  PROVE  /\ FromLog(Tail(s), L) /\ Tail(s) \in Seq(BsLine)
         /\ Head(s) \in BsLine /\ Head(s).id \in 1..Len(L) /\ Head(s) = L[Head(s).id]
         /\ IdsOf(s) = IdsOf(Tail(s)) \cup {Head(s).id}
         /\ Head(s).id \notin IdsOf(Tail(s))
<1> DEFINE t == Tail(s)
           n == Len(t)
           h == Head(s)
<1>1. /\ t \in Seq(BsLine) /\ n \in Nat /\ Len(s) = n + 1 /\ h = s[1] /\ 1 \in 1..Len(s)
      /\ \A k \in 1..n : t[k] = s[k + 1]
  OBVIOUS
<1>2. n = Len(t)
  OBVIOUS
<1> HIDE DEF t, n, h
<1>3. \A k \in 1..n : k + 1 \in 1..Len(s) /\ 1 < k + 1
  BY <1>1
<1>4. h.id \in 1..Len(L) /\ h = L[h.id] /\ h \in BsLine
  BY <1>1 DEF FromLog
<1>5. ASSUME NEW k \in 1..n
      PROVE  t[k].id \in 1..Len(L) /\ t[k] = L[t[k].id] /\ h.id < t[k].id /\ t[k] \in BsLine
  <2>1. k + 1 \in 1..Len(s) /\ 1 < k + 1 /\ t[k] = s[k + 1] /\ 1 \in 1..Len(s)
    BY <1>1, <1>3
  <2> QED
    BY <1>1, <2>1 DEF FromLog
<1>6. ASSUME NEW j \in 1..n, NEW k \in 1..n, j < k PROVE t[j].id < t[k].id
  <2>1. j + 1 \in 1..Len(s) /\ k + 1 \in 1..Len(s) /\ j + 1 < k + 1 /\ t[j] = s[j + 1] /\ t[k] = s[k + 1]
    BY <1>1, <1>3, <1>6
  <2> QED
    BY <2>1 DEF FromLog
<1>7. IdsOf(s) = IdsOf(t) \cup {h.id}
  <2>1. IdsOf(t) = {t[k].id : k \in 1..n}
    BY <1>2 DEF IdsOf
  <2>2. \A k \in 1..Len(s) : k = 1 \/ (k - 1 \in 1..n /\ t[k - 1] = s[k])
    BY <1>1
  <2>3. \A k \in 1..n : t[k] = s[k + 1] /\ k + 1 \in 1..Len(s)
    BY <1>1, <1>3
  <2>4. ASSUME NEW k \in 1..Len(s) PROVE s[k].id \in IdsOf(t) \cup {h.id}
    <3>1. CASE k = 1
      BY <1>1, <3>1
    <3>2. CASE k - 1 \in 1..n /\ t[k - 1] = s[k]
      BY <2>1, <3>2
    <3> QED
      BY <2>2, <3>1, <3>2
  <2>5. ASSUME NEW k \in 1..n PROVE t[k].id \in IdsOf(s)
    BY <2>3 DEF IdsOf
  <2>6. h.id \in IdsOf(s)
    BY <1>1 DEF IdsOf
  <2>7. IdsOf(s) \subseteq IdsOf(t) \cup {h.id}
    BY <2>4 DEF IdsOf
  <2>8. IdsOf(t) \subseteq IdsOf(s)
    BY <2>1, <2>5
  <2> QED
    BY <2>6, <2>7, <2>8
<1>8. h.id \notin IdsOf(t)
  <2>1. h.id \in Nat /\ \A k \in 1..n : t[k].id \in Nat /\ h.id < t[k].id
    BY <1>4, <1>5 DEF BsLine
  <2>2. \A k \in 1..n : t[k].id # h.id
    BY <2>1
  <2> QED
    BY <1>2, <2>2 DEF IdsOf
<1>9. FromLog(t, L)
  BY <1>2, <1>5, <1>6 DEF FromLog
<1> QED
  BY <1>1, <1>4, <1>7, <1>8, <1>9 DEF t, h

\* What a step leaves alone keeps its part of the invariant.
LEMMA BsFrames ==
  ASSUME BsIInv
  PROVE  /\ UNCHANGED <<bsLog, bsInodes, bsPipe, bsWriter>> => FilesTyped'
         /\ UNCHANGED <<bsBack, bsLog, bsClock>> => TimesInOrder'
         /\ UNCHANGED <<bsInodes, bsWriter>> => FilesNested'
         /\ UNCHANGED <<bsMisdated, bsUnseeded, bsEmitted>> => EmittedOnce'
         /\ UNCHANGED <<bsMissed, bsBack, bsMisdated, bsLog>> => RejectedForCause'
         /\ UNCHANGED <<bsEmitted, bsMissed>> => Handled' = Handled
         /\ UNCHANGED <<bsInodes, bsFd>> => Unread' = Unread /\ Reading' = Reading
         /\ UNCHANGED <<bsFd, bsMisdated, bsUnseeded, bsInodes, bsEmitted, bsLatest, bsSeen, bsLog>> => EmittedCovered'
         /\ ~Reading' => CursorBehind' /\ EmittedCovered'
<1>1. UNCHANGED <<bsLog, bsInodes, bsPipe, bsWriter>> => FilesTyped'
  BY DEF BsIInv, FilesTyped, BsCur
<1>2. UNCHANGED <<bsBack, bsLog, bsClock>> => TimesInOrder'
  BY DEF BsIInv, TimesInOrder
<1>3. UNCHANGED <<bsInodes, bsWriter>> => FilesNested'
  BY DEF BsIInv, FilesNested, BsCur
<1>4. UNCHANGED <<bsMisdated, bsUnseeded, bsEmitted>> => EmittedOnce'
  BY DEF BsIInv, EmittedOnce
<1>5. UNCHANGED <<bsMissed, bsBack, bsMisdated, bsLog>> => RejectedForCause'
  BY DEF BsIInv, RejectedForCause, BsWritten
<1>6. UNCHANGED <<bsEmitted, bsMissed>> => Handled' = Handled
  BY DEF Handled
<1>7. UNCHANGED <<bsInodes, bsFd>> => Unread' = Unread /\ Reading' = Reading
  BY DEF Unread, IdsFrom, Reading
<1>8. UNCHANGED <<bsFd, bsMisdated, bsUnseeded, bsInodes, bsEmitted, bsLatest, bsSeen, bsLog>> => EmittedCovered'
  BY DEF BsIInv, EmittedCovered, Reading, BsCur
<1>9. ~Reading' => CursorBehind' /\ EmittedCovered'
  BY DEF CursorBehind, EmittedCovered
<1> QED
  BY <1>1, <1>2, <1>3, <1>4, <1>5, <1>6, <1>7, <1>8, <1>9

LEMMA BsTickKeeps == ASSUME BsIInv, BsTick PROVE BsIInv'
<1>1. /\ bsClock \in 1..(BsMaxClock + 1) /\ bsClock < BsMaxClock /\ bsClock' = bsClock + 1 /\ BsMaxClock \in Nat
      /\ UNCHANGED <<bsLog, bsWriter, bsInodes, bsJournal, bsPipe, bsFd, bsLatest, bsSeen, bsAggressive>>
      /\ UNCHANGED <<bsEmitted, bsMissed, bsFaults, bsBack, bsMisdated, bsUnseeded>>
  BY BsSizes DEF BsTick, BsIInv, SourceTyped
<1>2. bsClock' \in 1..(BsMaxClock + 1) /\ bsClock <= bsClock' /\ bsClock \in Nat /\ bsClock' \in Nat
  BY <1>1
<1>3. SourceTyped'
  BY <1>1, <1>2 DEF BsIInv, SourceTyped, BsFds, Reading, BsCur
<1>4. TimesInOrder'
  <2>1. \A i \in 1..Len(bsLog) : bsLog[i].when \in Nat
    BY FilesAre DEF BsIInv, BsLine
  <2>2. \A i \in 1..Len(bsLog) : bsLog[i].when <= bsClock => bsLog[i].when <= bsClock'
    BY <1>2, <2>1
  <2> QED
    BY <1>1, <2>2 DEF BsIInv, TimesInOrder
<1>5. LinesAhead'
  BY <1>1, BsFrames DEF BsIInv, LinesAhead, Coming, Reading, BsCur
<1>6. CursorBehind'
  <2>1. bsLatest \in Nat
    BY BsSizes DEF BsIInv, SourceTyped
  <2>2. bsLatest <= bsClock => bsLatest <= bsClock'
    BY <1>2, <2>1
  <2> QED
    BY <1>1, <2>2, BsFrames DEF BsIInv, CursorBehind, Reading
<1> QED
  BY <1>1, <1>3, <1>4, <1>5, <1>6, BsFrames DEF BsIInv

LEMMA BsClockBackKeeps == ASSUME BsIInv, BsClockBack PROVE BsIInv'
<1>1. /\ bsClock \in 1..(BsMaxClock + 1) /\ bsClock > 1 /\ bsClock' = bsClock - 1 /\ BsMaxClock \in Nat /\ bsBack'
      /\ UNCHANGED <<bsLog, bsWriter, bsInodes, bsJournal, bsPipe, bsFd, bsLatest, bsSeen, bsAggressive>>
      /\ UNCHANGED <<bsEmitted, bsMissed, bsMisdated, bsUnseeded>> /\ bsBack' \in BOOLEAN
  BY BsSizes DEF BsClockBack, BsIInv, SourceTyped
<1>2. bsClock' \in 1..(BsMaxClock + 1)
  BY <1>1
<1>3. SourceTyped'
  BY <1>1, <1>2 DEF BsIInv, SourceTyped, BsFds, Reading, BsCur
<1>4. TimesInOrder'
  BY <1>1 DEF TimesInOrder
<1>5. LinesAhead'
  BY <1>1, BsFrames DEF BsIInv, LinesAhead, Coming, Reading, BsCur
<1>6. CursorBehind'
  BY <1>1, BsFrames DEF BsIInv, CursorBehind, Reading
<1>7. RejectedForCause'
  BY <1>1 DEF BsIInv, RejectedForCause, BsWritten
<1> QED
  BY <1>1, <1>3, <1>4, <1>5, <1>6, <1>7, BsFrames DEF BsIInv

\* The mode and what the step of the goroutine before its first read leave alone.
LEMMA BsQuietKeeps ==
  ASSUME BsIInv, UNCHANGED <<bsLog, bsWriter, bsInodes, bsJournal, bsPipe, bsFd, bsLatest, bsSeen, bsClock>>,
         UNCHANGED <<bsEmitted, bsMissed, bsBack, bsMisdated, bsUnseeded>>
  PROVE  BsIInv'
<1>1. SourceTyped'
  BY DEF BsIInv, SourceTyped, BsFds, Reading, BsCur
<1>2. LinesAhead'
  BY BsFrames DEF BsIInv, LinesAhead, Coming, Reading, BsCur
<1>3. CursorBehind'
  BY BsFrames DEF BsIInv, CursorBehind, Reading
<1> QED
  BY <1>1, <1>2, <1>3, BsFrames DEF BsIInv

LEMMA BsReopenLogKeeps == ASSUME BsIInv, BsReopenLog PROVE BsIInv'
<1>1. /\ bsWriter' = BsCur
      /\ UNCHANGED <<bsLog, bsInodes, bsJournal, bsPipe, bsFd, bsLatest, bsSeen, bsAggressive, bsClock>>
      /\ UNCHANGED <<bsEmitted, bsMissed, bsFaults, bsBack, bsMisdated, bsUnseeded>>
  BY DEF BsReopenLog
<1>2. SourceTyped'
  BY <1>1 DEF BsIInv, SourceTyped, BsFds, Reading, BsCur
<1>3. LinesAhead'
  BY <1>1, BsFrames DEF BsIInv, LinesAhead, Coming, Reading, BsCur
<1>4. CursorBehind'
  BY <1>1, BsFrames DEF BsIInv, CursorBehind, Reading
<1>5. BsCur \in Nat /\ BsCur >= 1 /\ BsCur' = BsCur
  BY <1>1, FilesAre DEF BsIInv, BsCur
<1>6. FilesTyped'
  <2>1. bsWriter' \in 1..BsCur'
    BY <1>1, <1>5
  <2> QED
    BY <1>1, <1>5, <2>1 DEF BsIInv, FilesTyped
<1>7. FilesNested'
  <2>1. \A j \in 1..BsCur : ~(BsCur < j)
    BY <1>5
  <2> QED
    BY <1>1, <1>5, <2>1 DEF BsIInv, FilesNested
<1> QED
  BY <1>1, <1>2, <1>3, <1>4, <1>6, <1>7, BsFrames DEF BsIInv

\* While no line lies ahead, the goroutine may turn to any source.
LEMMA BsTurnKeeps ==
  ASSUME BsIInv, 1..Len(bsLog) \ Handled = {}, bsPipe = <<>>,
         bsFd' \in {NoFd, [NoFd EXCEPT !.pc = "journal"], [NoFd EXCEPT !.pc = "open"]}, bsJournal' \in {"unavailable", "ok"},
         UNCHANGED <<bsLog, bsWriter, bsInodes, bsPipe, bsLatest, bsSeen, bsClock>>,
         UNCHANGED <<bsEmitted, bsMissed, bsBack, bsMisdated, bsUnseeded>>
  PROVE  BsIInv'
<1>1. Len(bsLog) \in Nat /\ BsCur \in Nat
  BY FilesAre DEF BsIInv
<1>2. bsFd' \in BsFds /\ bsFd'.pc \in {"off", "journal", "open"}
  BY <1>1 DEF BsFds, NoFd
<1>3. ~Reading'
  BY <1>2 DEF Reading
<1>4. SourceTyped'
  BY <1>2, <1>3 DEF BsIInv, SourceTyped, BsFds, BsCur
<1>5. LinesAhead'
  <2>1. Handled' = Handled /\ IdsOf(bsPipe') = IdsOf(bsPipe)
    BY BsFrames
  <2> QED
    BY <1>3, <2>1 DEF BsIInv, LinesAhead
<1> QED
  BY <1>3, <1>4, <1>5, BsFrames DEF BsIInv

LEMMA BsRunOnceKeeps == ASSUME BsIInv, BsRunOnce PROVE BsIInv'
<1>1. 1..Len(bsLog) \ Handled = {}
  BY DEF BsIInv, LinesAhead, BsRunOnce
<1>2. bsPipe = <<>> /\ bsJournal \in {"unavailable", "ok"}
  BY DEF BsIInv, SourceTyped, BsRunOnce
<1> QED
  BY <1>1, <1>2, BsTurnKeeps DEF BsRunOnce

LEMMA BsJournalEndsKeeps == ASSUME BsIInv, BsJournalEnds PROVE BsIInv'
<1>1. bsFd.pc = "journal" /\ bsPipe = <<>>
  BY DEF BsJournalEnds
<1>2. IdsOf(bsPipe) = {}
  BY <1>1 DEF IdsOf
<1>3. 1..Len(bsLog) \ Handled = {}
  BY <1>1, <1>2 DEF BsIInv, LinesAhead
<1>4. bsJournal \in {"unavailable", "ok"}
  BY DEF BsIInv, SourceTyped
<1> QED
  BY <1>1, <1>3, <1>4, BsTurnKeeps DEF BsJournalEnds

LEMMA BsAtEndKeeps == ASSUME BsIInv, BsAtEnd PROVE BsIInv'
<1>1. /\ bsFd.pc = "read" /\ bsFd' = [bsFd EXCEPT !.pc = "check"] /\ bsFd \in BsFds
      /\ UNCHANGED <<bsLog, bsWriter, bsInodes, bsJournal, bsPipe, bsLatest, bsSeen, bsAggressive, bsClock>>
      /\ UNCHANGED <<bsEmitted, bsMissed, bsFaults, bsBack, bsMisdated, bsUnseeded>>
  BY DEF BsAtEnd, BsIInv, SourceTyped
<1>2. bsFd'.pc = "check" /\ bsFd'.inode = bsFd.inode /\ bsFd'.pos = bsFd.pos /\ bsFd' \in BsFds
  BY <1>1 DEF BsFds
<1>3. Reading' /\ Reading /\ Unread' = Unread /\ BsCur' = BsCur
  BY <1>1, <1>2 DEF Reading, Unread, IdsFrom, BsCur
<1>4. SourceTyped'
  BY <1>1, <1>2, <1>3 DEF BsIInv, SourceTyped, BsFds
<1>5. LinesAhead'
  BY <1>1, <1>2, <1>3, BsFrames DEF BsIInv, LinesAhead, Coming
<1>6. CursorBehind'
  BY <1>1, <1>3, BsFrames DEF BsIInv, CursorBehind
<1>7. EmittedCovered'
  BY <1>1, <1>2, <1>3 DEF BsIInv, EmittedCovered
<1> QED
  BY <1>1, <1>4, <1>5, <1>6, <1>7, BsFrames DEF BsIInv

\* A file is added at the path: empty, or a copy of the one that was there.
LEMMA BsRotateKeeps == ASSUME BsIInv, BsRotate PROVE BsIInv'
<1> DEFINE n == BsCur
<1>1. n \in Nat /\ n >= 1 /\ n \in 1..n /\ bsInodes \in Seq(Seq(BsLine)) /\ n = Len(bsInodes)
  BY FilesAre DEF BsIInv, BsCur, FilesTyped
<1>2. PICK f \in {<<>>, bsInodes[n]} : bsInodes' = Append(bsInodes, f)
  BY DEF BsRotate
<1>3. f \in Seq(BsLine) /\ FromLog(f, bsLog) /\ Len(f) <= Len(bsLog) /\ IdsOf(f) \in SUBSET IdsOf(bsInodes[n])
  <2>1. CASE f = <<>>
    <3>1. Len(f) = 0 /\ f \in Seq(BsLine)
      BY <2>1
    <3> QED
      BY <3>1, FilesAre DEF BsIInv, FromLog, IdsOf
  <2>2. CASE f = bsInodes[n]
    BY <1>1, <2>2, FilesAre DEF BsIInv, FilesTyped
  <2> QED
    BY <2>1, <2>2
<1>4. /\ UNCHANGED <<bsLog, bsWriter, bsJournal, bsPipe, bsFd, bsLatest, bsSeen, bsAggressive, bsClock>>
      /\ UNCHANGED <<bsEmitted, bsMissed, bsFaults, bsBack, bsMisdated, bsUnseeded>>
  BY DEF BsRotate
<1>5. /\ bsInodes' \in Seq(Seq(BsLine)) /\ BsCur' = n + 1 /\ bsInodes'[n + 1] = f
      /\ \A i \in 1..n : bsInodes'[i] = bsInodes[i]
  BY <1>1, <1>2, <1>3 DEF BsCur
<1>6. (\A i \in 1..(n + 1) : i \in 1..n \/ i = n + 1) /\ \A i \in 1..n : i \in 1..(n + 1) /\ i <= n /\ n + 1 # i
  BY <1>1
<1>7. bsWriter \in 1..n /\ bsFd.inode \in 0..n /\ bsFd \in BsFds /\ (Reading => bsFd.inode \in 1..n)
  BY FilesAre DEF BsIInv, FilesTyped, SourceTyped, BsFds
<1> HIDE DEF n
<1>8. FilesTyped'
  <2>1. \A i \in 1..n : FromLog(bsInodes[i], bsLog) /\ Len(bsInodes[i]) <= Len(bsLog)
    BY DEF BsIInv, FilesTyped, n
  <2>2. bsWriter' \in 1..BsCur'
    BY <1>4, <1>5, <1>6, <1>7
  <2>3. \A i \in 1..BsCur' : FromLog(bsInodes'[i], bsLog) /\ Len(bsInodes'[i]) <= Len(bsLog)
    BY <1>3, <1>5, <1>6, <2>1
  <2> QED
    BY <1>4, <1>5, <2>2, <2>3 DEF BsIInv, FilesTyped
<1>9. SourceTyped'
  <2>1. bsFd \in [pc : {"off", "journal", "open", "read", "check"}, inode : 0..BsCur', pos : 0..Len(bsLog)]
    <3>1. bsFd.inode \in 0..(n + 1)
      BY <1>1, <1>7
    <3> QED
      BY <1>5, <1>7, <3>1 DEF BsFds
  <2> QED
    BY <1>4, <2>1 DEF BsIInv, SourceTyped, BsFds, Reading
<1>10. FilesNested'
  <2>1. \A i, j \in 1..n : i < j =>
           \A p \in IdsOf(bsInodes[j]), x \in IdsOf(bsInodes[i]) : p <= x => p \in IdsOf(bsInodes[i])
    BY DEF BsIInv, FilesNested, n
  <2>2. \A j \in 1..n : bsWriter < j => IdsOf(bsInodes[j]) \subseteq IdsOf(bsInodes[bsWriter])
    BY DEF BsIInv, FilesNested, n
  <2>3. ASSUME NEW i \in 1..BsCur', NEW j \in 1..BsCur', i < j,
               NEW p \in IdsOf(bsInodes'[j]), NEW x \in IdsOf(bsInodes'[i]), p <= x
        PROVE  p \in IdsOf(bsInodes'[i])
    <3>1. i \in 1..n /\ bsInodes'[i] = bsInodes[i]
      <4>1. n \in Nat /\ i \in 1..(n + 1) /\ j \in 1..(n + 1) /\ i < j
        BY <1>1, <1>5, <2>3
      <4>2. i \in 1..n
        BY <4>1
      <4> QED
        BY <1>5, <4>2
    <3>2. CASE j \in 1..n
      <4>1. bsInodes'[j] = bsInodes[j]
        BY <1>5, <3>2
      <4> QED
        BY <2>1, <2>3, <3>1, <3>2, <4>1
    <3>3. CASE j = n + 1
      <4>1. p \in IdsOf(bsInodes[n])
        BY <1>3, <1>5, <2>3, <3>3 DEF n
      <4>2. CASE i = n
        BY <3>1, <4>1, <4>2
      <4>3. CASE i < n
        BY <1>1, <2>1, <2>3, <3>1, <4>1, <4>3
      <4> QED
        BY <1>6, <1>1, <3>1, <4>2, <4>3
    <3> QED
      BY <1>5, <1>6, <3>2, <3>3
  <2>4. ASSUME NEW j \in 1..BsCur', bsWriter < j PROVE IdsOf(bsInodes'[j]) \subseteq IdsOf(bsInodes'[bsWriter])
    <3>1. bsInodes'[bsWriter] = bsInodes[bsWriter]
      BY <1>5, <1>7
    <3>2. CASE j \in 1..n
      BY <1>5, <2>2, <2>4, <3>1, <3>2
    <3>3. CASE j = n + 1
      <4>1. IdsOf(bsInodes'[j]) \subseteq IdsOf(bsInodes[n])
        BY <1>3, <1>5, <3>3 DEF n
      <4>2. bsWriter = n \/ bsWriter < n
        BY <1>1, <1>7
      <4>3. IdsOf(bsInodes[n]) \subseteq IdsOf(bsInodes[bsWriter])
        BY <1>1, <2>2, <4>2
      <4> QED
        BY <3>1, <4>1, <4>3
    <3> QED
      BY <1>5, <1>6, <3>2, <3>3
  <2> QED
    BY <1>4, <2>3, <2>4 DEF FilesNested
<1>11. Reading => Unread' = Unread /\ bsInodes'[bsFd.inode] = bsInodes[bsFd.inode]
  <2>1. Reading => bsInodes'[bsFd.inode] = bsInodes[bsFd.inode]
    BY <1>5, <1>7
  <2> QED
    BY <1>4, <2>1 DEF Unread, IdsFrom
<1>12. Reading' = Reading /\ Handled' = Handled
  BY <1>4 DEF Reading, Handled
<1>13. LinesAhead'
  <2>1. ASSUME NEW id, Coming(id), Reading PROVE Coming(id)'
    <3>1. CASE id \in Unread
      BY <1>11, <2>1, <3>1 DEF Coming
    <3>2. CASE \E i \in 1..n : bsFd.inode < i /\ id \in IdsOf(bsInodes[i])
      <4>1. PICK i \in 1..n : bsFd.inode < i /\ id \in IdsOf(bsInodes[i])
        BY <3>2
      <4>2. i \in 1..BsCur' /\ bsInodes'[i] = bsInodes[i]
        BY <1>5, <1>6
      <4> QED
        BY <1>4, <4>1, <4>2 DEF Coming
    <3> QED
      BY <2>1, <3>1, <3>2 DEF Coming, n
  <2> QED
    BY <1>4, <1>11, <1>12, <2>1 DEF BsIInv, LinesAhead
<1>14. CursorBehind'
  BY <1>4, <1>12 DEF BsIInv, CursorBehind
<1>15. EmittedCovered'
  <2>1. ASSUME Reading, ~bsMisdated, ~bsUnseeded, NEW i \in 1..BsCur', bsFd.inode <= i,
               NEW id \in IdsOf(bsInodes'[i]) \cap Range(bsEmitted)
        PROVE  Rejects(bsLatest, bsSeen, bsLog[id])
    <3>1. \A k \in 1..n : bsFd.inode <= k =>
             \A q \in IdsOf(bsInodes[k]) \cap Range(bsEmitted) : Rejects(bsLatest, bsSeen, bsLog[q])
      BY <2>1 DEF BsIInv, EmittedCovered, n
    <3>2. CASE i \in 1..n
      BY <1>5, <2>1, <3>1, <3>2
    <3>3. CASE i = n + 1
      <4>1. id \in IdsOf(bsInodes[n]) \cap Range(bsEmitted)
        BY <1>3, <1>5, <2>1, <3>3 DEF n
      <4>2. n \in 1..n /\ bsFd.inode <= n
        BY <1>1, <1>7
      <4> QED
        BY <3>1, <4>1, <4>2
    <3> QED
      BY <1>5, <1>6, <3>2, <3>3
  <2> QED
    BY <1>4, <1>12, <2>1 DEF EmittedCovered
<1> QED
  BY <1>4, <1>8, <1>9, <1>10, <1>13, <1>14, <1>15, BsFrames DEF BsIInv

\* The reasons given up by a step that rejects no line.
LEMMA ReasonsKeep ==
  ASSUME BsIInv, NEW ids, NEW why, Miss(ids, why), why \notin {"late", "same"},
         bsBack' = bsBack, bsMisdated' = bsMisdated, bsLog' = bsLog
  PROVE  RejectedForCause'
<1>1. \A id \in DOMAIN bsMissed' : (id \in DOMAIN bsMissed /\ bsMissed'[id] = bsMissed[id]) \/ bsMissed'[id] = why
  BY MissIs
<1> QED
  BY <1>1 DEF BsIInv, RejectedForCause, BsWritten

\* History stays well formed when ids of the log are given up.
LEMMA MissTyped ==
  ASSUME BsIInv, NEW ids, ids \in SUBSET (1..Len(bsLog)), NEW why, Miss(ids, why)
  PROVE  DOMAIN bsMissed' \subseteq 1..Len(bsLog)
<1>1. DOMAIN bsMissed \subseteq 1..Len(bsLog)
  BY DEF BsIInv, SourceTyped
<1> QED
  BY <1>1, MissIs

\* A source that stops gives up everything in the files.
LEMMA BsStopsKeeps == ASSUME BsIInv, BsStops PROVE BsIInv'
<1> DEFINE all == UNION {IdsFrom(i, 0) : i \in DOMAIN bsInodes}
<1>1. /\ bsFd.pc \in {"open", "read", "check"} /\ bsFd' = NoFd /\ Miss(all, "unattended")
      /\ UNCHANGED <<bsLog, bsWriter, bsInodes, bsJournal, bsPipe, bsLatest, bsSeen, bsAggressive, bsClock>>
      /\ UNCHANGED <<bsEmitted, bsBack, bsMisdated, bsUnseeded>>
  BY DEF BsStops
<1>2. all = UNION {IdsOf(bsInodes[i]) : i \in 1..BsCur}
  <2>1. DOMAIN bsInodes = 1..BsCur /\ \A i \in 1..BsCur : IdsFrom(i, 0) = IdsOf(bsInodes[i])
    BY FilesAre, IdsFromIs DEF BsIInv
  <2> QED
    BY <2>1
<1>3. all \in SUBSET (1..Len(bsLog))
  BY <1>2, FilesAre DEF BsIInv
<1> HIDE DEF all
<1>4. Handled' = Handled \cup all /\ DOMAIN bsMissed' \subseteq 1..Len(bsLog) /\ RejectedForCause'
  BY <1>1, <1>3, MissHandles, MissTyped, ReasonsKeep
<1>5. ~Reading' /\ NoFd.pc = "off" /\ NoFd \in BsFds
  <2>1. Len(bsLog) \in Nat /\ BsCur \in Nat
    BY FilesAre DEF BsIInv
  <2> QED
    BY <1>1, <2>1 DEF Reading, NoFd, BsFds
<1>6. SourceTyped'
  BY <1>1, <1>4, <1>5 DEF BsIInv, SourceTyped, BsFds, BsCur
<1>7. LinesAhead'
  <2>1. ASSUME NEW id \in 1..Len(bsLog), id \notin Handled, id \notin all PROVE FALSE
    <3>1. bsFd.pc # "open" /\ Reading /\ Coming(id)
      BY <1>1, <2>1 DEF BsIInv, LinesAhead, Reading
    <3>2. bsFd.inode \in 1..BsCur /\ Unread \in SUBSET IdsOf(bsInodes[bsFd.inode])
      BY <3>1, UnreadIs DEF BsIInv
    <3>3. \E i \in 1..BsCur : id \in IdsOf(bsInodes[i])
      BY <3>1, <3>2 DEF Coming
    <3> QED
      BY <1>2, <2>1, <3>3
  <2>2. IdsOf(bsPipe) \cap Range(bsEmitted) = {}
    BY DEF BsIInv, LinesAhead
  <2> QED
    BY <1>1, <1>4, <1>5, <2>1, <2>2 DEF LinesAhead
<1> QED
  BY <1>1, <1>4, <1>5, <1>6, <1>7, BsFrames DEF BsIInv

\* What is cut off is given up, unless it was read.
LEMMA BsTruncateKeeps == ASSUME BsIInv, BsTruncate PROVE BsIInv'
<1> DEFINE n == BsCur
           ids == IF Reading /\ bsFd.inode = n THEN Unread ELSE IdsFrom(n, 0)
<1>1. n \in Nat /\ n >= 1 /\ n \in 1..n /\ bsInodes \in Seq(Seq(BsLine)) /\ n = Len(bsInodes)
  BY FilesAre DEF BsIInv, BsCur, FilesTyped
<1>2. /\ Miss(ids, "truncated") /\ bsInodes' = [bsInodes EXCEPT ![n] = <<>>]
      /\ UNCHANGED <<bsLog, bsWriter, bsJournal, bsPipe, bsFd, bsLatest, bsSeen, bsAggressive, bsClock>>
      /\ UNCHANGED <<bsEmitted, bsBack, bsMisdated, bsUnseeded>>
  BY DEF BsTruncate
<1>3. bsFd \in BsFds /\ (Reading => bsFd.inode \in 1..n /\ Unread \in SUBSET IdsOf(bsInodes[bsFd.inode]))
  BY UnreadIs DEF BsIInv, SourceTyped
<1>4. IdsFrom(n, 0) = IdsOf(bsInodes[n]) /\ ids \in SUBSET IdsOf(bsInodes[n]) /\ ids \in SUBSET (1..Len(bsLog))
  <2>1. IdsFrom(n, 0) = IdsOf(bsInodes[n])
    BY <1>1, IdsFromIs DEF BsIInv
  <2>2. IdsOf(bsInodes[n]) \in SUBSET (1..Len(bsLog))
    BY <1>1, FilesAre DEF BsIInv
  <2> QED
    BY <1>3, <2>1, <2>2
<1>5. /\ bsInodes' \in Seq(Seq(BsLine)) /\ BsCur' = n /\ bsInodes'[n] = <<>>
      /\ \A i \in 1..n : i # n => bsInodes'[i] = bsInodes[i]
  <2> DEFINE e == <<>>
  <2>1. e \in Seq(BsLine)
    OBVIOUS
  <2> HIDE DEF e
  <2>2. bsInodes' = [bsInodes EXCEPT ![n] = e]
    BY <1>2 DEF e
  <2>3. /\ bsInodes' \in Seq(Seq(BsLine)) /\ Len(bsInodes') = n /\ bsInodes'[n] = e
        /\ \A i \in 1..n : i # n => bsInodes'[i] = bsInodes[i]
    BY <1>1, <2>1, <2>2
  <2> QED
    BY <2>3 DEF e, BsCur
<1>6. IdsOf(bsInodes'[n]) = {} /\ FromLog(bsInodes'[n], bsLog) /\ Len(bsInodes'[n]) = 0
  <2>1. Len(<<>>) = 0
    OBVIOUS
  <2>2. IdsOf(<<>>) = {} /\ FromLog(<<>>, bsLog)
    BY <2>1 DEF IdsOf, FromLog
  <2> QED
    BY <1>5, <2>1, <2>2
<1> HIDE DEF n, ids
<1>7. \A i \in 1..n : IdsOf(bsInodes'[i]) \in SUBSET IdsOf(bsInodes[i])
  BY <1>5, <1>6
<1>8. Handled' = Handled \cup ids /\ DOMAIN bsMissed' \subseteq 1..Len(bsLog) /\ RejectedForCause' /\ Reading' = Reading
  BY <1>2, <1>4, MissHandles, MissTyped, ReasonsKeep DEF Reading
<1>9. Len(bsLog) \in Nat /\ \A i \in 1..n : FromLog(bsInodes[i], bsLog) /\ Len(bsInodes[i]) <= Len(bsLog)
  BY FilesAre DEF BsIInv, FilesTyped, n
<1>10. FilesTyped'
  <2>1. \A i \in 1..BsCur' : FromLog(bsInodes'[i], bsLog) /\ Len(bsInodes'[i]) <= Len(bsLog)
    <3> SUFFICES ASSUME NEW i \in 1..n PROVE FromLog(bsInodes'[i], bsLog) /\ Len(bsInodes'[i]) <= Len(bsLog)
      BY <1>5
    <3>1. CASE i = n
      BY <1>6, <1>9, <3>1
    <3>2. CASE i # n
      BY <1>5, <1>9, <3>2
    <3> QED
      BY <3>1, <3>2
  <2> QED
    BY <1>2, <1>5, <2>1 DEF BsIInv, FilesTyped, n
<1>11. SourceTyped'
  BY <1>2, <1>5, <1>8 DEF BsIInv, SourceTyped, BsFds, n
<1>12. FilesNested'
  <2>1. \A i, j \in 1..n : i < j =>
           \A p \in IdsOf(bsInodes[j]), x \in IdsOf(bsInodes[i]) : p <= x => p \in IdsOf(bsInodes[i])
    BY DEF BsIInv, FilesNested, n
  <2>2. (\A j \in 1..n : bsWriter < j => IdsOf(bsInodes[j]) \subseteq IdsOf(bsInodes[bsWriter])) /\ bsWriter \in 1..n
    BY DEF BsIInv, FilesNested, FilesTyped, n
  <2>3. ASSUME NEW i \in 1..n, NEW j \in 1..n, i < j,
               NEW p \in IdsOf(bsInodes'[j]), NEW x \in IdsOf(bsInodes'[i]), p <= x
        PROVE  p \in IdsOf(bsInodes'[i])
    <3>1. i # n /\ j # n
      BY <1>6, <2>3
    <3>2. bsInodes'[i] = bsInodes[i] /\ bsInodes'[j] = bsInodes[j]
      BY <1>5, <3>1
    <3> QED
      BY <2>1, <2>3, <3>2
  <2>4. ASSUME NEW j \in 1..n, bsWriter < j PROVE IdsOf(bsInodes'[j]) \subseteq IdsOf(bsInodes'[bsWriter])
    <3>1. n \in Nat /\ j \in 1..n /\ bsWriter \in 1..n /\ bsWriter < j
      BY <1>1, <2>2, <2>4
    <3>2. bsWriter # n
      BY <3>1
    <3> QED
      BY <1>5, <1>7, <2>2, <2>4, <3>2
  <2> QED
    BY <1>2, <1>5, <2>3, <2>4 DEF FilesNested
<1>13. LinesAhead'
  <2>1. ASSUME NEW id \in 1..Len(bsLog), id \notin Handled, id \notin ids, Reading PROVE Coming(id)'
    <3>1. Coming(id) /\ bsFd.inode \in 1..n
      BY <1>3, <2>1 DEF BsIInv, LinesAhead
    <3>2. CASE bsFd.inode = n
      <4>1. id \notin Unread
        BY <2>1, <3>2 DEF ids
      <4>2. \A i \in 1..n : ~(n < i)
        BY <1>1
      <4> QED
        BY <3>1, <3>2, <4>1, <4>2 DEF Coming, n
    <3>3. CASE bsFd.inode # n
      <4>1. bsInodes'[bsFd.inode] = bsInodes[bsFd.inode]
        BY <1>5, <3>1, <3>3
      <4>2. Unread' = Unread
        BY <1>2, <4>1 DEF Unread, IdsFrom
      <4>3. id \notin IdsOf(bsInodes[n])
        BY <1>4, <2>1, <3>3 DEF ids
      <4>4. CASE \E i \in 1..n : bsFd.inode < i /\ id \in IdsOf(bsInodes[i])
        <5>1. PICK i \in 1..n : bsFd.inode < i /\ id \in IdsOf(bsInodes[i])
          BY <4>4
        <5>2. bsInodes'[i] = bsInodes[i]
          BY <1>5, <4>3, <5>1
        <5> QED
          BY <1>2, <1>5, <5>1, <5>2 DEF Coming
      <4> QED
        BY <3>1, <4>2, <4>4 DEF Coming, n
    <3> QED
      BY <3>2, <3>3
  <2>2. Reading /\ bsFd.pos <= Len(bsInodes'[bsFd.inode]) =>
           \A k \in 1..bsFd.pos : bsInodes'[bsFd.inode][k].id \in Handled
    <3> SUFFICES ASSUME Reading, bsFd.pos <= Len(bsInodes'[bsFd.inode]), NEW k \in 1..bsFd.pos
                 PROVE  bsInodes'[bsFd.inode][k].id \in Handled
      OBVIOUS
    <3>1. bsFd.pos \in Nat /\ bsFd.inode \in 1..n
      BY <1>3, <1>9 DEF BsFds
    <3>2. CASE bsFd.inode = n
      <4>1. bsFd.pos <= 0
        BY <1>6, <3>2
      <4> QED
        BY <3>1, <4>1
    <3>3. CASE bsFd.inode # n
      <4>1. bsInodes'[bsFd.inode] = bsInodes[bsFd.inode]
        BY <1>5, <3>1, <3>3
      <4> QED
        BY <4>1 DEF BsIInv, LinesAhead
    <3> QED
      BY <3>2, <3>3
  <2> QED
    BY <1>2, <1>8, <2>1, <2>2 DEF BsIInv, LinesAhead
<1>14. CursorBehind'
  BY <1>2, <1>8 DEF BsIInv, CursorBehind
<1>15. EmittedCovered'
  BY <1>2, <1>5, <1>7, <1>8 DEF BsIInv, EmittedCovered, n
<1> QED
  BY <1>2, <1>8, <1>10, <1>11, <1>12, <1>13, <1>14, <1>15, BsFrames DEF BsIInv

\* The check goes on with the file, or with the current one from its start.
LEMMA BsCheckKeeps == ASSUME BsIInv, BsCheck PROVE BsIInv'
<1> DEFINE n == BsCur
           s == bsInodes[bsFd.inode]
           left == IF bsFd.inode = n THEN {}
                   ELSE Unread \cup UNION {IdsFrom(i, 0) : i \in (bsFd.inode + 1)..(n - 1)}
           here == {bsInodes[n][k].id : k \in DOMAIN bsInodes[n]}
           stays == bsFd.inode = n /\ Len(bsInodes[n]) >= bsFd.pos
<1>1. n \in Nat /\ n >= 1 /\ n \in 1..n
  BY FilesAre DEF BsIInv
<1>2. /\ bsFd.pc = "check" /\ bsFd \in BsFds
      /\ IF stays THEN bsFd' = [bsFd EXCEPT !.pc = "read"] /\ UNCHANGED bsMissed
         ELSE bsFd' = Reopened /\ Miss(left \ here, "rotated")
      /\ UNCHANGED <<bsLog, bsWriter, bsInodes, bsJournal, bsPipe, bsLatest, bsSeen, bsAggressive, bsClock>>
      /\ UNCHANGED <<bsEmitted, bsBack, bsMisdated, bsUnseeded>>
  BY DEF BsCheck, BsIInv, SourceTyped
<1>3. Reading /\ bsFd.inode \in 1..n /\ bsFd.pos \in Nat /\ Len(s) \in Nat
      /\ Unread \in SUBSET IdsOf(s) /\ (bsFd.pos > Len(s) => Unread = IdsOf(s))
  <2>1. Reading
    BY <1>2 DEF Reading
  <2> QED
    BY <2>1, UnreadIs, FilesAre DEF BsIInv
<1>4. here = IdsOf(bsInodes[n]) /\ \A i \in 1..n : IdsFrom(i, 0) = IdsOf(bsInodes[i]) /\ IdsOf(bsInodes[i]) \in SUBSET (1..Len(bsLog))
  BY <1>1, FilesAre, IdsFromIs DEF BsIInv, IdsOf
<1>5. left \in SUBSET (1..Len(bsLog))
  <2>1. \A i \in (bsFd.inode + 1)..(n - 1) : i \in 1..n
    BY <1>1, <1>3
  <2> QED
    BY <1>3, <1>4, <2>1
<1> HIDE DEF n, left, here, stays
<1>6. CASE stays
  <2>1. bsFd'.pc = "read" /\ bsFd'.inode = bsFd.inode /\ bsFd'.pos = bsFd.pos /\ bsFd' \in BsFds
    BY <1>2, <1>6 DEF BsFds
  <2>2. Reading' /\ Unread' = Unread /\ BsCur' = BsCur /\ Handled' = Handled /\ UNCHANGED bsMissed
    BY <1>2, <1>6, <2>1 DEF Reading, Unread, IdsFrom, BsCur, Handled
  <2>3. SourceTyped'
    BY <1>2, <1>3, <2>1, <2>2 DEF BsIInv, SourceTyped, BsFds
  <2>4. LinesAhead'
    BY <1>2, <1>3, <2>1, <2>2 DEF BsIInv, LinesAhead, Coming
  <2>5. CursorBehind'
    BY <1>2, <1>3, <2>2 DEF BsIInv, CursorBehind
  <2>6. EmittedCovered'
    BY <1>2, <1>3, <2>1, <2>2 DEF BsIInv, EmittedCovered
  <2> QED
    BY <1>2, <2>2, <2>3, <2>4, <2>5, <2>6, BsFrames DEF BsIInv
<1>7. CASE ~stays
  <2> DEFINE ids == left \ here
  <2>1. bsFd'.pc = "read" /\ bsFd'.inode = n /\ bsFd'.pos = 0 /\ bsFd' \in BsFds /\ Reading' /\ BsCur' = n
    <3>1. Len(bsLog) \in Nat
      BY FilesAre DEF BsIInv
    <3> QED
      BY <1>1, <1>2, <1>7, <3>1 DEF Reopened, BsFds, Reading, BsCur, n
  <2>2. Miss(ids, "rotated") /\ ids \in SUBSET (1..Len(bsLog))
    BY <1>2, <1>5, <1>7
  <2> HIDE DEF ids
  <2>3. Handled' = Handled \cup ids /\ DOMAIN bsMissed' \subseteq 1..Len(bsLog) /\ RejectedForCause'
    BY <1>2, <2>2, MissHandles, MissTyped, ReasonsKeep
  <2>4. SourceTyped'
    BY <1>1, <1>2, <2>1, <2>3 DEF BsIInv, SourceTyped, BsFds, n
  <2>5. FilesTyped'
    BY <1>2, BsFrames
  <2>6. Unread' = IdsOf(bsInodes[n])
    <3>1. Unread' = IdsFrom(n, 0)
      <4>1. Len(bsInodes[n]) \in Nat
        BY <1>1, FilesAre DEF BsIInv, n
      <4>2. Len(bsInodes[n]) >= 0
        BY <4>1
      <4> QED
        BY <1>2, <2>1, <4>2 DEF Unread, IdsFrom
    <3> QED
      BY <1>1, <1>4, <3>1
  <2>7. ASSUME NEW id \in 1..Len(bsLog), id \notin Handled, id \notin ids PROVE id \in IdsOf(bsInodes[n])
    <3>1. Coming(id)
      BY <1>3, <2>7 DEF BsIInv, LinesAhead
    <3>2. CASE bsFd.inode = n
      <4>1. \A i \in 1..n : ~(n < i)
        BY <1>1
      <4> QED
        BY <1>3, <3>1, <3>2, <4>1 DEF Coming, n
    <3>3. CASE bsFd.inode # n
      <4>1. ASSUME NEW i \in 1..n, bsFd.inode < i, i # n PROVE IdsOf(bsInodes[i]) \in SUBSET left
        <5>1. i \in (bsFd.inode + 1)..(n - 1)
          BY <1>1, <1>3, <4>1
        <5> QED
          BY <1>4, <3>3, <5>1 DEF left
      <4>2. Unread \in SUBSET left
        BY <3>3 DEF left
      <4>3. id \in left => id \in IdsOf(bsInodes[n])
        BY <1>4, <2>7 DEF ids
      <4> QED
        BY <3>1, <4>1, <4>2, <4>3 DEF Coming, n
    <3> QED
      BY <3>2, <3>3
  <2>8. LinesAhead'
    <3>1. \A id \in 1..Len(bsLog) \ Handled' : Coming(id)'
      BY <2>3, <2>6, <2>7 DEF Coming
    <3>2. \A k \in 1..0 : FALSE
      OBVIOUS
    <3>3. IdsOf(bsPipe) \cap Range(bsEmitted) = {}
      BY DEF BsIInv, LinesAhead
    <3>4. bsFd'.pc \notin {"off", "open"} /\ bsFd'.pc # "journal"
      BY <2>1
    <3> QED
      BY <1>2, <2>1, <3>1, <3>2, <3>3, <3>4 DEF LinesAhead
  <2>9. CursorBehind'
    BY <1>2, <1>3, <2>3 DEF BsIInv, CursorBehind
  <2>10. EmittedCovered'
    <3>1. \A i \in 1..n : n <= i => bsFd.inode <= i
      BY <1>1, <1>3
    <3> QED
      BY <1>2, <1>3, <2>1, <3>1 DEF BsIInv, EmittedCovered, n
  <2> QED
    BY <1>2, <2>3, <2>4, <2>8, <2>9, <2>10, BsFrames DEF BsIInv
<1> QED
  BY <1>6, <1>7

\* A sequence without repetition stays so when something new is added.
LEMMA OnceMore ==
  ASSUME NEW S, NEW s \in Seq(S), NEW x \in S, x \notin Range(s), \A i, j \in DOMAIN s : s[i] = s[j] => i = j
  PROVE  LET t == Append(s, x) IN \A i, j \in DOMAIN t : t[i] = t[j] => i = j
<1> DEFINE t == Append(s, x)
           n == Len(s)
<1>1. n \in Nat /\ DOMAIN s = 1..n /\ DOMAIN t = 1..(n + 1) /\ t[n + 1] = x /\ \A i \in 1..n : t[i] = s[i]
  OBVIOUS
<1> HIDE DEF t, n
<1>2. \A i \in 1..n : s[i] # x
  BY <1>1 DEF Range
<1>3. \A i \in 1..(n + 1) : i \in 1..n \/ i = n + 1
  BY <1>1
<1>4. \A i, j \in 1..(n + 1) : t[i] = t[j] => i = j
  BY <1>1, <1>2, <1>3
<1> QED
  BY <1>1, <1>4 DEF t

\* handleMessage emits the line or gives it up as one that does not match.
LEMMA HandleIs ==
  ASSUME BsIInv, NEW line, line.id \in 1..Len(bsLog), Handle(line)
  PROVE  /\ Handled' = Handled \cup {line.id}
         /\ bsEmitted' \in Seq(1..Len(bsLog)) /\ DOMAIN bsMissed' \subseteq 1..Len(bsLog)
         /\ bsEmitted' = bsEmitted \/ bsEmitted' = Append(bsEmitted, line.id)
         /\ Range(bsEmitted') \in SUBSET (Range(bsEmitted) \cup {line.id})
         /\ \A id \in DOMAIN bsMissed' : (id \in DOMAIN bsMissed /\ bsMissed'[id] = bsMissed[id]) \/ bsMissed'[id] = "unmatched"
<1>1. bsEmitted \in Seq(1..Len(bsLog)) /\ DOMAIN bsMissed \subseteq 1..Len(bsLog)
  BY DEF BsIInv, SourceTyped
<1>2. CASE Matches(line)
  <2>1. bsEmitted' = Append(bsEmitted, line.id) /\ bsMissed' = bsMissed
    BY <1>2 DEF Handle
  <2>2. Range(bsEmitted') = Range(bsEmitted) \cup {line.id}
    BY <1>1, <2>1, RangeAppend
  <2>3. bsEmitted' \in Seq(1..Len(bsLog))
    BY <1>1, <2>1
  <2>4. Handled' = Handled \cup {line.id}
    BY <2>1, <2>2 DEF Handled
  <2> QED
    BY <1>1, <2>1, <2>2, <2>3, <2>4
<1>3. CASE ~Matches(line)
  <2>1. bsEmitted' = bsEmitted /\ Miss({line.id}, "unmatched")
    BY <1>3 DEF Handle
  <2>2. Handled' = Handled \cup {line.id} /\ DOMAIN bsMissed' \subseteq 1..Len(bsLog)
    BY <2>1, MissHandles, MissTyped
  <2>3. \A id \in DOMAIN bsMissed' : (id \in DOMAIN bsMissed /\ bsMissed'[id] = bsMissed[id]) \/ bsMissed'[id] = "unmatched"
    BY <2>1, MissIs
  <2> QED
    BY <1>1, <2>1, <2>2, <2>3
<1> QED
  BY <1>2, <1>3

\* A line that was not emitted before is emitted once.
LEMMA EmitsOnce ==
  ASSUME BsIInv, NEW id \in 1..Len(bsLog), bsEmitted' = bsEmitted \/ bsEmitted' = Append(bsEmitted, id),
         bsMisdated => bsMisdated', bsUnseeded => bsUnseeded',
         ~bsMisdated' /\ ~bsUnseeded' => id \notin Range(bsEmitted)
  PROVE  EmittedOnce'
<1> SUFFICES ASSUME ~bsMisdated', ~bsUnseeded'
             PROVE  \A i, j \in DOMAIN bsEmitted' : bsEmitted'[i] = bsEmitted'[j] => i = j
  BY DEF EmittedOnce
<1>1. bsEmitted \in Seq(1..Len(bsLog)) /\ id \notin Range(bsEmitted)
  BY DEF BsIInv, SourceTyped
<1>2. \A i, j \in DOMAIN bsEmitted : bsEmitted[i] = bsEmitted[j] => i = j
  BY DEF BsIInv, EmittedOnce
<1>3. CASE bsEmitted' = bsEmitted
  BY <1>2, <1>3
<1>4. CASE bsEmitted' = Append(bsEmitted, id)
  BY <1>1, <1>2, <1>4, OnceMore
<1> QED
  BY <1>3, <1>4

LEMMA BsJournalLineKeeps == ASSUME BsIInv, BsJournalLine PROVE BsIInv'
<1> DEFINE h == Head(bsPipe)
<1>1. /\ bsFd.pc = "journal" /\ bsPipe # <<>> /\ bsPipe' = Tail(bsPipe) /\ Handle(h)
      /\ UNCHANGED <<bsLog, bsWriter, bsInodes, bsJournal, bsFd, bsLatest, bsSeen, bsAggressive, bsClock>>
      /\ UNCHANGED <<bsFaults, bsBack, bsMisdated, bsUnseeded>>
  BY DEF BsJournalLine
<1>2. /\ FromLog(Tail(bsPipe), bsLog) /\ Tail(bsPipe) \in Seq(BsLine) /\ h.id \in 1..Len(bsLog)
      /\ IdsOf(bsPipe) = IdsOf(Tail(bsPipe)) \cup {h.id} /\ h.id \notin IdsOf(Tail(bsPipe))
  <2>1. bsPipe \in Seq(BsLine) /\ FromLog(bsPipe, bsLog)
    BY DEF BsIInv, FilesTyped
  <2> QED
    BY <1>1, <2>1, TakeLine
<1>3. h.id \notin Range(bsEmitted)
  BY <1>2 DEF BsIInv, LinesAhead
<1> HIDE DEF h
<1>4. /\ Handled' = Handled \cup {h.id} /\ bsEmitted' \in Seq(1..Len(bsLog)) /\ DOMAIN bsMissed' \subseteq 1..Len(bsLog)
      /\ bsEmitted' = bsEmitted \/ bsEmitted' = Append(bsEmitted, h.id)
      /\ Range(bsEmitted') \in SUBSET (Range(bsEmitted) \cup {h.id})
      /\ \A id \in DOMAIN bsMissed' : (id \in DOMAIN bsMissed /\ bsMissed'[id] = bsMissed[id]) \/ bsMissed'[id] = "unmatched"
  BY <1>1, <1>2, HandleIs
<1>5. FilesTyped'
  BY <1>1, <1>2 DEF BsIInv, FilesTyped, BsCur
<1>6. ~Reading' /\ ~Reading
  BY <1>1 DEF Reading
<1>7. SourceTyped'
  <2>1. bsFd'.pc = "journal" /\ bsFd' \in BsFds'
    BY <1>1 DEF BsIInv, SourceTyped, BsFds, BsCur
  <2> QED
    BY <1>1, <1>4, <1>6, <2>1 DEF BsIInv, SourceTyped
<1>8. LinesAhead'
  <2>1. \A id \in 1..Len(bsLog) \ Handled : id \in IdsOf(bsPipe)
    BY <1>1 DEF BsIInv, LinesAhead
  <2>2. IdsOf(bsPipe) \cap Range(bsEmitted) = {}
    BY DEF BsIInv, LinesAhead
  <2>3. \A id \in 1..Len(bsLog) \ Handled' : id \in IdsOf(bsPipe')
    BY <1>1, <1>2, <1>4, <2>1
  <2>4. IdsOf(bsPipe') \cap Range(bsEmitted') = {}
    BY <1>1, <1>2, <1>4, <2>2
  <2> QED
    BY <1>1, <1>6, <2>3, <2>4 DEF LinesAhead
<1>9. EmittedOnce'
  BY <1>1, <1>2, <1>3, <1>4, EmitsOnce
<1>10. RejectedForCause'
  BY <1>1, <1>4 DEF BsIInv, RejectedForCause, BsWritten
<1> QED
  BY <1>1, <1>5, <1>6, <1>7, <1>8, <1>9, <1>10, BsFrames DEF BsIInv

\* A new line is at the end of the log, of its file and of what is still to be read.
LEMMA BsWriteKeeps == ASSUME BsIInv, BsWrite PROVE BsIInv'
<1> DEFINE n == BsCur
           N == Len(bsLog)
           w == bsWriter
           s == bsInodes[bsFd.inode]
           masked == Reading /\ bsFd.inode = w /\ Len(bsInodes[w]) + 1 = bsFd.pos
           given == IF masked THEN {N + 1} \cup IdsFrom(w, 0)
                    ELSE IF bsFd.pc \in {"off", "open"} \/ (Reading /\ w < bsFd.inode) THEN {N + 1} ELSE {}
<1>1. PICK t \in BsTexts :
         /\ bsLog' = Append(bsLog, NewLine(t))
         /\ bsInodes' = [bsInodes EXCEPT ![w] = Append(@, NewLine(t))]
         /\ bsPipe' = IF bsFd.pc = "journal" THEN Append(bsPipe, NewLine(t)) ELSE bsPipe
         /\ CASE masked -> Miss({NewLine(t).id} \cup IdsFrom(w, 0), "truncated")
              [] ~masked /\ bsFd.pc \in {"off", "open"} -> Miss({NewLine(t).id}, "unattended")
              [] ~masked /\ Reading /\ w < bsFd.inode -> Miss({NewLine(t).id}, "rotated")
              [] OTHER -> UNCHANGED bsMissed
  BY DEF BsWrite
<1> DEFINE line == NewLine(t)
<1>2. /\ N < BsMaxLines
      /\ UNCHANGED <<bsWriter, bsJournal, bsFd, bsLatest, bsSeen, bsAggressive, bsClock>>
      /\ UNCHANGED <<bsEmitted, bsFaults, bsBack, bsMisdated, bsUnseeded>>
  BY DEF BsWrite
<1>3. line \in BsLine /\ line.id = N + 1 /\ line.when = bsClock /\ bsClock \in Nat /\ N \in Nat
  <2>1. bsClock \in Nat /\ N \in Nat
    BY FilesAre, BsSizes DEF BsIInv, SourceTyped
  <2> QED
    BY <2>1, BsSizes DEF NewLine, BsLine
<1>4. /\ n \in Nat /\ w \in 1..n /\ bsFd \in BsFds /\ bsInodes \in Seq(Seq(BsLine)) /\ n = Len(bsInodes)
      /\ (Reading => bsFd.inode \in 1..n /\ bsFd.pos \in Nat)
      /\ bsLog \in Seq(BsLine) /\ bsPipe \in Seq(BsLine) /\ FromLog(bsPipe, bsLog)
      /\ \A i \in 1..n : /\ bsInodes[i] \in Seq(BsLine) /\ FromLog(bsInodes[i], bsLog) /\ Len(bsInodes[i]) \in Nat
                         /\ IdsOf(bsInodes[i]) \in SUBSET (1..N) /\ IdsFrom(i, 0) = IdsOf(bsInodes[i])
  BY FilesAre, IdsFromIs, UnreadIs DEF BsIInv, FilesTyped, SourceTyped, BsCur
<1> HIDE DEF n, N, w, line, masked, given
<1>5. /\ bsLog' \in Seq(BsLine) /\ Len(bsLog') = N + 1 /\ bsLog'[N + 1] = line
      /\ \A i \in 1..N : bsLog'[i] = bsLog[i]
      /\ \A u \in Seq(BsLine) : FromLog(u, bsLog) =>
            /\ FromLog(u, bsLog') /\ FromLog(Append(u, line), bsLog') /\ Append(u, line) \in Seq(BsLine)
            /\ Len(Append(u, line)) = Len(u) + 1
            /\ IdsOf(Append(u, line)) = IdsOf(u) \cup {N + 1}
            /\ \A k \in 1..Len(u) : Append(u, line)[k] = u[k]
            /\ \A k \in 0..Len(u) : Rest(Append(u, line), k) = Rest(u, k) \cup {N + 1}
  BY <1>1, <1>3, <1>4, AppendLine DEF line, N
<1>6. /\ BsCur' = n /\ bsInodes' \in Seq(Seq(BsLine)) /\ bsInodes'[w] = Append(bsInodes[w], line)
      /\ \A i \in 1..n : i # w => bsInodes'[i] = bsInodes[i]
      /\ \A i \in 1..n : bsInodes'[i] \in Seq(BsLine)
  <2> DEFINE f == Append(bsInodes[w], line)
  <2>1. f \in Seq(BsLine)
    BY <1>4, <1>5
  <2>2. bsInodes' = [bsInodes EXCEPT ![w] = f]
    BY <1>1 DEF line
  <2> HIDE DEF f
  <2>3. /\ bsInodes' \in Seq(Seq(BsLine)) /\ Len(bsInodes') = n /\ bsInodes'[w] = f
        /\ \A i \in 1..n : i # w => bsInodes'[i] = bsInodes[i]
        /\ \A i \in 1..n : bsInodes'[i] \in Seq(BsLine)
    BY <1>4, <2>1, <2>2
  <2> QED
    BY <2>3 DEF f, BsCur
<1>7. /\ FromLog(bsInodes'[w], bsLog') /\ Len(bsInodes'[w]) = Len(bsInodes[w]) + 1
      /\ IdsOf(bsInodes'[w]) = IdsOf(bsInodes[w]) \cup {N + 1}
      /\ \A k \in 1..Len(bsInodes[w]) : bsInodes'[w][k] = bsInodes[w][k]
      /\ \A k \in 0..Len(bsInodes[w]) : Rest(bsInodes'[w], k) = Rest(bsInodes[w], k) \cup {N + 1}
  <2> DEFINE u == bsInodes[w]
  <2>1. u \in Seq(BsLine) /\ FromLog(u, bsLog)
    BY <1>4
  <2> HIDE DEF u
  <2>2. /\ FromLog(Append(u, line), bsLog') /\ Len(Append(u, line)) = Len(u) + 1
        /\ IdsOf(Append(u, line)) = IdsOf(u) \cup {N + 1}
        /\ \A k \in 1..Len(u) : Append(u, line)[k] = u[k]
        /\ \A k \in 0..Len(u) : Rest(Append(u, line), k) = Rest(u, k) \cup {N + 1}
    BY <1>5, <2>1
  <2>3. bsInodes'[w] = Append(u, line)
    BY <1>6 DEF u
  <2> QED
    BY <2>2, <2>3 DEF u
<1>8. Reading' = Reading /\ Len(bsLog') = N + 1 /\ \A id \in 1..(N + 1) : id \in 1..N \/ id = N + 1
  BY <1>2, <1>3, <1>5 DEF Reading
<1>9. bsEmitted \in Seq(1..N) /\ Range(bsEmitted) \in SUBSET (1..N) /\ N + 1 \notin Range(bsEmitted) /\ DOMAIN bsMissed \subseteq 1..N
  <2>1. bsEmitted \in Seq(1..N) /\ DOMAIN bsMissed \subseteq 1..N
    BY DEF BsIInv, SourceTyped, N
  <2>2. Range(bsEmitted) \in SUBSET (1..N)
    BY <2>1, InRange
  <2>3. N + 1 \notin 1..N
    BY <1>3
  <2> QED
    BY <2>1, <2>2, <2>3
<1>10. FilesTyped'
  <2>1. \A id \in 1..(N + 1) : bsLog'[id].id = id
    BY <1>3, <1>5, <1>8 DEF BsIInv, FilesTyped, N
  <2>2. ASSUME NEW i \in 1..n PROVE FromLog(bsInodes'[i], bsLog') /\ Len(bsInodes'[i]) <= N + 1
    <3>1. Len(bsInodes[i]) <= N /\ Len(bsInodes[i]) \in Nat
      BY <1>4 DEF BsIInv, FilesTyped, N, n
    <3>2. CASE i = w
      BY <1>3, <1>7, <3>1, <3>2
    <3>3. CASE i # w
      <4>1. bsInodes'[i] = bsInodes[i] /\ FromLog(bsInodes[i], bsLog')
        BY <1>4, <1>5, <1>6, <3>3
      <4>2. Len(bsInodes[i]) <= N + 1
        BY <1>3, <3>1
      <4> QED
        BY <4>1, <4>2
    <3> QED
      BY <3>2, <3>3
  <2>3. bsPipe' \in Seq(BsLine) /\ FromLog(bsPipe', bsLog')
    BY <1>1, <1>4, <1>5 DEF line
  <2>4. N + 1 <= BsMaxLines
    BY <1>2, <1>3, BsSizes
  <2>5. bsWriter' \in 1..BsCur'
    BY <1>2, <1>4, <1>6 DEF w
  <2> QED
    BY <1>5, <1>6, <2>1, <2>2, <2>3, <2>4, <2>5 DEF FilesTyped
<1>11. /\ Handled' = Handled \cup given /\ DOMAIN bsMissed' \subseteq 1..(N + 1)
       /\ \A id \in DOMAIN bsMissed' :
             (id \in DOMAIN bsMissed /\ bsMissed'[id] = bsMissed[id]) \/ bsMissed'[id] \notin {"late", "same"}
  <2>1. bsEmitted' = bsEmitted /\ line.id = N + 1 /\ N + 1 \in 1..(N + 1) /\ DOMAIN bsMissed \subseteq 1..(N + 1)
    BY <1>2, <1>3, <1>9
  <2>2. \/ given = {} /\ bsMissed' = bsMissed
        \/ \E why \in {"truncated", "unattended", "rotated"} : Miss(given, why)
    <3>1. CASE masked
      <4>1. Miss(given, "truncated")
        BY <1>1, <2>1, <3>1 DEF given, line
      <4> QED
        BY <4>1
    <3>2. CASE ~masked /\ bsFd.pc \in {"off", "open"}
      <4>1. Miss(given, "unattended")
        BY <1>1, <2>1, <3>2 DEF given, line, Reading
      <4> QED
        BY <4>1
    <3>3. CASE ~masked /\ Reading /\ w < bsFd.inode
      <4>1. Miss(given, "rotated")
        BY <1>1, <2>1, <3>3 DEF given, line, Reading
      <4> QED
        BY <4>1
    <3>4. CASE ~masked /\ ~(bsFd.pc \in {"off", "open"}) /\ ~(Reading /\ w < bsFd.inode)
      BY <1>1, <3>4 DEF given
    <3> QED
      BY <3>1, <3>2, <3>3, <3>4
  <2>3. given \in SUBSET (1..(N + 1))
    <3>1. IdsFrom(w, 0) \in SUBSET (1..(N + 1))
      <4>1. 1..N \in SUBSET (1..(N + 1))
        BY <1>3
      <4>2. IdsFrom(w, 0) \in SUBSET (1..N)
        BY <1>4
      <4> QED
        BY <4>1, <4>2
    <3> QED
      BY <2>1, <3>1 DEF given
  <2>4. CASE given = {} /\ bsMissed' = bsMissed
    BY <2>1, <2>4 DEF Handled
  <2>5. CASE \E why \in {"truncated", "unattended", "rotated"} : Miss(given, why)
    <3>1. PICK why \in {"truncated", "unattended", "rotated"} : Miss(given, why)
      BY <2>5
    <3>2. /\ DOMAIN bsMissed' = DOMAIN bsMissed \cup (given \ Range(bsEmitted))
          /\ \A id \in DOMAIN bsMissed : bsMissed'[id] = bsMissed[id]
          /\ \A id \in DOMAIN bsMissed' : id \notin DOMAIN bsMissed => bsMissed'[id] = why
      BY <3>1, MissIs
    <3>3. Handled' = Handled \cup given
      BY <2>1, <3>1, MissHandles
    <3>4. why \notin {"late", "same"}
      BY <3>1
    <3> QED
      BY <2>1, <2>3, <3>2, <3>3, <3>4
  <2> QED
    BY <2>2, <2>4, <2>5
<1>12. SourceTyped'
  <2>1. bsEmitted' \in Seq(1..(N + 1))
    <3>1. 1..N \in SUBSET (1..(N + 1))
      BY <1>3
    <3> QED
      BY <1>2, <1>9, <3>1, SeqWider
  <2>2. bsFd' \in BsFds'
    <3>1. 0..N \in SUBSET (0..(N + 1))
      BY <1>3
    <3> QED
      BY <1>2, <1>4, <1>5, <1>6, <3>1 DEF BsFds, n, N
  <2>3. bsFd'.pc # "journal" => bsPipe' = <<>>
    BY <1>1, <1>2 DEF BsIInv, SourceTyped
  <2>4. /\ Reading => bsFd.inode # 0
        /\ bsJournal \in {"unavailable", "ok"} /\ bsClock \in 1..(BsMaxClock + 1)
        /\ bsLatest \in 0..(BsMaxClock + BsYear) /\ bsSeen \in SUBSET BsDigests
        /\ bsBack \in BOOLEAN /\ bsMisdated \in BOOLEAN /\ bsUnseeded \in BOOLEAN
    BY DEF BsIInv, SourceTyped
  <2>5. Reading' => bsFd'.inode # 0
    BY <1>2, <1>8, <2>4
  <2>6. bsEmitted' \in Seq(1..Len(bsLog')) /\ DOMAIN bsMissed' \subseteq 1..Len(bsLog')
    BY <1>5, <1>11, <2>1
  <2>7. /\ bsJournal' \in {"unavailable", "ok"} /\ bsClock' \in 1..(BsMaxClock + 1)
        /\ bsLatest' \in 0..(BsMaxClock + BsYear) /\ bsSeen' \in SUBSET BsDigests
        /\ bsBack' \in BOOLEAN /\ bsMisdated' \in BOOLEAN /\ bsUnseeded' \in BOOLEAN
    BY <1>2, <2>4
  <2> QED
    BY <2>2, <2>3, <2>5, <2>6, <2>7 DEF SourceTyped
<1>13. \A i \in 1..N : bsLog[i].when \in Nat
  <2>1. \A i \in 1..N : bsLog[i] \in BsLine
    BY <1>4 DEF N
  <2> QED
    BY <2>1 DEF BsLine
<1>14. TimesInOrder'
  <2> SUFFICES ASSUME ~bsBack
               PROVE  /\ \A i \in 1..(N + 1) : bsLog'[i].when <= bsClock
                      /\ \A i, j \in 1..(N + 1) : i <= j => bsLog'[i].when <= bsLog'[j].when
    BY <1>2, <1>5 DEF TimesInOrder
  <2>1. /\ \A i \in 1..N : bsLog[i].when <= bsClock
        /\ \A i, j \in 1..N : i <= j => bsLog[i].when <= bsLog[j].when
    BY DEF BsIInv, TimesInOrder, N
  <2>2. \A i \in 1..(N + 1) : bsLog'[i].when <= bsClock
    BY <1>3, <1>5, <1>8, <2>1
  <2>3. ASSUME NEW i \in 1..(N + 1), NEW j \in 1..(N + 1), i <= j PROVE bsLog'[i].when <= bsLog'[j].when
    <3>1. CASE j \in 1..N
      <4>1. i \in 1..N
        BY <1>3, <2>3, <3>1
      <4> QED
        BY <1>5, <2>1, <2>3, <3>1, <4>1
    <3>2. CASE j = N + 1
      BY <1>3, <1>5, <2>2, <3>2
    <3> QED
      BY <1>8, <3>1, <3>2
  <2> QED
    BY <2>2, <2>3
<1>15. FilesNested'
  <2>1. \A i, j \in 1..n : i < j =>
           \A p \in IdsOf(bsInodes[j]), x \in IdsOf(bsInodes[i]) : p <= x => p \in IdsOf(bsInodes[i])
    BY DEF BsIInv, FilesNested, n
  <2>2. \A j \in 1..n : w < j => IdsOf(bsInodes[j]) \subseteq IdsOf(bsInodes[w])
    BY DEF BsIInv, FilesNested, n, w
  <2>3. ASSUME NEW i \in 1..n, NEW j \in 1..n, i < j,
               NEW p \in IdsOf(bsInodes'[j]), NEW x \in IdsOf(bsInodes'[i]), p <= x
        PROVE  p \in IdsOf(bsInodes'[i])
    <3>1. CASE j = w
      <4>1. i # w
        <5>1. i \in Nat /\ j \in Nat
          BY <1>4
        <5> QED
          BY <2>3, <3>1, <5>1
      <4>2. bsInodes'[i] = bsInodes[i] /\ x \in 1..N
        BY <1>4, <1>6, <2>3, <4>1
      <4>3. p # N + 1
        BY <1>3, <2>3, <4>2
      <4>4. p \in IdsOf(bsInodes[j])
        BY <1>7, <2>3, <3>1, <4>3
      <4> QED
        BY <2>1, <2>3, <4>2, <4>4
    <3>2. CASE j # w /\ i = w
      <4>1. p \in IdsOf(bsInodes[j])
        BY <1>6, <2>3, <3>2
      <4> QED
        BY <1>7, <2>2, <2>3, <3>2, <4>1
    <3>3. CASE j # w /\ i # w
      BY <1>6, <2>1, <2>3, <3>3
    <3> QED
      BY <3>1, <3>2, <3>3
  <2>4. ASSUME NEW j \in 1..n, w < j PROVE IdsOf(bsInodes'[j]) \subseteq IdsOf(bsInodes'[w])
    <3>1. j # w
      BY <1>4, <2>4
    <3> QED
      BY <1>6, <1>7, <2>2, <2>4, <3>1
  <2> QED
    BY <1>2, <1>6, <2>3, <2>4 DEF FilesNested, w
<1>16. LinesAhead'
  <2>1. ASSUME NEW id \in 1..N, id \notin Handled
        PROVE  /\ bsFd.pc \notin {"off", "open"}
               /\ bsFd.pc = "journal" => id \in IdsOf(bsPipe)
               /\ Reading => Coming(id)
    BY <2>1 DEF BsIInv, LinesAhead, N
  <2>2. IdsOf(bsPipe) \cap Range(bsEmitted) = {}
    BY DEF BsIInv, LinesAhead
  <2>3. \A i \in 1..n : IdsOf(bsInodes[i]) \in SUBSET IdsOf(bsInodes'[i])
    BY <1>6, <1>7
  <2>4. bsFd.pc = "journal" => IdsOf(bsPipe') = IdsOf(bsPipe) \cup {N + 1}
    BY <1>1, <1>4, <1>5 DEF line
  <2>5. bsFd.pc # "journal" => bsPipe' = bsPipe
    BY <1>1
  <2>6. bsFd.pc \in {"off", "open"} => N + 1 \in given
    BY DEF given
  <2>7. Reading =>
          LET f == bsInodes'[bsFd.inode]
          IN /\ bsFd.pos <= Len(f) => Unread' = Rest(f, bsFd.pos)
             /\ bsFd.pos > Len(f) => Unread' = IdsOf(f)
    <3> SUFFICES ASSUME Reading
                 PROVE  LET f == bsInodes'[bsFd.inode]
                        IN /\ bsFd.pos <= Len(f) => Unread' = Rest(f, bsFd.pos)
                           /\ bsFd.pos > Len(f) => Unread' = IdsOf(f)
      OBVIOUS
    <3> DEFINE f == bsInodes'[bsFd.inode]
               k == IF Len(f) >= bsFd.pos THEN bsFd.pos ELSE 0
    <3>1. f \in Seq(BsLine) /\ Len(f) \in Nat /\ bsFd.pos \in Nat
      BY <1>4, <1>6
    <3>2. Unread' = {f[j].id : j \in {m \in DOMAIN f : m > k}}
      BY <1>2 DEF Unread, IdsFrom
    <3>3. k \in Nat
      BY <3>1
    <3> HIDE DEF f
    <3>4. Unread' = Rest(f, k) /\ Rest(f, 0) = IdsOf(f)
      <4> HIDE DEF k
      <4> QED
        BY <3>1, <3>2, <3>3, PartIs
    <3> QED
      BY <3>1, <3>4 DEF f
  <2>8. ASSUME Reading, NEW id \in 1..(N + 1), id \notin Handled', Coming(id) \/ (id = N + 1 /\ bsFd.inode <= w)
        PROVE  Coming(id)'
    <3>1. bsFd.inode \in 1..n /\ bsFd.pos \in Nat /\ Len(s) \in Nat /\ w \in Nat /\ bsFd.inode \in Nat
      BY <1>4, <2>8
    <3>2. CASE bsFd.inode < w /\ id = N + 1
      <4>1. id \in IdsOf(bsInodes'[w]) /\ w \in 1..BsCur'
        BY <1>4, <1>6, <1>7, <3>2
      <4> QED
        BY <1>2, <3>2, <4>1 DEF Coming
    <3>3. CASE \E i \in 1..n : bsFd.inode < i /\ id \in IdsOf(bsInodes[i])
      <4>1. \E i \in 1..BsCur' : bsFd.inode < i /\ id \in IdsOf(bsInodes'[i])
        BY <1>6, <2>3, <3>3
      <4> QED
        BY <1>2, <4>1 DEF Coming
    <3>4. CASE bsFd.inode # w /\ id \in Unread
      <4>1. bsInodes'[bsFd.inode] = bsInodes[bsFd.inode]
        BY <1>6, <3>1, <3>4
      <4>2. Unread' = Unread
        BY <1>2, <4>1 DEF Unread, IdsFrom
      <4> QED
        BY <3>4, <4>2 DEF Coming
    <3>5. CASE bsFd.inode = w /\ (id \in Unread \/ id = N + 1)
      <4>1. /\ bsFd.pos <= Len(s) => Unread = Rest(s, bsFd.pos)
            /\ bsFd.pos > Len(s) => Unread = IdsOf(s)
        BY <2>8, UnreadIs DEF BsIInv
      <4>2. /\ Len(bsInodes'[w]) = Len(s) + 1 /\ IdsOf(bsInodes'[w]) = IdsOf(s) \cup {N + 1}
            /\ \A k \in 0..Len(s) : Rest(bsInodes'[w], k) = Rest(s, k) \cup {N + 1}
        BY <1>7, <3>5
      <4>3. CASE bsFd.pos <= Len(s)
        <5>1. bsFd.pos \in 0..Len(s) /\ bsFd.pos <= Len(s) + 1
          BY <3>1, <4>3
        <5>2. Unread' = Rest(bsInodes'[w], bsFd.pos)
          BY <2>7, <2>8, <3>5, <4>2, <5>1
        <5> QED
          BY <3>5, <4>1, <4>2, <4>3, <5>1, <5>2 DEF Coming
      <4>4. CASE bsFd.pos > Len(s) + 1
        <5>1. Unread' = IdsOf(bsInodes'[w]) /\ bsFd.pos > Len(s)
          BY <2>7, <2>8, <3>1, <3>5, <4>2, <4>4
        <5> QED
          BY <3>5, <4>1, <4>2, <5>1 DEF Coming
      <4>5. CASE bsFd.pos = Len(s) + 1
        <5>1. masked
          BY <2>8, <3>5, <4>5 DEF masked
        <5>2. given = {N + 1} \cup IdsOf(s) /\ Unread = IdsOf(s)
          BY <1>4, <3>1, <3>5, <4>1, <4>5, <5>1 DEF given
        <5>3. id \in given
          BY <3>5, <5>2
        <5> QED
          BY <1>11, <2>8, <5>3
      <4> QED
        BY <3>1, <4>3, <4>4, <4>5
    <3> QED
      BY <2>8, <3>1, <3>2, <3>3, <3>4, <3>5 DEF Coming, n
  <2>9. ASSUME NEW id \in 1..(N + 1), id \notin Handled'
        PROVE  /\ bsFd.pc \notin {"off", "open"}
               /\ bsFd.pc = "journal" => id \in IdsOf(bsPipe')
               /\ Reading => Coming(id)'
    <3>1. CASE id \in 1..N
      <4>1. id \in 1..N /\ id \notin Handled
        BY <1>11, <2>9, <3>1
      <4>2. Reading => Coming(id)
        BY <2>1, <4>1
      <4>3. Reading => Coming(id)'
        BY <2>8, <2>9, <4>2
      <4> QED
        BY <2>1, <2>4, <4>1, <4>3
    <3>2. CASE id = N + 1
      <4>1. id \notin given
        BY <1>11, <2>9
      <4>2. Reading => ~(w < bsFd.inode)
        BY <3>2, <4>1 DEF given
      <4>3. Reading => bsFd.inode <= w
        BY <1>4, <4>2
      <4> QED
        BY <2>4, <2>6, <2>8, <2>9, <3>2, <4>1, <4>3
    <3> QED
      BY <1>8, <3>1, <3>2
  <2>10. IdsOf(bsPipe') \cap Range(bsEmitted) = {}
    BY <1>9, <2>2, <2>4, <2>5
  <2>11. ASSUME Reading, bsFd.pos <= Len(bsInodes'[bsFd.inode]), NEW k \in 1..bsFd.pos
         PROVE  bsInodes'[bsFd.inode][k].id \in Handled'
    <3>1. bsFd.pos <= Len(s) => \A j \in 1..bsFd.pos : s[j].id \in Handled
      BY <2>11 DEF BsIInv, LinesAhead
    <3>2. bsFd.inode \in 1..n /\ bsFd.pos \in Nat /\ Len(s) \in Nat
      BY <1>4, <2>11
    <3>3. CASE bsFd.inode # w
      <4>1. bsInodes'[bsFd.inode] = s
        BY <1>6, <3>2, <3>3
      <4> QED
        BY <1>11, <2>11, <3>1, <4>1
    <3>4. CASE bsFd.inode = w /\ bsFd.pos <= Len(s)
      <4>1. k \in 1..Len(s)
        BY <3>2, <3>4
      <4>2. bsInodes'[w][k] = s[k]
        BY <1>7, <3>4, <4>1
      <4> QED
        BY <1>11, <3>1, <3>4, <4>2
    <3>5. CASE bsFd.inode = w /\ bsFd.pos = Len(s) + 1
      <4>1. given = {N + 1} \cup IdsOf(s)
        BY <1>4, <2>11, <3>5 DEF given, masked
      <4>2. bsInodes'[w][k].id \in IdsOf(bsInodes'[w])
        <5>1. k \in 1..Len(bsInodes'[w])
          BY <1>7, <3>2, <3>5
        <5> QED
          BY <5>1 DEF IdsOf
      <4>3. IdsOf(bsInodes'[w]) = given
        BY <1>7, <3>5, <4>1
      <4> QED
        BY <1>11, <3>5, <4>2, <4>3
    <3>6. bsFd.inode = w => bsFd.pos <= Len(s) + 1
      BY <1>7, <2>11
    <3> QED
      BY <3>2, <3>3, <3>4, <3>5, <3>6
  <2> QED
    BY <1>2, <1>5, <1>8, <2>9, <2>10, <2>11 DEF LinesAhead
<1>17. CursorBehind'
  <2> SUFFICES ASSUME Reading
               PROVE  /\ ~bsBack /\ ~bsMisdated =>
                           bsLatest <= bsClock /\ \A id \in 1..(N + 1) \ Handled' : bsLatest <= bsLog'[id].when
                      /\ \A e \in bsSeen : \E id \in Handled' :
                           bsLog'[id].text = e[2] /\ (bsLog'[id].when = bsLatest \/ bsMisdated)
    BY <1>2, <1>5, <1>8 DEF CursorBehind
  <2>1. ~bsBack /\ ~bsMisdated =>
           bsLatest <= bsClock /\ \A id \in 1..N \ Handled : bsLatest <= bsLog[id].when
    BY DEF BsIInv, CursorBehind, N
  <2>2. \A e \in bsSeen : \E id \in Handled : bsLog[id].text = e[2] /\ (bsLog[id].when = bsLatest \/ bsMisdated)
    BY DEF BsIInv, CursorBehind
  <2>3. Handled \in SUBSET (1..N)
    BY <1>9 DEF Handled
  <2>4. \A id \in Handled : bsLog'[id] = bsLog[id] /\ id \in Handled'
    BY <1>5, <1>11, <2>3
  <2>5. \A e \in bsSeen : \E id \in Handled' : bsLog'[id].text = e[2] /\ (bsLog'[id].when = bsLatest \/ bsMisdated)
    BY <2>2, <2>4
  <2>6. ASSUME ~bsBack, ~bsMisdated, NEW id \in 1..(N + 1), id \notin Handled' PROVE bsLatest <= bsLog'[id].when
    <3>1. CASE id \in 1..N
      BY <1>5, <1>11, <2>1, <2>6, <3>1
    <3>2. CASE id = N + 1
      BY <1>3, <1>5, <2>1, <2>6, <3>2
    <3> QED
      BY <1>8, <3>1, <3>2
  <2> QED
    BY <2>1, <2>5, <2>6
<1>18. EmittedCovered'
  <2>1. ASSUME Reading, ~bsMisdated, ~bsUnseeded, NEW i \in 1..n, bsFd.inode <= i,
               NEW id \in IdsOf(bsInodes'[i]) \cap Range(bsEmitted)
        PROVE  Rejects(bsLatest, bsSeen, bsLog'[id])
    <3>1. id \in IdsOf(bsInodes[i]) /\ id \in 1..N
      BY <1>6, <1>7, <1>9, <2>1
    <3>2. Rejects(bsLatest, bsSeen, bsLog[id])
      BY <2>1, <3>1 DEF BsIInv, EmittedCovered, n
    <3> QED
      BY <1>5, <3>1, <3>2
  <2> QED
    BY <1>2, <1>6, <1>8, <2>1 DEF EmittedCovered
<1>19. RejectedForCause'
  <2>1. BsWritten = 1..N /\ BsWritten' = 1..(N + 1) /\ 1..N \in SUBSET (1..(N + 1))
    BY <1>3, <1>4, <1>5 DEF BsWritten, N
  <2> DEFINE Known(id) == \E other \in BsWritten' \ {id} : /\ bsLog'[other].text = bsLog'[id].text
                                                           /\ bsLog'[other].when = bsLog'[id].when \/ bsMisdated
  <2>2. ASSUME NEW id \in DOMAIN bsMissed, bsMissed[id] = "same" PROVE Known(id)
    <3>1. PICK other \in BsWritten \ {id} : /\ bsLog[other].text = bsLog[id].text
                                            /\ bsLog[other].when = bsLog[id].when \/ bsMisdated
      BY <2>2 DEF BsIInv, RejectedForCause
    <3>2. bsLog'[other] = bsLog[other] /\ bsLog'[id] = bsLog[id] /\ other \in BsWritten' \ {id}
      BY <1>5, <1>9, <2>1, <2>2
    <3> QED
      BY <3>1, <3>2
  <2>3. \A id \in DOMAIN bsMissed : bsMissed[id] = "late" => bsBack \/ bsMisdated
    BY DEF BsIInv, RejectedForCause
  <2>4. ASSUME NEW id \in DOMAIN bsMissed'
        PROVE  (bsMissed'[id] = "late" => bsBack \/ bsMisdated) /\ (bsMissed'[id] = "same" => Known(id))
    <3> HIDE DEF Known
    <3>1. CASE id \in DOMAIN bsMissed /\ bsMissed'[id] = bsMissed[id]
      BY <2>2, <2>3, <3>1
    <3>2. CASE bsMissed'[id] \notin {"late", "same"}
      BY <3>2
    <3>3. (id \in DOMAIN bsMissed /\ bsMissed'[id] = bsMissed[id]) \/ bsMissed'[id] \notin {"late", "same"}
      BY <1>11
    <3> QED
      BY <3>1, <3>2, <3>3
  <2> QED
    BY <1>2, <2>4 DEF RejectedForCause
<1> QED
  BY <1>2, <1>10, <1>12, <1>14, <1>15, <1>16, <1>17, <1>18, <1>19, BsFrames DEF BsIInv

\* What a stamp without a year is taken for.
LEMMA StampIs ==
  ASSUME NEW line \in BsLine, NEW clk \in 1..(BsMaxClock + 1)
  PROVE  StampedAt(line, clk) \in 0..(BsMaxClock + BsYear)
<1> DEFINE q == clk \div BsYear
           r == line.when % BsYear
           at == q * BsYear + r
<1>1. BsYear \in Nat /\ BsYear >= 1 /\ BsYear \in Nat \ {0} /\ BsDay \in Nat /\ BsMaxClock \in Nat /\ clk \in Nat /\ clk >= 1
      /\ clk <= BsMaxClock + 1 /\ line.when \in Int
  <2>1. line.when \in Int
    BY DEF BsLine
  <2>2. BsYear \in Nat /\ BsYear >= 1 /\ BsDay \in Nat /\ BsMaxClock \in Nat
    BY BsSizes
  <2>3. clk \in Nat /\ clk >= 1 /\ clk <= BsMaxClock + 1
    BY <2>2
  <2>4. BsYear \in Nat \ {0}
    BY <2>2
  <2> QED
    BY <2>1, <2>2, <2>3, <2>4
<1>2. q \in Int /\ clk % BsYear \in 0..(BsYear - 1) /\ clk = q * BsYear + (clk % BsYear) /\ r \in 0..(BsYear - 1)
  <2> DEFINE w == line.when
  <2>1. BsYear \in Nat \ {0} /\ clk \in Int /\ w \in Int
    BY <1>1
  <2> HIDE DEF w
  <2>2. clk \div BsYear \in Int /\ clk % BsYear \in 0..(BsYear - 1) /\ clk = (clk \div BsYear) * BsYear + (clk % BsYear)
    BY <2>1, Splits
  <2>3. w % BsYear \in 0..(BsYear - 1)
    BY <2>1, Splits
  <2> QED
    BY <2>2, <2>3 DEF w
<1>3. q * BsYear \in Int
  BY <1>1, <1>2
<1> DEFINE m == q * BsYear
           u == clk % BsYear
<1>4. m \in Int /\ u \in 0..(BsYear - 1) /\ clk = m + u /\ r \in 0..(BsYear - 1)
  BY <1>2, <1>3
<1> HIDE DEF m, u, r, q
<1>5. m <= clk /\ m > clk - BsYear
  BY <1>1, <1>4
<1>6. m >= 0
  <2>1. q >= 0
    <3> SUFFICES ASSUME q <= -1 PROVE FALSE
      BY <1>2
    <3>1. (q + 1) * BsYear <= 0
      BY <1>1, <1>2
    <3>2. (q + 1) * BsYear = m + BsYear
      BY <1>1, <1>2 DEF m
    <3> QED
      BY <1>1, <1>4, <3>1, <3>2
  <2> QED
    BY <1>1, <1>2, <2>1 DEF m
<1>7. at = m + r
  BY DEF m
<1>8. m + r \in 0..(BsMaxClock + BsYear)
  BY <1>1, <1>4, <1>5, <1>6
<1> DEFINE a == m + r
<1>9. a \in 0..(BsMaxClock + BsYear) /\ (~(a < BsYear) => a - BsYear \in 0..(BsMaxClock + BsYear))
  BY <1>1, <1>8
<1>10. StampedAt(line, clk) = IF a > clk + BsDay THEN (IF a < BsYear THEN 0 ELSE a - BsYear) ELSE a
  BY DEF StampedAt, m, r, q
<1> HIDE DEF a
<1>11. 0 \in 0..(BsMaxClock + BsYear)
  BY <1>1
<1> QED
  BY <1>9, <1>10, <1>11

BsCursors == [latest : 0..(BsMaxClock + BsYear), seen : SUBSET BsDigests]

\* A cursor that has passed a time and the digests of that time.
Passed(latest, known, at, d) == at < latest \/ (at = latest /\ d \in known)

LEMMA CursorIs ==
  ASSUME NEW at \in 0..(BsMaxClock + BsYear), NEW line \in BsLine,
         NEW latest \in 0..(BsMaxClock + BsYear), NEW known \in SUBSET BsDigests
  PROVE  LET c == Cursor(at, line, latest, known)
         IN /\ c \in BsCursors /\ (c.latest = latest \/ c.latest = at) /\ c.latest >= at
            /\ Passed(c.latest, c.seen, at, Digest(line))
            /\ \A a \in Nat : \A d : Passed(latest, known, a, d) => Passed(c.latest, c.seen, a, d)
            /\ \A d \in c.seen : (d = Digest(line) /\ at = c.latest) \/ (d \in known /\ c.latest = latest)
<1> DEFINE B == BsMaxClock + BsYear
           d0 == Digest(line)
           c == Cursor(at, line, latest, known)
<1>1. B \in Nat /\ at \in Nat /\ latest \in Nat
  BY BsSizes
<1>2. d0 \in BsDigests
  <2>1. line.when % BsYear \in 0..(BsYear - 1) /\ line.text \in BsWords
    BY BsSizes, Splits DEF BsLine
  <2> QED
    BY <2>1 DEF Digest, BsDigests
<1> HIDE DEF d0
<1>3. CASE at < latest
  <2>1. c = [latest |-> latest, seen |-> known]
    BY <1>3 DEF Cursor
  <2>2. c.latest = latest /\ c.seen = known /\ c \in BsCursors
    BY <2>1 DEF BsCursors
  <2> HIDE DEF c
  <2>3. c.latest >= at
    BY <1>1, <1>3, <2>2
  <2> QED
    BY <1>3, <2>2, <2>3 DEF Passed, c
<1>4. CASE ~(at < latest)
  <2> DEFINE new == {d0} \cup (IF at = latest THEN known ELSE {})
  <2>1. c = [latest |-> at, seen |-> new]
    BY <1>4 DEF Cursor, d0
  <2>2. new \in SUBSET BsDigests
    BY <1>2
  <2>3. c.latest = at /\ c.seen = new /\ c \in BsCursors
    <3> HIDE DEF new
    <3> QED
      BY <2>1, <2>2 DEF BsCursors
  <2> HIDE DEF c
  <2>4. latest <= at /\ at >= at
    BY <1>1, <1>4
  <2>5. Passed(c.latest, c.seen, at, d0)
    BY <2>3 DEF Passed
  <2>6. ASSUME NEW a \in Nat, NEW d, Passed(latest, known, a, d) PROVE Passed(c.latest, c.seen, a, d)
    <3>1. a < latest \/ (a = latest /\ d \in known)
      BY <2>6 DEF Passed
    <3>2. CASE a < at
      BY <2>3, <3>2 DEF Passed
    <3>3. CASE ~(a < at)
      <4>1. a = at /\ a = latest
        BY <1>1, <2>4, <3>1, <3>3
      <4>2. d \in new
        BY <3>1, <4>1, <1>1
      <4> QED
        BY <2>3, <4>1, <4>2 DEF Passed
    <3> QED
      BY <3>2, <3>3
  <2>7. \A d \in c.seen : (d = d0 /\ at = c.latest) \/ (d \in known /\ c.latest = latest)
    BY <2>3
  <2> QED
    BY <2>3, <2>4, <2>5, <2>6, <2>7 DEF c, d0
<1> QED
  BY <1>3, <1>4

\* The function that Seed chooses.
Seeds(h, lines, clk) ==
  LET n == Len(lines)
      from == IF n > BsSeedLines THEN n - BsSeedLines ELSE 0
  IN h = [k \in 0..n |->
            IF k <= from THEN [latest |-> 0, seen |-> {}]
            ELSE Cursor(StampedAt(lines[k], clk), lines[k], h[k - 1].latest, h[k - 1].seen)]

LEMMA SeedChooses ==
  ASSUME NEW lines
  PROVE  Seed(lines) = (CHOOSE h : Seeds(h, lines, bsClock))[Len(lines)]
BY Zenon DEF Seed, Seeds

\* A cursor set by the first k of the lines, or by all of them after the from-th.
SeedFits(c, lines, clk, k, from) ==
  /\ c \in BsCursors
  /\ c.latest = 0 \/ \E j \in 1..k : c.latest = StampedAt(lines[j], clk)
  /\ \A d \in c.seen : \E j \in 1..k : d = Digest(lines[j]) /\ StampedAt(lines[j], clk) = c.latest
  /\ from = 0 => \A j \in 1..k : Passed(c.latest, c.seen, StampedAt(lines[j], clk), Digest(lines[j]))

LEMMA SeedStep ==
  ASSUME NEW lines \in Seq(BsLine), NEW clk \in 1..(BsMaxClock + 1), NEW k \in 1..Len(lines), NEW from, NEW c,
         SeedFits(c, lines, clk, k - 1, from)
  PROVE  SeedFits(Cursor(StampedAt(lines[k], clk), lines[k], c.latest, c.seen), lines, clk, k, from)
<1> DEFINE at(j) == StampedAt(lines[j], clk)
           new == Cursor(at(k), lines[k], c.latest, c.seen)
<1>1. k \in Nat /\ k \in 1..k /\ (\A j \in 1..k : j \in 1..(k - 1) \/ j = k) /\ \A j \in 1..(k - 1) : j \in 1..k
  OBVIOUS
<1>2. \A j \in 1..k : lines[j] \in BsLine
  OBVIOUS
<1>3. \A j \in 1..k : at(j) \in 0..(BsMaxClock + BsYear) /\ at(j) \in Nat
  <2>1. \A j \in 1..k : at(j) \in 0..(BsMaxClock + BsYear)
    BY <1>2, StampIs
  <2>2. 0..(BsMaxClock + BsYear) \in SUBSET Nat
    BY BsSizes
  <2> QED
    BY <2>1, <2>2
<1>4. c.latest \in 0..(BsMaxClock + BsYear) /\ c.seen \in SUBSET BsDigests
  BY DEF SeedFits, BsCursors
<1> HIDE DEF at
<1>5. /\ new \in BsCursors /\ (new.latest = c.latest \/ new.latest = at(k))
      /\ Passed(new.latest, new.seen, at(k), Digest(lines[k]))
      /\ \A a \in Nat : \A d : Passed(c.latest, c.seen, a, d) => Passed(new.latest, new.seen, a, d)
      /\ \A d \in new.seen : (d = Digest(lines[k]) /\ at(k) = new.latest) \/ (d \in c.seen /\ new.latest = c.latest)
  BY <1>1, <1>2, <1>3, <1>4, CursorIs
<1> HIDE DEF new
<1>6. /\ c.latest = 0 \/ \E j \in 1..(k - 1) : c.latest = at(j)
      /\ \A d \in c.seen : \E j \in 1..(k - 1) : d = Digest(lines[j]) /\ at(j) = c.latest
      /\ from = 0 => \A j \in 1..(k - 1) : Passed(c.latest, c.seen, at(j), Digest(lines[j]))
  BY DEF SeedFits, at
<1>7. new.latest = 0 \/ \E j \in 1..k : new.latest = at(j)
  BY <1>1, <1>5, <1>6
<1>8. ASSUME NEW d \in new.seen PROVE \E j \in 1..k : d = Digest(lines[j]) /\ at(j) = new.latest
  BY <1>1, <1>5, <1>6, <1>8
<1>9. ASSUME from = 0, NEW j \in 1..k PROVE Passed(new.latest, new.seen, at(j), Digest(lines[j]))
  BY <1>1, <1>3, <1>5, <1>6, <1>9
<1> QED
  BY <1>5, <1>7, <1>8, <1>9 DEF SeedFits, at, new

\* seedFileCursor leaves a cursor that fits the lines of the file.
LEMMA SeedFitsFile ==
  ASSUME NEW lines \in Seq(BsLine), bsClock \in 1..(BsMaxClock + 1)
  PROVE  SeedFits(Seed(lines), lines, bsClock, Len(lines), IF Len(lines) > BsSeedLines THEN Len(lines) - BsSeedLines ELSE 0)
<1> DEFINE n == Len(lines)
           clk == bsClock
           from == IF n > BsSeedLines THEN n - BsSeedLines ELSE 0
           z == [latest |-> 0, seen |-> {}]
           S == BsCursors
           g == [i \in 1..n |-> [c \in S |->
                   IF i <= from THEN z ELSE Cursor(StampedAt(lines[i], clk), lines[i], c.latest, c.seen)]]
<1>1. n \in Nat /\ (\A i \in 1..n : lines[i] \in BsLine) /\ from \in Nat /\ clk \in 1..(BsMaxClock + 1)
  BY BsSizes
<1>2. z \in S
  <2>1. 0 \in 0..(BsMaxClock + BsYear)
    BY BsSizes
  <2> QED
    BY <2>1 DEF BsCursors
<1>3. \A i \in 1..n : \A c \in S : Cursor(StampedAt(lines[i], clk), lines[i], c.latest, c.seen) \in S
  <2> SUFFICES ASSUME NEW i \in 1..n, NEW c \in S PROVE Cursor(StampedAt(lines[i], clk), lines[i], c.latest, c.seen) \in S
    OBVIOUS
  <2>1. c.latest \in 0..(BsMaxClock + BsYear) /\ c.seen \in SUBSET BsDigests
    BY DEF BsCursors
  <2>2. StampedAt(lines[i], clk) \in 0..(BsMaxClock + BsYear) /\ lines[i] \in BsLine
    BY <1>1, StampIs
  <2> HIDE DEF clk
  <2> QED
    BY <2>1, <2>2, CursorIs
<1> HIDE DEF clk, from, S, z, n
<1>4. g \in [1..n -> [S -> S]]
  BY <1>2, <1>3
<1>5. PICK w : Recurs(w, n, S, z, g)
  <2> HIDE DEF g
  <2> QED
    BY <1>1, <1>2, <1>4, Recursion
<1>6. w \in [0..n -> S] /\ w[0] = z
  BY <1>5 DEF Recurs
<1>7. ASSUME NEW i \in 1..n
      PROVE  w[i] = IF i <= from THEN z ELSE Cursor(StampedAt(lines[i], clk), lines[i], w[i - 1].latest, w[i - 1].seen)
  <2>1. i - 1 \in 0..n /\ w[i - 1] \in S
    BY <1>1, <1>6
  <2>2. w[i] = g[i][w[i - 1]]
    BY <1>5 DEF Recurs
  <2> QED
    BY <2>1, <2>2
<1> DEFINE h == [i \in 0..n |-> IF i <= from THEN z
                                ELSE Cursor(StampedAt(lines[i], clk), lines[i], w[i - 1].latest, w[i - 1].seen)]
<1>8. ASSUME NEW i \in 0..n PROVE w[i] = h[i]
  <2>1. i = 0 \/ i \in 1..n
    BY <1>1
  <2>2. CASE i = 0
    BY <1>1, <1>6, <2>2
  <2>3. CASE i \in 1..n
    BY <1>7, <2>3
  <2> QED
    BY <2>1, <2>2, <2>3
<1>9. w = h
  <2>1. w = [i \in 0..n |-> w[i]] /\ h = [i \in 0..n |-> h[i]]
    BY <1>6
  <2> HIDE DEF h
  <2> QED
    BY <1>8, <2>1
<1>10. \E v : Seeds(v, lines, clk)
  <2>1. Seeds(w, lines, clk)
    BY <1>9 DEF Seeds, from, z, n
  <2> QED
    BY <2>1
<1>11. PICK k : k = (CHOOSE v : Seeds(v, lines, clk)) /\ Seeds(k, lines, clk)
  BY <1>10
<1>12. Seed(lines) = k[n]
  BY <1>11, SeedChooses DEF clk, n
<1>13. ASSUME NEW i \in 0..n
       PROVE  k[i] = IF i <= from THEN z ELSE Cursor(StampedAt(lines[i], clk), lines[i], k[i - 1].latest, k[i - 1].seen)
  BY <1>11 DEF Seeds, from, z, n
<1> DEFINE G == {i \in 0..n : SeedFits(k[i], lines, clk, i, from)}
<1>14. ASSUME NEW i \in 0..n, i <= from PROVE SeedFits(k[i], lines, clk, i, from)
  <2>1. k[i] = z
    BY <1>13, <1>14
  <2>2. z.latest = 0 /\ z.seen = {}
    BY DEF z
  <2>3. from = 0 => \A j \in 1..i : FALSE
    BY <1>1, <1>14
  <2> QED
    BY <1>2, <2>1, <2>2, <2>3 DEF SeedFits, S
<1>15. 0 \in G
  <2>1. 0 \in 0..n /\ 0 <= from
    BY <1>1
  <2> QED
    BY <1>14, <2>1
<1>16. ASSUME NEW i \in 1..n, i - 1 \in G PROVE i \in G
  <2>1. i \in 0..n
    BY <1>1
  <2>2. CASE i <= from
    BY <1>14, <2>1, <2>2
  <2>3. CASE ~(i <= from)
    <3>1. k[i] = Cursor(StampedAt(lines[i], clk), lines[i], k[i - 1].latest, k[i - 1].seen)
      BY <1>13, <2>1, <2>3
    <3>2. SeedFits(k[i - 1], lines, clk, i - 1, from)
      BY <1>16
    <3>3. SeedFits(Cursor(StampedAt(lines[i], clk), lines[i], k[i - 1].latest, k[i - 1].seen), lines, clk, i, from)
      BY <1>1, <3>2, SeedStep DEF n
    <3> QED
      BY <2>1, <3>1, <3>3
  <2> QED
    BY <2>2, <2>3
<1>17. n \in G
  <2> HIDE DEF G
  <2>1. \A i \in 0..n : i \in G
    BY <1>1, <1>15, <1>16, UpTo
  <2>2. n \in 0..n
    BY <1>1
  <2> QED
    BY <2>1, <2>2
<1> QED
  BY <1>12, <1>17 DEF from, n, clk

\* Where tailing starts the cursor fits the file, and no line waits.
LEMMA BsOpenKeeps == ASSUME BsIInv, BsOpen PROVE BsIInv'
<1> DEFINE n == BsCur
           lines == bsInodes[n]
           c == Seed(lines)
           at(j) == StampedAt(lines[j], bsClock)
           from == IF Len(lines) > BsSeedLines THEN Len(lines) - BsSeedLines ELSE 0
<1>1. /\ bsFd.pc = "open" /\ bsLatest' = c.latest /\ bsSeen' = c.seen
      /\ bsFd' = [pc |-> "read", inode |-> n, pos |-> Len(lines)]
      /\ bsMisdated' = (bsMisdated \/ \E k \in DOMAIN lines : at(k) # lines[k].when)
      /\ bsUnseeded' = (bsUnseeded \/ Len(lines) > BsSeedLines)
      /\ UNCHANGED <<bsLog, bsWriter, bsInodes, bsJournal, bsPipe, bsAggressive, bsClock>>
      /\ UNCHANGED <<bsEmitted, bsMissed, bsFaults, bsBack>>
  BY DEF BsOpen, SeedPos
<1>2. /\ n \in Nat /\ n \in 1..n /\ lines \in Seq(BsLine) /\ Len(lines) \in Nat /\ DOMAIN lines = 1..Len(lines)
      /\ FromLog(lines, bsLog) /\ IdsOf(lines) \in SUBSET (1..Len(bsLog)) /\ Len(bsLog) \in Nat
      /\ Len(lines) <= Len(bsLog)
  <2>1. n \in Nat /\ n \in 1..n
    BY FilesAre DEF BsIInv
  <2> QED
    BY <2>1, FilesAre DEF BsIInv, FilesTyped
<1>3. bsClock \in 1..(BsMaxClock + 1) /\ bsClock \in Nat /\ BsSeedLines \in Nat
  <2>1. bsClock \in 1..(BsMaxClock + 1)
    BY DEF BsIInv, SourceTyped
  <2> QED
    BY <2>1, BsSizes
<1>4. SeedFits(c, lines, bsClock, Len(lines), from)
  <2> HIDE DEF lines
  <2> QED
    BY <1>2, <1>3, SeedFitsFile
<1> HIDE DEF n, lines, c, from
<1>5. 1..Len(bsLog) \ Handled = {} /\ Handled' = Handled
  BY <1>1, BsFrames DEF BsIInv, LinesAhead
<1>6. Reading' /\ BsCur' = n /\ bsFd'.inode = n /\ bsFd'.pos = Len(lines) /\ bsFd'.pc = "read" /\ bsFd' \in BsFds'
  <2>1. BsCur' = n
    BY <1>1 DEF BsCur, n
  <2>2. n \in 0..n /\ Len(lines) \in 0..Len(bsLog)
    BY <1>2
  <2> QED
    BY <1>1, <2>1, <2>2 DEF Reading, BsFds
<1>7. \A k \in 1..Len(lines) : lines[k].id \in 1..Len(bsLog) /\ lines[k] = bsLog[lines[k].id] /\ lines[k] \in BsLine
  BY <1>2 DEF FromLog
<1>8. ~bsMisdated' => \A k \in 1..Len(lines) : at(k) = lines[k].when
  BY <1>1, <1>2
<1>9. SourceTyped'
  <2>1. c.latest \in 0..(BsMaxClock + BsYear) /\ c.seen \in SUBSET BsDigests
    BY <1>4 DEF SeedFits, BsCursors
  <2>2. n # 0
    BY <1>2
  <2>3. bsPipe = <<>>
    BY <1>1 DEF BsIInv, SourceTyped
  <2>4. bsMisdated' \in BOOLEAN /\ bsUnseeded' \in BOOLEAN
    BY <1>1 DEF BsIInv, SourceTyped
  <2> QED
    BY <1>1, <1>6, <2>1, <2>2, <2>3, <2>4 DEF BsIInv, SourceTyped
<1>10. LinesAhead'
  <2>1. \A k \in 1..Len(lines) : lines[k].id \in Handled
    BY <1>5, <1>7
  <2>2. IdsOf(bsPipe) \cap Range(bsEmitted) = {}
    BY DEF BsIInv, LinesAhead
  <2>3. bsInodes'[n] = lines
    BY <1>1 DEF lines
  <2> QED
    BY <1>1, <1>5, <1>6, <2>1, <2>2, <2>3 DEF LinesAhead
<1>11. CursorBehind'
  <2>1. ASSUME ~bsBack, ~bsMisdated' PROVE c.latest <= bsClock
    <3>1. CASE c.latest = 0
      BY <1>3, <3>1
    <3>2. CASE \E j \in 1..Len(lines) : c.latest = at(j)
      <4>1. PICK j \in 1..Len(lines) : c.latest = at(j)
        BY <3>2
      <4>2. c.latest = bsLog[lines[j].id].when /\ lines[j].id \in 1..Len(bsLog)
        BY <1>7, <1>8, <2>1, <4>1
      <4> QED
        BY <2>1, <4>2 DEF BsIInv, TimesInOrder
    <3> QED
      BY <1>4, <3>1, <3>2 DEF SeedFits
  <2>2. ASSUME NEW d \in c.seen
        PROVE  \E id \in Handled : bsLog[id].text = d[2] /\ (bsLog[id].when = c.latest \/ bsMisdated')
    <3>1. PICK j \in 1..Len(lines) : d = Digest(lines[j]) /\ at(j) = c.latest
      BY <1>4 DEF SeedFits
    <3>2. lines[j].id \in Handled /\ bsLog[lines[j].id] = lines[j]
      BY <1>5, <1>7
    <3>3. lines[j].text = d[2]
      BY <3>1 DEF Digest
    <3>4. lines[j].when = c.latest \/ bsMisdated'
      BY <1>8, <3>1
    <3> QED
      BY <3>2, <3>3, <3>4
  <2> QED
    BY <1>1, <1>5, <1>6, <2>1, <2>2 DEF CursorBehind
<1>12. EmittedCovered'
  <2>1. ASSUME ~bsMisdated', ~bsUnseeded', NEW i \in 1..n, n <= i, NEW id \in IdsOf(bsInodes[i])
        PROVE  Rejects(c.latest, c.seen, bsLog[id])
    <3>1. i = n /\ bsInodes[i] = lines
      <4>1. i = n
        BY <1>2, <2>1
      <4> QED
        BY <4>1 DEF lines
    <3>2. PICK k \in 1..Len(lines) : id = lines[k].id
      BY <2>1, <3>1 DEF IdsOf
    <3>3. from = 0
      BY <1>1, <2>1 DEF from
    <3>4. Passed(c.latest, c.seen, at(k), Digest(lines[k]))
      BY <1>4, <3>3 DEF SeedFits
    <3>5. at(k) = lines[k].when /\ bsLog[id] = lines[k]
      BY <1>7, <1>8, <2>1, <3>2
    <3> QED
      BY <3>4, <3>5 DEF Passed, Rejects
  <2> QED
    BY <1>1, <1>6, <2>1 DEF EmittedCovered
<1>13. EmittedOnce'
  BY <1>1 DEF BsIInv, EmittedOnce
<1>14. RejectedForCause'
  <2>1. bsMisdated => bsMisdated'
    BY <1>1
  <2>2. BsWritten' = BsWritten
    BY <1>1 DEF BsWritten
  <2> QED
    BY <1>1, <2>1, <2>2 DEF BsIInv, RejectedForCause
<1> QED
  BY <1>1, <1>9, <1>10, <1>11, <1>12, <1>13, <1>14, BsFrames DEF BsIInv

\* The line that is read is older than what waits behind it, and the cursor
\* tells whether it was emitted.
LEMMA BsReadLineKeeps == ASSUME BsIInv, BsReadLine PROVE BsIInv'
<1> DEFINE n == BsCur
           s == bsInodes[bsFd.inode]
           p == bsFd.pos
           line == s[p + 1]
           x == line.id
           at == StampedAt(line, bsClock)
           c == Cursor(at, line, bsLatest, bsSeen)
           ok == Accepts(at, line, bsLatest, bsSeen)
           why == IF at < bsLatest THEN "late" ELSE "same"
<1>1. /\ bsFd.pc = "read" /\ p < Len(s) /\ bsFd' = [bsFd EXCEPT !.pos = @ + 1]
      /\ bsLatest' = c.latest /\ bsSeen' = c.seen /\ bsMisdated' = (bsMisdated \/ at # line.when)
      /\ IF ok THEN Handle(line) ELSE Miss({x}, why) /\ UNCHANGED bsEmitted
      /\ UNCHANGED <<bsLog, bsWriter, bsInodes, bsJournal, bsPipe, bsAggressive, bsClock>>
      /\ UNCHANGED <<bsFaults, bsBack, bsUnseeded>>
  BY DEF BsReadLine
<1>2. Reading
  BY <1>1 DEF Reading
<1>3. /\ n \in Nat /\ bsFd.inode \in 1..n /\ p \in Nat /\ Len(s) \in Nat /\ s \in Seq(BsLine)
      /\ FromLog(s, bsLog) /\ Len(bsLog) \in Nat /\ Len(s) <= Len(bsLog) /\ bsFd \in BsFds
      /\ Unread = Rest(s, p)
  <2>1. bsFd.inode \in 1..n /\ p \in Nat
    BY <1>2, UnreadIs DEF BsIInv
  <2>2. /\ n \in Nat /\ Len(s) \in Nat /\ s \in Seq(BsLine)
        /\ FromLog(s, bsLog) /\ Len(bsLog) \in Nat /\ Len(s) <= Len(bsLog) /\ bsFd \in BsFds
    BY <2>1, FilesAre DEF BsIInv, FilesTyped, SourceTyped
  <2>3. p <= Len(s)
    BY <1>1, <2>1, <2>2
  <2>4. Unread = Rest(s, p)
    BY <1>2, <2>3, UnreadIs DEF BsIInv
  <2> QED
    BY <2>1, <2>2, <2>4
<1>4. p + 1 \in 1..Len(s) /\ line \in BsLine /\ x \in 1..Len(bsLog) /\ line = bsLog[x]
  <2>1. p + 1 \in 1..Len(s)
    BY <1>1, <1>3
  <2> QED
    BY <1>3, <2>1 DEF FromLog
<1>5. /\ bsClock \in 1..(BsMaxClock + 1) /\ bsLatest \in 0..(BsMaxClock + BsYear) /\ bsSeen \in SUBSET BsDigests
      /\ bsLatest \in Nat /\ at \in 0..(BsMaxClock + BsYear) /\ at \in Nat /\ line.when \in Nat
  <2>1. bsClock \in 1..(BsMaxClock + 1) /\ bsLatest \in 0..(BsMaxClock + BsYear) /\ bsSeen \in SUBSET BsDigests
    BY DEF BsIInv, SourceTyped
  <2>2. at \in 0..(BsMaxClock + BsYear) /\ line.when \in Nat
    <3> HIDE DEF line
    <3> QED
      BY <1>4, <2>1, StampIs DEF BsLine
  <2> QED
    BY <2>1, <2>2, BsSizes
<1> HIDE DEF n, s, p, line, x, at, ok, why
<1>6. /\ c \in BsCursors /\ (c.latest = bsLatest \/ c.latest = at) /\ c.latest >= at
      /\ Passed(c.latest, c.seen, at, Digest(line))
      /\ \A a \in Nat : \A d : Passed(bsLatest, bsSeen, a, d) => Passed(c.latest, c.seen, a, d)
      /\ \A d \in c.seen : (d = Digest(line) /\ at = c.latest) \/ (d \in bsSeen /\ c.latest = bsLatest)
  BY <1>4, <1>5, CursorIs
<1> HIDE DEF c
<1>7. /\ Handled' = Handled \cup {x}
      /\ bsEmitted' \in Seq(1..Len(bsLog)) /\ DOMAIN bsMissed' \subseteq 1..Len(bsLog)
      /\ bsEmitted' = bsEmitted \/ (ok /\ bsEmitted' = Append(bsEmitted, x))
      /\ Range(bsEmitted') \in SUBSET (Range(bsEmitted) \cup {x})
      /\ \A id \in DOMAIN bsMissed' : \/ id \in DOMAIN bsMissed /\ bsMissed'[id] = bsMissed[id]
                                      \/ bsMissed'[id] \notin {"late", "same"}
                                      \/ ~ok /\ id = x /\ id \notin Handled /\ bsMissed'[id] = why
  <2>1. CASE ok
    <3>1. line.id \in 1..Len(bsLog) /\ Handle(line) /\ line.id = x
      BY <1>1, <1>4, <2>1 DEF x
    <3>2. /\ Handled' = Handled \cup {x}
          /\ bsEmitted' \in Seq(1..Len(bsLog)) /\ DOMAIN bsMissed' \subseteq 1..Len(bsLog)
          /\ bsEmitted' = bsEmitted \/ bsEmitted' = Append(bsEmitted, x)
          /\ Range(bsEmitted') \in SUBSET (Range(bsEmitted) \cup {x})
          /\ \A id \in DOMAIN bsMissed' : (id \in DOMAIN bsMissed /\ bsMissed'[id] = bsMissed[id]) \/ bsMissed'[id] = "unmatched"
      BY <3>1, HandleIs
    <3> QED
      BY <2>1, <3>2
  <2>2. CASE ~ok
    <3>1. Miss({x}, why) /\ bsEmitted' = bsEmitted
      BY <1>1, <2>2
    <3>2. Handled' = Handled \cup {x} /\ DOMAIN bsMissed' \subseteq 1..Len(bsLog)
      BY <1>4, <3>1, MissHandles, MissTyped
    <3>3. bsEmitted \in Seq(1..Len(bsLog))
      BY DEF BsIInv, SourceTyped
    <3>4. /\ DOMAIN bsMissed' = DOMAIN bsMissed \cup ({x} \ Range(bsEmitted))
          /\ \A id \in DOMAIN bsMissed : bsMissed'[id] = bsMissed[id]
          /\ \A id \in DOMAIN bsMissed' : id \notin DOMAIN bsMissed => bsMissed'[id] = why
      BY <3>1, MissIs
    <3>5. \A id \in DOMAIN bsMissed' : id \notin DOMAIN bsMissed => id = x /\ id \notin Handled
      BY <3>4 DEF Handled
    <3> QED
      BY <2>2, <3>1, <3>2, <3>3, <3>4, <3>5
  <2> QED
    BY <2>1, <2>2
<1>8. /\ bsFd'.pc = "read" /\ bsFd'.inode = bsFd.inode /\ bsFd'.pos = p + 1 /\ bsFd' \in BsFds /\ Reading'
      /\ BsCur' = n /\ BsFds' = BsFds /\ bsInodes'[bsFd.inode] = s
  <2>1. p + 1 \in 0..Len(bsLog)
    BY <1>3, <1>4
  <2> QED
    BY <1>1, <1>3, <2>1 DEF BsFds, Reading, BsCur, n, p, s
<1>9. SourceTyped'
  <2>1. c.latest \in 0..(BsMaxClock + BsYear) /\ c.seen \in SUBSET BsDigests
    BY <1>6 DEF BsCursors
  <2>2. bsFd.inode # 0 /\ bsPipe = <<>> /\ bsJournal \in {"unavailable", "ok"}
        /\ bsBack \in BOOLEAN /\ bsMisdated' \in BOOLEAN /\ bsUnseeded \in BOOLEAN
    BY <1>1, <1>2 DEF BsIInv, SourceTyped
  <2> QED
    BY <1>1, <1>5, <1>7, <1>8, <2>1, <2>2 DEF SourceTyped
<1>10. Unread' = Rest(s, p + 1) /\ Unread \in SUBSET (Rest(s, p + 1) \cup {x})
  <2>1. p + 1 \in Nat /\ Len(s) >= p + 1
    BY <1>3, <1>4
  <2>2. Unread' = {s[j].id : j \in {m \in DOMAIN s : m > p + 1}}
    BY <1>1, <1>8, <2>1 DEF Unread, IdsFrom
  <2>3. Unread' = Rest(s, p + 1)
    BY <1>3, <2>1, <2>2, PartIs
  <2>4. \A j \in (p + 1)..Len(s) : j = p + 1 \/ j \in ((p + 1) + 1)..Len(s)
    BY <1>3
  <2>5. Rest(s, p) \in SUBSET (Rest(s, p + 1) \cup {x})
    BY <2>4 DEF Rest, x, line
  <2> QED
    BY <1>3, <2>3, <2>5
<1>11. LinesAhead'
  <2>1. ASSUME NEW id \in 1..Len(bsLog), id \notin Handled' PROVE Coming(id)'
    <3>1. id \notin Handled /\ id # x
      BY <1>7, <2>1
    <3>2. Coming(id)
      BY <1>2, <2>1, <3>1 DEF BsIInv, LinesAhead
    <3>3. CASE id \in Unread
      BY <1>10, <3>1, <3>3 DEF Coming
    <3>4. CASE \E i \in 1..n : bsFd.inode < i /\ id \in IdsOf(bsInodes[i])
      BY <1>1, <1>8, <3>4 DEF Coming
    <3> QED
      BY <3>2, <3>3, <3>4 DEF Coming, n
  <2>2. ASSUME NEW k \in 1..(p + 1) PROVE s[k].id \in Handled'
    <3>1. k \in 1..p \/ k = p + 1
      BY <1>3, <2>2
    <3>2. CASE k \in 1..p
      <4>1. p <= Len(s)
        BY <1>3, <1>4
      <4>2. \A j \in 1..p : s[j].id \in Handled
        BY <1>2, <4>1 DEF BsIInv, LinesAhead, s, p
      <4> QED
        BY <1>7, <3>2, <4>2
    <3>3. CASE k = p + 1
      BY <1>7, <3>3 DEF x, line
    <3> QED
      BY <3>1, <3>2, <3>3
  <2>3. bsPipe = <<>>
    BY <1>1 DEF BsIInv, SourceTyped
  <2>4. IdsOf(bsPipe') = {}
    BY <1>1, <2>3 DEF IdsOf
  <2> QED
    BY <1>1, <1>8, <2>1, <2>2, <2>4 DEF LinesAhead
<1>12. ASSUME NEW id \in 1..Len(bsLog), id \notin Handled' PROVE x < id
  <2>1. Coming(id)'
    BY <1>8, <1>11, <1>12, <1>1 DEF LinesAhead
  <2>2. id \in Nat /\ x \in Nat
    BY <1>3, <1>4
  <2>3. CASE id \in Rest(s, p + 1)
    <3>1. PICK j \in ((p + 1) + 1)..Len(s) : id = s[j].id
      BY <2>3 DEF Rest
    <3>2. p + 1 < j /\ j \in 1..Len(s)
      BY <1>3, <3>1
    <3> QED
      BY <1>3, <1>4, <3>1, <3>2 DEF FromLog, x, line
  <2>4. CASE \E i \in 1..n : bsFd.inode < i /\ id \in IdsOf(bsInodes[i])
    <3> SUFFICES ASSUME id <= x PROVE FALSE
      BY <2>2
    <3>1. PICK i \in 1..n : bsFd.inode < i /\ id \in IdsOf(bsInodes[i])
      BY <2>4
    <3>2. x \in IdsOf(s)
      BY <1>4 DEF IdsOf, x, line
    <3>3. id \in IdsOf(s)
      BY <1>3, <3>1, <3>2 DEF BsIInv, FilesNested, n, s
    <3>4. PICK k \in 1..Len(s) : id = s[k].id
      BY <3>3 DEF IdsOf
    <3>5. k > p + 1
      <4> SUFFICES ASSUME k <= p + 1 PROVE FALSE
        BY <1>3, <3>4
      <4>1. k \in 1..(p + 1)
        BY <1>3, <3>4
      <4>2. bsFd'.pos <= Len(bsInodes'[bsFd'.inode]) /\ bsInodes'[bsFd'.inode] = s
        BY <1>3, <1>4, <1>8
      <4>3. s[k].id \in Handled'
        BY <1>8, <1>11, <4>1, <4>2 DEF LinesAhead
      <4> QED
        BY <1>12, <3>4, <4>3
    <3>6. x < id
      BY <1>3, <1>4, <3>4, <3>5 DEF FromLog, x, line
    <3> QED
      BY <2>2, <3>6
  <2> QED
    BY <1>1, <1>8, <1>10, <2>1, <2>3, <2>4 DEF Coming
<1>13. ~bsMisdated' => ~bsMisdated /\ at = line.when
  BY <1>1
<1>14. CursorBehind'
  <2>1. ASSUME ~bsBack, ~bsMisdated'
        PROVE  c.latest <= bsClock /\ \A id \in 1..Len(bsLog) \ Handled' : c.latest <= bsLog[id].when
    <3>1. bsLatest <= bsClock /\ \A id \in 1..Len(bsLog) : id \notin Handled => bsLatest <= bsLog[id].when
      BY <1>2, <1>13, <2>1 DEF BsIInv, CursorBehind
    <3>2. at <= bsClock
      BY <1>4, <1>13, <2>1 DEF BsIInv, TimesInOrder
    <3>3. ASSUME NEW id \in 1..Len(bsLog), id \notin Handled' PROVE c.latest <= bsLog[id].when
      <4>1. bsLatest <= bsLog[id].when
        BY <1>7, <3>1, <3>3
      <4>2. x <= id
        BY <1>3, <1>4, <1>12, <3>3
      <4>3. at <= bsLog[id].when
        BY <1>4, <1>13, <2>1, <4>2 DEF BsIInv, TimesInOrder
      <4> QED
        BY <1>6, <4>1, <4>3
    <3> QED
      BY <1>6, <3>1, <3>2, <3>3
  <2>2. ASSUME NEW d \in c.seen
        PROVE  \E id \in Handled' : bsLog[id].text = d[2] /\ (bsLog[id].when = c.latest \/ bsMisdated')
    <3>1. CASE d = Digest(line) /\ at = c.latest
      <4>1. bsLog[x].text = d[2]
        BY <1>4, <3>1 DEF Digest
      <4>2. bsLog[x].when = c.latest \/ bsMisdated'
        BY <1>4, <1>13, <3>1
      <4> QED
        BY <1>7, <4>1, <4>2
    <3>2. CASE d \in bsSeen /\ c.latest = bsLatest
      <4>1. PICK id \in Handled : bsLog[id].text = d[2] /\ (bsLog[id].when = bsLatest \/ bsMisdated)
        BY <1>2, <3>2 DEF BsIInv, CursorBehind
      <4> QED
        BY <1>7, <1>13, <3>2, <4>1
    <3> QED
      BY <1>6, <3>1, <3>2
  <2> QED
    BY <1>1, <2>1, <2>2 DEF CursorBehind
<1>15. EmittedCovered'
  <2>1. ASSUME ~bsMisdated', ~bsUnseeded, NEW i \in 1..n, bsFd.inode <= i,
               NEW id \in IdsOf(bsInodes[i]) \cap Range(bsEmitted')
        PROVE  Rejects(c.latest, c.seen, bsLog[id])
    <3>1. CASE id = x
      BY <1>4, <1>6, <1>13, <2>1, <3>1 DEF Passed, Rejects
    <3>2. CASE id \in Range(bsEmitted)
      <4>1. Rejects(bsLatest, bsSeen, bsLog[id])
        BY <1>2, <1>13, <2>1, <3>2 DEF BsIInv, EmittedCovered, n
      <4>2. bsLog[id].when \in Nat
        <5>1. id \in 1..Len(bsLog)
          BY FilesAre DEF BsIInv, n
        <5>2. bsLog[id] \in BsLine
          BY <5>1, FilesAre DEF BsIInv
        <5> QED
          BY <5>2 DEF BsLine
      <4>3. Passed(bsLatest, bsSeen, bsLog[id].when, Digest(bsLog[id]))
        BY <4>1 DEF Passed, Rejects
      <4>4. Passed(c.latest, c.seen, bsLog[id].when, Digest(bsLog[id]))
        BY <1>6, <4>2, <4>3
      <4> QED
        BY <4>4 DEF Passed, Rejects
    <3> QED
      BY <1>7, <2>1, <3>1, <3>2
  <2> QED
    BY <1>1, <1>8, <2>1 DEF EmittedCovered
<1>16. EmittedOnce'
  <2>1. CASE bsEmitted' = bsEmitted
    BY <1>1, <2>1 DEF BsIInv, EmittedOnce
  <2>2. CASE ok /\ bsEmitted' = Append(bsEmitted, x)
    <3>1. ASSUME ~bsMisdated', ~bsUnseeded', x \in Range(bsEmitted) PROVE FALSE
      <4>1. x \in IdsOf(s) /\ bsFd.inode <= bsFd.inode
        BY <1>3, <1>4 DEF IdsOf, x, line
      <4>2. Rejects(bsLatest, bsSeen, bsLog[x])
        BY <1>1, <1>2, <1>3, <1>13, <3>1, <4>1 DEF BsIInv, EmittedCovered, n, s
      <4>3. at < bsLatest \/ (at = bsLatest /\ Digest(line) \in bsSeen)
        BY <1>4, <1>13, <3>1, <4>2 DEF Rejects
      <4>4. at > bsLatest \/ (at = bsLatest /\ Digest(line) \notin bsSeen)
        BY <2>2 DEF ok, Accepts
      <4> QED
        BY <1>5, <4>3, <4>4
    <3>2. bsMisdated => bsMisdated'
      BY <1>1
    <3> QED
      BY <1>1, <1>4, <2>2, <3>1, <3>2, EmitsOnce
  <2> QED
    BY <1>7, <2>1, <2>2
<1>17. RejectedForCause'
  <2> DEFINE Known(id) == \E other \in BsWritten \ {id} :
                             /\ bsLog[other].text = bsLog[id].text
                             /\ bsLog[other].when = bsLog[id].when \/ bsMisdated'
  <2>1. bsMisdated => bsMisdated'
    BY <1>1
  <2>2. ASSUME NEW id \in DOMAIN bsMissed
        PROVE  (bsMissed[id] = "late" => bsBack \/ bsMisdated') /\ (bsMissed[id] = "same" => Known(id))
    BY <2>1 DEF BsIInv, RejectedForCause
  <2>3. ASSUME ~ok, x \notin Handled
        PROVE  (why = "late" => bsBack \/ bsMisdated') /\ (why = "same" => Known(x))
    <3>1. CASE at < bsLatest
      <4>1. why = "late"
        BY <3>1 DEF why
      <4>2. ASSUME ~bsBack, ~bsMisdated' PROVE FALSE
        <5>1. bsLatest <= bsLog[x].when
          BY <1>2, <1>4, <1>13, <2>3, <4>2 DEF BsIInv, CursorBehind
        <5> QED
          BY <1>4, <1>5, <1>13, <3>1, <4>2, <5>1
      <4> QED
        BY <4>1, <4>2
    <3>2. CASE ~(at < bsLatest)
      <4>1. why = "same"
        BY <3>2 DEF why
      <4>2. at = bsLatest /\ Digest(line) \in bsSeen
        BY <1>5, <2>3, <3>2 DEF ok, Accepts
      <4>3. PICK id \in Handled : bsLog[id].text = Digest(line)[2] /\ (bsLog[id].when = bsLatest \/ bsMisdated)
        BY <1>2, <4>2 DEF BsIInv, CursorBehind
      <4>4. id # x /\ bsLog[id].text = bsLog[x].text
        BY <1>4, <2>3, <4>3 DEF Digest
      <4>5. bsLog[id].when = bsLog[x].when \/ bsMisdated'
        BY <1>4, <1>13, <4>2, <4>3
      <4>6. id \in BsWritten
        <5>1. Handled \in SUBSET (1..Len(bsLog))
          <6>1. bsEmitted \in Seq(1..Len(bsLog)) /\ DOMAIN bsMissed \subseteq 1..Len(bsLog)
            BY DEF BsIInv, SourceTyped
          <6> QED
            BY <6>1, InRange DEF Handled
        <5> QED
          BY <4>3, <5>1, FilesAre DEF BsIInv, BsWritten
      <4>7. Known(x)
        BY <4>4, <4>5, <4>6
      <4> HIDE DEF Known
      <4> QED
        BY <4>1, <4>7
    <3> QED
      BY <3>1, <3>2
  <2>4. ASSUME NEW id \in DOMAIN bsMissed'
        PROVE  (bsMissed'[id] = "late" => bsBack \/ bsMisdated') /\ (bsMissed'[id] = "same" => Known(id))
    <3> HIDE DEF Known
    <3>1. CASE id \in DOMAIN bsMissed /\ bsMissed'[id] = bsMissed[id]
      BY <2>2, <3>1
    <3>2. CASE bsMissed'[id] \notin {"late", "same"}
      BY <3>2
    <3>3. CASE ~ok /\ id = x /\ id \notin Handled /\ bsMissed'[id] = why
      BY <2>3, <3>3
    <3> QED
      BY <1>7, <3>1, <3>2, <3>3
  <2>5. BsWritten' = BsWritten
    BY <1>1 DEF BsWritten
  <2> QED
    BY <1>1, <2>4, <2>5 DEF RejectedForCause
<1> QED
  BY <1>1, <1>9, <1>11, <1>14, <1>15, <1>16, <1>17, BsFrames DEF BsIInv

LEMMA BsInitHolds == BsInit => BsIInv
<1> SUFFICES ASSUME BsInit PROVE BsIInv
  OBVIOUS
<1> DEFINE e == <<>>
<1>1. e \in Seq(BsLine) /\ e \in Seq(1..0) /\ Len(e) = 0 /\ DOMAIN e = {} /\ <<e>> \in Seq(Seq(BsLine)) /\ Len(<<e>>) = 1 /\ <<e>>[1] = e
  OBVIOUS
<1>2. /\ bsInodes = <<e>> /\ bsWriter = 1 /\ bsPipe = e /\ bsFd = NoFd /\ bsJournal \in {"unavailable", "ok"}
      /\ bsLatest = 0 /\ bsSeen = {} /\ bsAggressive = FALSE /\ bsClock = 1
      /\ bsLog = e /\ bsEmitted = e /\ bsMissed = e /\ bsFaults = 0
      /\ bsBack = FALSE /\ bsMisdated = FALSE /\ bsUnseeded = FALSE
  BY DEF BsInit
<1> HIDE DEF e
<1>3. BsCur = 1 /\ Len(bsLog) = 0 /\ 1 \in 1..1 /\ (\A i \in 1..1 : i = 1) /\ \A i \in 1..0 : FALSE
  BY <1>1, <1>2 DEF BsCur
<1>4. FromLog(e, e) /\ IdsOf(e) = {} /\ Range(e) = {}
  BY <1>1, <1>3 DEF FromLog, IdsOf, Range
<1>5. FilesTyped
  <2>1. 0 <= BsMaxLines
    BY BsSizes
  <2> QED
    BY <1>1, <1>2, <1>3, <1>4, <2>1 DEF FilesTyped
<1>6. bsFd.pc = "off" /\ bsFd \in BsFds /\ ~Reading
  <2>1. 0 \in 0..BsCur /\ 0 \in 0..Len(bsLog)
    BY <1>3
  <2> QED
    BY <1>2, <2>1 DEF NoFd, BsFds, Reading
<1>7. SourceTyped
  <2>1. 1 \in 1..(BsMaxClock + 1) /\ 0 \in 0..(BsMaxClock + BsYear)
    BY BsSizes
  <2>2. bsEmitted \in Seq(1..Len(bsLog)) /\ bsPipe = <<>>
    BY <1>1, <1>2, <1>3 DEF e
  <2> QED
    BY <1>1, <1>2, <1>3, <1>6, <2>1, <2>2 DEF SourceTyped
<1>8. TimesInOrder
  BY <1>3 DEF TimesInOrder
<1>9. FilesNested
  BY <1>1, <1>2, <1>3, <1>4 DEF FilesNested
<1>10. LinesAhead
  BY <1>2, <1>3, <1>4, <1>6 DEF LinesAhead
<1>11. CursorBehind /\ EmittedCovered
  BY <1>6 DEF CursorBehind, EmittedCovered
<1>12. EmittedOnce /\ RejectedForCause
  BY <1>1, <1>2 DEF EmittedOnce, RejectedForCause
<1> QED
  BY <1>5, <1>7, <1>8, <1>9, <1>10, <1>11, <1>12 DEF BsIInv

LEMMA BsStep == BsIInv /\ [BsNext]_bsVars => BsIInv'
<1> SUFFICES ASSUME BsIInv, [BsNext]_bsVars PROVE BsIInv'
  OBVIOUS
<1>1. CASE BsSetMode
  BY <1>1, BsQuietKeeps DEF BsSetMode
<1>2. CASE UNCHANGED bsVars
  BY <1>2, BsQuietKeeps DEF bsVars
<1> QED
  BY <1>1, <1>2, BsWriteKeeps, BsRotateKeeps, BsReopenLogKeeps, BsTruncateKeeps, BsTickKeeps, BsClockBackKeeps,
     BsRunOnceKeeps, BsJournalLineKeeps, BsJournalEndsKeeps, BsOpenKeeps, BsReadLineKeeps, BsAtEndKeeps,
     BsCheckKeeps, BsStopsKeeps DEF BsNext

\* The invariant of the log source: its files, its cursor and what it handed on
\* (rotation, truncation, copies, restarts and a clock set back).
THEOREM BsIInvHolds == BsSpec => []BsIInv
<1>1. BsInit => BsIInv
  BY BsInitHolds
<1>2. BsIInv /\ [BsNext]_bsVars => BsIInv'
  BY BsStep
<1> QED
  BY <1>1, <1>2, PTL DEF BsSpec

LEMMA BsTyped == BsIInv => BsTypeOK
<1> SUFFICES ASSUME BsIInv PROVE BsTypeOK
  OBVIOUS
<1>1. bsLog \in Seq(BsLine) /\ Len(bsLog) \in Nat /\ Len(bsLog) <= BsMaxLines /\ BsMaxLines \in Nat
  BY FilesAre, BsSizes DEF BsIInv, FilesTyped
<1>2. 0..Len(bsLog) \in SUBSET (0..BsMaxLines) /\ 1..Len(bsLog) \in SUBSET BsIds
  BY <1>1 DEF BsIds
<1>3. Range(bsEmitted) \in SUBSET (1..Len(bsLog)) /\ DOMAIN bsMissed \subseteq 1..Len(bsLog)
  BY InRange DEF BsIInv, SourceTyped
<1>4. \A d \in bsSeen : d[1] \in 0..(BsYear - 1)
  BY DEF BsIInv, SourceTyped, BsDigests
<1>5. bsFd.pc \in {"off", "journal", "open", "read", "check"} /\ bsFd.inode \in 0..BsCur /\ bsFd.pos \in 0..BsMaxLines
  BY <1>2 DEF BsIInv, SourceTyped, BsFds
<1> QED
  BY <1>2, <1>3, <1>4, <1>5 DEF BsTypeOK, BsIInv, SourceTyped

\* Whatever happens to the log, a line is emitted at most once (unless its year
\* is misread or the seed does not reach it), and a line that is rejected was
\* out of order or has a twin: the safety part of EveryLineOnce.
THEOREM LinesCountOnce == BsSpec => [](BsTypeOK /\ EmittedOnce /\ RejectedForCause)
<1>1. BsIInv => BsTypeOK /\ EmittedOnce /\ RejectedForCause
  BY BsTyped DEF BsIInv
<1> QED
  BY <1>1, BsIInvHolds, PTL
=============================================================================
