------------------------- MODULE MediaExportProofs -------------------------
(***************************************************************************)
(* Exports show the photo they are named after, leave nothing behind and   *)
(* are reported, and a cancelled batch stops, for any photos, slides,      *)
(* faults and uses.                                                        *)
(***************************************************************************)
EXTENDS MediaExport, Integers, FiniteSetTheorems, SequenceTheorems, TLAPS

-----------------------------------------------------------------------------
(* The inductive invariant. *)

OpenType == [photo : Photo \cup {NoPhoto}, result : {"none", "wait", "picked", "failed"}]
LoadType == [photo : Photo \cup {NoPhoto}, result : {"none", "wait", "loaded", "failed"}]
ExternalType == [waiting : Seq(Photo), left : 0..MaxExternal]
TaskType == [kind : Kind \cup {"none"}, rendering : BOOLEAN, cancelling : BOOLEAN,
             places : Seq(Place)]
BatchType == [on : BOOLEAN, pending : SUBSET Photo, current : Photo \cup {NoPhoto},
              completed : Nat, failures : Nat, cancel : BOOLEAN]
SlidesType == [on : BOOLEAN, pending : Seq(Place)]
WorkerType == [state : {"none", "run", "done", "failed"}, content : Photo \cup {NoPhoto},
               places : Seq(Place)]
PublishType == [place : Seq(Place), result : {"none", "wait", "published", "failed"}]

(* An open or a load that is the batch's is of its photo, and nothing else is under way:
   what is opened for others meanwhile takes `owned` away. *)
OwnedInv ==
  /\ Opening => open.photo # NoPhoto
  /\ owned =>
       /\ batch.on /\ batch.current # NoPhoto
       /\ worker.state = "none" /\ ~Pending
       /\ \/ Opening /\ ~Loading /\ open.photo = batch.current
          \/ Loading /\ ~Opening /\ load.photo = batch.current

(* A worker renders the places of the task, each from the photo it is for; several only for a
   carousel.  What it leaves is at those places. *)
WorkerInv ==
  /\ worker.state = "none" => worker.places = <<>>
  /\ worker.state # "none" =>
       /\ ~Pending /\ ~slides.on
       /\ task.kind # "none" /\ task.rendering /\ task.places = worker.places
       /\ worker.places # <<>>
       /\ Len(worker.places) > 1 => task.kind = "single"
       /\ \A d \in Of(worker.places) :
            /\ d.for = task.kind /\ d.of = worker.content
            /\ d.for = "replay" => d.via = "gallery"
       /\ entries \subseteq Opened(Of(worker.places))
       /\ cached \subseteq (IF worker.state = "done" THEN InCache(Of(worker.places)) ELSE {})

(* What the platform has of a file. *)
Held == IF publish.result = "wait" THEN Of(publish.place) ELSE {}

(* While the platform publishes, what is left is of its file and of the slides to follow. *)
PublishInv ==
  /\ slides.on =>
       /\ Pending /\ task.kind = "single"
       /\ \A d \in Of(slides.pending) \cup Of(publish.place) : d.for = "single"
       /\ entries \subseteq Opened(Of(slides.pending))
       /\ cached \subseteq InCache(Of(slides.pending)) \cup Held
  /\ ~slides.on /\ worker.state = "none" => entries = {} /\ cached \subseteq Held
  /\ \A d \in Of(publish.place) : d.for = "batch" => batch.on
  /\ ~Pending => publish.place = <<>>
  /\ Len(publish.place) <= 1

(* What the batch says it exported, or will say of what it did so far. *)
Credit == IF batch.on THEN batch.completed - batch.failures ELSE report

(* A published file that the batch has not been told of. *)
Arrived ==
  IF publish.result = "published" /\ (\E d \in Of(publish.place) : d.for = "batch") THEN 1 ELSE 0

CountInv == Cardinality(made) <= Credit + Arrived

IInv == TypeOK /\ OwnedInv /\ WorkerInv /\ PublishInv /\ CountInv

-----------------------------------------------------------------------------
(* What the helpers change. *)

LEMMA SmallRecords ==
  /\ NoTask \in TaskType /\ NoBatch \in BatchType /\ NoLoad \in LoadType /\ NoLoad \in OpenType
  /\ NoSlides \in SlidesType /\ NoWorker \in WorkerType /\ NoPublish \in PublishType
  BY DEF NoTask, NoBatch, NoLoad, NoSlides, NoWorker, NoPublish, TaskType, BatchType, LoadType,
         OpenType, SlidesType, WorkerType, PublishType, Kind

LEMMA NothingOfNoPlace == Of(<<>>) = {}
  BY DEF Of

LEMMA OfPlaces ==
  ASSUME NEW places \in Seq(Place)
  PROVE  Of(places) \subseteq Place
  BY DEF Of

LEMMA OfOne ==
  ASSUME NEW d
  PROVE  Of(<<d>>) = {d}
  BY DEF Of

(* Every exported file is at a place, and so is every set of them. *)
LEMMA PlacesAreSequences ==
  ASSUME NEW p \in Photo, NEW count \in 1..Slides, NEW kind \in Kind, NEW places \in Places(p, count, kind)
  PROVE  /\ places \in Seq(Place) /\ Len(places) = count /\ places # <<>>
         /\ \A d \in Of(places) : d.of = p /\ d.for = kind
  <1>. PICK via \in [1..count -> {"direct", "gallery"}] :
         places = [n \in 1..count |-> [of |-> p, n |-> n, via |-> via[n], for |-> kind]]
    BY DEF Places
  <1>. Slides \in Nat /\ count \in Nat /\ count >= 1
    BY MediaExportAssumption
  <1>1. \A n \in 1..count : places[n] \in Place /\ places[n].of = p /\ places[n].for = kind
    BY DEF Place
  <1>2. places \in [1..count -> Place]
    BY <1>1
  <1>3. places \in Seq(Place) /\ Len(places) = count
    BY <1>2
  <1>4. places # <<>>
    BY <1>3
  <1>5. \A d \in Of(places) : d.of = p /\ d.for = kind
    BY <1>1, <1>2 DEF Of
  <1>. QED  BY <1>3, <1>4, <1>5

LEMMA BatchIsOver ==
  ASSUME NEW b \in BatchType, FinishBatch(b)
  PROVE  /\ batch' = NoBatch /\ task' = NoTask
         /\ report' \in Nat /\ report' >= b.completed - b.failures
  <1>1. b.completed \in Nat /\ b.failures \in Nat
    BY DEF BatchType
  <1>2. batch' = NoBatch /\ task' = NoTask
        /\ report' = IF b.completed > b.failures THEN b.completed - b.failures ELSE 0
    BY DEF FinishBatch
  <1>3. report' \in Nat /\ report' >= b.completed - b.failures
    BY <1>1, <1>2
  <1>. QED  BY <1>2, <1>3

LEMMA FailedCounts ==
  ASSUME NEW b \in BatchType, NEW count \in Nat
  PROVE  /\ Failed(b, count) \in BatchType
         /\ Failed(b, count).completed - Failed(b, count).failures = b.completed - b.failures
         /\ Failed(b, count).on = b.on /\ Failed(b, count).pending = b.pending
         /\ Failed(b, count).cancel = b.cancel /\ Failed(b, count).current = NoPhoto
  <1>1. /\ b.on \in BOOLEAN /\ b.pending \in SUBSET Photo /\ b.current \in Photo \cup {NoPhoto}
        /\ b.completed \in Nat /\ b.failures \in Nat /\ b.cancel \in BOOLEAN
    BY DEF BatchType
  <1>. DEFINE c == [b EXCEPT !.completed = @ + count]
              f == [c EXCEPT !.failures = @ + count]
              g == [f EXCEPT !.current = NoPhoto]
  <1>2. c \in BatchType
    BY <1>1 DEF BatchType
  <1>3. f \in BatchType
    <2>. HIDE DEF c
    <2>. QED  BY <1>2 DEF BatchType
  <1>4. g \in BatchType
    <2>. HIDE DEF f
    <2>. QED  BY <1>3 DEF BatchType
  <1>6. g = Failed(b, count)
    BY Zenon DEF Failed
  <1>7. /\ g.on = b.on /\ g.pending = b.pending /\ g.cancel = b.cancel /\ g.current = NoPhoto
        /\ g.completed = b.completed + count /\ g.failures = b.failures + count
    BY DEF BatchType
  <1>. HIDE DEF g
  <1>5. (b.completed + count) - (b.failures + count) = b.completed - b.failures
    BY <1>1
  <1>. QED  BY <1>4, <1>5, <1>6, <1>7

LEMMA ItemCounts ==
  ASSUME NEW b \in BatchType, NEW ok \in BOOLEAN
  PROVE  /\ Counted(b, ok) \in BatchType
         /\ Counted(b, ok).on = b.on
         /\ Counted(b, ok).completed - Counted(b, ok).failures
              = b.completed - b.failures + (IF ok THEN 1 ELSE 0)
  <1>1. /\ b.on \in BOOLEAN /\ b.pending \in SUBSET Photo /\ b.current \in Photo \cup {NoPhoto}
        /\ b.completed \in Nat /\ b.failures \in Nat /\ b.cancel \in BOOLEAN
    BY DEF BatchType
  <1>2. CASE ok = TRUE
    <2>1. Counted(b, ok) =
            [on |-> b.on, pending |-> b.pending, current |-> NoPhoto,
             completed |-> b.completed + 1, failures |-> b.failures, cancel |-> b.cancel]
      BY <1>2 DEF Counted, BatchType
    <2>2. Counted(b, ok) \in BatchType
      <3>. b.completed + 1 \in Nat
        BY <1>1
      <3>. QED  BY <1>1, <2>1 DEF BatchType
    <2>3. (b.completed + 1) - b.failures = b.completed - b.failures + 1
      BY <1>1
    <2>. QED  BY <1>2, <2>1, <2>2, <2>3
  <1>3. CASE ok = FALSE /\ b.cancel = TRUE
    <2>1. Counted(b, ok) =
            [on |-> b.on, pending |-> b.pending, current |-> NoPhoto,
             completed |-> b.completed, failures |-> b.failures, cancel |-> b.cancel]
      BY <1>3 DEF Counted, BatchType
    <2>2. Counted(b, ok) \in BatchType
      BY <1>1, <2>1 DEF BatchType
    <2>3. b.completed - b.failures = b.completed - b.failures + 0
      BY <1>1
    <2>. QED  BY <1>3, <2>1, <2>2, <2>3
  <1>4. CASE ok = FALSE /\ b.cancel = FALSE
    <2>1. Counted(b, ok) = Failed(b, 1)
      BY <1>4 DEF Counted
    <2>2. b.completed - b.failures = b.completed - b.failures + 0
      BY <1>1
    <2>. QED  BY <1>4, <2>1, <2>2, FailedCounts
  <1>5. (ok = TRUE \/ ok = FALSE) /\ (b.cancel = TRUE \/ b.cancel = FALSE)
    BY <1>1
  <1>. QED  BY <1>2, <1>3, <1>4, <1>5

(* The types of the export's own records, and the task is the batch's while one runs. *)
TasksInv ==
  /\ batch \in BatchType /\ task \in TaskType /\ report \in Nat
  /\ batch.on <=> task.kind = "batch"

LEMMA FinishedBatch ==
  ASSUME NEW b \in BatchType, FinishBatch(b)
  PROVE  /\ TasksInv' /\ ~batch'.on /\ task' = NoTask
         /\ Credit' >= b.completed - b.failures
  <1>1. /\ batch' = NoBatch /\ task' = NoTask
        /\ report' \in Nat /\ report' >= b.completed - b.failures
    BY BatchIsOver
  <1>2. ~NoBatch.on /\ NoTask.kind = "none"
    BY DEF NoBatch, NoTask
  <1>3. TasksInv'
    BY <1>1, <1>2, SmallRecords DEF TasksInv
  <1>4. Credit' = report'
    BY <1>1, <1>2 DEF Credit
  <1>. QED  BY <1>1, <1>2, <1>3, <1>4

LEMMA CompletedItem ==
  ASSUME TasksInv, batch.on, NEW ok \in BOOLEAN, CompleteItem(ok)
  PROVE  /\ TasksInv' /\ ~task'.rendering
         /\ Credit' >= Credit + (IF ok THEN 1 ELSE 0)
  <1>. DEFINE b == Counted(batch, ok)
  <1>1. /\ b \in BatchType /\ b.on = batch.on
        /\ b.completed - b.failures = Credit + (IF ok THEN 1 ELSE 0)
    BY ItemCounts DEF TasksInv, Credit
  <1>2. CASE FinishBatch(b)
    BY <1>1, <1>2, FinishedBatch DEF NoTask
  <1>3. CASE /\ batch' = b
             /\ task' = [task EXCEPT !.rendering = FALSE, !.places = <<>>]
             /\ UNCHANGED report
    <2>1. task' \in TaskType /\ task'.kind = task.kind /\ ~task'.rendering
      <3>. <<>> \in Seq(Place)
        OBVIOUS
      <3>. task \in TaskType /\ task' = [task EXCEPT !.rendering = FALSE, !.places = <<>>]
        BY <1>3 DEF TasksInv
      <3>. QED  BY DEF TaskType
    <2>2. TasksInv'
      BY <1>1, <1>3, <2>1 DEF TasksInv
    <2>3. Credit' = b.completed - b.failures
      BY <1>1, <1>3 DEF Credit
    <2>4. Credit \in Int
      BY DEF Credit, TasksInv, BatchType
    <2>. HIDE DEF b
    <2>. QED  BY <1>1, <2>1, <2>2, <2>3, <2>4
  <1>. QED  BY <1>2, <1>3 DEF CompleteItem

LEMMA EndedExport ==
  ASSUME TasksInv, NEW ok \in BOOLEAN, EndExport(ok)
  PROVE  /\ TasksInv' /\ ~task'.rendering
         /\ Credit' >= Credit + (IF ok /\ batch.on THEN 1 ELSE 0)
         /\ ~batch.on => Credit' = Credit
  <1>1. CASE batch.on
    BY <1>1, CompletedItem DEF EndExport
  <1>2. CASE ~batch.on
    <2>1. task' = NoTask /\ batch' = batch /\ report' = report
      BY <1>2 DEF EndExport
    <2>2. Credit' = Credit /\ Credit \in Int
      BY <1>2, <2>1 DEF Credit, TasksInv
    <2>3. TasksInv' /\ ~task'.rendering
      BY <1>2, <2>1, SmallRecords DEF TasksInv, NoTask
    <2>. QED  BY <1>2, <2>2, <2>3
  <1>. QED  BY <1>1, <1>2

-----------------------------------------------------------------------------
(* The invariant in parts, and what keeps each. *)

ScalarsInv ==
  /\ at \in {"picker", "external", "publish", "load", "export", "resume", "user"}
  /\ tab \in {"library", "develop"} /\ doc \in Photo \cup {NoPhoto}
  /\ owned \in BOOLEAN /\ external \in ExternalType
  /\ load \in LoadType /\ open \in OpenType

FilesInv ==
  /\ slides \in SlidesType /\ worker \in WorkerType /\ publish \in PublishType
  /\ entries \subseteq Place /\ cached \subseteq Place /\ made \subseteq Photo

LEMMA TypesInParts == TypeOK <=> ScalarsInv /\ TasksInv /\ FilesInv
  BY DEF TypeOK, ScalarsInv, TasksInv, FilesInv, OpenType, LoadType, ExternalType, TaskType,
         BatchType, SlidesType, WorkerType, PublishType

(* The part of the invariant that is about exports. *)
ExportInv == TasksInv /\ FilesInv /\ WorkerInv /\ PublishInv /\ CountInv

LEMMA InvariantInParts == IInv <=> ScalarsInv /\ OwnedInv /\ ExportInv
  BY TypesInParts DEF IInv, ExportInv

LEMMA PartsNext ==
  ASSUME ScalarsInv', OwnedInv', ExportInv'
  PROVE  IInv'
  <1>1. TypeOK'
    BY DEF TypeOK, ScalarsInv, TasksInv, FilesInv, ExportInv, OpenType, LoadType, ExternalType,
           TaskType, BatchType, SlidesType, WorkerType, PublishType
  <1>. QED  BY <1>1 DEF IInv, ExportInv

LEMMA ExportsStay ==
  ASSUME ExportInv, UNCHANGED exports
  PROVE  ExportInv'
  BY DEF ExportInv, TasksInv, FilesInv, WorkerInv, PublishInv, CountInv, exports, Pending, Held,
         Credit, Arrived

LEMMA NothingMoves ==
  ASSUME IInv, UNCHANGED <<develop, exports>>, tab' \in {"library", "develop"},
         at' \in {"picker", "external", "publish", "load", "export", "resume", "user"}
  PROVE  IInv'
  <1>1. ExportInv'
    BY InvariantInParts, ExportsStay
  <1>2. ScalarsInv'
    BY InvariantInParts DEF ScalarsInv, develop
  <1>3. OwnedInv'
    BY InvariantInParts DEF OwnedInv, develop, exports, Pending, Opening, Loading
  <1>. QED  BY <1>1, <1>2, <1>3, PartsNext

LEMMA InitiallyIInv == Init => IInv
  <1>. SUFFICES ASSUME Init PROVE IInv
    OBVIOUS
  <1>. USE DEF Init
  <1>1. ScalarsInv
    <2>. <<>> \in Seq(Photo) /\ MaxExternal \in 0..MaxExternal
      BY MediaExportAssumption
    <2>. QED  BY SmallRecords DEF ScalarsInv, ExternalType
  <1>2. TasksInv /\ FilesInv
    BY SmallRecords DEF TasksInv, FilesInv, NoBatch, NoTask
  <1>3. WorkerInv /\ OwnedInv
    BY DEF WorkerInv, OwnedInv, NoWorker, Opening, NoLoad
  <1>4. PublishInv
    BY NothingOfNoPlace DEF PublishInv, NoSlides, NoPublish, Pending, Held
  <1>5. CountInv
    <2>1. Credit = 0 /\ Arrived = 0
      BY DEF Credit, Arrived, NoBatch, NoPublish
    <2>2. Cardinality(made) = 0
      BY FS_EmptySet
    <2>. QED  BY <2>1, <2>2 DEF CountInv
  <1>. QED  BY <1>1, <1>2, <1>3, <1>4, <1>5, InvariantInParts DEF ExportInv

LEMMA PlatformAnswers ==
  ASSUME IInv, PlatformOpens
  PROVE  IInv'
  <1>. USE DEF PlatformOpens
  <1>1. ExportInv'
    BY InvariantInParts, ExportsStay
  <1>2. ScalarsInv' /\ open'.photo = open.photo /\ open'.result # "none"
    BY InvariantInParts DEF ScalarsInv, OpenType
  <1>3. OwnedInv'
    BY <1>2, InvariantInParts DEF OwnedInv, exports, Pending, Opening, Loading
  <1>. QED  BY <1>1, <1>2, <1>3, PartsNext

LEMMA LoadAnswers ==
  ASSUME IInv, LoadEnds
  PROVE  IInv'
  <1>. USE DEF LoadEnds
  <1>1. ExportInv'
    BY InvariantInParts, ExportsStay
  <1>2. ScalarsInv' /\ load'.photo = load.photo /\ load'.result # "none"
    BY InvariantInParts DEF ScalarsInv, LoadType
  <1>3. OwnedInv'
    BY <1>2, InvariantInParts DEF OwnedInv, exports, Pending, Opening, Loading
  <1>. QED  BY <1>1, <1>2, <1>3, PartsNext

LEMMA PhotoSent ==
  ASSUME IInv, SendPhoto
  PROVE  IInv'
  <1>. USE DEF SendPhoto
  <1>1. ExportInv'
    BY InvariantInParts, ExportsStay
  <1>2. external' \in ExternalType
    <2>1. external \in ExternalType
      BY InvariantInParts DEF ScalarsInv
    <2>2. external.left - 1 \in 0..MaxExternal
      BY <2>1, MediaExportAssumption DEF ExternalType
    <2>3. \A p \in Photo : Append(external.waiting, p) \in Seq(Photo)
      BY <2>1 DEF ExternalType
    <2>. QED  BY <2>2, <2>3 DEF ExternalType
  <1>3. ScalarsInv'
    BY <1>2, InvariantInParts DEF ScalarsInv
  <1>4. OwnedInv'
    BY InvariantInParts DEF OwnedInv, exports, Pending, Opening, Loading
  <1>. QED  BY <1>1, <1>3, <1>4, PartsNext

LEMMA PhotoTapped ==
  ASSUME IInv, NEW p \in Photo, TapPhoto(p), at' = "picker"
  PROVE  IInv'
  <1>. USE DEF TapPhoto
  <1>1. ExportInv'
    BY InvariantInParts, ExportsStay
  <1>2. [photo |-> p, result |-> "wait"] \in OpenType /\ p # NoPhoto
    BY MediaExportAssumption DEF OpenType
  <1>3. ScalarsInv'
    BY <1>2, InvariantInParts DEF ScalarsInv
  <1>4. OwnedInv'
    BY <1>2, InvariantInParts DEF OwnedInv, exports, Pending, Opening, Loading
  <1>. QED  BY <1>1, <1>3, <1>4, PartsNext

-----------------------------------------------------------------------------
(* Exports that start. *)

(* Without a worker or a file at the platform nothing is left to publish or to delete. *)
LEMMA NothingAtHand ==
  ASSUME ExportInv, worker.state = "none", ~Pending
  PROVE  /\ ~slides.on /\ entries = {} /\ cached = {} /\ worker.places = <<>>
         /\ publish.place = <<>> /\ Held = {} /\ Arrived = 0
  <1>1. ~slides.on /\ publish.place = <<>> /\ worker.places = <<>>
    BY DEF ExportInv, PublishInv, WorkerInv
  <1>2. Held = {} /\ Arrived = 0
    BY <1>1, NothingOfNoPlace DEF Held, Arrived, Pending
  <1>. QED  BY <1>1, <1>2 DEF ExportInv, PublishInv

LEMMA TaskStarts ==
  ASSUME ExportInv, worker.state = "none", ~Pending,
         NEW kind \in Kind, NEW p \in Photo, NEW content \in Photo, content = p,
         NEW count \in 1..Slides, NEW places \in Places(p, count, kind),
         count > 1 => kind = "single",
         kind = "replay" => \A d \in Of(places) : d.via = "gallery",
         kind = "batch" <=> batch.on,
         StartTask(kind, content, places),
         UNCHANGED <<batch, slides, publish, cached, made, report>>
  PROVE  ExportInv'
  <1>. USE DEF StartTask
  <1>1. /\ places \in Seq(Place) /\ Len(places) = count /\ places # <<>>
        /\ \A d \in Of(places) : d.of = p /\ d.for = kind
    BY PlacesAreSequences
  <1>2. /\ ~slides.on /\ entries = {} /\ cached = {} /\ publish.place = <<>> /\ Held = {}
        /\ Arrived = 0
    BY NothingAtHand
  <1>3. /\ task' \in TaskType /\ task'.kind = kind /\ task'.rendering /\ task'.places = places
    <2>. task \in TaskType
      BY DEF ExportInv, TasksInv
    <2>1. task' = [kind |-> kind, rendering |-> TRUE, cancelling |-> task.cancelling,
                   places |-> places]
      BY DEF TaskType
    <2>. QED  BY <1>1, <2>1 DEF TaskType
  <1>4. TasksInv'
    BY <1>3 DEF ExportInv, TasksInv
  <1>5. worker' \in WorkerType
    BY <1>1 DEF WorkerType
  <1>6. entries' = Opened(Of(places)) /\ entries' \subseteq Place
    BY <1>1, <1>2, OfPlaces DEF Opened
  <1>7. FilesInv'
    BY <1>5, <1>6 DEF ExportInv, FilesInv
  <1>8. WorkerInv'
    BY <1>1, <1>2, <1>3, <1>6 DEF WorkerInv, Pending, Kind
  <1>9. PublishInv'
    BY <1>2, NothingOfNoPlace DEF ExportInv, PublishInv, Pending, Held
  <1>10. CountInv'
    BY DEF ExportInv, CountInv, Credit, Arrived
  <1>. QED  BY <1>4, <1>7, <1>8, <1>9, <1>10 DEF ExportInv

(* While no export runs there is no worker, and nothing is opened for a batch. *)
LEMMA NoExport ==
  ASSUME IInv, task.kind = "none"
  PROVE  ~batch.on /\ worker.state = "none" /\ owned = FALSE /\ ~slides.on
  <1>1. ~batch.on
    BY InvariantInParts DEF ExportInv, TasksInv
  <1>2. owned = FALSE
    BY <1>1, InvariantInParts DEF OwnedInv, ScalarsInv
  <1>3. worker.state = "none" /\ ~slides.on
    BY InvariantInParts DEF ExportInv, WorkerInv, PublishInv
  <1>. QED  BY <1>1, <1>2, <1>3

LEMMA SingleStarts ==
  ASSUME IInv, StartSingle, at' = "picker"
  PROVE  IInv'
  <1>. USE DEF StartSingle, CanExport
  <1>1. ~batch.on /\ worker.state = "none" /\ owned = FALSE
    BY NoExport
  <1>2. doc \in Photo
    BY InvariantInParts DEF ScalarsInv
  <1>3. PICK count \in {1} \cup (IF "carousel" \in Uses THEN {Slides} ELSE {}) :
          \E places \in Places(doc, count, "single") : StartTask("single", doc, places)
    OBVIOUS
  <1>. PICK places \in Places(doc, count, "single") : StartTask("single", doc, places)
    BY <1>3
  <1>4. count \in 1..Slides
    BY MediaExportAssumption
  <1>5. ExportInv'
    BY <1>1, <1>2, <1>3, <1>4, TaskStarts, InvariantInParts DEF Kind
  <1>6. ScalarsInv' /\ OwnedInv'
    BY <1>1, InvariantInParts DEF ScalarsInv, OwnedInv, develop, Opening
  <1>. QED  BY <1>5, <1>6, PartsNext

LEMMA ReplayStarts ==
  ASSUME IInv, StartReplay, at' = "picker"
  PROVE  IInv'
  <1>. USE DEF StartReplay, CanExport
  <1>1. ~batch.on /\ worker.state = "none" /\ owned = FALSE
    BY NoExport
  <1>2. doc \in Photo
    BY InvariantInParts DEF ScalarsInv
  <1>3. PICK places \in Places(doc, 1, "replay") :
          places[1].via = "gallery" /\ StartTask("replay", doc, places)
    OBVIOUS
  <1>4. 1 \in 1..Slides
    BY MediaExportAssumption
  <1>5. \A d \in Of(places) : d.via = "gallery"
    <2>1. places \in Seq(Place) /\ Len(places) = 1
      <3>1. "replay" \in Kind
        BY DEF Kind
      <3>. HIDE DEF StartReplay, CanExport
      <3>2. \A kind \in Kind : \A q \in Places(doc, 1, kind) : q \in Seq(Place) /\ Len(q) = 1
        <4>1. PICK count \in 1..Slides : count = 1
          BY <1>4
        <4>2. \A kind \in Kind : \A q \in Places(doc, count, kind) : q \in Seq(Place) /\ Len(q) = count
          BY <1>2, PlacesAreSequences
        <4>. QED  BY <4>1, <4>2
      <3>. QED  BY <1>3, <3>1, <3>2
    <2>. QED  BY <1>3, <2>1 DEF Of
  <1>6. ExportInv'
    BY <1>1, <1>2, <1>3, <1>4, <1>5, TaskStarts, InvariantInParts DEF Kind
  <1>7. ScalarsInv' /\ OwnedInv'
    BY <1>1, InvariantInParts DEF ScalarsInv, OwnedInv, develop, Opening
  <1>. QED  BY <1>6, <1>7, PartsNext

LEMMA BatchStarts ==
  ASSUME IInv, StartBatch, at' = "picker"
  PROVE  IInv'
  <1>. USE DEF StartBatch
  <1>1. ~batch.on /\ worker.state = "none" /\ owned = FALSE /\ ~slides.on
    BY NoExport
  <1>2. PICK targets \in SUBSET Photo \ {{}} :
          batch' = [NoBatch EXCEPT !.on = TRUE, !.pending = targets]
    OBVIOUS
  <1>3. batch' = [on |-> TRUE, pending |-> targets, current |-> NoPhoto, completed |-> 0,
                  failures |-> 0, cancel |-> FALSE]
    BY <1>2 DEF NoBatch
  <1>4. task' = [kind |-> "batch", rendering |-> FALSE, cancelling |-> FALSE, places |-> <<>>]
    BY DEF NoTask
  <1>5. batch' \in BatchType /\ task' \in TaskType
    <2>1. task' \in TaskType
      <3>1. <<>> \in Seq(Place) /\ "batch" \in Kind
        BY DEF Kind
      <3>2. NoTask \in TaskType /\ task' = [NoTask EXCEPT !.kind = "batch"]
        BY SmallRecords
      <3>. QED  BY <3>1, <3>2 DEF TaskType
    <2>2. batch' \in BatchType
      <3>1. targets \in SUBSET Photo
        OBVIOUS
      <3>. QED  BY <1>3, <3>1 DEF BatchType
    <2>. QED  BY <2>1, <2>2
  <1>6. TasksInv'
    BY <1>3, <1>4, <1>5, InvariantInParts DEF TasksInv, ExportInv
  <1>7. FilesInv' /\ WorkerInv'
    BY <1>1, InvariantInParts DEF FilesInv, WorkerInv, ExportInv
  <1>8. PublishInv'
    BY <1>1, <1>3, InvariantInParts DEF PublishInv, ExportInv, Pending, Held
  <1>9. CountInv'
    <2>1. Credit' = 0
      <3>1. batch'.on /\ batch'.completed = 0 /\ batch'.failures = 0
        BY <1>3
      <3>. QED  BY <3>1 DEF Credit
    <2>2. Cardinality(made') = 0
      BY FS_EmptySet
    <2>3. Arrived' \in {0, 1}
      BY DEF Arrived
    <2>. QED  BY <2>1, <2>2, <2>3 DEF CountInv
  <1>10. ScalarsInv' /\ OwnedInv'
    BY <1>1, InvariantInParts DEF ScalarsInv, OwnedInv, develop, Opening
  <1>. QED  BY <1>6, <1>7, <1>8, <1>9, <1>10, PartsNext DEF ExportInv

LEMMA ExportCancelled ==
  ASSUME IInv, Cancel, at' = "picker"
  PROVE  IInv'
  <1>. USE DEF Cancel
  <1>. task \in TaskType /\ batch \in BatchType /\ (batch.on <=> task.kind = "batch")
    BY InvariantInParts DEF ExportInv, TasksInv
  <1>1. /\ task' \in TaskType /\ task'.kind = task.kind /\ task'.rendering = task.rendering
        /\ task'.places = task.places
    BY DEF TaskType
  <1>2. /\ batch' \in BatchType /\ batch'.on = batch.on /\ batch'.current = batch.current
        /\ batch'.completed = batch.completed /\ batch'.failures = batch.failures
    <2>1. CASE batch.on
      <3>. DEFINE c == [batch EXCEPT !.cancel = TRUE]
      <3>1. c \in BatchType /\ c.on = batch.on /\ c.current = batch.current
            /\ c.completed = batch.completed /\ c.failures = batch.failures
        BY DEF BatchType
      <3>2. batch' = [c EXCEPT !.pending = {}]
        BY <2>1
      <3>. HIDE DEF c
      <3>. QED  BY <3>1, <3>2 DEF BatchType
    <2>. QED  BY <2>1
  <1>3. TasksInv'
    BY <1>1, <1>2, InvariantInParts DEF ExportInv, TasksInv
  <1>4. FilesInv' /\ WorkerInv'
    BY <1>1, InvariantInParts DEF ExportInv, FilesInv, WorkerInv, Pending
  <1>5. PublishInv'
    BY <1>1, <1>2, InvariantInParts DEF ExportInv, PublishInv, Pending, Held
  <1>6. CountInv'
    BY <1>2, InvariantInParts DEF ExportInv, CountInv, Credit, Arrived
  <1>7. ScalarsInv' /\ OwnedInv'
    BY <1>2, InvariantInParts DEF ScalarsInv, OwnedInv, develop, Pending, Opening, Loading
  <1>. QED  BY <1>3, <1>4, <1>5, <1>6, <1>7, PartsNext DEF ExportInv

-----------------------------------------------------------------------------
(* Photos that are opened, and the batch's. *)

(* A count that does not go down still covers the photos in the gallery. *)
LEMMA CountKeeps ==
  ASSUME ExportInv, TasksInv', Credit' >= Credit, UNCHANGED <<made, publish>>
  PROVE  CountInv'
  <1>1. Credit \in Int /\ Credit' \in Int
    BY DEF ExportInv, TasksInv, Credit, BatchType
  <1>2. Arrived' = Arrived /\ Arrived \in {0, 1}
    BY DEF Arrived
  <1>3. Cardinality(made) \in Nat
    <2>1. IsFiniteSet(made)
      BY MediaExportAssumption, FS_Subset DEF ExportInv, FilesInv
    <2>. QED  BY <2>1, FS_CardinalityType
  <1>. QED  BY <1>1, <1>2, <1>3 DEF ExportInv, CountInv

LEMMA EqualIsEnough ==
  ASSUME NEW m, NEW n \in Int, m = n
  PROVE  m >= n
  OBVIOUS

(* An item of a batch that ends before its worker starts leaves nothing. *)
LEMMA ItemDropped ==
  ASSUME ExportInv, worker.state = "none", ~Pending, batch.on, CompleteItem(FALSE),
         UNCHANGED <<slides, worker, publish, entries, cached, made>>
  PROVE  ExportInv'
  <1>1. TasksInv' /\ Credit' >= Credit
    <2>1. Credit \in Int /\ FALSE \in BOOLEAN
      BY DEF ExportInv, TasksInv, Credit, BatchType
    <2>2. TasksInv' /\ Credit' >= Credit + 0
      BY <2>1, CompletedItem DEF ExportInv
    <2>. QED  BY <2>1, <2>2
  <1>2. CountInv'
    BY <1>1, CountKeeps
  <1>3. FilesInv' /\ WorkerInv'
    BY DEF ExportInv, FilesInv, WorkerInv
  <1>4. ~slides.on /\ publish.place = <<>> /\ entries = {} /\ cached = {}
    BY NothingAtHand
  <1>5. PublishInv'
    BY <1>4, NothingOfNoPlace DEF ExportInv, PublishInv, Pending, Held
  <1>. QED  BY <1>1, <1>2, <1>3, <1>5 DEF ExportInv

(* An open of the batch's that the platform has answered. *)
LEMMA BatchOpens ==
  ASSUME IInv, owned, Opening
  PROVE  /\ batch.on /\ batch.current \in Photo /\ worker.state = "none" /\ ~Pending
         /\ ~Loading /\ open.photo = batch.current
  BY InvariantInParts DEF OwnedInv, ExportInv, TasksInv, BatchType

LEMMA PhotoPicked ==
  ASSUME IInv, NEW p \in Photo, Picked(p),
         at' \in {"picker", "external", "publish", "load", "export", "resume", "user"},
         \/ Opening /\ open' = NoLoad /\ (owned => p = batch.current) /\ external' = external
         \/ ~owned /\ open' = open /\ external' \in ExternalType,
         UNCHANGED <<slides, worker, publish, entries, cached, made>>
  PROVE  IInv'
  <1>. USE DEF Picked, StartLoad
  <1>1. ScalarsInv'
    <2>1. load' \in LoadType /\ doc' \in Photo \cup {NoPhoto}
      <3>1. [photo |-> p, result |-> "wait"] \in LoadType
        BY DEF LoadType
      <3>. QED  BY <3>1, SmallRecords, InvariantInParts DEF ScalarsInv
    <2>2. open' \in OpenType /\ external' \in ExternalType /\ tab' \in {"library", "develop"}
      BY SmallRecords, InvariantInParts DEF ScalarsInv
    <2>3. owned' \in BOOLEAN
      BY InvariantInParts DEF ScalarsInv
    <2>. QED  BY <2>1, <2>2, <2>3 DEF ScalarsInv
  <1>2. CASE ~owned
    <2>1. owned' = owned /\ UNCHANGED exports
      BY <1>2 DEF exports
    <2>2. ExportInv'
      BY <2>1, ExportsStay, InvariantInParts
    <2>3. OwnedInv'
      BY <1>2, <2>1, InvariantInParts DEF OwnedInv, Opening, NoLoad
    <2>. QED  BY <1>1, <2>2, <2>3, PartsNext
  <1>3. CASE owned
    <2>1. Opening /\ open' = NoLoad /\ p = batch.current
      BY <1>3
    <2>2. batch.on /\ worker.state = "none" /\ ~Pending /\ ~Loading
      BY <1>3, <2>1, BatchOpens
    <2>3. load' = [photo |-> p, result |-> "wait"] \/ load' = NoLoad
      BY <2>2
    <2>4. CASE load' = NoLoad
      <3>1. owned' = FALSE /\ CompleteItem(FALSE)
        BY <1>3, <2>4 DEF NoLoad
      <3>2. ExportInv'
        BY <2>2, <3>1, ItemDropped, InvariantInParts
      <3>3. OwnedInv'
        BY <2>1, <3>1 DEF OwnedInv, Opening, NoLoad
      <3>. QED  BY <1>1, <3>2, <3>3, PartsNext
    <2>5. CASE load' = [photo |-> p, result |-> "wait"]
      <3>1. UNCHANGED <<owned, task, batch, report>>
        BY <2>5
      <3>2. ExportInv'
        BY <3>1, ExportsStay, InvariantInParts DEF exports
      <3>3. OwnedInv'
        <4>1. batch.current # NoPhoto
          BY <2>1, MediaExportAssumption
        <4>2. Loading' /\ ~Opening' /\ load'.photo = batch'.current
          BY <2>1, <2>5, <3>1 DEF Loading, Opening, NoLoad
        <4>. QED  BY <2>2, <3>1, <4>1, <4>2 DEF OwnedInv, Pending
      <3>. QED  BY <1>1, <3>2, <3>3, PartsNext
    <2>. QED  BY <2>3, <2>4, <2>5
  <1>. QED  BY <1>2, <1>3

LEMMA PickerPolled ==
  ASSUME IInv, PollPicker
  PROVE  IInv'
  <1>. USE DEF PollPicker
  <1>1. CASE open.result = "picked"
    <2>1. Picked(open.photo) /\ open' = NoLoad /\ Opening
      BY <1>1 DEF Opening
    <2>2. open.photo \in Photo
      BY <2>1, InvariantInParts DEF ScalarsInv, OpenType, OwnedInv
    <2>3. owned => open.photo = batch.current
      BY <2>1, BatchOpens
    <2>. QED  BY <1>1, <2>1, <2>2, <2>3, PhotoPicked
  <1>2. CASE open.result = "failed"
    <2>1. NotPicked /\ open' = NoLoad /\ Opening
          /\ UNCHANGED <<external, slides, worker, publish, entries, cached, made>>
      BY <1>2 DEF Opening
    <2>2. ExportInv'
      <3>1. CASE owned
        BY <2>1, <3>1, BatchOpens, ItemDropped, InvariantInParts DEF NotPicked
      <3>2. CASE ~owned
        BY <2>1, <3>2, ExportsStay, InvariantInParts DEF NotPicked, exports
      <3>. QED  BY <3>1, <3>2
    <2>3. ScalarsInv' /\ OwnedInv'
      BY <2>1, SmallRecords, InvariantInParts DEF ScalarsInv, OwnedInv, NotPicked, Opening, NoLoad
    <2>. QED  BY <2>2, <2>3, PartsNext
  <1>3. CASE open.result \notin {"picked", "failed"}
    BY <1>3, NothingMoves, InvariantInParts DEF ScalarsInv, develop
  <1>. QED  BY <1>1, <1>2, <1>3

LEMMA ExternalPolled ==
  ASSUME IInv, PollExternal
  PROVE  IInv'
  <1>. USE DEF PollExternal
  <1>1. CASE TakesExternal
    <2>1. /\ external.waiting # <<>> /\ ~owned
          /\ external' = [external EXCEPT !.waiting = Tail(@)]
          /\ Picked(Head(external.waiting))
          /\ UNCHANGED <<open, slides, worker, publish, entries, cached, made>>
      BY <1>1 DEF TakesExternal
    <2>2. external \in ExternalType
      BY InvariantInParts DEF ScalarsInv
    <2>3. Head(external.waiting) \in Photo /\ Tail(external.waiting) \in Seq(Photo)
      BY <2>1, <2>2 DEF ExternalType
    <2>4. external' \in ExternalType
      BY <2>1, <2>2, <2>3 DEF ExternalType
    <2>. QED  BY <2>1, <2>3, <2>4, PhotoPicked
  <1>2. CASE ~TakesExternal
    BY <1>2, NothingMoves, InvariantInParts DEF ScalarsInv, develop
  <1>. QED  BY <1>1, <1>2

LEMMA BatchLoadEnds ==
  ASSUME IInv, owned, Loading, NEW success \in BOOLEAN, BatchLoadFinished(success, load.photo),
         UNCHANGED <<slides, publish, cached, made>>
  PROVE  ExportInv' /\ tab' \in {"library", "develop"}
  <1>1. /\ batch.on /\ batch.current # NoPhoto /\ worker.state = "none" /\ ~Pending
        /\ load.photo = batch.current /\ tab \in {"library", "develop"} /\ ExportInv
    BY InvariantInParts DEF OwnedInv, ScalarsInv
  <1>2. batch \in BatchType /\ batch.current \in Photo
    BY <1>1 DEF ExportInv, TasksInv, BatchType
  <1>3. CASE CompleteItem(FALSE) /\ tab' \in {tab, "library"} /\ UNCHANGED <<worker, entries>>
    BY <1>1, <1>3, ItemDropped
  <1>4. CASE batch' = Failed(batch, 1) /\ UNCHANGED <<tab, task, report, worker, entries>>
    <2>1. /\ batch' \in BatchType /\ batch'.on = batch.on
          /\ batch'.completed - batch'.failures = batch.completed - batch.failures
      BY <1>2, <1>4, FailedCounts
    <2>2. TasksInv'
      BY <1>1, <1>4, <2>1 DEF ExportInv, TasksInv
    <2>3. Credit' = Credit /\ Credit \in Int
      BY <1>1, <1>2, <2>1 DEF Credit, BatchType
    <2>4. CountInv'
      BY <1>1, <2>2, <2>3, CountKeeps
    <2>5. FilesInv' /\ WorkerInv'
      BY <1>1, <1>4 DEF ExportInv, FilesInv, WorkerInv
    <2>6. PublishInv'
      BY <1>1, <1>4, <2>1 DEF ExportInv, PublishInv, Pending, Held
    <2>. QED  BY <1>1, <1>4, <2>2, <2>4, <2>5, <2>6 DEF ExportInv
  <1>5. CASE /\ \E places \in Places(batch.current, 1, "batch") :
                  StartTask("batch", load.photo, places)
             /\ tab' = "library" /\ UNCHANGED <<batch, report>>
    <2>1. PICK places \in Places(batch.current, 1, "batch") :
            StartTask("batch", load.photo, places)
      BY <1>5
    <2>2. 1 \in 1..Slides /\ "batch" \in Kind
      BY MediaExportAssumption DEF Kind
    <2>3. ExportInv'
      BY <1>1, <1>2, <1>5, <2>1, <2>2, TaskStarts
    <2>. QED  BY <1>5, <2>3
  <1>. QED  BY <1>1, <1>3, <1>4, <1>5 DEF BatchLoadFinished

LEMMA LoadPolled ==
  ASSUME IInv, PollLoad
  PROVE  IInv'
  <1>. USE DEF PollLoad
  <1>1. CASE load.result \in {"loaded", "failed"}
    <2>1. /\ load' = NoLoad /\ owned' = FALSE /\ open' = open /\ external' = external
          /\ doc' = IF load.result = "loaded" THEN load.photo ELSE NoPhoto
          /\ UNCHANGED <<slides, publish, cached, made>>
      BY <1>1
    <2>2. ExportInv' /\ tab' \in {"library", "develop"}
      <3>1. CASE owned
        <4>1. BatchLoadFinished(load.result = "loaded", load.photo) /\ Loading
          BY <1>1, <3>1 DEF Loading
        <4>2. (load.result = "loaded") \in BOOLEAN
          OBVIOUS
        <4>. QED  BY <2>1, <3>1, <4>1, <4>2, BatchLoadEnds
      <3>2. CASE ~owned
        <4>1. UNCHANGED <<tab, exports>>
          BY <1>1, <2>1, <3>2 DEF exports
        <4>. QED  BY <4>1, ExportsStay, InvariantInParts DEF ScalarsInv
      <3>. QED  BY <3>1, <3>2
    <2>3. doc' \in Photo \cup {NoPhoto}
      BY <2>1, InvariantInParts DEF ScalarsInv, LoadType
    <2>4. ScalarsInv' /\ OwnedInv'
      BY <2>1, <2>2, <2>3, SmallRecords, InvariantInParts DEF ScalarsInv, OwnedInv, Opening
    <2>. QED  BY <2>2, <2>4, PartsNext
  <1>2. CASE load.result \notin {"loaded", "failed"}
    BY <1>2, NothingMoves, InvariantInParts DEF ScalarsInv, develop
  <1>. QED  BY <1>1, <1>2

(* The batch asks for its next photo, or ends when none of them opens. *)
LEMMA BatchGoesOn ==
  ASSUME IInv, MayResume, StartNext,
         UNCHANGED <<tab, doc, load, external, slides, worker, publish, entries, cached, made>>,
         at' = "user"
  PROVE  IInv'
  <1>1. /\ ~Opening /\ ~Loading /\ ~Pending /\ batch.on /\ ~task.rendering
        /\ worker.state = "none" /\ ~slides.on /\ publish.place = <<>>
    <2>1. ~Opening /\ ~Loading /\ ~Pending /\ batch.on /\ ~task.rendering
      BY InvariantInParts DEF MayResume, ExportInv, TasksInv
    <2>2. worker.state = "none"
      BY <2>1, InvariantInParts DEF ExportInv, WorkerInv
    <2>. QED  BY <2>1, <2>2, NothingAtHand, InvariantInParts
  <1>2. owned = FALSE
    BY <1>1, InvariantInParts DEF OwnedInv, ScalarsInv
  <1>3. batch \in BatchType /\ batch.pending \subseteq Photo
    BY InvariantInParts DEF ExportInv, TasksInv, BatchType
  <1>0. Credit \in Int
    BY <1>1, <1>3 DEF Credit, BatchType
  <1>. PICK skipped \in SUBSET batch.pending :
         LET b == Failed([batch EXCEPT !.pending = @ \ skipped], Cardinality(skipped))
         IN \/ b.pending = {} /\ FinishBatch(b) /\ owned' = FALSE /\ UNCHANGED open
            \/ \E p \in b.pending :
                 /\ batch' = [b EXCEPT !.pending = @ \ {p}, !.current = p]
                 /\ open' = [photo |-> p, result |-> "wait"]
                 /\ owned' = TRUE
                 /\ UNCHANGED <<task, report>>
    BY DEF StartNext
  <1>. DEFINE c == [batch EXCEPT !.pending = @ \ skipped]
              b == Failed(c, Cardinality(skipped))
  <1>4. c \in BatchType /\ c.on /\ c.completed = batch.completed /\ c.failures = batch.failures
    <2>1. batch.pending \ skipped \in SUBSET Photo
      BY <1>3
    <2>. QED  BY <1>1, <1>3, <2>1 DEF BatchType
  <1>5. Cardinality(skipped) \in Nat
    BY <1>3, MediaExportAssumption, FS_Subset, FS_CardinalityType
  <1>6. /\ b \in BatchType /\ b.on
        /\ b.completed - b.failures = Credit
    <2>. HIDE DEF c
    <2>1. b \in BatchType /\ b.on = c.on /\ b.completed - b.failures = c.completed - c.failures
      BY <1>4, <1>5, FailedCounts
    <2>. QED  BY <1>1, <1>4, <2>1 DEF Credit
  <1>7. CASE b.pending = {} /\ FinishBatch(b) /\ owned' = FALSE /\ UNCHANGED open
    <2>. HIDE DEF b
    <2>1. TasksInv' /\ Credit' >= Credit
      BY <1>6, <1>7, FinishedBatch
    <2>2. CountInv'
      BY <2>1, CountKeeps, InvariantInParts
    <2>3. FilesInv' /\ WorkerInv'
      BY <1>1, InvariantInParts DEF ExportInv, FilesInv, WorkerInv
    <2>4. PublishInv'
      BY <1>1, InvariantInParts, NothingOfNoPlace DEF ExportInv, PublishInv, Pending, Held
    <2>5. ScalarsInv' /\ OwnedInv'
      BY <1>1, <1>7, InvariantInParts DEF ScalarsInv, OwnedInv, Opening
    <2>. QED  BY <2>1, <2>2, <2>3, <2>4, <2>5, PartsNext DEF ExportInv
  <1>8. CASE \E p \in b.pending :
               /\ batch' = [b EXCEPT !.pending = @ \ {p}, !.current = p]
               /\ open' = [photo |-> p, result |-> "wait"]
               /\ owned' = TRUE
               /\ UNCHANGED <<task, report>>
    <2>. HIDE DEF b
    <2>. PICK p \in b.pending :
           /\ batch' = [b EXCEPT !.pending = @ \ {p}, !.current = p]
           /\ open' = [photo |-> p, result |-> "wait"]
           /\ owned' = TRUE
           /\ UNCHANGED <<task, report>>
      BY <1>8
    <2>1. p \in Photo /\ p # NoPhoto /\ b.pending \ {p} \in SUBSET Photo
      BY <1>6, MediaExportAssumption DEF BatchType
    <2>2. /\ batch' \in BatchType /\ batch'.on /\ batch'.current = p
          /\ batch'.completed = b.completed /\ batch'.failures = b.failures
      <3>. DEFINE e == [b EXCEPT !.pending = @ \ {p}]
      <3>1. e \in BatchType /\ e.on /\ e.completed = b.completed /\ e.failures = b.failures
        BY <1>6, <2>1 DEF BatchType
      <3>2. batch' = [e EXCEPT !.current = p]
        BY Zenon
      <3>. HIDE DEF e
      <3>. QED  BY <2>1, <3>1, <3>2 DEF BatchType
    <2>3. TasksInv'
      BY <1>1, <2>2, InvariantInParts DEF ExportInv, TasksInv
    <2>4. Credit' = Credit /\ Credit \in Int
      <3>1. Credit' = b.completed - b.failures
        BY <2>2 DEF Credit
      <3>2. b.completed \in Nat /\ b.failures \in Nat
        BY <1>6 DEF BatchType
      <3>3. Credit' = Credit
        BY <1>6, <3>1, Zenon
      <3>. QED  BY <1>0, <3>3
    <2>5. CountInv'
      <3>1. Credit' >= Credit
        BY <1>0, <2>4, EqualIsEnough
      <3>. QED  BY <2>3, <3>1, CountKeeps, InvariantInParts
    <2>6. FilesInv' /\ WorkerInv'
      BY <1>1, InvariantInParts DEF ExportInv, FilesInv, WorkerInv
    <2>7. PublishInv'
      BY <1>1, InvariantInParts, NothingOfNoPlace DEF ExportInv, PublishInv, Pending, Held
    <2>8. ScalarsInv'
      <3>1. open' \in OpenType
        BY <2>1 DEF OpenType
      <3>. QED  BY <3>1, InvariantInParts DEF ScalarsInv
    <2>9. OwnedInv'
      BY <1>1, <2>1, <2>2 DEF OwnedInv, Opening, Loading, Pending
    <2>. QED  BY <2>3, <2>5, <2>6, <2>7, <2>8, <2>9, PartsNext DEF ExportInv
  <1>. QED  BY <1>7, <1>8

LEMMA BatchResumed ==
  ASSUME IInv, Resume
  PROVE  IInv'
  <1>. USE DEF Resume
  <1>1. CASE MayResume
    BY <1>1, BatchGoesOn
  <1>2. CASE ~MayResume
    BY <1>2, NothingMoves, InvariantInParts DEF ScalarsInv, develop
  <1>. QED  BY <1>1, <1>2

-----------------------------------------------------------------------------
(* Rendered files, and what the platform publishes. *)

LEMMA MadeIsFinite ==
  ASSUME ExportInv
  PROVE  /\ IsFiniteSet(made) /\ Cardinality(made) \in Nat
         /\ \A p : /\ Cardinality(made \cup {p}) \in Nat
                   /\ Cardinality(made \cup {p}) <= Cardinality(made) + 1
  <1>1. IsFiniteSet(made)
    BY MediaExportAssumption, FS_Subset DEF ExportInv, FilesInv
  <1>2. Cardinality(made) \in Nat
    BY <1>1, FS_CardinalityType
  <1>3. ASSUME NEW p
        PROVE  /\ Cardinality(made \cup {p}) \in Nat
               /\ Cardinality(made \cup {p}) <= Cardinality(made) + 1
    <2>1. Cardinality(made \cup {p}) = IF p \in made THEN Cardinality(made) ELSE Cardinality(made) + 1
      BY <1>1, FS_AddElement
    <2>. QED  BY <1>2, <2>1
  <1>. QED  BY <1>1, <1>2, <1>3

(* An active worker is the only one at work. *)
LEMMA WorkerAlone ==
  ASSUME IInv, worker.state # "none"
  PROVE  owned = FALSE /\ ~Pending /\ ~slides.on /\ publish.place = <<>> /\ Arrived = 0
  <1>1. owned = FALSE
    BY InvariantInParts DEF OwnedInv, ScalarsInv
  <1>2. ~Pending /\ ~slides.on
    BY InvariantInParts DEF ExportInv, WorkerInv
  <1>3. publish.place = <<>>
    BY <1>2, InvariantInParts DEF ExportInv, PublishInv
  <1>. QED  BY <1>1, <1>2, <1>3 DEF Arrived, Pending

LEMMA WorkerAnswers ==
  ASSUME IInv, RenderEnds
  PROVE  IInv'
  <1>. USE DEF RenderEnds
  <1>1. owned = FALSE /\ ~Pending /\ ~slides.on /\ publish.place = <<>>
    BY WorkerAlone
  <1>2. worker \in WorkerType /\ worker.places \in Seq(Place)
    BY InvariantInParts DEF ExportInv, FilesInv, WorkerType
  <1>3. /\ worker' \in WorkerType /\ worker'.state \in {"done", "failed"}
        /\ worker'.places = worker.places /\ worker'.content = worker.content
    BY <1>2 DEF WorkerType
  <1>4. cached = {}
    BY InvariantInParts DEF ExportInv, WorkerInv
  <1>5. cached' \subseteq (IF worker'.state = "done" THEN InCache(Of(worker.places)) ELSE {})
    BY <1>2, <1>4 DEF WorkerType
  <1>6. cached' \subseteq Place
    BY <1>2, <1>5, OfPlaces DEF InCache
  <1>7. TasksInv' /\ FilesInv'
    BY <1>3, <1>6, InvariantInParts DEF ExportInv, TasksInv, FilesInv
  <1>8. WorkerInv'
    BY <1>1, <1>3, <1>5, InvariantInParts DEF ExportInv, WorkerInv, Pending
  <1>9. PublishInv'
    BY <1>1, <1>3, InvariantInParts DEF ExportInv, PublishInv, Pending, Held
  <1>10. CountInv'
    BY InvariantInParts DEF ExportInv, CountInv, Credit, Arrived
  <1>11. ScalarsInv' /\ OwnedInv'
    BY <1>1, InvariantInParts DEF ScalarsInv, OwnedInv, develop, Opening
  <1>. QED  BY <1>7, <1>8, <1>9, <1>10, <1>11, PartsNext DEF ExportInv

LEMMA PublishAnswers ==
  ASSUME IInv, PublishEnds
  PROVE  IInv'
  <1>. USE DEF PublishEnds
  <1>1. Pending /\ worker.state = "none" /\ owned = FALSE
    BY WorkerAlone, InvariantInParts DEF Pending, OwnedInv, ScalarsInv
  <1>2. publish \in PublishType /\ publish.place \in Seq(Place) /\ Len(publish.place) <= 1
    BY InvariantInParts DEF ExportInv, FilesInv, PublishType, PublishInv
  <1>3. /\ publish' \in PublishType /\ publish'.place = publish.place
        /\ publish'.result \in {"published", "failed"}
    BY <1>2 DEF PublishType
  <1>4. Held = Of(publish.place) /\ Held' = {} /\ Pending'
    BY <1>3 DEF Held, Pending
  <1>5. PublishInv'
    BY <1>1, <1>2, <1>3, <1>4, InvariantInParts DEF ExportInv, PublishInv
  <1>6. WorkerInv' /\ TasksInv'
    BY <1>1, InvariantInParts DEF ExportInv, WorkerInv, TasksInv
  <1>7. made' \subseteq Photo /\ cached' \subseteq Place
    BY <1>2, OfPlaces, InvariantInParts DEF ExportInv, FilesInv, Place
  <1>8. FilesInv'
    BY <1>3, <1>7, InvariantInParts DEF ExportInv, FilesInv
  <1>9. CountInv'
    <2>1. Credit' = Credit /\ Credit \in Int /\ Arrived = 0
      BY InvariantInParts DEF ExportInv, TasksInv, Credit, BatchType, Arrived
    <2>2. Cardinality(made) <= Credit /\ Cardinality(made) \in Nat
      BY <2>1, MadeIsFinite, InvariantInParts DEF ExportInv, CountInv
    <2>3. CASE UNCHANGED made
      <3>1. Arrived' \in {0, 1}
        BY DEF Arrived
      <3>. QED  BY <2>1, <2>2, <2>3, <3>1 DEF CountInv
    <2>4. CASE /\ publish'.result = "published"
               /\ made' = made \cup {d.of : d \in {e \in Of(publish.place) : e.for = "batch"}}
      <3>1. CASE \E d \in Of(publish.place) : d.for = "batch"
        <4>1. PICK d \in Of(publish.place) : d.for = "batch"
          BY <3>1
        <4>2. Of(publish.place) = {d}
          BY <1>2, <4>1 DEF Of
        <4>3. made' = made \cup {d.of}
          BY <2>4, <4>1, <4>2
        <4>4. Arrived' = 1
          BY <1>3, <2>4, <4>1 DEF Arrived
        <4>5. Cardinality(made') <= Cardinality(made) + 1 /\ Cardinality(made') \in Nat
          BY <4>3, MadeIsFinite, InvariantInParts
        <4>. QED  BY <2>1, <2>2, <4>4, <4>5 DEF CountInv
      <3>2. CASE ~ \E d \in Of(publish.place) : d.for = "batch"
        <4>1. made' = made
          BY <2>4, <3>2
        <4>. QED  BY <2>3, <4>1
      <3>. QED  BY <3>1, <3>2
    <2>. QED  BY <2>3, <2>4, <1>2 DEF PublishType
  <1>10. ScalarsInv' /\ OwnedInv'
    BY <1>1, InvariantInParts DEF ScalarsInv, OwnedInv, develop, Opening
  <1>. QED  BY <1>5, <1>6, <1>8, <1>9, <1>10, PartsNext DEF ExportInv

(* Slides are published one after another, up to one that the platform has to copy or that
   fails; the entries and files of the rest go with it. *)
LEMMA SlidesPublished ==
  ASSUME ExportInv, NEW rest \in Seq(Place), PublishSlides(rest),
         \A d \in Of(rest) : d.for = "single",
         entries \subseteq Opened(Of(rest)), cached \subseteq InCache(Of(rest)),
         task.kind = "single", Arrived = 0,
         worker'.state = "none", worker'.places = <<>>, worker' \in WorkerType
  PROVE  ExportInv'
  <1>. PICK done \in 0..Len(rest) :
         LET now == {rest[n] : n \in 1..done}
             left == {rest[n] : n \in done + 1..Len(rest)}
         IN /\ \A d \in now : d.via = "direct"
            /\ UNCHANGED <<batch, report, made>>
            /\ \/ /\ done = Len(rest)
                  /\ entries' = entries \ now
                  /\ task' = NoTask /\ slides' = NoSlides
                  /\ publish' = NoPublish /\ UNCHANGED cached
               \/ /\ done < Len(rest) /\ rest[done + 1].via = "gallery"
                  /\ entries' = entries \ now
                  /\ Sent(<<rest[done + 1]>>)
                  /\ slides' = [on |-> TRUE, pending |-> SubSeq(rest, done + 2, Len(rest))]
                  /\ task' = [task EXCEPT !.rendering = FALSE]
                  /\ UNCHANGED cached
               \/ /\ done < Len(rest)
                  /\ entries' = entries \ (now \cup left)
                  /\ cached' = cached \ left
                  /\ task' = NoTask /\ slides' = NoSlides
                  /\ publish' = NoPublish
    BY DEF PublishSlides
  <1>. DEFINE now == {rest[n] : n \in 1..done}
              left == {rest[n] : n \in done + 1..Len(rest)}
  <1>1. Of(rest) = now \cup left
    BY DEF Of
  <1>2. \A d \in now : d.via = "direct"
    OBVIOUS
  <1>0. \/ /\ done = Len(rest)
           /\ entries' = entries \ now
           /\ task' = NoTask /\ slides' = NoSlides
           /\ publish' = NoPublish /\ UNCHANGED cached
        \/ /\ done < Len(rest) /\ rest[done + 1].via = "gallery"
           /\ entries' = entries \ now
           /\ Sent(<<rest[done + 1]>>)
           /\ slides' = [on |-> TRUE, pending |-> SubSeq(rest, done + 2, Len(rest))]
           /\ task' = [task EXCEPT !.rendering = FALSE]
           /\ UNCHANGED cached
        \/ /\ done < Len(rest)
           /\ entries' = entries \ (now \cup left)
           /\ cached' = cached \ left
           /\ task' = NoTask /\ slides' = NoSlides
           /\ publish' = NoPublish
    OBVIOUS
  <1>. done \in Nat /\ Len(rest) \in Nat /\ done <= Len(rest)
    OBVIOUS
  <1>. HIDE DEF now
  <1>3. ~batch.on
    BY DEF ExportInv, TasksInv
  <1>4. WorkerInv'
    BY DEF WorkerInv
  <1>5. /\ entries' \subseteq entries /\ cached' \subseteq cached
        /\ made' = made /\ batch' = batch /\ report' = report
    OBVIOUS
  <1>6. CASE /\ task' = NoTask /\ slides' = NoSlides /\ publish' = NoPublish
             /\ entries' = {} /\ cached' = {}
    <2>1. TasksInv'
      BY <1>3, <1>5, <1>6, SmallRecords DEF ExportInv, TasksInv, NoTask
    <2>2. FilesInv'
      BY <1>5, <1>6, SmallRecords DEF ExportInv, FilesInv
    <2>3. PublishInv'
      BY <1>6, NothingOfNoPlace DEF PublishInv, NoSlides, NoPublish, Pending
    <2>4. CountInv'
      BY <1>3, <1>5, <1>6 DEF ExportInv, CountInv, Credit, Arrived, NoPublish
    <2>. QED  BY <1>4, <2>1, <2>2, <2>3, <2>4 DEF ExportInv
  <1>7. CASE done = Len(rest) /\ entries' = entries \ now /\ task' = NoTask /\ slides' = NoSlides
             /\ publish' = NoPublish /\ UNCHANGED cached
    <2>1. left = {}
      BY <1>7
    <2>2. entries' = {} /\ cached' = {}
      BY <1>1, <1>2, <1>7, <2>1 DEF Opened, InCache
    <2>. QED  BY <1>6, <1>7, <2>2
  <1>8. CASE entries' = entries \ (now \cup left) /\ cached' = cached \ left /\ task' = NoTask
             /\ slides' = NoSlides /\ publish' = NoPublish
    <2>1. entries' = {} /\ cached' = {}
      BY <1>1, <1>2, <1>8 DEF Opened, InCache
    <2>. QED  BY <1>6, <1>8, <2>1
  <1>9. CASE /\ done < Len(rest) /\ rest[done + 1].via = "gallery"
             /\ entries' = entries \ now
             /\ Sent(<<rest[done + 1]>>)
             /\ slides' = [on |-> TRUE, pending |-> SubSeq(rest, done + 2, Len(rest))]
             /\ task' = [task EXCEPT !.rendering = FALSE]
             /\ UNCHANGED cached
    <2>. DEFINE next == rest[done + 1]
                more == SubSeq(rest, done + 2, Len(rest))
    <2>1. next \in Place /\ next \in Of(rest) /\ next.via = "gallery"
      BY <1>9 DEF Of
    <2>2. more \in Seq(Place) /\ left = {next} \cup Of(more)
      <3>1. /\ more \in Seq(Place)
            /\ Len(more) = (IF done + 2 <= Len(rest) THEN Len(rest) - (done + 2) + 1 ELSE 0)
            /\ \A n \in 1..Len(more) : more[n] = rest[done + 2 + n - 1]
        BY <1>9, SubSeqProperties
      <3>2. left \subseteq {next} \cup Of(more)
        <4>. SUFFICES ASSUME NEW n \in done + 1..Len(rest), n # done + 1
                      PROVE  rest[n] \in Of(more)
          OBVIOUS
        <4>. DEFINE k == n - (done + 1)
        <4>1. k \in 1..Len(more) /\ done + 2 + k - 1 = n
          <5>. HIDE DEF more
          <5>. QED  BY <1>9, <3>1
        <4>2. more[k] = rest[n]
          <5>. HIDE DEF more, k
          <5>. QED  BY <3>1, <4>1
        <4>3. k \in DOMAIN more
          <5>. HIDE DEF more, k
          <5>. QED  BY <3>1, <4>1
        <4>. HIDE DEF more, k
        <4>. QED  BY <4>2, <4>3 DEF Of
      <3>3. {next} \cup Of(more) \subseteq left
        <4>1. done + 1 \in done + 1..Len(rest)
          BY <1>9
        <4>3. next \in left
          BY <4>1
        <4>2. ASSUME NEW n \in 1..Len(more) PROVE more[n] \in left
          <5>1. done + 2 + n - 1 \in done + 1..Len(rest)
            BY <3>1
          <5>. QED  BY <3>1, <5>1
        <4>. HIDE DEF next, more, left
        <4>4. \A d \in Of(more) : \E n \in 1..Len(more) : d = more[n]
          <5>1. DOMAIN more = 1..Len(more)
            BY <3>1
          <5>. QED  BY <5>1, Zenon DEF Of
        <4>. QED  BY <4>2, <4>3, <4>4
      <3>. QED  BY <3>1, <3>2, <3>3
    <2>3. publish' = [place |-> <<next>>, result |-> "wait"] /\ slides' = [on |-> TRUE, pending |-> more]
      BY <1>9 DEF Sent
    <2>. HIDE DEF next, more, left
    <2>4. Of(publish'.place) = {next} /\ Held' = {next} /\ Pending'
      BY <2>3, OfOne DEF Held, Pending
    <2>5. task' \in TaskType /\ task'.kind = "single"
      BY <1>9 DEF ExportInv, TasksInv, TaskType
    <2>6. TasksInv'
      BY <1>3, <1>5, <2>5 DEF ExportInv, TasksInv
    <2>7. FilesInv'
      <3>1. publish' \in PublishType /\ slides' \in SlidesType
        BY <2>1, <2>2, <2>3 DEF PublishType, SlidesType
      <3>. QED  BY <1>5, <3>1 DEF ExportInv, FilesInv
    <2>8. PublishInv'
      <3>1. \A d \in Of(more) \cup {next} : d.for = "single"
        BY <1>1, <2>2
      <3>2. entries' \subseteq Opened(Of(more))
        BY <1>1, <1>9, <2>1, <2>2 DEF Opened
      <3>3. cached' \subseteq InCache(Of(more)) \cup {next}
        BY <1>1, <1>2, <1>9, <2>2 DEF InCache
      <3>4. Len(publish'.place) = 1
        BY <2>3
      <3>. QED  BY <2>3, <2>4, <2>5, <3>1, <3>2, <3>3, <3>4 DEF PublishInv
    <2>9. CountInv'
      BY <1>3, <1>5, <2>3 DEF ExportInv, CountInv, Credit, Arrived
    <2>. QED  BY <1>4, <2>6, <2>7, <2>8, <2>9 DEF ExportInv
  <1>. QED  BY <1>0, <1>7, <1>8, <1>9

(* The only export of a worker or of the platform ends, and nothing of it is left. *)
LEMMA ExportEnds ==
  ASSUME ExportInv, NEW ok \in BOOLEAN, EndExport(ok),
         worker'.state = "none", worker'.places = <<>>, worker' \in WorkerType,
         publish'.result = "none", publish'.place = <<>>, publish' \in PublishType,
         ~slides.on, slides' = slides, entries' = {}, cached' = {}, made' \subseteq Photo,
         Cardinality(made') <= Credit + (IF ok /\ batch.on THEN 1 ELSE 0)
  PROVE  ExportInv'
  <1>1. TasksInv' /\ Credit' >= Credit + (IF ok /\ batch.on THEN 1 ELSE 0)
    BY EndedExport DEF ExportInv
  <1>2. FilesInv' /\ WorkerInv'
    BY DEF ExportInv, FilesInv, WorkerInv
  <1>3. PublishInv'
    BY NothingOfNoPlace DEF PublishInv, Pending
  <1>4. CountInv'
    <2>1. Arrived' = 0
      BY DEF Arrived
    <2>2. Credit \in Int /\ Credit' \in Int
      BY <1>1 DEF ExportInv, TasksInv, Credit, BatchType
    <2>3. IsFiniteSet(made') /\ Cardinality(made') \in Nat
      BY MediaExportAssumption, FS_Subset, FS_CardinalityType
    <2>. QED  BY <1>1, <2>1, <2>2, <2>3 DEF CountInv
  <1>. QED  BY <1>1, <1>2, <1>3, <1>4 DEF ExportInv

(* The finished file of an export with one. *)
LEMMA FilePublished ==
  ASSUME ExportInv, NEW d \in Place, worker.state = "done", worker.places = <<d>>,
         PublishSingle(d), worker' = NoWorker, slides' = slides
  PROVE  ExportInv'
  <1>. Of(worker.places) = {d}
    BY OfOne
  <1>1. /\ ~Pending /\ ~slides.on /\ publish.place = <<>> /\ publish.result = "none"
        /\ d.for = task.kind /\ task.kind # "none"
        /\ entries \subseteq Opened({d}) /\ cached \subseteq InCache({d})
    BY DEF ExportInv, WorkerInv, PublishInv, Pending
  <1>2. worker'.state = "none" /\ worker'.places = <<>> /\ worker' \in WorkerType
    BY SmallRecords DEF NoWorker
  <1>3. publish \in PublishType /\ made \subseteq Photo
    BY DEF ExportInv, FilesInv
  <1>4. Arrived = 0 /\ Credit \in Int
    BY <1>1 DEF Arrived, Credit, ExportInv, TasksInv, BatchType
  <1>5. Cardinality(made) <= Credit /\ Cardinality(made) \in Nat
    BY <1>4, MadeIsFinite DEF ExportInv, CountInv
  <1>6. CASE d.via = "direct"
    <2>1. PICK ok \in BOOLEAN : Finalized(d, ok) /\ EndExport(ok)
      BY <1>6 DEF PublishSingle
    <2>2. UNCHANGED <<publish, cached>>
      BY <1>6 DEF PublishSingle
    <2>3. entries' = {} /\ cached' = {}
      BY <1>1, <1>6, <2>1, <2>2 DEF Finalized, Opened, InCache
    <2>4. Cardinality(made') <= Credit + (IF ok /\ batch.on THEN 1 ELSE 0) /\ made' \subseteq Photo
      <3>1. CASE ok /\ d.for = "batch"
        <4>1. made' = made \cup {d.of}
          BY <2>1, <3>1 DEF Finalized
        <4>2. batch.on
          BY <1>1, <3>1 DEF ExportInv, TasksInv
        <4>3. Cardinality(made') <= Cardinality(made) + 1 /\ Cardinality(made') \in Nat
          BY <4>1, MadeIsFinite
        <4>4. d.of \in Photo
          BY DEF Place
        <4>. QED  BY <1>3, <1>4, <1>5, <3>1, <4>1, <4>2, <4>3, <4>4
      <3>2. CASE ~(ok /\ d.for = "batch")
        <4>1. made' = made
          BY <2>1, <3>2 DEF Finalized
        <4>. QED  BY <1>3, <1>4, <1>5, <4>1
      <3>. QED  BY <3>1, <3>2
    <2>. QED  BY <1>1, <1>2, <1>3, <2>1, <2>2, <2>3, <2>4, ExportEnds
  <1>7. CASE d.via = "gallery" /\ Sent(<<d>>) /\ task' = [task EXCEPT !.rendering = FALSE]
             /\ UNCHANGED <<batch, report, entries, cached, made>>
    <2>1. publish' = [place |-> <<d>>, result |-> "wait"]
      BY <1>7 DEF Sent
    <2>2. publish' \in PublishType /\ Pending' /\ Of(publish'.place) = {d} /\ Held' = {d}
      BY <2>1, OfOne DEF PublishType, Pending, Held
    <2>3. TasksInv'
      <3>1. task' \in TaskType /\ task'.kind = task.kind
        BY <1>7 DEF ExportInv, TasksInv, TaskType
      <3>. QED  BY <1>7, <3>1 DEF ExportInv, TasksInv
    <2>4. FilesInv' /\ WorkerInv'
      BY <1>2, <1>7, <2>2 DEF ExportInv, FilesInv, WorkerInv
    <2>5. entries' = {} /\ cached' \subseteq {d}
      BY <1>1, <1>7 DEF Opened, InCache
    <2>6. d.for = "batch" => batch'.on
      BY <1>1, <1>7 DEF ExportInv, TasksInv
    <2>7. PublishInv'
      BY <1>1, <2>1, <2>2, <2>5, <2>6 DEF PublishInv
    <2>8. CountInv'
      <3>1. Arrived' = 0 /\ Credit' = Credit
        BY <1>7, <2>1 DEF Arrived, Credit
      <3>. QED  BY <1>4, <1>5, <1>7, <3>1 DEF CountInv
    <2>. QED  BY <2>3, <2>4, <2>7, <2>8 DEF ExportInv
  <1>8. CASE d.via = "gallery" /\ cached' = cached \ {d} /\ EndExport(FALSE)
             /\ UNCHANGED <<publish, entries, made>>
    <2>1. entries' = {} /\ cached' = {}
      BY <1>1, <1>8 DEF Opened, InCache
    <2>2. Cardinality(made') <= Credit + 0 /\ made' \subseteq Photo
      BY <1>3, <1>4, <1>5, <1>8
    <2>. QED  BY <1>1, <1>2, <1>3, <1>8, <2>1, <2>2, ExportEnds
  <1>. QED  BY <1>6, <1>7, <1>8 DEF PublishSingle

LEMMA ItemIsRendered ==
  ASSUME ExportInv, worker.state \in {"done", "failed"}, ItemRendered, worker' = NoWorker
  PROVE  ExportInv'
  <1>1. worker'.state = "none" /\ worker'.places = <<>> /\ worker' \in WorkerType
    BY SmallRecords DEF NoWorker
  <1>2. /\ ~Pending /\ ~slides.on /\ publish.place = <<>> /\ publish.result = "none"
        /\ task.places = worker.places /\ worker.places # <<>> /\ worker.places \in Seq(Place)
        /\ Len(worker.places) > 1 => task.kind = "single"
        /\ \A d \in Of(worker.places) : d.for = task.kind
        /\ entries \subseteq Opened(Of(worker.places))
        /\ cached \subseteq (IF worker.state = "done" THEN InCache(Of(worker.places)) ELSE {})
    BY DEF ExportInv, WorkerInv, PublishInv, Pending, FilesInv, WorkerType
  <1>3. Arrived = 0 /\ Credit \in Int
    BY <1>2 DEF Arrived, Credit, ExportInv, TasksInv, BatchType
  <1>4. CASE worker.state = "done" /\ Len(task.places) = 1 /\ PublishSingle(task.places[1])
             /\ UNCHANGED slides
    <2>. DEFINE d == worker.places[1]
    <2>1. d \in Place /\ worker.places = <<d>>
      BY <1>2, <1>4
    <2>2. PublishSingle(d)
      BY <1>2, <1>4
    <2>. HIDE DEF d
    <2>. QED  BY <1>4, <2>1, <2>2, FilePublished
  <1>5. CASE worker.state = "done" /\ Len(task.places) > 1 /\ PublishSlides(task.places)
    BY <1>1, <1>2, <1>3, <1>5, SlidesPublished
  <1>6. CASE worker.state = "failed" /\ CancelEntries /\ EndExport(FALSE)
             /\ UNCHANGED <<slides, publish, cached, made>>
    <2>1. entries' = {} /\ cached' = {}
      BY <1>2, <1>6 DEF CancelEntries
    <2>2. Cardinality(made') <= Credit + 0 /\ made' \subseteq Photo /\ publish' \in PublishType
      <3>1. Cardinality(made) \in Nat
        BY MadeIsFinite
      <3>. QED  BY <1>3, <1>6, <3>1 DEF ExportInv, CountInv, FilesInv
    <2>. QED  BY <1>1, <1>2, <1>6, <2>1, <2>2, ExportEnds
  <1>. QED  BY <1>4, <1>5, <1>6 DEF ItemRendered

LEMMA OnlyOne ==
  ASSUME NEW n \in Nat
  PROVE  (n # 0 /\ ~(n > 1) => n = 1) /\ (n = 1 => n <= 1)
  OBVIOUS

LEMMA ReplayIsRendered ==
  ASSUME ExportInv, worker.state \in {"done", "failed"}, task.kind = "replay", ReplayRendered,
         worker' = NoWorker
  PROVE  ExportInv'
  <1>1. worker'.state = "none" /\ worker'.places = <<>> /\ worker' \in WorkerType
    BY SmallRecords DEF NoWorker
  <1>2. /\ ~Pending /\ ~slides.on /\ publish.place = <<>> /\ publish.result = "none"
        /\ worker.places # <<>> /\ worker.places \in Seq(Place) /\ ~(Len(worker.places) > 1)
        /\ \A d \in Of(worker.places) : d.for = "replay" /\ d.via = "gallery"
        /\ entries \subseteq Opened(Of(worker.places))
        /\ cached \subseteq (IF worker.state = "done" THEN InCache(Of(worker.places)) ELSE {})
    BY DEF ExportInv, WorkerInv, PublishInv, Pending, FilesInv, WorkerType
  <1>3. Len(worker.places) = 1
    <2>1. Len(worker.places) \in Nat /\ Len(worker.places) # 0
      BY <1>2, EmptySeq
    <2>2. ~(Len(worker.places) > 1)
      BY <1>2
    <2>. QED  BY <2>1, <2>2, OnlyOne
  <1>4. ~batch.on
    BY DEF ExportInv, TasksInv
  <1>5. Arrived = 0 /\ Arrived' = 0 /\ Credit' = Credit /\ made' = made
    <2>1. publish' = publish \/ publish'.result = "wait"
      BY DEF ReplayRendered, Sent
    <2>2. Arrived = 0 /\ Arrived' = 0
      BY <1>2, <2>1 DEF Arrived
    <2>. QED  BY <2>2 DEF ReplayRendered, Credit
  <1>6. TasksInv'
    BY <1>4, SmallRecords DEF ExportInv, TasksInv, ReplayRendered, NoTask
  <1>7. CountInv'
    BY <1>5 DEF ExportInv, CountInv
  <1>8. entries' = {} /\ slides' = slides
    BY <1>2 DEF ReplayRendered, Opened
  <1>9. CASE worker.state = "done" /\ Sent(worker.places) /\ UNCHANGED cached
    <2>1. publish' = [place |-> worker.places, result |-> "wait"]
      BY <1>9 DEF Sent
    <2>2. publish' \in PublishType /\ Held' = Of(worker.places)
      BY <1>2, <2>1 DEF PublishType, Held
    <2>3. FilesInv' /\ WorkerInv'
      BY <1>1, <1>5, <1>8, <1>9, <2>2 DEF ExportInv, FilesInv, WorkerInv
    <2>4. cached' \subseteq Held'
      BY <1>2, <1>9, <2>2 DEF InCache
    <2>5. PublishInv'
      <3>1. Pending' /\ publish'.place = worker.places /\ ~slides'.on
        BY <1>2, <1>8, <2>1 DEF Pending
      <3>2. \A d \in Of(worker.places) : d.for # "batch"
        BY <1>2
      <3>3. Len(publish'.place) <= 1
        BY <1>3, <3>1, OnlyOne
      <3>4. \A d \in Of(publish'.place) : d.for # "batch"
        BY <3>1, <3>2
      <3>. QED  BY <1>8, <2>4, <3>1, <3>3, <3>4 DEF PublishInv
    <2>. QED  BY <1>6, <1>7, <2>3, <2>5 DEF ExportInv
  <1>10. CASE UNCHANGED publish /\ cached' = {}
    <2>1. FilesInv' /\ WorkerInv'
      BY <1>1, <1>5, <1>8, <1>10 DEF ExportInv, FilesInv, WorkerInv
    <2>2. PublishInv'
      BY <1>2, <1>8, <1>10, NothingOfNoPlace DEF PublishInv, Pending
    <2>. QED  BY <1>6, <1>7, <2>1, <2>2 DEF ExportInv
  <1>11. CASE worker.state = "done" /\ cached' = cached \ Of(worker.places) /\ UNCHANGED publish
    <2>1. cached' = {}
      BY <1>2, <1>11 DEF InCache
    <2>. QED  BY <1>10, <1>11, <2>1
  <1>12. CASE worker.state = "failed" /\ UNCHANGED <<publish, cached>>
    <2>1. cached' = {}
      BY <1>2, <1>12
    <2>. QED  BY <1>10, <1>12, <2>1
  <1>. QED  BY <1>9, <1>11, <1>12 DEF ReplayRendered

LEMMA ExportPolled ==
  ASSUME IInv, PollExport
  PROVE  IInv'
  <1>. USE DEF PollExport
  <1>1. CASE worker.state \in {"done", "failed"}
    <2>1. ExportInv'
      BY <1>1, ItemIsRendered, ReplayIsRendered, InvariantInParts
    <2>2. owned = FALSE
      BY <1>1, WorkerAlone
    <2>3. ScalarsInv' /\ OwnedInv'
      BY <1>1, <2>2, InvariantInParts DEF ScalarsInv, OwnedInv, develop, Opening
    <2>. QED  BY <2>1, <2>3, PartsNext
  <1>2. CASE worker.state \notin {"done", "failed"}
    BY <1>2, NothingMoves, InvariantInParts DEF ScalarsInv, develop
  <1>. QED  BY <1>1, <1>2

LEMMA FileAnswered ==
  ASSUME ExportInv, publish.result \in {"published", "failed"},
         Published(publish.result = "published"), worker' = worker
  PROVE  ExportInv'
  <1>1. Pending /\ worker.state = "none" /\ worker.places = <<>> /\ Held = {}
    BY DEF ExportInv, WorkerInv, Pending, Held
  <1>2. worker'.state = "none" /\ worker'.places = <<>> /\ worker' \in WorkerType
    BY <1>1 DEF ExportInv, FilesInv
  <1>3. CASE slides.on
    <2>1. /\ task.kind = "single" /\ slides.pending \in Seq(Place)
          /\ \A d \in Of(slides.pending) \cup Of(publish.place) : d.for = "single"
          /\ entries \subseteq Opened(Of(slides.pending)) /\ cached \subseteq InCache(Of(slides.pending))
      BY <1>1, <1>3 DEF ExportInv, PublishInv, FilesInv, SlidesType
    <2>2. Arrived = 0 /\ ~batch.on
      BY <2>1 DEF Arrived, ExportInv, TasksInv
    <2>3. CASE PublishSlides(slides.pending)
      BY <1>2, <2>1, <2>2, <2>3, SlidesPublished
    <2>4. CASE /\ entries' = entries \ Of(slides.pending)
               /\ cached' = cached \ Of(slides.pending)
               /\ task' = NoTask /\ slides' = NoSlides /\ publish' = NoPublish
               /\ UNCHANGED <<batch, report, made>>
      <3>1. entries' = {} /\ cached' = {}
        BY <2>1, <2>4 DEF Opened, InCache
      <3>2. TasksInv'
        BY <2>2, <2>4, SmallRecords DEF ExportInv, TasksInv, NoTask
      <3>3. FilesInv' /\ WorkerInv'
        BY <1>2, <2>4, <3>1, SmallRecords DEF ExportInv, FilesInv, WorkerInv
      <3>4. PublishInv'
        BY <2>4, <3>1, NothingOfNoPlace DEF PublishInv, NoSlides, NoPublish, Pending
      <3>5. CountInv'
        BY <2>2, <2>4 DEF ExportInv, CountInv, Credit, Arrived, NoPublish
      <3>. QED  BY <3>2, <3>3, <3>4, <3>5 DEF ExportInv
    <2>. QED  BY <1>3, <2>3, <2>4 DEF Published
  <1>4. CASE ~slides.on
    <2>. DEFINE ok == publish.result = "published"
    <2>1. ok \in BOOLEAN /\ EndExport(ok) /\ publish' = NoPublish
          /\ UNCHANGED <<slides, entries, cached, made>>
      BY <1>4 DEF Published
    <2>2. entries' = {} /\ cached' = {}
      BY <1>1, <1>4, <2>1 DEF ExportInv, PublishInv
    <2>3. Arrived <= (IF ok /\ batch.on THEN 1 ELSE 0)
      BY DEF Arrived, ExportInv, PublishInv
    <2>4. Cardinality(made') <= Credit + (IF ok /\ batch.on THEN 1 ELSE 0) /\ made' \subseteq Photo
      <3>1. Cardinality(made) \in Nat /\ Credit \in Int /\ Arrived \in {0, 1}
        BY MadeIsFinite DEF ExportInv, TasksInv, Credit, BatchType, Arrived
      <3>2. Cardinality(made) <= Credit + Arrived /\ made \subseteq Photo
        BY DEF ExportInv, CountInv, FilesInv
      <3>. HIDE DEF ok
      <3>. QED  BY <2>1, <2>3, <3>1, <3>2
    <2>5. publish' \in PublishType /\ publish'.result = "none" /\ publish'.place = <<>>
      BY <2>1, SmallRecords DEF NoPublish
    <2>. HIDE DEF ok
    <2>. QED  BY <1>2, <1>4, <2>1, <2>2, <2>4, <2>5, ExportEnds
  <1>. QED  BY <1>3, <1>4

LEMMA PublishPolled ==
  ASSUME IInv, PollPublish
  PROVE  IInv'
  <1>. USE DEF PollPublish
  <1>1. CASE publish.result \in {"published", "failed"}
    <2>1. ExportInv'
      BY <1>1, FileAnswered, InvariantInParts
    <2>2. owned = FALSE
      BY <1>1, InvariantInParts DEF OwnedInv, ScalarsInv, Pending
    <2>3. ScalarsInv' /\ OwnedInv'
      BY <1>1, <2>2, InvariantInParts DEF ScalarsInv, OwnedInv, develop, Opening
    <2>. QED  BY <2>1, <2>3, PartsNext
  <1>2. CASE publish.result \notin {"published", "failed"}
    BY <1>2, NothingMoves, InvariantInParts DEF ScalarsInv, develop
  <1>. QED  BY <1>1, <1>2

-----------------------------------------------------------------------------
(* Every step keeps the invariant. *)

LEMMA StepKeepsIInv == IInv /\ [Next]_vars => IInv'
  <1>. SUFFICES ASSUME IInv, [Next]_vars PROVE IInv'
    OBVIOUS
  <1>1. CASE Frame
    BY <1>1, PickerPolled, ExternalPolled, PublishPolled, LoadPolled, ExportPolled, BatchResumed
       DEF Frame
  <1>2. CASE Act
    <2>1. at' = "picker"
      BY <1>2 DEF Act
    <2>2. CASE Cancel
      BY <2>1, <2>2, ExportCancelled
    <2>3. CASE StartSingle \/ StartReplay \/ StartBatch
      BY <2>1, <2>3, SingleStarts, ReplayStarts, BatchStarts
    <2>4. CASE Switch
      <3>1. tab' \in {"library", "develop"} /\ UNCHANGED <<develop, exports>>
        BY <2>4 DEF Switch
      <3>. QED  BY <2>1, <3>1, NothingMoves
    <2>5. CASE \E p \in Photo : TapPhoto(p)
      BY <2>1, <2>5, PhotoTapped
    <2>. QED  BY <1>2, <2>2, <2>3, <2>4, <2>5 DEF Act
  <1>3. CASE EndFrame
    <2>1. tab' \in {"library", "develop"}
      BY <1>3, InvariantInParts DEF EndFrame, ScalarsInv
    <2>. QED  BY <1>3, <2>1, NothingMoves DEF EndFrame, develop
  <1>4. CASE PlatformOpens \/ LoadEnds
    BY <1>4, PlatformAnswers, LoadAnswers
  <1>5. CASE RenderEnds \/ PublishEnds
    BY <1>5, WorkerAnswers, PublishAnswers
  <1>6. CASE SendPhoto
    BY <1>6, PhotoSent
  <1>7. CASE UNCHANGED vars
    <2>1. UNCHANGED <<at, tab, develop, exports>>
      BY <1>7 DEF vars
    <2>. QED  BY <2>1, NothingMoves, InvariantInParts DEF ScalarsInv
  <1>. QED  BY <1>1, <1>2, <1>3, <1>4, <1>5, <1>6, <1>7 DEF Next

(* The inductive invariant holds in every state. *)
THEOREM Invariance == Spec => []IInv
  BY InitiallyIInv, StepKeepsIInv, PTL DEF Spec

(* Every variable has its type, and the task that the single exports, the replay and the batch
   share is the batch's exactly while a batch runs. *)
THEOREM TypeCorrect == Spec => []TypeOK
  <1>1. IInv => TypeOK
    BY DEF IInv
  <1>. QED  BY <1>1, Invariance, PTL

(* A file named after a photo is rendered from that photo, although the platform's answers do
   not say who asked and other photos are opened meanwhile. *)
THEOREM RightPhotoExported == Spec => []ExportsAreOfTheirPhoto
  <1>1. IInv => ExportsAreOfTheirPhoto
    BY NothingOfNoPlace DEF IInv, WorkerInv, ExportsAreOfTheirPhoto
  <1>. QED  BY <1>1, Invariance, PTL

(* When no export runs and the platform publishes none, no pending entry of the media store and
   no file of the cache is left, whichever slide, item or step failed or was cancelled. *)
THEOREM NothingLeft == Spec => []NothingIsLeftBehind
  <1>1. IInv => NothingIsLeftBehind
    <2>. SUFFICES ASSUME IInv, task.kind = "none", ~Pending PROVE entries = {} /\ cached = {}
      BY DEF NothingIsLeftBehind
    <2>1. worker.state = "none"
      BY NoExport
    <2>. QED  BY <2>1, NothingAtHand, InvariantInParts
  <1>. QED  BY <1>1, Invariance, PTL

(* What a batch reports covers every photo it brought into the gallery, also one that the
   platform published while the batch was cancelled. *)
THEOREM ReportsCoverExports == Spec => []ExportsAreReported
  <1>1. IInv => ExportsAreReported
    <2>. SUFFICES ASSUME IInv, ~batch.on PROVE report >= Cardinality(made)
      BY DEF ExportsAreReported
    <2>1. Credit = report /\ report \in Nat
      BY InvariantInParts DEF Credit, ExportInv, TasksInv
    <2>2. Arrived = 0
      BY InvariantInParts DEF Arrived, ExportInv, PublishInv
    <2>3. Cardinality(made) <= Credit + Arrived /\ Cardinality(made) \in Nat
      BY MadeIsFinite, InvariantInParts DEF ExportInv, CountInv
    <2>. QED  BY <2>1, <2>2, <2>3
  <1>. QED  BY <1>1, Invariance, PTL

(* A cancelled batch asks the platform for no further photo and starts no further worker. *)
THEOREM CancelStops == Spec => CancelledBatchStops
  <1>. DEFINE Stops == batch.on /\ batch.cancel =>
                         /\ owned' => owned
                         /\ worker'.state = "run" => worker.state = "run"
  <1>1. IInv /\ [Next]_vars => [Stops]_vars
    <2>. SUFFICES ASSUME IInv, Next, batch.on, batch.cancel
                  PROVE  /\ owned' => owned
                         /\ worker'.state = "run" => worker.state = "run"
      BY DEF vars, develop, exports
    <2>1. task.kind = "batch"
      BY InvariantInParts DEF ExportInv, TasksInv
    <2>2. CASE PollPicker \/ PollExternal
      BY <2>2 DEF PollPicker, PollExternal, Picked, NotPicked, develop, exports
    <2>3. CASE PollPublish
      BY <2>3 DEF PollPublish, develop, exports
    <2>4. CASE PollLoad
      <3>1. owned' => owned
        BY <2>4 DEF PollLoad, develop
      <3>2. worker' = worker
        BY <2>4 DEF PollLoad, BatchLoadFinished, Renders, exports
      <3>. QED  BY <3>1, <3>2
    <2>5. CASE PollExport
      <3>1. owned' = owned
        BY <2>5 DEF PollExport, develop
      <3>2. worker' = worker \/ worker' = NoWorker
        BY <2>5 DEF PollExport, exports
      <3>. QED  BY <3>1, <3>2 DEF NoWorker
    <2>6. CASE Resume
      BY <2>6 DEF Resume, MayResume, develop, exports
    <2>7. CASE Act
      <3>1. CASE Cancel \/ Switch \/ \E p \in Photo : TapPhoto(p)
        BY <3>1 DEF Cancel, Switch, TapPhoto, develop, exports
      <3>2. ~StartSingle /\ ~StartReplay /\ ~StartBatch
        BY <2>1 DEF StartSingle, StartReplay, StartBatch, CanExport
      <3>. QED  BY <2>7, <3>1, <3>2 DEF Act
    <2>8. CASE EndFrame \/ PlatformOpens \/ LoadEnds \/ PublishEnds \/ SendPhoto
      BY <2>8 DEF EndFrame, PlatformOpens, LoadEnds, PublishEnds, SendPhoto, develop, exports
    <2>9. CASE RenderEnds
      BY <2>9 DEF RenderEnds, develop
    <2>. QED  BY <2>2, <2>3, <2>4, <2>5, <2>6, <2>7, <2>8, <2>9 DEF Next, Frame
  <1>. QED  BY <1>1, Invariance, PTL DEF Spec, CancelledBatchStops

=============================================================================
