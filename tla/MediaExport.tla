---------------------------- MODULE MediaExport ----------------------------
(***************************************************************************)
(* Exports where photos live in a media library (Android, iOS): the open   *)
(* photo in one file or as the slides of a carousel, its edit replay, and  *)
(* a batch of library photos that are opened in Develop one at a time      *)
(* (app/processing_export/, app/lifecycle/).                               *)
(*                                                                         *)
(* The UI thread polls the platform and its workers in a fixed order each  *)
(* frame, then the user acts.  The platform opens photos and publishes     *)
(* files in its own time, and other apps send photos.  A destination is    *)
(* the name of the photo it is for; how it is written is left out, as are  *)
(* progress, messages and the share sheet.                                 *)
(***************************************************************************)
EXTENDS Naturals, Sequences, FiniteSets

CONSTANTS
  Photo,
  NoPhoto,
  Slides,       \* the slides of a carousel
  Faults,       \* what may fail
  Uses,         \* of "replay", "external", "carousel" and "filmstrip", what is used
  BlocksInput,  \* caps().tasks_need_foreground: an export blocks the rest of the app
  MaxExternal   \* bound: photos other apps send

ASSUME MediaExportAssumption ==
  /\ IsFiniteSet(Photo) /\ NoPhoto \notin Photo
  /\ Slides \in Nat \ {0, 1}
  /\ Faults \subseteq {"open", "load", "spawn", "prepare", "capture", "render", "finalize", "publish"}
  /\ Uses \subseteq {"replay", "external", "carousel", "filmstrip"}
  /\ BlocksInput \in BOOLEAN
  /\ MaxExternal \in Nat

VARIABLES
  at,        \* what the UI thread does next in its frame
  tab,       \* ui.active_tab
  doc,       \* the photo loaded in Develop
  load,      \* load_receiver and the load thread
  open,      \* android.picker_pending and the platform's answer
  owned,     \* export.android_batch_load_pending
  external,  \* the photos other apps sent: waiting, and how many more may come
  task,      \* export.task
  batch,     \* export.batch
  slides,    \* export.slide_publish: the destinations not published yet
  worker,    \* the thread that renders the export
  publish,   \* export.publish_pending and what the platform publishes
  entries,   \* the media store's pending entries, written through descriptors
  cached,    \* finished files in the export cache
  made,      \* history: the photos of the running batch in the gallery
  report     \* history: the photos the last batch said it exported

develop == <<doc, load, open, owned, external>>
exports == <<task, batch, slides, worker, publish, entries, cached, made, report>>
vars == <<at, tab, develop, exports>>

-----------------------------------------------------------------------------
(* State *)

Kind == {"single", "batch", "replay"}
Place == [of : Photo, n : 1..Slides, via : {"direct", "gallery"}, for : Kind]

NoTask == [kind |-> "none", rendering |-> FALSE, cancelling |-> FALSE, places |-> <<>>]
NoBatch == [on |-> FALSE, pending |-> {}, current |-> NoPhoto, completed |-> 0,
            failures |-> 0, cancel |-> FALSE]
NoLoad == [photo |-> NoPhoto, result |-> "none"]
NoSlides == [on |-> FALSE, pending |-> <<>>]
NoWorker == [state |-> "none", content |-> NoPhoto, places |-> <<>>]
NoPublish == [place |-> <<>>, result |-> "none"]

Pending == publish.result # "none"
Opening == open.result # "none"
Loading == load.result # "none"
MayFail(fault) == fault \in Faults

\* android_foreground_task_active
Blocked == BlocksInput /\ task.kind # "none"

\* can_export
CanExport == doc # NoPhoto /\ task.kind = "none" /\ ~Pending /\ ~Loading

Init ==
  /\ at = "picker" /\ tab = "library"
  /\ doc = NoPhoto /\ load = NoLoad /\ open = NoLoad /\ owned = FALSE
  /\ external = [waiting |-> <<>>, left |-> MaxExternal]
  /\ task = NoTask /\ batch = NoBatch /\ slides = NoSlides
  /\ worker = NoWorker /\ publish = NoPublish
  /\ entries = {} /\ cached = {} /\ made = {}
  /\ report = 0

-----------------------------------------------------------------------------
(* The batch (processing_export/batch.rs) *)

\* Mutant of FinishBatch: the task stays when its batch ends.
FinishKeepsTask(b) ==
  /\ batch' = NoBatch
  /\ UNCHANGED task
  /\ report' = IF b.completed > b.failures THEN b.completed - b.failures ELSE 0

\* finish_library_batch_export
FinishBatch(b) ==
  /\ batch' = NoBatch
  /\ task' = NoTask
  /\ report' = IF b.completed > b.failures THEN b.completed - b.failures ELSE 0

\* An item that failed to open or load counts as completed.
Failed(b, count) ==
  [b EXCEPT !.completed = @ + count, !.failures = @ + count, !.current = NoPhoto]

\* Mutant of Counted: an item of a cancelled batch is not counted.
CountedUnlessCancelled(b, ok) ==
  IF b.cancel THEN [b EXCEPT !.current = NoPhoto]
  ELSE IF ok THEN [b EXCEPT !.completed = @ + 1, !.current = NoPhoto]
  ELSE Failed(b, 1)

\* A cancelled item that failed is not counted.
Counted(b, ok) ==
  IF ok THEN [b EXCEPT !.completed = @ + 1, !.current = NoPhoto]
  ELSE IF b.cancel THEN [b EXCEPT !.current = NoPhoto]
  ELSE Failed(b, 1)

\* complete_android_library_batch_export_item
CompleteItem(ok) ==
  LET b == Counted(batch, ok)
  IN IF b.cancel \/ b.pending = {}
     THEN FinishBatch(b)
     ELSE /\ batch' = b
          /\ task' = [task EXCEPT !.rendering = FALSE, !.places = <<>>]
          /\ UNCHANGED report

\* An export ends: of the batch, or the only one.
EndExport(ok) ==
  IF batch.on THEN CompleteItem(ok) ELSE task' = NoTask /\ UNCHANGED <<batch, report>>

\* resume_android_library_batch_export_if_possible
MayResume ==
  /\ tab # "develop" /\ ~Opening /\ ~Loading /\ ~Pending
  /\ ~(task.kind = "batch" /\ task.rendering)
  /\ batch.on /\ ~batch.cancel /\ batch.current = NoPhoto /\ batch.pending # {}

\* start_next_library_export: photos the platform does not open are skipped.
StartNext ==
  \E skipped \in SUBSET batch.pending :
    LET b == Failed([batch EXCEPT !.pending = @ \ skipped], Cardinality(skipped))
    IN /\ skipped # {} => MayFail("open")
       /\ \/ /\ b.pending = {}
             /\ FinishBatch(b)
             /\ owned' = FALSE
             /\ UNCHANGED open
          \/ \E p \in b.pending :
               /\ batch' = [b EXCEPT !.pending = @ \ {p}, !.current = p]
               /\ open' = [photo |-> p, result |-> "wait"]
               /\ owned' = TRUE
               /\ UNCHANGED <<task, report>>

Resume ==
  /\ at = "resume" /\ at' = "user"
  /\ IF MayResume
     THEN StartNext /\ UNCHANGED <<tab, doc, load, external, slides, worker, publish, entries,
                                   cached, made>>
     ELSE UNCHANGED <<tab, develop, exports>>

-----------------------------------------------------------------------------
(* Starting exports *)

\* prepare_android_export_destination: a media store entry, or a file in the cache.
Of(places) == {places[n] : n \in DOMAIN places}
Opened(places) == {d \in places : d.via = "direct"}
InCache(places) == {d \in places : d.via = "gallery"}
Places(p, count, kind) ==
  {[n \in 1..count |-> [of |-> p, n |-> n, via |-> via[n], for |-> kind]] :
     via \in [1..count -> {"direct", "gallery"}]}

\* start_export_task, spawn_export_item
StartTask(kind, content, places) ==
  /\ entries' = entries \cup Opened(Of(places))
  /\ worker' = [state |-> "run", content |-> content, places |-> places]
  /\ task' = [task EXCEPT !.kind = kind, !.rendering = TRUE, !.places = places]

\* Mutant of Renders: the load of a cancelled batch starts its export.
RendersAnyway(success) == success

\* Only a loaded photo of a batch that goes on is exported.
Renders(success) == success /\ ~batch.cancel

\* on_library_batch_load_finished
BatchLoadFinished(success, content) ==
  IF batch.on /\ batch.current # NoPhoto
  THEN \/ /\ batch.cancel
          /\ CompleteItem(FALSE)
          /\ UNCHANGED <<tab, worker, entries>>
       \/ /\ ~batch.cancel /\ ~success
          /\ batch' = Failed(batch, 1)
          /\ UNCHANGED <<tab, task, report, worker, entries>>
       \/ /\ Renders(success)
          /\ \E places \in Places(batch.current, 1, "batch") : StartTask("batch", content, places)
          /\ ~Pending
          /\ tab' = "library"
          /\ UNCHANGED <<batch, report>>
       \/ /\ Renders(success)
          /\ MayFail("prepare") \/ MayFail("capture") \/ Pending
          /\ CompleteItem(FALSE)
          /\ tab' \in {tab, "library"}
          /\ UNCHANGED <<worker, entries>>
  ELSE UNCHANGED <<tab, task, batch, report, worker, entries>>

\* start_android_export and export_carousel
StartSingle ==
  /\ tab = "develop" /\ CanExport
  /\ \E count \in {1} \cup (IF "carousel" \in Uses THEN {Slides} ELSE {}) :
       \E places \in Places(doc, count, "single") : StartTask("single", doc, places)
  /\ UNCHANGED <<tab, develop, batch, slides, publish, cached, made, report>>

\* create_edit_replay: always a file in the cache.
StartReplay ==
  /\ "replay" \in Uses
  /\ tab = "develop" /\ CanExport
  /\ \E places \in Places(doc, 1, "replay") :
       places[1].via = "gallery" /\ StartTask("replay", doc, places)
  /\ UNCHANGED <<tab, develop, batch, slides, publish, cached, made, report>>

\* library_actions_enabled: the library's actions, export among them, wait for an open and a batch.
ActionsEnabled == ~Opening /\ ~batch.on

\* start_android_library_exports, from the library or from the photos under Develop, which a screen
\* has when it is wide enough (DevelopArrangement::Docked).
StartBatch ==
  /\ ActionsEnabled /\ task.kind = "none"
  /\ tab = "library" \/ "filmstrip" \in Uses
  /\ \E targets \in SUBSET Photo \ {{}} :
       batch' = [NoBatch EXCEPT !.on = TRUE, !.pending = targets]
  /\ task' = [NoTask EXCEPT !.kind = "batch"]
  /\ made' = {}
  /\ UNCHANGED <<tab, develop, slides, worker, publish, entries, cached, report>>

\* cancel_export_task
Cancel ==
  /\ task.kind # "none" /\ ~task.cancelling
  /\ task' = [task EXCEPT !.cancelling = TRUE]
  /\ batch' = IF batch.on THEN [batch EXCEPT !.cancel = TRUE, !.pending = {}] ELSE batch
  /\ UNCHANGED <<tab, develop, slides, worker, publish, entries, cached, made, report>>

-----------------------------------------------------------------------------
(* Opening photos (lifecycle/documents.rs, lifecycle/pickers.rs) *)

\* start_document_load
StartLoad(p) ==
  IF Loading THEN UNCHANGED <<doc, load>>
  ELSE /\ doc' = NoPhoto
       /\ \/ load' = [photo |-> p, result |-> "wait"]
          \/ MayFail("spawn") /\ load' = NoLoad

\* handle_android_picker_result, Picked
Picked(p) ==
  /\ tab' = IF owned THEN "library" ELSE "develop"
  /\ StartLoad(p)
  /\ IF load'.result = "none" /\ owned
     THEN owned' = FALSE /\ CompleteItem(FALSE)
     ELSE UNCHANGED <<owned, task, batch, report>>

\* Mutant of NotPicked: a photo the platform did not open is not completed.
NotPickedForgets ==
  /\ owned' = FALSE
  /\ UNCHANGED <<task, batch, report, tab, doc, load>>

\* handle_android_picker_result, Cancelled and Failed
NotPicked ==
  /\ owned' = FALSE
  /\ IF owned THEN CompleteItem(FALSE) ELSE UNCHANGED <<task, batch, report>>
  /\ UNCHANGED <<tab, doc, load>>

\* poll_android_picker: what CalibRaw asked the platform for.
PollPicker ==
  /\ at = "picker" /\ at' = "external"
  /\ IF open.result \in {"picked", "failed"}
     THEN /\ open' = NoLoad
          /\ IF open.result = "picked" THEN Picked(open.photo) ELSE NotPicked
          /\ UNCHANGED <<external, slides, worker, publish, entries, cached, made>>
     ELSE UNCHANGED <<tab, develop, exports>>

\* Mutant of TakesExternal: a photo from another app is opened at once.
TakesExternalAtOnce == external.waiting # <<>>

\* poll_android_external_open: only while no open that CalibRaw requested is in flight.
TakesExternal == external.waiting # <<>> /\ ~Opening /\ ~owned

PollExternal ==
  /\ at = "external" /\ at' = "publish"
  /\ IF TakesExternal
     THEN /\ external' = [external EXCEPT !.waiting = Tail(@)]
          /\ Picked(Head(external.waiting))
          /\ UNCHANGED <<open, slides, worker, publish, entries, cached, made>>
     ELSE UNCHANGED <<tab, develop, exports>>

\* poll_load_worker: a load that failed, or whose thread died, leaves no photo.
PollLoad ==
  /\ at = "load" /\ at' = "export"
  /\ IF load.result \in {"loaded", "failed"}
     THEN /\ load' = NoLoad
          /\ doc' = IF load.result = "loaded" THEN load.photo ELSE NoPhoto
          /\ owned' = FALSE
          /\ IF owned
             THEN BatchLoadFinished(load.result = "loaded", load.photo)
             ELSE UNCHANGED <<tab, task, batch, report, worker, entries>>
          /\ UNCHANGED <<open, external, slides, publish, cached, made>>
     ELSE UNCHANGED <<tab, develop, exports>>

\* open_android_library_document
TapPhoto(p) ==
  /\ ~Opening
  /\ IF doc = p
     THEN tab' = "develop" /\ UNCHANGED <<open, owned>>
     ELSE /\ owned' = FALSE
          /\ open' \in {[photo |-> p, result |-> "wait"]} \cup
                       (IF MayFail("open") THEN {open} ELSE {})
          /\ UNCHANGED tab
  /\ UNCHANGED <<doc, load, external, exports>>

\* activate_tab
Switch ==
  /\ tab' \in {"library", "develop"} \ {tab}
  /\ UNCHANGED <<develop, exports>>

-----------------------------------------------------------------------------
(* A rendered export (processing_export/export.rs, carousel.rs, replay.rs) *)

Sent(places) == publish' = [place |-> places, result |-> "wait"]

\* finalize_direct_export: the entry becomes a picture, or is deleted.
Finalized(d, ok) ==
  /\ ok \/ MayFail("finalize")
  /\ entries' = entries \ {d}
  /\ made' = IF ok /\ d.for = "batch" THEN made \cup {d.of} ELSE made

\* The finished file of a single destination is published.
PublishSingle(d) ==
  \/ /\ d.via = "direct"
     /\ \E ok \in BOOLEAN : Finalized(d, ok) /\ EndExport(ok)
     /\ UNCHANGED <<publish, cached>>
  \/ /\ d.via = "gallery"
     /\ Sent(<<d>>)
     /\ task' = [task EXCEPT !.rendering = FALSE]
     /\ UNCHANGED <<batch, report, entries, cached, made>>
  \/ /\ d.via = "gallery" /\ MayFail("publish")
     /\ cached' = cached \ {d}
     /\ EndExport(FALSE)
     /\ UNCHANGED <<publish, entries, made>>

\* publish_next_slides: slides with an entry are published at once, up to one that fails or that
\* the platform has to copy.  fail_slide_publish drops the rest.
PublishSlides(rest) ==
  \E done \in 0..Len(rest) :
    LET now == {rest[n] : n \in 1..done}
        left == {rest[n] : n \in done + 1..Len(rest)}
    IN /\ \A d \in now : d.via = "direct"
       /\ UNCHANGED <<batch, report, made>>
       /\ \/ /\ done = Len(rest)
             /\ entries' = entries \ now
             /\ task' = NoTask /\ slides' = NoSlides
             /\ publish' = NoPublish /\ UNCHANGED cached
          \/ /\ done < Len(rest) /\ rest[done + 1].via = "gallery"
             /\ entries' = entries \ now
             /\ Sent(<<rest[done + 1]>>)
             /\ slides' = [on |-> TRUE, pending |-> SubSeq(rest, done + 2, Len(rest))]
             /\ task' = [task EXCEPT !.rendering = FALSE]
             /\ UNCHANGED cached
          \/ /\ done < Len(rest)
             /\ MayFail(IF rest[done + 1].via = "direct" THEN "finalize" ELSE "publish")
             /\ entries' = entries \ (now \cup left)
             /\ cached' = cached \ left
             /\ task' = NoTask /\ slides' = NoSlides
             /\ publish' = NoPublish

\* Mutant of CancelEntries: the entries of a failed export stay.
KeepEntries == UNCHANGED entries

\* cancel_all_direct_exports
CancelEntries == entries' = {}

\* poll_export_worker of a finished worker, or one that died.
ItemRendered ==
  \/ /\ worker.state = "done" /\ Len(task.places) = 1
     /\ PublishSingle(task.places[1])
     /\ UNCHANGED slides
  \/ /\ worker.state = "done" /\ Len(task.places) > 1
     /\ PublishSlides(task.places)
  \/ /\ worker.state = "failed"
     /\ CancelEntries
     /\ EndExport(FALSE)
     /\ UNCHANGED <<slides, publish, cached, made>>

\* poll_edit_replay_worker: the task ends before the platform has published the file.
ReplayRendered ==
  /\ task' = NoTask
  /\ \/ worker.state = "done" /\ Sent(worker.places) /\ UNCHANGED cached
     \/ /\ worker.state = "done" /\ MayFail("publish")
        /\ cached' = cached \ Of(worker.places)
        /\ UNCHANGED publish
     \/ worker.state = "failed" /\ UNCHANGED <<publish, cached>>
  /\ UNCHANGED <<batch, slides, entries, made, report>>

PollExport ==
  /\ at = "export" /\ at' = "resume"
  /\ IF worker.state \in {"done", "failed"}
     THEN /\ worker' = NoWorker
          /\ IF task.kind = "replay" THEN ReplayRendered ELSE ItemRendered
          /\ UNCHANGED <<tab, develop>>
     ELSE UNCHANGED <<tab, develop, exports>>

\* poll_android_export_publish, take_slide_publish_result
Published(ok) ==
  IF slides.on
  THEN IF ok THEN PublishSlides(slides.pending)
       ELSE /\ entries' = entries \ Of(slides.pending)
            /\ cached' = cached \ Of(slides.pending)
            /\ task' = NoTask /\ slides' = NoSlides /\ publish' = NoPublish
            /\ UNCHANGED <<batch, report, made>>
  ELSE EndExport(ok) /\ publish' = NoPublish /\ UNCHANGED <<slides, entries, cached, made>>

PollPublish ==
  /\ at = "publish" /\ at' = "load"
  /\ IF publish.result \in {"published", "failed"}
     THEN /\ Published(publish.result = "published")
          /\ UNCHANGED <<tab, develop, worker>>
     ELSE UNCHANGED <<tab, develop, exports>>

-----------------------------------------------------------------------------
(* The user, the platform, other apps and the workers *)

Act ==
  /\ at = "user" /\ at' = "picker"
  /\ \/ Cancel
     \/ ~Blocked /\ (StartSingle \/ StartReplay \/ StartBatch \/ Switch)
     \/ ~Blocked /\ \E p \in Photo : TapPhoto(p)

EndFrame == at = "user" /\ at' = "picker" /\ UNCHANGED <<tab, develop, exports>>

PlatformOpens ==
  /\ open.result = "wait"
  /\ \/ open' = [open EXCEPT !.result = "picked"]
     \/ MayFail("open") /\ open' = [open EXCEPT !.result = "failed"]
  /\ UNCHANGED <<at, tab, doc, load, owned, external, exports>>

LoadEnds ==
  /\ load.result = "wait"
  /\ \/ load' = [load EXCEPT !.result = "loaded"]
     \/ MayFail("load") /\ load' = [load EXCEPT !.result = "failed"]
  /\ UNCHANGED <<at, tab, doc, open, owned, external, exports>>

\* spawn_tiled_export and render_edit_replay: nothing is left of a file that is not finished.
RenderEnds ==
  /\ worker.state = "run"
  /\ \/ /\ worker' = [worker EXCEPT !.state = "done"]
        /\ cached' = cached \cup InCache(Of(worker.places))
     \/ /\ task.cancelling \/ MayFail("render")
        /\ worker' = [worker EXCEPT !.state = "failed"]
        /\ UNCHANGED cached
  /\ UNCHANGED <<at, tab, develop, task, batch, slides, publish, entries, made, report>>

\* The platform publishes a file of the cache, and removes it.
PublishEnds ==
  /\ publish.result = "wait"
  /\ cached' = cached \ Of(publish.place)
  /\ \/ /\ publish' = [publish EXCEPT !.result = "published"]
        /\ made' = made \cup {d.of : d \in {e \in Of(publish.place) : e.for = "batch"}}
     \/ /\ MayFail("publish")
        /\ publish' = [publish EXCEPT !.result = "failed"]
        /\ UNCHANGED made
  /\ UNCHANGED <<at, tab, develop, task, batch, slides, worker, entries, report>>

\* Another app sends a photo.
SendPhoto ==
  /\ "external" \in Uses /\ external.left > 0
  /\ \E p \in Photo :
       external' = [waiting |-> Append(external.waiting, p), left |-> external.left - 1]
  /\ UNCHANGED <<at, tab, doc, load, open, owned, exports>>

Frame == PollPicker \/ PollExternal \/ PollPublish \/ PollLoad \/ PollExport \/ Resume

Next ==
  \/ Frame \/ Act \/ EndFrame
  \/ PlatformOpens \/ LoadEnds \/ RenderEnds \/ PublishEnds \/ SendPhoto

Spec == Init /\ [][Next]_vars

\* Frames go on, and what the platform and the workers were asked for ends.
Fairness ==
  /\ WF_vars(Frame) /\ WF_vars(Act \/ EndFrame)
  /\ WF_vars(PlatformOpens) /\ WF_vars(LoadEnds)
  /\ WF_vars(RenderEnds) /\ WF_vars(PublishEnds)

FairSpec == Spec /\ Fairness

-----------------------------------------------------------------------------
(* Properties *)

\* Types, and the shared task is the batch's exactly while a batch runs.
TypeOK ==
  /\ at \in {"picker", "external", "publish", "load", "export", "resume", "user"}
  /\ tab \in {"library", "develop"}
  /\ doc \in Photo \cup {NoPhoto}
  /\ load \in [photo : Photo \cup {NoPhoto}, result : {"none", "wait", "loaded", "failed"}]
  /\ open \in [photo : Photo \cup {NoPhoto}, result : {"none", "wait", "picked", "failed"}]
  /\ owned \in BOOLEAN
  /\ external \in [waiting : Seq(Photo), left : 0..MaxExternal]
  /\ task \in [kind : Kind \cup {"none"}, rendering : BOOLEAN, cancelling : BOOLEAN,
               places : Seq(Place)]
  /\ batch \in [on : BOOLEAN, pending : SUBSET Photo, current : Photo \cup {NoPhoto},
                completed : Nat, failures : Nat, cancel : BOOLEAN]
  /\ slides \in [on : BOOLEAN, pending : Seq(Place)]
  /\ worker \in [state : {"none", "run", "done", "failed"}, content : Photo \cup {NoPhoto},
                 places : Seq(Place)]
  /\ publish \in [place : Seq(Place), result : {"none", "wait", "published", "failed"}]
  /\ entries \subseteq Place /\ cached \subseteq Place /\ made \subseteq Photo
  /\ report \in Nat
  /\ batch.on <=> task.kind = "batch"

\* A file named after a photo is rendered from that photo: the platform's answers carry no name
\* of who asked, and a load that ends is the batch's by a flag.
ExportsAreOfTheirPhoto == \A d \in Of(worker.places) : d.of = worker.content

\* When no export runs and none is being published, no pending entry of the media store and no
\* file of the cache is left, whichever slide, item or step failed or was cancelled.
NothingIsLeftBehind == task.kind = "none" /\ ~Pending => entries = {} /\ cached = {}

\* A cancelled batch opens no further photo and renders no further one.
CancelledBatchStops ==
  [][batch.on /\ batch.cancel => /\ owned' => owned
                                 /\ worker'.state = "run" => worker.state = "run"]_vars

\* Every photo a batch brought into the gallery is in its report, also when it is cancelled while
\* one is being published.
ExportsAreReported == ~batch.on => report >= Cardinality(made)

\* The photo a batch works on is finished with, whichever step of it fails or is cancelled.
ItemsEnd == batch.current # NoPhoto ~> batch.current = NoPhoto

\* background_tasks.rs: "results arrive as a status notice or, for failures, the shared error
\* dialog".  A batch export that is not cancelled ends.
BatchEnds == batch.on ~> ~batch.on \/ batch.cancel
=============================================================================
