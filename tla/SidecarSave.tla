---------------------------- MODULE SidecarSave ----------------------------
(***************************************************************************)
(* How the editor saves the open photo's edits to its sidecar: the queue   *)
(* of save requests and its single write in flight, the autosave of the    *)
(* frame loop, the save a document switch makes, the flush at exit and     *)
(* before a library action, and the load that reads the sidecar back.      *)
(*                                                                         *)
(* Three threads interleave: the UI thread (every handler is one step),    *)
(* the "calibraw-sidecar-save" thread and the document load thread.        *)
(* A handler is an operator from the persistence record and the document   *)
(* to the persistence record, named after the method it stands for, so     *)
(* that an action can chain handlers as the frame does.                    *)
(*                                                                         *)
(* An edit is a number.  A document's content, a request's edits and a     *)
(* sidecar are sets of edits: what the file would show if it were opened.  *)
(***************************************************************************)
EXTENDS Integers, Sequences, SequencesExt

CONSTANTS
  Photo,          \* the photos of the library
  NoPhoto,        \* no sidecar target
  Faults,         \* the faults of this instance, a subset of FaultKind
  MaxRevision,    \* bound: edits are made while the revision is below it
  MaxGeneration   \* bound: documents are opened while the generation is below it

FaultKind == {"spawn", "io", "panic", "timeout", "load", "unsupported"}

\* Whether a thread can be started: always, unless that may fail.
Spawns == IF "spawn" \in Faults THEN BOOLEAN ELSE {TRUE}

ASSUME ConstantsAssumption ==
  /\ NoPhoto \notin Photo
  /\ Faults \subseteq FaultKind
  /\ MaxRevision \in Nat
  /\ MaxGeneration \in Nat

Edit == Nat
Target == Photo \cup {NoPhoto}

\* `Option<u64>::None` of the saved and failed revisions.
None == -1
OptRevision == Nat \cup {None}

Request ==
  [target : Photo, generation : Nat, revision : Nat, explicit : BOOLEAN,
   edits : SUBSET Edit]

\* The save thread: idle, writing, or ended with its event in the channel
\* ("ok", "failed", "unsupported") or with the channel disconnected ("dead").
ThreadState == {"idle", "writing", "ok", "failed", "unsupported", "dead"}

NoRequest ==
  [target |-> NoPhoto, generation |-> 0, revision |-> 0, explicit |-> FALSE,
   edits |-> {}]

NoLoad == [photo |-> NoPhoto, generation |-> 0, state |-> "none",
           kept |-> FALSE, edits |-> {}]

VARIABLES
  p,         \* PersistenceState and the save thread it started
  d,         \* the document: its edits, its revision and the user's gesture
  load,      \* the document load: its thread and its channel
  ui,        \* what the UI thread does: frames, a blocking flush, or gone
  disk,      \* disk[q]: the edits in q's sidecar
  unreadable,\* the photos whose sidecar has an unsupported format
  wanted,    \* history: wanted[q], the edits the user put into q and did not reset
  raced      \* history: edits on their way to a sidecar that something else
             \* read, cleared or replaced meanwhile

vars == <<p, d, load, ui, disk, unreadable, wanted, raced>>
files == <<disk, unreadable>>
history == <<wanted, raced>>

-----------------------------------------------------------------------------
(* The document.  `revision` is edit_commit_revision: it never repeats     *)
(* within a generation.  An edit in the making (`dirty`) would commit as    *)
(* the next revision.  A pointer gesture holds back both the history and   *)
(* the autosave, a focused text field the autosave alone.                  *)

Gesture == {"none", "keyboard", "pointer"}

\* capture_sidecar_edit_state
Captured(doc) ==
  doc.committed \cup (IF doc.dirty THEN {doc.revision + 1} ELSE {})

\* Mutant of Commit: the revision stays.
CommitKeepsRevision(doc) ==
  IF doc.dirty
  THEN [doc EXCEPT !.committed = @ \cup {doc.revision + 1}, !.dirty = FALSE]
  ELSE doc

\* EditHistory::commit_current_state, through commit_edit_history_now
Commit(doc) ==
  IF doc.dirty
  THEN [doc EXCEPT !.committed = @ \cup {doc.revision + 1},
                   !.revision = @ + 1, !.dirty = FALSE]
  ELSE doc

\* EditHistory::observe in the frame: it waits for the gesture to end.
Observe(doc) == IF doc.gesture = "pointer" THEN doc ELSE Commit(doc)

-----------------------------------------------------------------------------
(* The request queue.                                                      *)

\* The save thread runs or its event has not been received: sidecar_in_flight
\* and sidecar_receiver are Some.
InFlight(s) == s.thread # "idle"

InFlightAt(s, revision) ==
  InFlight(s) /\ s.job.generation = s.generation /\ s.job.revision = revision

PendingAt(s, revision) ==
  \E i \in DOMAIN s.pending :
    s.pending[i].generation = s.generation /\ s.pending[i].revision = revision

Queued(s, revision) == InFlightAt(s, revision) \/ PendingAt(s, revision)

\* Mutant of Covered: one failure turns the autosave off.
CoveredOnceFailed(s, revision) ==
  s.saved = revision \/ s.failed # None \/ Queued(s, revision)

\* No autosave is due for this revision: saved, failed, or on its way.
Covered(s, revision) ==
  s.saved = revision \/ s.failed = revision \/ Queued(s, revision)

RequestFor(s, doc, explicit) ==
  [target |-> s.target, generation |-> s.generation, revision |-> doc.revision,
   explicit |-> explicit, edits |-> Captured(doc)]

\* Mutant of Enqueue: a request never replaces another.
EnqueueAnother(s, request) == [s EXCEPT !.pending = Append(@, request)]

\* A request of the same generation is replaced where it stands.
Enqueue(s, request) ==
  LET mine == {i \in DOMAIN s.pending : s.pending[i].generation = request.generation}
      first == CHOOSE i \in mine : \A j \in mine : i <= j
  IN IF mine = {}
     THEN [s EXCEPT !.pending = Append(@, request)]
     ELSE [s EXCEPT !.pending[first] =
             [request EXCEPT !.explicit = @ \/ s.pending[first].explicit]]

\* Mutant of QueueCurrent: it does not ask for a target.
QueueUntargeted(s, doc, explicit) ==
  IF ~explicit /\ Covered(s, doc.revision)
  THEN s
  ELSE Enqueue(s, RequestFor(s, doc, explicit))

QueueCurrent(s, doc, explicit) ==
  IF s.target = NoPhoto \/ (~explicit /\ Covered(s, doc.revision))
  THEN s
  ELSE Enqueue(s, RequestFor(s, doc, explicit))

\* The pending request of the open document's newest state must not wait.
MarkExplicit(s, revision) ==
  [s EXCEPT !.pending =
     [i \in DOMAIN s.pending |->
        IF s.pending[i].generation = s.generation /\ s.pending[i].revision = revision
        THEN [s.pending[i] EXCEPT !.explicit = TRUE]
        ELSE s.pending[i]]]

\* What begin_sidecar_open and flush_sidecar_on_exit do before they start a
\* save: the newest state is saved, on its way, or queued now.
QueueNewest(s, doc) ==
  LET marked == MarkExplicit(s, doc.revision)
  IN IF s.saved = doc.revision \/ Queued(s, doc.revision)
     THEN marked
     ELSE QueueCurrent(marked, doc, TRUE)

-----------------------------------------------------------------------------
(* Starting and finishing a save.                                          *)

\* report_sidecar_save_failure.  `excused` is history: the edits the user was
\* told were not saved, or that a replaced sidecar's backup keeps.
ReportFailure(s, revision, edits) ==
  [s EXCEPT !.failed = IF revision = None THEN @ ELSE revision,
            !.recovery = NoRequest,
            !.excused = @ \cup edits]

\* The revision a failure marks: none for a document that is no longer open.
FailedRevision(s, request) ==
  IF request.generation = s.generation THEN request.revision ELSE None

\* An autosave of the open document waits for the gesture to end.
HeldBack(s, doc) ==
  /\ ~Head(s.pending).explicit
  /\ Head(s.pending).generation = s.generation
  /\ doc.gesture # "none"

StartNext(s, doc, spawns) ==
  IF InFlight(s) \/ s.pending = <<>> \/ HeldBack(s, doc)
  THEN s
  ELSE LET request == Head(s.pending)
           popped == [s EXCEPT !.pending = Tail(@)]
       IN IF spawns
          THEN [popped EXCEPT !.job = request, !.thread = "writing"]
          ELSE ReportFailure(popped, FailedRevision(s, request), request.edits)

\* finish_sidecar_save, and the disconnected channel of poll_sidecar_save
FinishSave(s) ==
  LET done == [s EXCEPT !.thread = "idle", !.job = NoRequest]
  IN IF s.thread = "ok"
     THEN IF s.job.generation = s.generation
          THEN [done EXCEPT !.failed = None, !.saved = s.job.revision]
          ELSE done
     ELSE [ReportFailure(done, FailedRevision(s, s.job), s.job.edits) EXCEPT
             !.recovery = IF s.thread = "unsupported" THEN s.job ELSE NoRequest]

Ended(s) == s.thread \in {"ok", "failed", "unsupported", "dead"}

PollSave(s, doc, spawns) ==
  StartNext(IF Ended(s) THEN FinishSave(s) ELSE s, doc, spawns)

\* schedule_sidecar_autosave.  The 900 ms deadline is armed, and due once it
\* has passed.
ScheduleAutosave(s, doc, spawns) ==
  LET off == [s EXCEPT !.deadline = "off"]
      stale == \E i \in DOMAIN s.pending :
                 /\ s.pending[i].generation = s.generation
                 /\ s.pending[i].revision # doc.revision
      quiet == doc.gesture = "none"
  IN IF ~doc.loaded \/ s.target = NoPhoto THEN off
     ELSE IF Covered(s, doc.revision) THEN StartNext(off, doc, spawns)
     ELSE IF quiet /\ (stale \/ s.deadline = "due")
          THEN StartNext(QueueCurrent(off, doc, FALSE), doc, spawns)
     ELSE IF s.deadline = "off" THEN [s EXCEPT !.deadline = "armed"]
     ELSE s

-----------------------------------------------------------------------------
(* Documents.                                                              *)

\* Nothing is open under the next generation.
Closed(s) ==
  [s EXCEPT !.generation = @ + 1, !.target = NoPhoto, !.saved = None,
            !.failed = None, !.deadline = "off"]

BeginSidecarOpen(s, doc, spawns) ==
  Closed(StartNext(QueueNewest(s, doc), doc, spawns))

InstallSidecarTarget(s, doc, photo, generation, needsRewrite, spawns) ==
  LET installed == [s EXCEPT !.target = photo, !.failed = None,
                             !.saved = IF needsRewrite THEN None ELSE doc.revision]
  IN IF generation # s.generation THEN s
     ELSE IF needsRewrite
          THEN StartNext(QueueCurrent(installed, doc, FALSE), doc, spawns)
     ELSE installed

\* The open document's request leaves the queue, which holds one at most.
DropCurrent(s) ==
  LET mine == {i \in DOMAIN s.pending : s.pending[i].generation = s.generation}
      at == CHOOSE i \in mine : TRUE
  IN IF mine = {} THEN s
     ELSE [s EXCEPT !.pending = RemoveAt(@, at)]

\* Mutant of Detach: the target stays for the next save.
DetachKeepsTarget(s) == [Closed(DropCurrent(s)) EXCEPT !.target = s.target]

\* detach_current_sidecar_target_for_library_action, after its flush
Detach(s) == Closed(DropCurrent(s))

\* reset_document_state: an empty document while the next one loads
ClearedDocument(doc) ==
  [doc EXCEPT !.loaded = FALSE, !.committed = {}, !.dirty = FALSE]

-----------------------------------------------------------------------------
(* What is on its way to a photo's sidecar.                                *)

OutstandingRequests(s) ==
  {s.pending[i] : i \in DOMAIN s.pending}
    \cup (IF s.thread = "writing" THEN {s.job} ELSE {})

\* The edits some queued or running save of q will write.
OnTheWay(s, q) ==
  UNION {request.edits : request \in {r \in OutstandingRequests(s) : r.target = q}}

\* ... and those a load has read from it and will show.
Held(s, q) == OnTheWay(s, q) \cup (IF load.photo = q THEN load.edits ELSE {})

\* The edits of a failed save whose event the UI thread has yet to receive.
Unreported(s) ==
  IF s.thread \in {"failed", "unsupported", "dead"} THEN s.job.edits ELSE {}

\* A commit of `doc` adds its new edits to what the user wants of the photo.
WantedWith(doc) ==
  IF p.target = NoPhoto THEN wanted
  ELSE [wanted EXCEPT ![p.target] = @ \cup (doc.committed \ d.committed)]

-----------------------------------------------------------------------------
(* The user's edits.                                                       *)

Running == ui = "running"

\* A control changes the edit, at once or in a gesture.
Change ==
  /\ Running /\ d.loaded
  /\ d.revision < MaxRevision
  /\ \E gesture \in Gesture : d' = [d EXCEPT !.dirty = TRUE, !.gesture = gesture]
  /\ UNCHANGED <<p, load, ui, files, history>>

\* note_geometry_changed moves the revision while the gesture lasts.
ChangeGeometry ==
  /\ Running /\ d.loaded
  /\ d.revision + 1 < MaxRevision
  /\ d' = [d EXCEPT !.dirty = TRUE, !.revision = @ + 1, !.gesture = "pointer"]
  /\ UNCHANGED <<p, load, ui, files, history>>

\* The gesture ends, with the change kept or dragged back.
Release ==
  /\ Running
  /\ d.gesture # "none"
  /\ \E dirty \in {d.dirty, FALSE} : d' = [d EXCEPT !.gesture = "none", !.dirty = dirty]
  /\ UNCHANGED <<p, load, ui, files, history>>

\* note_remove_edit_changed: a finished retouch commits at once, whatever the
\* pointer does.
ApplyRetouch ==
  /\ Running /\ d.loaded
  /\ d.revision + 1 < MaxRevision
  /\ LET now == Commit(d)
         retouched == [now EXCEPT !.committed = @ \cup {now.revision + 1},
                                  !.revision = @ + 1]
     IN /\ d' = retouched
        /\ wanted' = WantedWith(retouched)
  /\ UNCHANGED <<p, load, ui, files, raced>>

-----------------------------------------------------------------------------
(* The frame and the save button.                                          *)

\* sync_persistence, which ends every frame
SyncPersistence ==
  /\ Running
  /\ LET now == Observe(d)
     IN /\ d' = now
        /\ wanted' = WantedWith(now)
        /\ \E first, second \in Spawns :
             p' = PollSave(ScheduleAutosave(p, now, first), now, second)
  /\ UNCHANGED <<load, ui, files, raced>>

DeadlinePasses ==
  /\ Running
  /\ p.deadline = "armed"
  /\ p' = [p EXCEPT !.deadline = "due"]
  /\ UNCHANGED <<d, load, ui, files, history>>

CanSaveEdits == d.loaded /\ p.target # NoPhoto

\* save_edits_now on the state `s`
SaveNow(s) ==
  LET now == Commit(d)
  IN /\ d' = now
     /\ wanted' = WantedWith(now)
     /\ \E spawns \in Spawns :
          p' = StartNext(QueueCurrent([s EXCEPT !.failed = None], now, TRUE), now, spawns)
     /\ UNCHANGED <<load, ui, files, raced>>

SaveEdits == Running /\ CanSaveEdits /\ SaveNow(p)

SaveInProgress ==
  \/ InFlight(p) /\ p.job.generation = p.generation
  \/ \E i \in DOMAIN p.pending : p.pending[i].generation = p.generation

\* The failure dialog: try again, close, or replace an unsupported sidecar.
Retry ==
  /\ Running /\ CanSaveEdits
  /\ ~SaveInProgress
  /\ p.failed = d.revision
  /\ SaveNow([p EXCEPT !.recovery = NoRequest])

CloseFailureDialog ==
  /\ Running
  /\ p.recovery # NoRequest
  /\ p' = [p EXCEPT !.recovery = NoRequest]
  /\ UNCHANGED <<d, load, ui, files, history>>

\* recover_unsupported_sidecar: the button is clicked between gestures, after
\* the frame that committed the last one.
RecoverSidecar ==
  LET photo == p.recovery.target
      current == p.target = photo
      written == IF current THEN Captured(d) ELSE p.recovery.edits
      contended == \/ \E request \in OutstandingRequests(p) : request.target = photo
                   \/ load.photo = photo /\ (load.kept \/ load.state = "loaded")
  IN /\ Running
     /\ p.recovery # NoRequest
     /\ ~SaveInProgress
     /\ d.gesture = "none" /\ ~d.dirty
     /\ disk' = [disk EXCEPT ![photo] = written]
     /\ unreadable' = unreadable \ {photo}
     /\ LET backedUp == [p EXCEPT !.recovery = NoRequest,
                                   !.excused = @ \cup (disk[photo] \ written)]
        IN p' = IF current
                THEN [backedUp EXCEPT !.failed = None, !.saved = d.revision]
                ELSE backedUp
     /\ wanted' = [wanted EXCEPT ![photo] = @ \cup written]
     /\ raced' = IF contended THEN raced \cup Held(p, photo) \cup written ELSE raced
     /\ UNCHANGED <<d, load, ui>>

-----------------------------------------------------------------------------
(* The save thread.                                                        *)

\* save_sidecar_request succeeds, or finds a sidecar it must not replace.
WriteSidecar ==
  /\ p.thread = "writing"
  /\ IF p.job.target \in unreadable
     THEN p' = [p EXCEPT !.thread = "unsupported"] /\ UNCHANGED disk
     ELSE /\ p' = [p EXCEPT !.thread = "ok"]
          /\ disk' = [disk EXCEPT ![p.job.target] = p.job.edits]
  /\ UNCHANGED <<d, load, ui, unreadable, history>>

WriteFails ==
  /\ "io" \in Faults
  /\ p.thread = "writing"
  /\ p' = [p EXCEPT !.thread = "failed"]
  /\ UNCHANGED <<d, load, ui, files, history>>

\* The thread ends without an event, before or after its write.
SaveThreadDies ==
  /\ "panic" \in Faults
  /\ p.thread = "writing"
  /\ p' = [p EXCEPT !.thread = "dead"]
  /\ \/ UNCHANGED disk
     \/ /\ p.job.target \notin unreadable
        /\ disk' = [disk EXCEPT ![p.job.target] = p.job.edits]
  /\ UNCHANGED <<d, load, ui, unreadable, history>>

-----------------------------------------------------------------------------
(* Opening a photo.                                                        *)

LoadOf(photo, generation, kept, edits) ==
  [photo |-> photo, generation |-> generation, state |-> "reading",
   kept |-> kept, edits |-> edits]

\* start_document_load, with the state `s` its caller leaves; `kept` when a
\* profile change reopens the photo with the edits in memory.
StartLoad(s, doc, photo, kept) ==
  \E spawns, loads \in Spawns :
    LET opened == BeginSidecarOpen(s, Commit(doc), spawns)
    IN /\ p' = opened
       /\ d' = ClearedDocument(Commit(doc))
       /\ load' = IF loads
                  THEN LoadOf(photo, opened.generation, kept,
                              IF kept THEN Captured(doc) ELSE {})
                  ELSE NoLoad

OpenPhoto(q) ==
  /\ Running
  /\ p.generation < MaxGeneration
  /\ IF load # NoLoad
     THEN UNCHANGED <<p, d, load, wanted>>
     ELSE StartLoad(p, d, q, FALSE) /\ wanted' = WantedWith(Commit(d))
  /\ UNCHANGED <<ui, files, raced>>

\* select_camera_profile_for_current
ReopenWithProfile ==
  /\ Running
  /\ load = NoLoad /\ p.target # NoPhoto
  /\ p.generation < MaxGeneration
  /\ LET now == Commit(d)
     IN /\ \E spawns \in Spawns :
             StartLoad(StartNext(QueueCurrent(p, now, TRUE), now, spawns),
                       now, p.target, TRUE)
        /\ wanted' = WantedWith(now)
  /\ UNCHANGED <<ui, files, raced>>

\* run_document_load: the sidecar is read once, an unreadable one as no edits.
ReadSidecar ==
  LET found == IF load.kept THEN load.edits
               ELSE IF load.photo \in unreadable THEN {}
               ELSE disk[load.photo]
  IN /\ load.state = "reading"
     /\ load' = [load EXCEPT !.state = "loaded", !.edits = found]
     /\ raced' = raced \cup (OnTheWay(p, load.photo) \ found)
     /\ UNCHANGED <<p, d, ui, files, wanted>>

LoadFails ==
  /\ "load" \in Faults
  /\ load.state = "reading"
  /\ load' = [load EXCEPT !.state = "failed"]
  /\ UNCHANGED <<p, d, ui, files, history>>

\* poll_load_worker.  Edits in memory and migrated sidecars are saved again.
PollLoad ==
  /\ Running
  /\ load.state \in {"loaded", "failed"}
  /\ load' = NoLoad
  /\ IF load.state = "failed" THEN UNCHANGED <<p, d>>
     ELSE \E needsRewrite \in (IF load.kept THEN {TRUE} ELSE BOOLEAN), spawns \in Spawns :
            LET doc == [d EXCEPT !.loaded = TRUE, !.committed = load.edits, !.dirty = FALSE]
            IN /\ d' = doc
               /\ p' = InstallSidecarTarget(p, doc, load.photo, load.generation,
                                            needsRewrite, spawns)
  /\ UNCHANGED <<ui, files, history>>

-----------------------------------------------------------------------------
(* The blocking flush, at exit and before the open photo's edits are reset. *)

\* flush_sidecar_on_exit up to its loop
StartFlush(next) ==
  LET now == Commit(d)
  IN /\ Running
     /\ d' = now
     /\ wanted' = WantedWith(now)
     /\ p' = QueueNewest(p, now)
     /\ ui' = next
     /\ UNCHANGED <<load, files, raced>>

Exit == StartFlush("exiting")

Flushing == ui \in {"exiting", "resetting"}
\* Mutant of Flushed: only the running save is waited for.
FlushedInFlight == ~InFlight(p)

Flushed == ~InFlight(p) /\ p.pending = <<>>

\* One round of the loop: receive an event, start the next save.
FlushRound ==
  /\ Flushing /\ ~Flushed
  /\ \E spawns \in Spawns : p' = PollSave(p, d, spawns)
  /\ UNCHANGED <<d, load, ui, files, history>>

\* reset_desktop_adjustments; a sidecar it cannot read stays as it is.
ClearSidecar(s, q) ==
  IF q \in unreadable THEN UNCHANGED <<disk, wanted, raced>>
  ELSE /\ disk' = [disk EXCEPT ![q] = {}]
       /\ wanted' = [wanted EXCEPT ![q] = {}]
       /\ raced' = raced \cup Held(s, q)

\* The flush returns to its caller: the process ends, or the open photo is
\* detached, reset and loaded again.
AfterFlush(s) ==
  \/ /\ ui = "exiting"
     /\ ui' = "exited"
     /\ p' = s
     /\ UNCHANGED <<d, load, files, history>>
  \/ /\ ui = "resetting"
     /\ ui' = "running"
     /\ StartLoad(Detach(s), d, p.target, FALSE)
     /\ ClearSidecar(Detach(s), p.target)
     /\ UNCHANGED unreadable

FlushEnds == Flushed /\ AfterFlush(p)

\* Two seconds have passed: what is left is reported as not saved.
FlushTimesOut ==
  /\ "timeout" \in Faults
  /\ ~Flushed
  /\ AfterFlush(ReportFailure(p, IF InFlight(p) THEN FailedRevision(p, p.job) ELSE None,
                              p.job.edits \cup UNION {r.edits : r \in OutstandingRequests(p)}))

\* LibraryAction::ResetAdjustments.  The open photo is saved and detached
\* first, another photo's sidecar is reset as it is.
ResetAdjustments(q) ==
  /\ p.generation + 1 < MaxGeneration
  /\ IF q = p.target THEN StartFlush("resetting")
     ELSE Running /\ ClearSidecar(p, q) /\ UNCHANGED <<p, d, load, ui, unreadable>>

-----------------------------------------------------------------------------
Init ==
  /\ p = [target |-> NoPhoto, generation |-> 0, saved |-> None, failed |-> None,
          pending |-> <<>>, job |-> NoRequest, thread |-> "idle",
          recovery |-> NoRequest, deadline |-> "off", excused |-> {}]
  /\ d = [loaded |-> FALSE, committed |-> {}, dirty |-> FALSE, revision |-> 0,
          gesture |-> "none"]
  /\ load = NoLoad
  /\ ui = "running"
  /\ disk = [q \in Photo |-> {}]
  /\ unreadable \in IF "unsupported" \in Faults THEN SUBSET Photo ELSE {{}}
  /\ wanted = [q \in Photo |-> {}]
  /\ raced = {}

User ==
  \/ Change \/ ChangeGeometry \/ Release
  \/ SaveEdits \/ Retry \/ CloseFailureDialog \/ RecoverSidecar
  \/ ReopenWithProfile \/ Exit
  \/ \E q \in Photo : OpenPhoto(q) \/ ResetAdjustments(q)

SaveThread == WriteSidecar \/ WriteFails \/ SaveThreadDies
LoadThread == ReadSidecar \/ LoadFails
Flush == FlushRound \/ FlushEnds \/ FlushTimesOut

Next ==
  \/ User \/ ApplyRetouch
  \/ SyncPersistence \/ DeadlinePasses \/ PollLoad
  \/ SaveThread \/ LoadThread \/ Flush

Spec == Init /\ [][Next]_vars

\* A frame between two gestures: every press and release is followed by one.
QuietFrame == d.gesture = "none" /\ SyncPersistence

\* Handlers that ask for a repaint are called again, threads run, time passes
\* and the user lets go of a control.
Fairness ==
  /\ SF_vars(QuietFrame) /\ WF_vars(DeadlinePasses) /\ WF_vars(PollLoad)
  /\ WF_vars(SaveThread) /\ WF_vars(LoadThread) /\ WF_vars(Flush)
  /\ WF_vars(Release)

FairSpec == Spec /\ Fairness

-----------------------------------------------------------------------------
PersistenceType ==
  [target : Target, generation : Nat, saved : OptRevision, failed : OptRevision,
   pending : Seq(Request), job : Request \cup {NoRequest}, thread : ThreadState,
   recovery : Request \cup {NoRequest}, deadline : {"off", "armed", "due"},
   excused : SUBSET Edit]

DocumentType ==
  [loaded : BOOLEAN, committed : SUBSET Edit, dirty : BOOLEAN, revision : Nat,
   gesture : Gesture]

LoadType ==
  [photo : Target, generation : Nat, state : {"none", "reading", "loaded", "failed"},
   kept : BOOLEAN, edits : SUBSET Edit]

TypeOK ==
  /\ p \in PersistenceType
  /\ d \in DocumentType
  /\ load \in LoadType
  /\ ui \in {"running", "exiting", "resetting", "exited"}
  /\ disk \in [Photo -> SUBSET Edit]
  /\ unreadable \in SUBSET Photo
  /\ wanted \in [Photo -> SUBSET Edit]
  /\ raced \in SUBSET Edit

\* Saves leave the queue in the order their edits were made: one request per
\* document at most, older documents first, none newer than the open document,
\* and the running save no newer than anything behind it.  Replacing a request
\* in place and pushing one per generation (queue_current_sidecar_save) keep this
\* across switches, replacements, explicit saves and failures.
OldestFirst(s) ==
  \A i, j \in DOMAIN s.pending :
    i < j => s.pending[i].generation < s.pending[j].generation

NoNewerThan(request, generation, revision) ==
  \/ request.generation < generation
  \/ request.generation = generation /\ request.revision <= revision

InOrder(s, revision) ==
  /\ OldestFirst(s)
  /\ \A i \in DOMAIN s.pending :
       /\ NoNewerThan(s.pending[i], s.generation, revision)
       /\ InFlight(s) =>
            NoNewerThan(s.job, s.pending[i].generation, s.pending[i].revision)
  /\ InFlight(s) => NoNewerThan(s.job, s.generation, revision)

SavesInOrder == InOrder(p, d.revision)

\* The editor shows the document as saved only while its sidecar holds its
\* edits (sidecar_saved_revision), except for edits a reopened or reset photo's
\* outstanding saves were racing with.
SavedMeansOnDisk ==
  p.target # NoPhoto /\ p.saved = d.revision /\ ~d.dirty
    => disk[p.target] \ raced = d.committed \ raced

\* An edit the user made is in its photo's sidecar, on its way there, in the
\* open document that still counts as unsaved, or in a save whose failure was
\* reported; reopening a photo during its save is the only other way to lose it.
EveryEditIsHeld ==
  \A q \in Photo :
    wanted[q] \subseteq disk[q] \cup OnTheWay(p, q) \cup raced
      \cup p.excused \cup Unreported(p)
      \cup (IF p.target = q /\ p.saved # d.revision THEN d.committed ELSE {})

\* A reset photo's edits do not come back, except from a save that was running
\* or queued during the reset, or when the user puts a failed save's edits into
\* a sidecar after all.
ResetEditsStayReset ==
  \A q \in Photo : disk[q] \subseteq wanted[q] \cup raced

\* A process that ended without reporting a failure left every edit in its
\* sidecar.
ExitSavesEverything ==
  ui = "exited" =>
    \A q \in Photo : wanted[q] \subseteq disk[q] \cup p.excused \cup raced

\* No edit is lost without a report: not while the editor runs, nor when it exits.
NoEditLost == EveryEditIsHeld /\ ExitSavesEverything

\* README.md: "All sliders, curves, and masks are saved to lightweight .calibraw
\* JSON sidecar files".  Without any fault an edit is in its sidecar, on its way
\* there, or still unsaved in the open document, also when its photo is opened
\* again while its save is outstanding.
EditsSurviveReopening ==
  \A q \in Photo :
    wanted[q] \subseteq disk[q] \cup OnTheWay(p, q) \cup p.excused
      \cup (IF p.target = q /\ p.saved # d.revision THEN d.committed ELSE {})

\* Every edit reaches its sidecar in time, unless its failure was reported or it
\* raced with a reopened photo: the autosave deadline, the requests held back by
\* a gesture and those behind a slow write all get their turn.
UnsavedEdits(q) == ~(wanted[q] \subseteq disk[q] \cup p.excused \cup raced)
EditsReachTheirSidecar == \A q \in Photo : UnsavedEdits(q) ~> ~UnsavedEdits(q)

=============================================================================
