---------------------------- MODULE PreviewJobs ----------------------------
(***************************************************************************)
(* The pictures of the Develop canvas at the fitted view.  Three renders   *)
(* of one photo compete for it: the fitted preview, which owes the stages  *)
(* an edit touched until the GPU is free (PreviewDispatchGate); the        *)
(* reduced preview, which follows a dragged control on a slow GPU while    *)
(* the fitted one waits (InteractiveState); and the full-resolution        *)
(* preview, rendered by a thread of its own once nothing has changed for a *)
(* while (FullResolutionState).  The fitted graph itself is replaced when  *)
(* the canvas grows or the quality changes, by a worker (rebuild.rs), and  *)
(* with the photo.                                                         *)
(*                                                                         *)
(* All of the editor's code runs in frames of one thread, and a frame runs *)
(* only when it was asked for.  `at` is the step of the frame that runs    *)
(* next; the workers, the GPU and the clock go on between the frames.      *)
(*                                                                         *)
(* A picture is the sequence <<photo, raw, tone, output>> of the versions  *)
(* it was rendered from.  A graph keeps in buf[k] what the stages before   *)
(* stage k left it, so buf[Done] is its picture: a stage that runs on an   *)
(* outdated buffer gives an outdated picture.  The zoomed crop, masks that *)
(* wait for an upload, the comparison with the original and the tiers of   *)
(* the light bake are left out.                                            *)
(***************************************************************************)
EXTENDS Naturals, Sequences

CONSTANTS
  MaxEdits,     \* edits made to what one stage reads
  MaxActs,      \* other things the user does, failures, and changes of the
                \* time the GPU takes
  EditStages,   \* the stages an edit may have to start at
  ConstrainedMemory,  \* a device with little memory, taken to be slow before
                      \* anything was timed
  Faults        \* what may fail: "stage", "build", "worker", "load"

ASSUME BoundsAssumption == MaxEdits \in Nat /\ MaxActs \in Nat
ASSUME DeviceAssumption == ConstrainedMemory \in BOOLEAN
ASSUME StagesAssumption == EditStages \subseteq 1..3

VARIABLES
  at,          \* the step of the frame that runs next, or "idle" between frames
  repaint,     \* how many frames were requested
  alarm,       \* a frame was requested for later (request_repaint_after)
  edit,        \* the photo and the versions of what its stages read
  preview,     \* the fitted preview and its rebuild (PreviewState), and in
               \* `lost` the first stage a failed render left out of it
  gate,        \* PreviewDispatchGate, and the batch it waits for
  slow,        \* the batches timed so far say the GPU is slow
  inter,       \* InteractiveState
  age,         \* how long the drag has been still or settling
  full,        \* FullResolutionState
  loading,     \* the thread that opens a photo
  want,        \* the edge the fitted preview should have
  dragging,    \* a control is dragged
  chosen,      \* the texture this frame paints, and its picture
  canvas,      \* the picture on the canvas since the last frame
  acts         \* how much of MaxActs was used

vars == <<at, repaint, alarm, edit, preview, gate, slow, inter, age, full,
          loading, want, dragging, chosen, canvas, acts>>

----------------------------------------------------------------------------
(* Stages and pictures *)

Raw == 1
Tone == 2
Output == 3
Done == 4      \* no stage is pending

Stages == Raw..Output
Edges == {1, 2}            \* proxies; the photo itself is larger

Photo == edit[1]

MayFail(kind) == kind \in Faults /\ acts < MaxActs

Failures(kind, outcomes) == IF MayFail(kind) THEN outcomes ELSE {}

\* One of MaxActs is used if `happens`.
Spend(happens) == acts' = IF happens THEN acts + 1 ELSE acts

Acts == acts < MaxActs /\ Spend(TRUE)

\* request_repaint of egui: the next frame and one more, to let what the
\* first one changed settle.
RequestRepaint(asked) == repaint' = IF asked THEN 2 ELSE repaint

\* A stage and a stage that was pending already: the earlier one is owed.
Earlier(s, t) == IF s <= t THEN s ELSE t

NoBuffers == << <<>>, <<>>, <<>>, <<>> >>

\* A graph that was only given the photo.
Unrendered(photo) == << <<photo>>, <<>>, <<>>, <<>> >>

\* What rendering the stages first..last with e leaves in the buffers.
Rendered(buf, first, last, e) ==
  [k \in Raw..Done |->
     IF k \in (first + 1)..(last + 1)
     THEN buf[first] \o SubSeq(e, first + 1, k)
     ELSE buf[k]]

AllRendered(e) == Rendered(Unrendered(e[1]), Raw, Output, e)

----------------------------------------------------------------------------
(* The fitted preview *)

NoGraph == [id |-> 0, edge |-> 0, revision |-> 0, buf |-> NoBuffers]

NoRebuild == [state |-> "none", photo |-> 0, edge |-> 0]
NoLoad == [state |-> "none", edge |-> 0]

HasPipeline == preview.graph.id # 0

\* The texture and the revision of its output (fitted_output).
FittedOutput == <<preview.graph.id, preview.graph.revision>>

NoOutput == <<0, 0>>

Preparing ==
  \/ loading.state # "none"
  \/ preview.rebuild.state # "none"
  \/ preview.dirty

\* A graph of edge `edge` in which everything of e is rendered.
Built(edge, e) ==
  [id |-> preview.builds + 1, edge |-> edge, revision |-> 0,
   buf |-> AllRendered(e)]

----------------------------------------------------------------------------
(* The reduced preview *)

NoReduced == [source |-> 0, rendered |-> FALSE, buf |-> NoBuffers]
NoWarm == [source |-> 0, state |-> "none"]

Visible(i) == i.phase # "idle" /\ i.graph.rendered

\* Mutant of Reset: the phase of the drag stays.
ResetKeepsPhase(i) ==
  [i EXCEPT !.graph = NoReduced, !.warm = NoWarm, !.pending = Done,
            !.synced = FALSE]

\* InteractiveState::reset: the graph and what was prepared for it go.
Reset(i) ==
  [i EXCEPT !.graph = NoReduced, !.warm = NoWarm, !.phase = "idle",
            !.following = FALSE, !.pending = Done, !.synced = FALSE]

\* How long ago: 0 just now, Settled after SETTLE_DELAY, Over once the wait
\* of the phase is over (HOLD_STILL of a drag, CATCH_UP_DELAY after one).
Settled == 1
Over == 2

Follows(phase, since) ==
  phase = "dragging" \/ (phase = "settling" /\ since < Over)

\* DragPhase::next, with the clock of the phase it gives.
NextPhase(phase, eligible, edited, sharpCurrent) ==
  IF ~eligible THEN <<"idle", 0>>
  ELSE IF dragging /\ edited THEN <<"dragging", 0>>
  ELSE IF phase = "dragging" /\ (~dragging \/ age = Over)
    THEN <<"settling", 0>>
  ELSE IF phase = "settling" /\ sharpCurrent /\ age >= Settled
    THEN <<"idle", 0>>
  ELSE <<phase, age>>

\* Mutant of Enter: edits made while it does not follow a drag are not noticed.
EnterStaysSynced(i, phase, following, stage) ==
  LET entering == phase = "dragging" /\ i.phase # "dragging"
  IN [i EXCEPT
        !.phase = phase,
        !.following = following,
        !.pending = IF ~following THEN Done
                    ELSE IF ~i.synced /\ (entering \/ stage # Done) THEN Raw
                    ELSE Earlier(@, stage)]

\* InteractiveState::enter: what the reduced graph owes after edits of
\* `stage` on.
Enter(i, phase, following, stage) ==
  LET entering == phase = "dragging" /\ i.phase # "dragging"
  IN [i EXCEPT
        !.phase = phase,
        !.following = following,
        !.pending = IF ~following THEN Done
                    ELSE IF ~i.synced /\ (entering \/ stage # Done) THEN Raw
                    ELSE Earlier(@, stage),
        !.synced = @ /\ (following \/ (stage = Done /\ i.pending = Done))]

Usable == HasPipeline /\ ~Preparing

Quiet == preview.pending = Done /\ ~dragging

\* maintain_interactive_graph: what the reduced graph and its preparation
\* may become.
Maintained(i, wanted) ==
  LET source == preview.graph.id
      kept == IF i.graph.source \notin {0, source} THEN Reset(i) ELSE i
      k == IF kept.warm.source = source THEN kept
           ELSE [kept EXCEPT !.warm = NoWarm]
      failed == [k EXCEPT !.warm = NoWarm, !.failedFor = source]
      built == [k EXCEPT
                  !.warm = NoWarm,
                  !.graph = [source |-> source, rendered |-> FALSE,
                             buf |-> Unrendered(Photo)],
                  !.synced = FALSE]
      started == [k EXCEPT !.warm = [source |-> source, state |-> "running"]]
  IN IF ~wanted
     THEN {IF i.graph.source # 0 \/ i.warm.source # 0 THEN Reset(i) ELSE i}
     ELSE IF k.graph.source # 0 THEN {k}
     ELSE IF k.warm.state = "running" THEN {k}
     ELSE IF k.warm.state = "died" THEN {failed}
     ELSE IF k.warm.state = "done"
       THEN {built} \cup Failures("build", {failed})
     ELSE IF k.failedFor = source \/ ~Quiet THEN {k}
     ELSE {started} \cup Failures("worker", {failed})

----------------------------------------------------------------------------
(* The full-resolution preview *)

NoRun == [state |-> "none", output |-> NoOutput, photo |-> 0,
          picture |-> <<>>, cancel |-> FALSE]
NoImage == [output |-> NoOutput, photo |-> 0, picture |-> <<>>]

Cancelled(f) ==
  IF f.running.state = "none" THEN f ELSE [f EXCEPT !.running.cancel = TRUE]

\* Mutant of WholeShows: an edit that is not rendered yet does not hide it.
WholeShowsPending ==
  /\ full.image # NoImage
  /\ full.enabled
  /\ full.image.output = FittedOutput
  /\ full.image.photo = Photo

\* full_resolution_texture: the image may be shown.
WholeShows ==
  /\ full.image # NoImage
  /\ full.enabled
  /\ full.image.output = FittedOutput
  /\ full.image.photo = Photo
  /\ preview.pending = Done

\* Mutant of Observed: the picture of the earlier output is kept.
ObservedKeepsImage(f) ==
  LET output == FittedOutput
      running == IF f.running.output # output THEN Cancelled(f).running
                 ELSE f.running
  IN IF f.seen = output THEN f
     ELSE [f EXCEPT !.seen = output, !.still = FALSE, !.running = running]

\* FullResolutionState::observe
Observed(f) ==
  LET output == FittedOutput
      running == IF f.running.output # output THEN Cancelled(f).running
                 ELSE f.running
      image == IF f.image.output # output THEN NoImage ELSE f.image
  IN IF f.seen = output THEN f
     ELSE [f EXCEPT !.seen = output, !.still = FALSE,
                    !.running = running, !.image = image]

\* full_resolution_due
Due(f) ==
  /\ f.enabled
  /\ f.image = NoImage
  /\ f.running.state = "none"
  /\ f.gaveUpFor # Photo
  /\ HasPipeline
  /\ preview.pending = Done
  /\ ~Preparing

----------------------------------------------------------------------------
Picture(buf) == buf[Done]

NoPicture == [kind |-> "none", picture |-> <<>>]

Init ==
  /\ at = "idle"
  /\ repaint = 1
  /\ alarm = FALSE
  /\ edit = <<1, 1, 1, 1>>
  /\ preview = [graph |-> NoGraph, builds |-> 0, loaded |-> FALSE,
                pending |-> Done, lost |-> Done, dirty |-> FALSE, shrink |-> FALSE,
                rebuild |-> NoRebuild]
  /\ gate = "open"
  /\ slow = ConstrainedMemory
  /\ inter = [graph |-> NoReduced, warm |-> NoWarm, failedFor |-> 0,
              phase |-> "idle", following |-> FALSE, edited |-> Done,
              pending |-> Done, synced |-> FALSE]
  /\ age = 0
  /\ full = [enabled |-> TRUE, running |-> NoRun, image |-> NoImage,
             seen |-> NoOutput, still |-> FALSE, gaveUpFor |-> 0]
  /\ loading = [state |-> "running", edge |-> 1]
  /\ want = 1
  /\ dragging = FALSE
  /\ chosen = NoPicture
  /\ canvas = NoPicture
  /\ acts = 0

----------------------------------------------------------------------------
(* The workers, the GPU and the clock.  A frame looks at each of them in one *)
(* step only (at the gate in two), so what they do during the rest of the    *)
(* frame is as if it came after it, and happens there.                       *)

Rest == <<at, edit, preview, loading, want, dragging, chosen,
          canvas>>

\* The GPU has finished the batch: its time joins the median, and the
\* callback that opens the gate waits for a poll of the device.
GpuFinishes ==
  /\ at \in {"idle", "dispatch"}
  /\ gate = "busy"
  /\ gate' = "finished"
  /\ slow' \in {slow} \cup (IF acts < MaxActs THEN {~slow} ELSE {})
  /\ Spend(slow' # slow)
  /\ UNCHANGED <<repaint, alarm, inter, age, full>>
  /\ UNCHANGED Rest

\* Somebody else polls the device: a submission of the canvas, or the
\* full-resolution thread (wait_for_gpu).  The callback asks for a frame.
DeviceIsPolled ==
  /\ at \in {"idle", "dispatch"}
  /\ gate = "finished"
  /\ gate' = "open"
  /\ RequestRepaint(TRUE)
  /\ UNCHANGED <<alarm, slow, inter, age, full, acts>>
  /\ UNCHANGED Rest

WarmUpEnds(result) ==
  /\ at = "idle"
  /\ inter.warm.state = "running"
  /\ result \in {"done"} \cup Failures("worker", {"died"})
  /\ Spend(result = "died")
  /\ inter' = [inter EXCEPT !.warm.state = result]
  /\ RequestRepaint(result = "done")
  /\ UNCHANGED <<alarm, gate, slow, age, full>>
  /\ UNCHANGED Rest

\* A cancelled render stops before its next stage, or was past the last.
WholeEnds(result) ==
  /\ at = "idle"
  /\ full.running.state = "running"
  /\ \/ result = "done"
     \/ result = "failed" /\ (full.running.cancel \/ MayFail("worker"))
  /\ Spend(result = "failed" /\ ~full.running.cancel)
  /\ full' = [full EXCEPT !.running.state = result]
  /\ RequestRepaint(TRUE)
  /\ UNCHANGED <<alarm, gate, slow, inter, age>>
  /\ UNCHANGED Rest

RebuildEnds(result) ==
  /\ at = "idle"
  /\ preview.rebuild.state = "running"
  /\ result \in {"done"} \cup Failures("worker", {"failed"})
  /\ Spend(result = "failed")
  /\ preview' = [preview EXCEPT !.rebuild.state = result]
  /\ RequestRepaint(TRUE)
  /\ UNCHANGED <<at, alarm, edit, gate, slow, inter, age, full, loading, want,
                 dragging, chosen, canvas>>

LoadEnds(result) ==
  /\ at = "idle"
  /\ loading.state = "running"
  /\ result \in {"done"} \cup Failures("load", {"failed"})
  /\ Spend(result = "failed")
  /\ loading' = [loading EXCEPT !.state = result]
  /\ RequestRepaint(TRUE)
  /\ UNCHANGED <<at, alarm, edit, preview, gate, slow, inter, age, full, want,
                 dragging, chosen, canvas>>

PhaseAges ==
  /\ at = "idle"
  /\ inter.phase # "idle"
  /\ age < Over
  /\ age' = age + 1
  /\ UNCHANGED <<repaint, alarm, gate, slow, inter, full, acts>>
  /\ UNCHANGED Rest

\* The fitted output has not changed for IDLE_BEFORE_RENDER.
StillnessPasses ==
  /\ at = "idle"
  /\ full.seen # NoOutput
  /\ ~full.still
  /\ full' = [full EXCEPT !.still = TRUE]
  /\ UNCHANGED <<repaint, alarm, gate, slow, inter, age, acts>>
  /\ UNCHANGED Rest

AlarmRings ==
  /\ at = "idle"
  /\ alarm
  /\ alarm' = FALSE
  /\ repaint' = IF repaint = 0 THEN 1 ELSE repaint
  /\ UNCHANGED <<gate, slow, inter, age, full, acts>>
  /\ UNCHANGED Rest

----------------------------------------------------------------------------
(* A frame: the results of the workers *)

User == <<want, dragging>>
Shown == <<chosen, canvas>>

\* A frame may start at any time (a key, the pointer), and does when one was
\* requested.
FrameStarts ==
  /\ at = "idle"
  /\ at' = "poll"
  /\ repaint' = IF repaint = 0 THEN 0 ELSE repaint - 1
  /\ alarm' = FALSE
  /\ UNCHANGED <<edit, preview, gate, slow, inter, age, full, loading>>
  /\ UNCHANGED <<User, Shown, acts>>

\* The editor ran out of GPU memory: what it can do without goes.
ReleaseMemory ==
  /\ at = "poll"
  /\ Acts
  /\ inter' = Reset(inter)
  /\ UNCHANGED <<at, repaint, alarm, edit, preview, gate, slow, age, full,
                 loading, want, dragging>>
  /\ UNCHANGED Shown

\* poll_load_worker
LoadArrives ==
  /\ at = "poll"
  /\ loading.state \in {"done", "failed"}
  /\ loading' = NoLoad
  /\ IF loading.state = "failed" THEN UNCHANGED <<preview, inter>>
     ELSE /\ preview' = [preview EXCEPT
                           !.graph = Built(loading.edge, edit),
                           !.builds = @ + 1, !.loaded = TRUE,
                           !.pending = Done, !.lost = Done]
          /\ inter' = Reset(inter)
  /\ UNCHANGED <<at, repaint, alarm, edit, gate, slow, age, full>>
  /\ UNCHANGED <<User, Shown, acts>>

\* The graph of a rebuild replaces the fitted one, and renders all it owed.
Rebuilt(edge) ==
  [preview EXCEPT
     !.graph = Built(edge, edit), !.builds = @ + 1, !.rebuild = NoRebuild,
     !.pending = Done, !.lost = Done, !.dirty = @ \/ edge < want]

\* What the end of a rebuild makes of the fitted preview.  A build that finds
\* too little GPU memory is tried again without the graph it was to replace,
\* and may fail then too.
RebuildOutcomes ==
  LET none == [preview EXCEPT !.rebuild = NoRebuild]
      failed == [none EXCEPT !.dirty = FALSE]
      dropped == [failed EXCEPT
                    !.graph = [NoGraph EXCEPT !.edge = preview.graph.edge]]
  IN IF preview.rebuild.state = "failed" THEN {failed}
     ELSE IF ~preview.loaded \/ preview.rebuild.photo # Photo THEN {none}
     ELSE {Rebuilt(preview.rebuild.edge)}
            \cup Failures("build", {failed, dropped})

\* poll_preview_rebuild_worker
RebuildArrives ==
  /\ at = "poll"
  /\ loading.state \in {"none", "running"}
  /\ preview.rebuild.state \in {"done", "failed"}
  /\ preview' \in RebuildOutcomes
  /\ inter' = IF preview'.graph = preview.graph THEN inter ELSE Reset(inter)
  /\ Spend(/\ preview.rebuild.state = "done" /\ preview.rebuild.photo = Photo
           /\ preview'.builds = preview.builds)
  /\ UNCHANGED <<at, repaint, alarm, edit, gate, slow, age, full, loading>>
  /\ UNCHANGED <<User, Shown>>

\* The result of a full-resolution render is of no use any more.
Stale(run) ==
  run.cancel \/ run.photo # Photo \/ run.output # FittedOutput

\* poll_full_resolution
WholeArrives ==
  LET run == full.running
      ended == [full EXCEPT !.running = NoRun]
  IN /\ at = "poll"
     /\ loading.state \in {"none", "running"}
     /\ preview.rebuild.state \in {"none", "running"}
     /\ run.state \in {"done", "failed"}
     /\ full' = IF Stale(run) THEN ended
                ELSE IF run.state = "failed"
                  THEN [ended EXCEPT !.gaveUpFor = Photo]
                ELSE [ended EXCEPT !.image = [output |-> run.output,
                                              photo |-> run.photo,
                                              picture |-> run.picture]]
     /\ RequestRepaint(~Stale(run) /\ run.state = "done")
     /\ UNCHANGED <<at, alarm, edit, preview, gate, slow, inter, age, loading>>
     /\ UNCHANGED <<User, Shown, acts>>

\* No worker has ended that this frame did not hear of.
PollDone ==
  /\ loading.state \in {"none", "running"}
  /\ preview.rebuild.state \in {"none", "running"}
  /\ full.running.state \in {"none", "running"}

----------------------------------------------------------------------------
(* A frame: what the user does *)

\* The user does one thing in a frame, or nothing.
Handles ==
  /\ at = "poll"
  /\ PollDone
  /\ at' = "views"

NoInput ==
  /\ Handles
  /\ UNCHANGED <<repaint, alarm, edit, preview, gate, slow, inter, age, full,
                 loading>>
  /\ UNCHANGED <<User, Shown, acts>>

\* mark_pipeline_dirty and queue_preview_processing: an edit of what stage s
\* reads.
Edit(s) ==
  /\ Handles
  /\ preview.loaded
  /\ edit[s + 1] <= MaxEdits
  /\ edit' = [edit EXCEPT ![s + 1] = @ + 1]
  /\ IF HasPipeline
     THEN /\ preview' = [preview EXCEPT !.pending = Earlier(@, s)]
          /\ inter' = [inter EXCEPT !.edited = Earlier(@, s)]
          /\ full' = Cancelled(full)
          /\ RequestRepaint(TRUE)
     ELSE UNCHANGED <<preview, inter, full, repaint>>
  /\ UNCHANGED <<alarm, gate, slow, age, loading>>
  /\ UNCHANGED <<User, Shown, acts>>

\* A control is taken with the pointer, or let go.
Grab ==
  /\ Handles
  /\ ~dragging
  /\ Acts
  /\ dragging' = TRUE
  /\ UNCHANGED <<repaint, alarm, edit, preview, gate, slow, inter, age, full,
                 loading, want>>
  /\ UNCHANGED Shown

LetGo ==
  /\ Handles
  /\ dragging
  /\ dragging' = FALSE
  /\ UNCHANGED <<repaint, alarm, edit, preview, gate, slow, inter, age, full,
                 loading, want, acts>>
  /\ UNCHANGED Shown

\* set_preview_viewport_pixels and preview_source_region_changed: the canvas
\* has another size.
Resize ==
  /\ Handles
  /\ Acts
  /\ want' \in Edges \ {want}
  /\ preview' = [preview EXCEPT
                   !.dirty = \/ @
                             \/ loading.state # "none"
                             \/ preview.shrink
                             \/ preview.loaded /\ preview.graph.edge < want']
  /\ UNCHANGED <<repaint, alarm, edit, gate, slow, inter, age, full, loading,
                 dragging>>
  /\ UNCHANGED Shown

\* preview_quality_changed
ChangeQuality ==
  /\ Handles
  /\ Acts
  /\ want' \in Edges
  /\ IF preview.loaded \/ loading.state # "none"
     THEN /\ preview' = [preview EXCEPT !.dirty = TRUE, !.shrink = TRUE]
          /\ full' = Cancelled(full)
          /\ alarm' = TRUE
     ELSE UNCHANGED <<preview, full, alarm>>
  /\ UNCHANGED <<repaint, edit, gate, slow, inter, age, loading, dragging>>
  /\ UNCHANGED Shown

\* FullResolutionState::set_enabled
ToggleWhole ==
  /\ Handles
  /\ Acts
  /\ full' = [Cancelled(full) EXCEPT
                !.enabled = ~@, !.gaveUpFor = 0, !.seen = NoOutput,
                !.still = FALSE, !.image = NoImage]
  /\ UNCHANGED <<repaint, alarm, edit, preview, gate, slow, inter, age,
                 loading, want, dragging>>
  /\ UNCHANGED Shown

\* start_document_load and reset_document_state: another photo is opened.
OpenPhoto ==
  /\ Handles
  /\ Acts
  /\ loading.state = "none"
  /\ edit' = [edit EXCEPT ![1] = @ + 1]
  /\ loading' = [state |-> "running", edge |-> want]
  /\ preview' = [preview EXCEPT
                   !.graph = NoGraph, !.loaded = FALSE, !.rebuild = NoRebuild,
                   !.pending = Done, !.lost = Done]
  /\ inter' = Reset(inter)
  /\ UNCHANGED <<repaint, alarm, gate, slow, age, full, want, dragging>>
  /\ UNCHANGED Shown

----------------------------------------------------------------------------
(* A frame: the canvas, and the work of the frame *)

\* show_preview: the reduced preview comes before the full-resolution one,
\* and that before the fitted one.
ShownPicture ==
  IF ~HasPipeline THEN NoPicture
  ELSE IF Visible(inter)
    THEN [kind |-> "reduced", picture |-> Picture(inter.graph.buf)]
  ELSE IF WholeShows THEN [kind |-> "whole", picture |-> full.image.picture]
  ELSE [kind |-> "fitted", picture |-> Picture(preview.graph.buf)]

\* A graph of that edge will do, unless the quality was lowered.
FitsWanted ==
  /\ HasPipeline
  /\ preview.graph.edge >= want
  /\ preview.shrink => preview.graph.edge = want

\* show_preview, and apply_pending_preview_quality after it.
AppliesQuality ==
  LET taken == [preview EXCEPT !.shrink = FALSE]
      starts == [taken EXCEPT
                   !.dirty = FALSE,
                   !.rebuild = [state |-> "running", photo |-> Photo,
                                edge |-> want]]
      waits == \/ preview.rebuild.state # "none"
               \/ ~preview.dirty
               \/ loading.state # "none"
  IN /\ at = "views"
     /\ at' = "follow"
     /\ chosen' = ShownPicture
     /\ IF waits THEN UNCHANGED <<preview, inter>>
        ELSE IF ~preview.loaded
          THEN preview' = [preview EXCEPT !.dirty = FALSE] /\ UNCHANGED inter
        ELSE IF FitsWanted
          THEN preview' = [taken EXCEPT !.dirty = FALSE] /\ UNCHANGED inter
        ELSE /\ preview' \in {starts} \cup Failures("worker", {taken})
             /\ inter' = Reset(inter)
     /\ Spend(~waits /\ preview'.dirty)
     /\ alarm' = (alarm \/ preview'.rebuild # preview.rebuild)
     /\ UNCHANGED <<repaint, edit, gate, slow, age, full, loading, canvas>>
     /\ UNCHANGED User

\* poll_open: the device is polled unless the gate is open.
Polled == IF gate = "finished" THEN "open" ELSE gate

\* Mutant of SharpCurrent: the GPU need not have finished it.
SharpSubmitted == preview.pending = Done

\* The fitted preview has every edit, and the GPU has finished it.
SharpCurrent == preview.pending = Done /\ Polled = "open"

\* advance_interactive_preview
FollowsDrag ==
  /\ at = "follow"
  /\ at' = "dispatch"
  /\ \E kept \in Maintained([inter EXCEPT !.edited = Done], Usable /\ slow) :
       LET stage == inter.edited
           eligible == Usable /\ slow /\ kept.graph.source # 0
           next == NextPhase(kept.phase, eligible, stage # Done, SharpCurrent)
       IN /\ inter' = Enter(kept, next[1], Follows(next[1], next[2]), stage)
          /\ age' = next[2]
          /\ alarm' = (alarm \/ next[1] # "idle")
          /\ Spend(/\ kept.failedFor # inter.failedFor
                   /\ inter.warm.state # "died")
  /\ gate' = IF preview.pending = Done THEN Polled ELSE gate
  /\ RequestRepaint(gate' # gate)
  /\ UNCHANGED <<edit, preview, slow, full, loading>>
  /\ UNCHANGED <<User, Shown>>

\* advance_interactive_stage until nothing is pending.
ReducedRenders ==
  LET graph == [inter.graph EXCEPT
                  !.rendered = TRUE,
                  !.buf = Rendered(@, inter.pending, Output, edit)]
      done == [inter EXCEPT !.graph = graph, !.pending = Done, !.synced = TRUE]
      failed == [Reset(inter) EXCEPT !.failedFor = inter.graph.source]
  IN /\ inter' \in {done} \cup Failures("stage", {failed})
     /\ Spend(inter' # done)
     /\ UNCHANGED preview

\* advance_main_processing_stage until nothing is pending.  A stage that
\* fails leaves itself and the later ones as they were.
FittedRenders ==
  LET first == preview.pending
      upTo(last) == [preview EXCEPT
                       !.pending = Done,
                       !.graph.buf = Rendered(@, first, last, edit)]
      done == [upTo(Output) EXCEPT
                 !.graph.revision = @ + 1,
                 !.lost = IF first <= @ THEN Done ELSE @]
      failed(at_stage) == [upTo(at_stage - 1) EXCEPT
                             !.lost = Earlier(@, at_stage)]
  IN /\ preview' \in
          IF HasPipeline
          THEN {done}
                 \cup Failures("stage", {failed(s) : s \in first..Output})
          ELSE {[preview EXCEPT !.pending = Done]}
     /\ Spend(HasPipeline /\ preview' # done)
     /\ UNCHANGED inter

\* The work that is still owed needs another frame; what the reduced preview
\* holds back does not.
AsksAgain(pending, following) == pending # Done /\ ~following

\* What the texture chosen for this frame holds at its end.
Painted ==
  CASE chosen.kind = "reduced" /\ inter'.graph.source # 0 ->
         [chosen EXCEPT !.picture = Picture(inter'.graph.buf)]
    [] chosen.kind = "fitted" ->
         [chosen EXCEPT !.picture = Picture(preview'.graph.buf)]
    [] OTHER -> chosen

\* advance_preview_dispatch: what the gate lets through is submitted, and the
\* frame is painted.
Dispatches ==
  LET opened == Polled = "open"
      reduced == opened /\ inter.following /\ inter.pending # Done
      fitted == opened /\ ~inter.following /\ preview.pending # Done
  IN /\ at = "dispatch"
     /\ at' = "whole"
     /\ IF reduced THEN ReducedRenders
        ELSE IF fitted THEN FittedRenders
        ELSE UNCHANGED <<preview, inter, acts>>
     /\ gate' = IF reduced \/ fitted THEN "busy" ELSE Polled
     /\ RequestRepaint(\/ gate = "finished"
                       \/ reduced /\ inter'.graph.source # 0
                       \/ AsksAgain(preview'.pending, inter'.following))
     /\ canvas' = Painted
     /\ chosen' = NoPicture
     /\ UNCHANGED <<alarm, edit, slow, age, full, loading>>
     /\ UNCHANGED User

\* advance_full_resolution: whatever is pressed is about to change the
\* picture, so a render stops; one is started when nothing has changed for
\* long enough, and is declined where it does not fit the GPU memory.
WholeAdvances ==
  LET o == Observed(full)
      seen == IF dragging THEN Cancelled(o) ELSE o
      starts == [seen EXCEPT
                   !.running = [state |-> "running", output |-> FittedOutput,
                                photo |-> Photo, picture |-> edit,
                                cancel |-> FALSE]]
      waits == dragging \/ ~seen.still
  IN /\ at = "whole"
     /\ at' = "idle"
     /\ full' \in IF Due(seen) /\ ~waits
                  THEN {starts}
                         \cup Failures("worker",
                                       {[seen EXCEPT !.gaveUpFor = Photo]})
                  ELSE {seen}
     /\ Spend(full'.gaveUpFor # full.gaveUpFor)
     /\ alarm' = \/ alarm
                 \/ Due(seen) /\ waits
                 \/ preview.rebuild.state # "none"
     /\ UNCHANGED <<repaint, edit, preview, gate, slow, inter, age, loading>>
     /\ UNCHANGED <<User, Shown>>

----------------------------------------------------------------------------
Input ==
  \/ NoInput
  \/ \E s \in EditStages : Edit(s)
  \/ Grab \/ LetGo
  \/ Resize \/ ChangeQuality
  \/ ToggleWhole
  \/ OpenPhoto

Frame ==
  \/ LoadArrives \/ RebuildArrives \/ WholeArrives
  \/ Input
  \/ AppliesQuality \/ FollowsDrag \/ Dispatches \/ WholeAdvances

Elsewhere ==
  \/ GpuFinishes \/ DeviceIsPolled
  \/ \E result \in {"done", "died", "failed"} :
       WarmUpEnds(result) \/ WholeEnds(result) \/ RebuildEnds(result)
         \/ LoadEnds(result)
  \/ PhaseAges \/ StillnessPasses \/ AlarmRings

Next == FrameStarts \/ ReleaseMemory \/ Frame \/ Elsewhere

Spec == Init /\ [][Next]_vars

\* The GPU finishes each batch, the workers end, and the clock goes on.  Said
\* of the states, as each of them changes between two frames only.
OthersGoOn ==
  /\ []<>(gate # "busy")
  /\ []<>(inter.warm.state # "running")
  /\ []<>(full.running.state # "running")
  /\ []<>(preview.rebuild.state # "running")
  /\ []<>(loading.state # "running")
  /\ []<>(inter.phase = "idle" \/ age = Over)
  /\ []<>(full.seen = NoOutput \/ full.still)

\* A frame that was requested runs, at once or when its time has come, and
\* runs to its end.  The user need not do anything.
FairSpec ==
  /\ Spec
  /\ WF_vars(repaint # 0 /\ FrameStarts)
  /\ WF_vars(Frame)
  /\ WF_vars(AlarmRings)
  /\ OthersGoOn

----------------------------------------------------------------------------
(* Properties *)

\* The shape of the state, and what goes with what: a phase and pending work
\* of the reduced preview belong to a reduced graph of the graph that is
\* shown.
TypeOK ==
  /\ at \in {"idle", "poll", "views", "follow", "dispatch", "whole"}
  /\ repaint \in 0..2 /\ alarm \in BOOLEAN
  /\ slow \in BOOLEAN /\ dragging \in BOOLEAN
  /\ DOMAIN edit = 1..4 /\ \A k \in 1..4 : edit[k] \in Nat
  /\ preview.pending \in Raw..Done /\ preview.lost \in Raw..Done
  /\ preview.rebuild.state \in {"none", "running", "done", "failed"}
  /\ gate \in {"open", "busy", "finished"}
  /\ inter.warm.state \in {"none", "running", "done", "died"}
  /\ inter.phase \in {"idle", "dragging", "settling"}
  /\ inter.pending \in Raw..Done /\ inter.edited \in Raw..Done
  /\ age \in 0..Over
  /\ full.running.state \in {"none", "running", "done", "failed"}
  /\ loading.state \in {"none", "running", "done", "failed"}
  /\ want \in Edges
  /\ acts \in 0..MaxActs
  /\ (inter.phase # "idle" \/ inter.following \/ inter.pending # Done) =>
       inter.graph.source # 0
  /\ (inter.graph.source # 0) => inter.graph.source = preview.graph.id

\* Whatever of the edit the fitted preview does not hold is still owed: the
\* buffers before the first stage that is pending, or was lost with a reported
\* error, are those of the edit.
FittedOwesWhatItMisses ==
  LET first == Earlier(preview.pending, preview.lost)
  IN HasPipeline => preview.graph.buf[first] = SubSeq(edit, 1, first)

\* A reduced graph that counts as in step with the edits holds them, but for
\* the stages it owes and the edits of this frame.
SyncedMissesNothing ==
  (inter.graph.source # 0 /\ inter.synced /\ inter.edited = Done) =>
    inter.graph.buf[inter.pending] = SubSeq(edit, 1, inter.pending)

\* No edit is lost on the way to a graph, fitted or reduced: whatever it does not hold
\* it owes, however edits of several stages merge while the GPU is busy.
GraphsOweWhatTheyMiss == FittedOwesWhatItMisses /\ SyncedMissesNothing

\* The full-resolution picture a frame shows is the photo with every edit.
WholeIsOfTheEdit ==
  (chosen.kind = "whole" /\ preview.lost = Done) => chosen.picture = edit

\* The fitted preview takes over from the reduced one when it shows every
\* edit and the GPU has finished it, so the picture does not jump back.
HandoverShowsTheEdit ==
  [][(at = "follow" /\ inter.phase = "settling" /\ inter'.phase = "idle"
        /\ inter'.graph.source # 0)
     => /\ gate' = "open"
        /\ preview.lost # Done \/ Picture(preview.graph.buf) = edit]_vars

\* The full-resolution picture is wanted, was not given up, and nothing else
\* keeps the GPU.
WholeIsWanted ==
  full.enabled /\ full.gaveUpFor # Photo /\ ~preview.dirty /\ ~dragging

\* Once the user stops, the canvas comes to show every edit, in full resolution
\* where that is wanted, and keeps to it.
CanvasSettles ==
  <>[](HasPipeline /\ preview.lost = Done =>
         /\ canvas.picture = edit
         /\ WholeIsWanted => canvas.kind = "whole")

============================================================================
