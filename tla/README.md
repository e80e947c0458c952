# CalibRaw in TLA+

CalibRaw is a RAW photo editor written in Rust: an eframe/egui application
(`calibraw-ui`) over a core of file formats and image pipelines
(`calibraw-core`), GPU programs (`calibraw-gpu`), ONNX models (`calibraw-ai`), an
Android bridge (`calibraw-ffi`) and a command line tool (`calibraw-cli`). Most of
its code computes images. What is hard to test in it is the rest: one UI thread
that owns the application state, a few dozen background jobs that read and write
the same sidecar files, caches and documents, and the rules
(`docs/ARCHITECTURE.md`, "Threads and concurrency contracts") that keep a late
result from reaching the wrong photo and an edit from being lost. This directory
models that part.

The paths below are relative to `crates/calibraw-ui/src/` unless they start with
`calibraw-`, which is a crate under `crates/`.

## Contents

| File | What it is |
|---|---|
| `SidecarSave.tla` | how the editor saves the open photo's edits: queue, autosave, document switch, flush, reset, recovery, and the load that reads them back |
| `MCSidecarSave.tla` | its instances for TLC |
| `SidecarSaveProofs.tla` | its inductive invariant and theorems, proved with TLAPS |
| `DecodedRawCache.tla`, `MCDecodedRawCache.tla` | the single-flight cache of decoded RAWs and the decode gate |
| `DecodedRawCacheProofs.tla` | its inductive invariant and theorems |
| `ReviewWriter.tla`, `MCReviewWriter.tla` | ratings and flags: the writer thread, the grid, and everything else that writes the same sidecars |
| `ReviewWriterProofs.tla` | its inductive invariant and theorems |
| `ThumbnailPool.tla`, `MCThumbnailPool.tla` | the library's thumbnail workers, scans, cache clears and what the grid shows |
| `ThumbnailPoolProofs.tla` | its inductive invariant and theorems |
| `ModelSlot.tla`, `MCModelSlot.tla` | the one loaded AI session, its warm features, GPU settings, and the record of GPU work |
| `ModelSlotProofs.tla` | its inductive invariants and theorems |
| `ContentJobs.tla`, `MCContentJobs.tla` | local-AI jobs, the edit and history their results go into, and the content they are made from |
| `EditResults.tla` | what the editor promises of those results; ContentJobs implements it |
| `ContentJobsProofs.tla` | their inductive invariants and theorems, and the refinement of EditResults |
| `PreviewJobs.tla`, `MCPreviewJobs.tla` | the three renders that compete for the Develop canvas, the gate before the GPU, and the frames that drive them |
| `PreviewJobsProofs.tla` | its inductive invariant and theorems |
| `MediaExport.tla`, `MCMediaExport.tla` | exports where photos live in a media library: batches, single files, carousels, replays, and the opens they share |
| `MediaExportProofs.tla` | its inductive invariant and theorems |
| `PROJECT.json` | components, runs, mutants, hazards, findings, theorems, and for every definition the source lines it translates |

Run a model with `tlc -config MCSidecarSave.cfg MCSidecarSave`, the proofs with
`tlapm SidecarSaveProofs.tla` (and the seven other proof modules).

## Inventory

The system's parts, the state each keeps, what it does, what is hard about it and
what makes it correct. "Modelled" names the module, otherwise the plan below
says when.

| Component | State | Operations | Hard behaviour | Correct when |
|---|---|---|---|---|
| Sidecar save queue (`app/sidecar_persistence*`, `app/persistence_state.rs`) | `sidecar_pending`, `sidecar_in_flight`, `document_generation`, saved and failed revisions, autosave deadline, recovery request | queue, replace, start, poll, autosave, explicit save, flush, recover, detach | one write at a time on its own thread; documents change while it runs; gestures hold autosaves back; flush gives up after 2 s; any step can fail | no edit is lost without a report; what counts as saved is on disk; reset photos stay reset. **SidecarSave** |
| Document load (`app/lifecycle/`) | load receiver, document state, generation | start, read sidecar, poll, install | the sidecar is read on the load thread while saves of the same photo run | a loaded document gets its own target and the newest edits. **SidecarSave**, **ReviewWriter** |
| Edit history (`app/edit_history.rs`) | undo and redo stacks, current snapshot, `committed_revision` | note, observe, commit, undo, redo | coalesces gestures; results of workers commit on their own; bounded | a revision names one state; undo restores it. **SidecarSave** (revisions), **ContentJobs** (stacks and restores) |
| Decoded-RAW cache (`app/decoded_raw_cache.rs`) and prefetch (`app/lifecycle/prefetch.rs`) | entries in LRU order, reservations with tickets, limit, a condition variable; the decode gate | get, reserve, finish, drop, clear, set limit | single flight across threads, failures and panics, clears during a decode, a limit of 0 | one decode per file, no lost wake-up, nothing stale kept or given. **DecodedRawCache** |
| Ratings and flags (`ui/library/state/reviews.rs`, `app/library_review.rs`) | requests and results of one writer thread, `pending` per photo | rate, write, poll, settle before an open | shown before saved; folder and media libraries write differently; scans bring older reviews | ratings are saved in order, show until then, and cost no edits. **ReviewWriter** |
| Sidecar files (`calibraw-core/src/sidecar/`) | one file per photo, `SIDECAR_SAVE_LOCK` | save edits, save review, reset, read, migrate | two writers own two halves of one file | each read-modify-write keeps the other half. In **SidecarSave** and **ReviewWriter** |
| Library scan and thumbnails (`ui/library/state/scan.rs`, `ui/library/thumbnails/`, `calibraw-core/src/thumbnail_cache.rs`) | entries, bounded request and result channels, generation, pause flag, permits | scan, request, load, deliver | back-pressure, generations that go stale, permits, a gate interactive decodes take exclusively | every picture arrives; a photo is loaded once; a cleared cache stays clear. **ThumbnailPool**, reviews in **ReviewWriter** |
| AI model slot (`calibraw-ai/src/slot.rs`) | one session, retention, warm feature set | acquire, release, reconcile, release idle GPU session | the warm set changes while a job holds the slot | a cold, outdated or lost session does not stay loaded. **ModelSlot** |
| GPU job record, placement, out-of-memory records (`calibraw-ai/src/placement/`) | a file naming the GPU work in progress; per-model retry times | begin, end, take at startup | a crash, and an orderly exit during a job | a record is left exactly by work the system did not survive. **ModelSlot** |
| AI runtime and registry (`calibraw-ai/src/runtime`, `registry`) | installed runtimes and models | probe, download, verify, install | locks, consent, partial downloads | an installed file is complete. Not modelled (I/O) |
| Preview rebuild, detail, reduced preview, full resolution (`app/processing_export/preview/`, `app/interactive_preview.rs`, `app/full_resolution.rs`) | receivers, revisions, cancel flags, fitted output | start, cancel, poll, install | results outrun by edits, moved views, and document switches | no edit is left out of a picture, the renders hand the canvas over without a jump, and it settles. **PreviewJobs** |
| Foreground operation, people masks, remove/retouch (`app/foreground.rs`, `app/ai/`, `app/inpainting.rs`) | one slot; one compose per component; one receiver | start, cancel, poll, apply | late results after a switch, undo or a newer change | a result is applied only to the state it was made for; an update ends. **ContentJobs** |
| Export, batch, replay (`app/processing_export/`, `services/replay/`) | `export.task`, `batch`, `slide_publish`, `publish_pending`, `android_batch_load_pending`; pending entries, cached files | start, open, load, render, publish, cancel, resume | answers that name no asker; a step of several fails or is cancelled | a file shows its photo, partial files are removed and never reported, a batch ends. **MediaExport** |
| Heap purge, serialized reads (`calibraw-core/src/system_memory/`, `serialized_reads.rs`) | a channel; a re-entrant gate with a switch | request; run | coalescing; switching while held | the last request is served; no deadlock. Planned |
| Linked folder tree and companions, watermark | a walk with a repeat flag; receivers | refresh, publish | refresh during a walk | Not modelled (mostly I/O) |
| Image pipeline, GPU programs, migrations, presets | none across calls | decode, render, convert | numerics | out of a model checker's reach; tested in the repository |
| Android bridge, platform layer, CLI, xtask | callback queues | forward | JNI | Not modelled, except that a media library's sidecar is read and written in separate calls (**ReviewWriter**) |

How they interact: the UI thread calls every handler once per frame or event, so
each handler is one atomic step of the models. Workers get an owned snapshot,
and answer through a channel that a later frame polls. The files are shared: a
sidecar is written by the save thread, by the review writer, and by library
actions on the UI thread, and is read by loads, scans and thumbnails. Locks
(`SIDECAR_SAVE_LOCK`, the decode gate, the cache mutex) cover single calls, never a
conversation between two components. The models look at what happens between
those calls.

`PROJECT.json` lists the hazards line by line.

## SidecarSave

Three threads: the UI thread, `calibraw-sidecar-save`, and the document load.

| Variable | Code |
|---|---|
| `p` | `PersistenceState`, with the save thread and its channel as `thread` and `job` (`sidecar_in_flight`); `excused` is history |
| `d` | the document: committed edits, an edit in the making, `edit_commit_revision`, the gesture that holds history or autosave back |
| `load` | the load thread and its receiver |
| `ui` | in frames, in the blocking flush at exit or before a reset, or gone |
| `disk`, `unreadable` | the sidecars, and those of an unsupported format |
| `wanted`, `raced` | history: the edits the user put into a photo and did not reset; edits whose save was outstanding while something else read, reset or replaced the sidecar |

Handlers are operators named after the methods (`QueueCurrent`, `StartNext`,
`FinishSave`, `BeginSidecarOpen`, `ScheduleAutosave`, ...), from state to state, and
an action chains them as the code does: `SyncPersistence` is the frame's observe,
poll and autosave in their order; `StartLoad` commits, queues, starts and clears the
document as `start_document_load` does. An edit is a number and a document, request
or sidecar is the set of edits it would show. A revision is the number of
commits, because the code's counter never repeats within a generation. An undo is
a commit like any other.

Reading an unsupported sidecar gives a document without edits, a failed thread
start drops the request it popped, and a save thread may die before or after its
write, as in the code. `FlushTimesOut` may happen at any point of a flush.

*Safety* (`MCSidecarSave`):

- `SavesInOrder` - requests leave the queue in the order their edits were made.
- `SavedMeansOnDisk` - "saved" is shown only while the sidecar holds the document;
  a request that captured half a gesture would break it.
- `ResetEditsStayReset` - edits of a reset photo do not come back, unless their
  save was already running or queued during the reset (the code has no defence
  there; `raced` says which edits those are), or the user puts a failed save's edits
  into a sidecar after all, which makes them wanted again.
- `NoEditLost` - an edit is on disk, on its way, still unsaved
  in the open document, or in a failure that was reported (`EveryEditIsHeld`); at
  exit, on disk or reported (`ExitSavesEverything`).

*Liveness* (`MCSidecarLive`): `EditsReachTheirSidecar`. An edit that is lost without a
report never reaches its sidecar, so this run says of unsupported sidecars what
`NoEditLost` says of the other faults.

*Fairness.* The save, load and flush threads run (weak fairness). A frame with
no gesture in progress is strongly fair: a press and a release are each followed by
a frame, and handlers that wait for time ask for a repaint
(`schedule_sidecar_autosave`, lines 221-242). The deadline passes, and the user lets
go of a control eventually. No fairness is assumed of user actions or of faults.

*Bounds.* Two photos are needed for requests of different documents in one queue
and for "photo left, other opened"; two revisions for a request replaced by a newer
one of the same document; three generations for open, leave and reopen. All
faults but the unsupported sidecar, which triples the initial states and is in
`MCSidecarLive` with one photo and two generations, are in `MCSidecarSave`; the theorems
below cover every set of faults.
Photos are symmetric
(no `CHOOSE` over them, no temporal property in that run).

## DecodedRawCache

Each action is one critical section of the cache's mutex, or one acquisition or
release of the decode gate. `call[t]` is where a thread stands in
`decode_cached`/`get_or_decode`; `entries` is the LRU list; a reservation carries
its ticket. A decode is known by its `epoch`, the number of clears (changes of
settings that change decodes) before it reserved its entry; that is the history
against which staleness is judged. A decode may succeed, fail, or panic, which
poisons the gate if it was held for writing. Condition variables wake spuriously.

`EveryRequestEnds` says that nobody waits for a decode nobody runs: no wake-up is lost
and no reservation is left without its decode. `SingleFlight`: a file is decoded once at
a time while caching is on; `NoStaleDecodeKept`: what a clear promises;
`ReadyWithinLimit`, that eviction catches up with a limit lowered during a decode. The
types (`TypeOK`) are left to the proof.
Deadlock is checked: every state but the bound's last has a step, and there the
settings still can change.

*Bounds.* One file in both kinds of key (a decode with profile matching also
serves requests without), one load and one prefetch, limits 0 and 1, three tickets,
two clears: enough for a reservation cleared, made again and finished by its old
decode, and for a limit lowered to none and raised again while a decode runs. More
files only add independent entries and evictions, and a limit of 1 with two keys
already evicts.

*Fairness.* Threads run and decodes end. The gate is an `RwLock` that queues: a thread
waiting for it is let in (strong fairness). With two overlapping prefetches that is a
matter of the operating system's reader preference, so there is one. The number of
requests is bounded: the code lets a waiter be overtaken by every new request that a
clear makes possible, and an endless stream of clears starves it.

## ReviewWriter

The UI thread, the review writer, the save thread, a load and the scans, in a
folder or in a media library (`media`).

A change is a number in the order the user makes them and a review the sequence
of changes that led to it, so that "older" and "lost" can be seen. In a folder,
`Written` and `SavedEdits` keep the other half of the sidecar, since both are
read-modify-writes under `SIDECAR_SAVE_LOCK`. In a media library a rating reads in
`ReadForReview` and writes in `WriteReview`, and an edit save writes the review of its
document. The save queue is reduced to its order and to replacing a queued save
of the open photo (SidecarSave has the rest); saves do not fail here.

`NewestRatingShows`: what the grid shows while a rating is being saved, and that the count
of waiting saves, which decides it, is exactly the requests, the running one and the
results, across a writer that dies and is started again (`PendingIsExact`).
`RatingsReachTheSidecar`, `FolderKeepsEdits`: no rating and no edit lost in a folder,
and a later change always wins. `OpensWithReview`: the wait before a photo is opened is
long enough unless it times out.

`outdated` records photos whose review on screen was replaced by an older read; a
folder's catalog does that (see the findings), and `NewestRatingShows` is about the
others.

*Bounds.* Three changes to two photos (two to one photo and one to another, in every
order), one edit, one opened photo and one review read by a scan, which may be
delivered at any later time; all four faults, symmetric photos. The user's
bounds end a behaviour, so deadlock is not checked here, nor in the SidecarSave runs,
where the process also ends.

## ThumbnailPool

The scan thread, the workers of its pool, and the UI thread that asks for pictures
and shows them.

| Variable | Code |
|---|---|
| `scan` | the UI thread's generation, its channel ends, whether a scan is starting or the cache being cleared |
| `entry` | what the grid shows of a photo: a picture, a developed picture, and `thumbnail_queued` |
| `pool` | `ThumbnailWorkQueue` (background, `in_flight`, `initial_completed`, `developed_queued`) and the two bounded channels |
| `thread` | where each worker of the current generation is |
| `late` | for each older generation, its threads that wait at the gate or load |
| `paused` | `decoding_paused` |
| `disk` | the photos with edits, and the scans before the last clear of the cache |

A rescan replaces channels and pool, so what is left of the older one reaches
neither screen nor queue: only its loads matter, because they write the thumbnail
cache. A worker looks at the generation before and under the decode gate
(`LateStops`), which the clear of the cache takes for writing (`CacheCleared` waits for
the loads). The pictures are abstracted: a load answers with the camera's preview, a
preview whose developed picture is to follow, that picture, or an error.

- `OneLoadPerPhoto`: the background, the screen and the developed stage never load one
  photo at once. `ClearedCacheStaysClear`: no thread of an older scan loads after a
  clear. `EditsStayOnScreen`: a preview read before an edit does not replace its
  developed picture.
- `PicturesArrive`: while decoding is not paused every photo of a scan is loaded and
  every request answered.

*Fairness.* Scan and worker threads run, loads end, and frames are drawn while results
wait (a worker that sends one asks for a repaint). Nothing is assumed of the user. Scans are finitely
many: an endless stream of rescans answers nothing.

*Bounds.* Channels of one place (64 and 32 in the code) make every send wait; two
workers, one photo (the hazards are requests for one photo from three sources) and
two generations.

*Abstracted.* There is no variable for the gate: loads hold it for reading, and the
only writer, the clear, is an action that waits for them; an interactive decode, which
holds it for writing, is a load that has not begun. A failed clear starts no scan.
The two generations a clear takes count as one. A screen request merged into a
background load that waits at the pause (`workers.rs:168`) is not served while
Develop is open; `PicturesArrive` says nothing of it. A developed result that was read
before a save may replace the picture installed by the save
(`install_developed_thumbnail`): both are developed, and the model does not tell them
apart.

*Seen while modelling, without a property.* A worker that meets its photo in flight drops
the developed preview scheduled for it (`ui/library/mod.rs:457`), which `developed_queued`
then keeps from being scheduled again: the photo stays queued, with the camera's preview,
until the next scan.

## ModelSlot

The jobs that lease the session, the UI thread that sets the warm features in every
frame, switches the GPU on and off, meets GPU failures and exits, and the file
that names the GPU work in progress.

`slot` is `RuntimeSlot`, `holder` the job with its lock, `job` the place of each
thread in `acquire_model_session`, the run and the drop of its guard. `records` is
`Records` with what the file says (`written`). `setting` has the GPU setting, its
generation, the quarantine and the flag of a lost GPU. A job ends with two
reconciliations: one under its lock (`Reconciled`), one after it with a try-lock
(`ReadAgain`, `TryLock`, `ReconcileAgain`), whose arguments are read before the lock
is tried, as in the code.

- `GpuWorkIsRecorded`: whenever the process dies, the file names the job on the
  GPU or the model loaded there. `RecordsEnd`: no record outlives its work, nor an
  orderly exit (`ExitLeavesNoRecord`), whatever running jobs do until the
  process ends.
- `LostSessionsLeave`: a session that lost the GPU is not left to the next job, even
  when the user switches the GPU on again while its job ends.
- `UnwantedSessionsLeave`: a cold session, or one of older settings, is unloaded while
  the editor runs.

*Fairness.* A job that holds a lease goes on and ends. Frames are drawn: each sets the
warm features (strongly fair, as other handlers of the frame may come first), then
unloads.

*Bounds.* One model, two jobs, two changes of the setting. The slot holds one session,
so a second model only replaces it, which a second job with other settings does too.

*Seen while modelling, without a property.* After a job fell back to the CPU
(`session.rs:303-308`) its lease's record stays to the end of the lease
(`slot.rs:217`), so that a crash or lack of memory of the editor is blamed on GPU AI
by `eframe_impl.rs:85-87`. The arguments of the second reconciliation are read before
the try-lock (`slot.rs:191-198`, `268-273`) and may be old; the next frame heals it.
`release_idle_gpu_session` may meet the lock of that second reconciliation and release
nothing. A record that cannot be written is only logged while `written` changes
(`job_record.rs:88-94`); the model's file does not fail.

## ContentJobs

The slot of the foreground operation, the subject, object and people jobs, people
masks made without a dialog, retouch strokes, updates, and the edit with its history.

| Variable | Code |
|---|---|
| `doc` | document generation, loading, `ai.update_needed`; how many contents there were |
| `edit` | the mask stack and the content: the photo with its Remove and retouch strokes |
| `history` | `EditHistory` |
| `op` | `ForegroundOperation` with its cancel flag, document and targets |
| `ai` | the consent dialog, staged object and people inputs, the running update with its plan |
| `cache` | mask source, subject result, people analysis |
| `composes`, `retouch` | people masks and a retouch stroke being made |

A content is a number and a result the content and input it was made from, so
that a late or misplaced result can be seen. A frame is one step and commits to the
history at its end. Dialogs are modal (`docs/DEVELOPMENT.md`), so the user
edits only while no operation runs and none asks for a download (`Free`); retouch
strokes and composes run beside everything, and a photo may be opened at any time.
`Target`, `Resolved` and `WithPeople` are the three ways a result finds its component
after the edit changed.

- `WorkIsOfTheContent`: mask source, people found, composes and every job whose result
  would be accepted are of the open photo's content.
- `UpdateHasAJob`: a running update has a job or a consent dialog, however its jobs are
  declined, fail, are cancelled or lose their target. The types are left to the proof.
- `OnlyHistoryUnmarks`: no job, update, stroke or saved edit brings up an outdated
  result without the mark for an update; undo and redo do (below).
- `ResultsAreOfThePhoto`: ContentJobs implements `EditResults`, the abstract promise: a
  result enters the edit, its history or its cache only while the photo and content it
  was made from are open, and only for something the edit asks for.

*Bounds.* Two masks, inputs 0 and 1, a history of two, three contents over two photos
and four user actions: an update of two jobs with a retouch stroke between them, and
mask, stroke, update, undo, all fit. The actions are bounded, so deadlock is not
checked.

*Abstracted.* `continue_ai_update` skips unneeded steps at once. The branch of
`request_object_mask` during another object job (`object.rs:52-61`) cannot be reached
behind the modal dialog. A saved edit is either of the photo's content or marked; the
sidecar that such an undo leads to is excluded, so that the property shows what
the other steps do.

*Seen while modelling, without a property.* Undo brings back outdated masks unmarked:
after a retouch stroke and an update, undoing the update restores the result of the older
content with neither a mark nor a change of content, and caches it
(`app/edit_history.rs:718`) for the next subject mask.
A compose is known by the place of its
component and the choice it had (`people.rs:456-462`): when masks are deleted while it
runs, another people component with the same choice at that place gets its result.
`EditResults` allows it (the edit asks for that choice); `docs/ARCHITECTURE.md` says
"only while its component still has the person and parts it had".

## PreviewJobs

The Develop canvas at the fitted view. Three renders of one photo compete for it: the
fitted preview, whose stages wait for the GPU (`PreviewDispatchGate`); on a slow GPU
a reduced preview, which follows a drag while the fitted one waits; and a
full-resolution render on its own thread, once nothing has changed for a while.

| Variable | Code |
|---|---|
| `at` | the step of the frame (`poll_workers`, the views, `apply_pending_preview_quality`, `advance_interactive_preview`, `advance_preview_dispatch`, `advance_full_resolution`) that runs next, or "idle" |
| `repaint`, `alarm` | the frames that were asked for, at once or for later |
| `edit` | history: the photo and the version of what each stage reads |
| `preview` | `PreviewState`: fitted graph, pending stage, rebuild, `quality_dirty`, `shrink_oversized`; `lost` is history |
| `gate`, `slow` | the dispatch gate and the verdict of its latencies |
| `inter`, `age` | `InteractiveState` and the clock of its phase |
| `full` | `FullResolutionState` |
| `loading`, `want`, `dragging` | the load thread, the edge the canvas asks for, the control being dragged |
| `chosen`, `canvas` | the texture this frame paints, and what was painted last |

A picture is the sequence of versions it was rendered from and a graph keeps one buffer
per stage, so a stage that runs on outdated buffers gives an outdated picture.
`Maintained`, `NextPhase`, `Enter`, `Observed` and `Due` are the methods of those names.
The texture is chosen in the views and painted at the end of the frame, so that a graph
rendered in between shows its newer picture and a full-resolution image dropped in
between is still painted once.

- `GraphsOweWhatTheyMiss`, in two parts. `FittedOwesWhatItMisses`: the buffers before the stage the fitted preview owes are of
  the edit, however edits merge, stages fail and graphs are replaced. `lost` is the
  stage of a failed render, whose error was reported and which the code does not retry.
  `SyncedMissesNothing`: the same of a reduced graph with `synced`.
- `WholeIsOfTheEdit`: a full-resolution picture is shown only with every edit.
- `HandoverShowsTheEdit`: the canvas goes back to the fitted preview when that has every
  edit and the GPU has finished it.
- `CanvasSettles`: once the user stops, the canvas comes to show every edit, in full
  resolution where it is enabled, and keeps to it.

*Fairness.* A frame that was asked for runs to its end and a timer asks for its frame.
The GPU finishes its batches, workers end and the clock goes on; said of states, because
each changes only between two frames (`OthersGoOn`). The user and the faults have no
fairness.

*egui.* `request_repaint` of egui, a library, draws the next frame and one more. The
model relies on it, and so does the code: the frame in which a settled drag ends asks
for no frame (`interactive_preview.rs:520`), and without the second one the canvas
would keep the reduced picture until the pointer moves (TLC shows it with `RequestRepaint`
set to one frame).

*Bounds.* One edit of the first and one of the last stage, so that edits merge in both
orders, and two of everything else the user does, failures and changes of the GPU's
speed together (`MaxActs`): a drag taken up twice, a drag and a rebuild, a rebuild that
fails and another photo. Two edges. Deadlock is checked: a frame may always start.

*Abstracted.* A drain renders all its stages in one step; the time a phase lasts is
0, settled or over; a declined full-resolution render is a failure.

*Seen while modelling, without a property.* `enter` renders a reduced graph that fell
behind from the first stage, "so the graph shows the edit as it is and not as it was when
it last followed a drag" (`interactive_preview.rs:328-330`). But `rendered` is not reset:
when the gate is closed as the drag begins, `visible` shows the picture of the last drag,
without the edits made since, until the gate opens. And a stage whose dispatch fails is
neither retried nor kept pending, so its edit is missing from the fitted preview until
an edit of that stage or an earlier one, or another graph.

## MediaExport

Where photos live in a media library (Android, iOS) a batch export opens its photos in
Develop one after another: the platform is asked for a photo, its answer starts a load,
the end of the load starts the export, the rendered file is made visible in the gallery
at once (an entry of the media store written through a descriptor) or by a later report
of the platform (a file of the cache), and that resumes the batch. The same opens, loads
and publishing serve the user, a replay, a carousel and photos that other apps send, and
no answer says whom it is for.

| Variable | Code |
|---|---|
| `at` | the step of the frame: `poll_android_picker`, `poll_android_external_open`, `poll_android_export_publish`, `poll_load_worker`, `poll_export_worker` with `poll_edit_replay_worker`, `resume_android_library_batch_export_if_possible`, then the user |
| `tab`, `doc` | the active tab, the loaded photo |
| `open`, `load`, `external` | the platform's answer to an open, the load thread, other apps' photos |
| `owned` | `export.android_batch_load_pending` |
| `task`, `batch`, `slides` | `ExportTask`, `LibraryBatchExportState`, `SlidePublish` |
| `worker`, `publish` | the rendering thread, `publish_pending` with what the platform publishes |
| `entries`, `cached` | what is on its way to the gallery |
| `made`, `report` | history: the batch's photos in the gallery, what it reported |

- `ExportsAreOfTheirPhoto`: a file named after a photo is rendered from it.
- `NothingIsLeftBehind`: no entry and no cached file outlives its export, whichever slide
  or step failed or was cancelled.
- `CancelledBatchStops`: a cancelled batch opens and renders nothing more.
- `ExportsAreReported`: every photo a batch brought into the gallery is in its report, also
  when it is cancelled while that photo is being published.
- `ItemsEnd`: the photo a batch works on is finished with, whichever step of it fails or is
  cancelled. `BatchEnds`: a batch that is not cancelled ends; the code does not keep
  that (see Findings).
- `TypeOK` also says that the task is the batch's exactly while a batch runs.

A batch is started from the library, or from the photos under Develop, which only a screen
wide enough has (`eframe_impl.rs:415-427`, "filmstrip" in `Uses`). The library's actions
wait for an open and for a batch: the guard is not in `start_android_library_exports` but
where its dialog is opened (`library_actions_enabled`), and `ActionsEnabled` is that guard.

*Fairness.* Frames go on, each poll in its turn: every worker and callback asks for a
repaint. What the platform, a load or a render was asked for ends. The user
and other apps have no fairness.

*Bounds.* Two photos are enough for a batch with a successor, and for a load of one
photo to be taken for the other's. Two slides, so that a carousel can fail with one
published and one left. One photo of another app. `MCMediaExport` has all faults and uses
and blocks the app during an export (Android). Where exports do not block it (iOS), what
the user does during one is modelled (`Blocked`) but in no run: with it TLC explores 3.8
million states, which is longer than a run kept here; the safety properties were seen to
hold there too. Deadlock is checked: frames go on.

*Abstracted.* A destination is its photo, slide and way of publishing. The descriptor
of a failed entry is dropped by the platform (`cancel_all_direct_exports`,
`finalize_direct_export`), and a render leaves no unfinished file
(`export_to_destinations`).

*Seen while modelling, without a property.*

- Only the answer for a photo under way ends a cancelled batch (`export.rs:581`). A batch
  waits without one while another photo loads (`batch.rs:676`) or while Develop is open
  (`batch.rs:671`), and cancelling it then leaves it there for good, against
  `documents.rs:13` ("Wait for it to finish or cancel it first"): with
  `batch.on /\ batch.cancel ~> ~batch.on`, TLC shows it without any fault for a batch
  started while the photo tapped before it loads, and cancelled before the load ends.
- Where exports block the app, a batch that finds itself in Develop between two photos
  waits for ever, because the user cannot leave Develop: when it was started from the
  photos under Develop, or when a photo from another app opens between two items.
- A replay's task ends before its file is published (`replay.rs:223`). A batch started then
  (`batch.rs:395`) takes the answer of the platform for its own (`batch.rs:827-836`) and
  says that it exported one photo more than it did, against `docs/ARCHITECTURE.md:142`. The
  report may be too high for that reason, never too low (`ExportsAreReported`).
- Where exports do not block the app, tapping a photo while the batch's load runs clears
  `android_batch_load_pending` (`documents.rs:11-56`): the load ends without its item, and
  `current` stays.

## Runs

| Run | States | Shows |
|---|---|---|
| `MCSidecarSave` | 685,833 | five invariants: two photos, five kinds of fault |
| `MCSidecarLive` | 168,946 | edits reach their sidecar, which may be unsupported |
| `MCDecodedRawCache` | 95,385 | three invariants; every request ends |
| `MCReviewWriter` | 676,775 | four invariants and one action property |
| `MCThumbnailPool` | 330,936 | three invariants, one action property; every picture arrives |
| `MCModelSlot` | 192,326 | four invariants; unwanted sessions leave |
| `MCContentJobs` | 318,190 | two invariants, one action property, the refinement of EditResults |
| `MCPreviewJobs` | 1,064,759 | three invariants, one action property; the canvas settles |
| `MCMediaExport` | 932,796 | four invariants, one action property; photos are finished with |
| `MCSidecarReopen` | counterexample | `EditsSurviveReopening` |
| `MCReviewEdits` | counterexample | `RatingKeepsEdits` |
| `MCMediaExportLoad` | counterexample | `BatchEnds` with failing loads |

The mutants (defined beside the operator they replace, and named in `PROJECT.json`)
are what the properties are worth: each breaks its property under the run's own
bounds.

## Findings

1. **Reopening a photo during its save loses edits** (`MCSidecarReopen`). The load
   reads the sidecar (`app/lifecycle/document_load.rs:142`) without asking whether a
   save of that photo is outstanding. The older document is shown, and its next save
   replaces the newer file. `README.md:96` promises that all edits are saved.
2. **A rating can put older edits back** (`MCReviewEdits`). `reviews.rs:112` says
   that edits are kept because a media library's sidecar is written whole; being
   read first and written later, with the save thread in between, is why they are not.
3. **A batch whose last photo fails to load never ends** (`MCMediaExportLoad`). That
   failure alone returns without completing its item (`batch.rs:533`), and a batch
   without pending photos is not resumed: no report, no other export, and on Android a
   dialog over the app that Cancel does not close. `background_tasks.rs:4` promises a
   notice or an error.

Divergences from the documentation read off the code, without a run: a new load does
not replace a running one but is refused (`app/lifecycle/documents.rs:162` against
`docs/ARCHITECTURE.md:134`); a failed save keeps a recovery request only for an
unsupported sidecar (`app/sidecar_persistence.rs:323` against
`docs/ARCHITECTURE.md:144`); a folder's catalog, unlike a thumbnail, replaces a rating
that is being saved (`ui/library/state/scan.rs:421` against `reviews.rs:234`), which
heals with the save's result.

## Proofs

Eight modules prove theorems for every value of the constants, from the named
assumptions on them alone (`ConstantsAssumption`, `CacheAssumption`, `ReviewAssumption`,
`ThumbnailAssumption`, `ModelSlotAssumption`, `ContentAssumption`,
`MediaExportAssumption`, and of PreviewJobs `BoundsAssumption`, `DeviceAssumption` and
`StagesAssumption`: values that stand for "none" are no members, bounds are natural
numbers, and sets whose members are counted are finite). TLC checked each inductive
invariant on a small instance before it was proved. Every invariant and every action
property the passing runs check is a theorem, and so is the refinement of `EditResults`.

`SidecarSaveProofs`: `Invariance` (`Spec => []IndInv`), `TypeCorrect` (`TypeOK`),
`SavesStayInOrder` (`SavesInOrder`). The order of saves is not inductive alone. A reset
detaches and reopens `p.target`, so that it be a photo is needed when the flush returns
(`ResetsAPhoto`); a load that ends installs its photo as the target, which must be one
(`LoadsAPhoto`); and the types are needed for every sequence and record. `IndInv` is the
conjunction. The order is carried by one lemma per handler (`Enqueue`, `QueueCurrent`,
`StartNext`, `FinishSave`, `PollSave`, ...). The interesting one is `Enqueue`: the queue
has one request per generation, in rising order, none newer than the document, and the
running save is no newer than any of them; so appending a request of the open document
puts it behind older generations, and replacing in place puts it where only older
generations are before it. The action steps then chain those lemmas as the actions chain
the handlers.

On top of it, `DataInvariance` (`Spec => []DataInv`) gives `SavedStaysOnDisk`
(`SavedMeansOnDisk`), `EditsAreKept` (`NoEditLost`) and `ResetsHold`
(`ResetEditsStayReset`). A save replaces a sidecar whole, so what it replaces must be in
it. `QueueFits` says so of the whole queue: each queued or running save holds what its
sidecar and the saves of that photo before it hold, but for raced edits. `DocumentFits`
says that the open document holds all of that, and exactly that when it counts as saved;
`LoadFits` and `UnreadableFits` say it of a load under way and of sidecars the program
does not write; `AllHeld`, `FlushHolds` and `ExitSavesEverything` place every edit of
the user; `WantedFits` relates them to what was reset. `Carries` says of each handler
which edits it puts on the way and which it keeps, and is proved once per handler.

`DecodedRawCacheProofs`: `Invariance` (`Spec => []IInv`), `TypeCorrect` (`TypeOK`),
`LimitHolds` (`ReadyWithinLimit`),
`DecodesOnce` (`SingleFlight`), `StaleDecodesGo` (`NoStaleDecodeKept`), and
`NoSleeperForgotten`, the safety half of `EveryRequestEnds`: a thread that sleeps waits
for a decode that some thread runs. `IInv`: keys and tickets are distinct
(`EntriesInv`), a ticket has its reservation until a clear and a reservation its
decoding thread (`OwnersInv`), where each thread stands (`CallsInv`), and what a sleeper
waits for (`SleepersInv`). Eviction removes entries until the limit holds
(`evict_over_limit`, a fold). That a fold keeps a property needs no induction here: if
it did not, there would be a least prefix of the sequence after which it fails, and the
step before it is a counterexample to the lemma about one step.

`ReviewWriterProofs`: `Invariance`, `TypeCorrect` (`TypeOK`), `NewestShows`
(`NewestRatingShows`), `RatingsArrive` (`RatingsReachTheSidecar`), `OpensRated`
(`OpensWithReview`), `FolderEditsKept` (`FolderKeepsEdits`, an action property).
`PendingIsExact` is a count over three places, kept by what `Cardinality` says of a
queue whose head is taken and a result that is polled. `WriterInv` holds what ties the
places together: what is shown (`ShowsInv`), that changes go from the grid to the queue
to the writer to the sidecar in one order (`OrderInv`), which save of edits carries
which review (`SavedInv`), what a load read (`LoadInv`) and which edits a sidecar has
(`EditsInv`).

`ModelSlotProofs`: `Invariance` (`Spec => []IInv`), `TypeCorrect` (`TypeOK`),
`GpuWorkStaysRecorded` (`GpuWorkIsRecorded`), `RecordsAlwaysEnd` (`RecordsEnd`, the exit
included), `LostSessionsAlwaysLeave` (`LostSessionsLeave`). `IInv` has three parts.
`Base`: types, one holder of the lock, and a file that agrees with the records in memory
until the exit and is empty after it. `RecordsInv`: what the job that holds the slot has
recorded at each of its steps, and that a model's record has its session on the GPU;
"GPU work is recorded" alone says nothing of a job between its steps, so a step that
begins work would not preserve it. `LossInv`: a session on the GPU was begun with a
usable GPU or under older settings, and a lost one is held by a job about to release it
whose settings are outdated; without it nothing tells that the release finds the session
no longer fitting. Each action gives one job a new state; a lemma for such a change
carries each part.

`ThumbnailPoolProofs`: `Invariance` (`Spec => []IInv`), `TypeCorrect` (`TypeOK`),
`PhotosAreLoadedOnce` (`OneLoadPerPhoto`), `ClearedCachesStayClear`
(`ClearedCacheStaysClear`), `EditsStay` (`EditsStayOnScreen`, an action property). That
two workers never load one photo needs that every load has its photo in `in_flight`
(`LoadsAreInFlight`) and that a worker past its queue holds a request
(`WorkersHaveWork`). That a cleared cache stays clear needs that the clear left no pool
(`ClearingHasNoPool`) - the workers that count from then on are those of older
generations, which only stop - and that each clear is followed by a generation of its
own (`ClearsAreOver`). `EditsStay` needs only the types of entries and events: one lemma
says it of each way an entry changes.

`ContentJobsProofs`: `WorkStaysOfTheContent` (`WorkIsOfTheContent`), `TypeCorrect`
(`TypeOK`), `UpdatesHaveJobs` (`UpdateHasAJob`), `OnlyStepsUnmark`
(`OnlyHistoryUnmarks`, an action property), and
`ResultsFollowThePhoto` (`ResultsAreOfThePhoto`: the jobs implement EditResults). `IInv`
adds to the first the types of the records and that a running update has its mask
source: the next job of an update is begun from the source captured for it, not from the
photo, so that this source is of the content must be known whenever the update can go
on.

`JobsInv` is for the other three. The mark goes when an update ends that has not failed,
and the update only knows the steps it has left. `UpdateCovers` says what makes that
safe: each result of another content is in a step left, in the request that waits for
consent, in the targets of the job that runs, or the job has an error that fails the
update when it ends. Steps name an object by its place, so what is staged must be in the
edit (`AiFits`), what ends the job must be of its kind (`OpFits`), and the user may only
change masks while no update runs. `FreshSubject` says why showing the cached subject
keeps a marked edit marked. The masks that a people job writes one after the other
(`apply_people_masks`) are a fold over its targets, the steps left a filter; both are
reasoned about by the least counterexample, like the eviction of DecodedRawCache. Each
action has a lemma for `JobsInv` and the mark, and one that says which step of
EditResults it is: a job that is accepted is an `Answer`, what the user does a `Change`
that brings nothing in. TLC checked `JobsInv` on the constants of `MCContentJobs` before
it was proved.

`PreviewJobsProofs`: `Invariance`, `TypeCorrect` (`TypeOK`), `GraphsOwe`
(`GraphsOweWhatTheyMiss`), `WholeShowsTheEdit` (`WholeIsOfTheEdit`), `HandoverShows`
(`HandoverShowsTheEdit`, an action property). A graph computes stages, and what it owes
is the first one to compute again. `PreviewFits`: its buffers up to the earlier of what
is pending and what was lost are of the edit. `InterFits` (`Holds`): the reduced graph
was taken from the fitted one, so it holds what that holds until it hears of an edit,
and owes everything when it has not been synchronised. `FullFits` (`Shows`): a picture
in full resolution belongs to an output the fitted preview has had; as long as it still
has it and owes nothing, the picture is the edit. `Steps` is about the frame: the
reduced preview hears of the edits before it renders, and the whole picture is chosen
only until the frame paints. TLC checked `IInv` with every fault and two edits in 16.7
million states.

`MediaExportProofs`: `Invariance`, `TypeCorrect` (`TypeOK`), `RightPhotoExported`
(`ExportsAreOfTheirPhoto`), `NothingLeft` (`NothingIsLeftBehind`), `ReportsCoverExports`
(`ExportsAreReported`), `CancelStops` (`CancelledBatchStops`, an action property).
Answers of the platform name no asker, so each property needs to know for whom a photo
is being opened: `OwnedInv` says whose open and whose load are under way, `WorkerInv`
what the exporting thread makes, `PublishInv` for whom a file is being published.
`CountInv` bounds the files made by what a report will count: those counted and those
whose answer is on its way.

Model-checked only: liveness and `ENABLED`, which this prover cannot do:
`EditsReachTheirSidecar`, `EveryRequestEnds`, `PicturesArrive`, `UnwantedSessionsLeave`,
`CanvasSettles` and `ItemsEnd`. Their safety halves are theorems where they have one: a
sleeper has a thread that wakes it (`NoSleeperForgotten`), an update has a job or a
dialog (`UpdatesHaveJobs`). The three properties that the code violates are
refuted by TLC and have no proof.

## Not modelled in the modelled parts

- SidecarSave: paste, presets, rename, move and delete of library photos; Android's
  platform calls; the developed-thumbnail sidecar; the undo and redo stacks.
- DecodedRawCache: the lens-correction and recoloured-copy slots inside an entry,
  which files the prefetch picks, and its cancel flag (it stops before its next
  request, which `Ask` leaves open).
- ReviewWriter: the wait for ratings at exit and before library actions (the wait
  before an open is the same function), selections of several photos (a sequence of
  changes), and the review as stars and flags.
- ThumbnailPool: extraction permits, texture eviction, cache files, sorting.
- ModelSlot: providers one by one, free memory and retry times, I/O failures of the
  record.
- PreviewJobs: the zoomed crop and the navigation preview, masks that wait for an upload
  or for layers, the comparison with the original, the light bake's tiers, clipping
  overlays, exports, lens work and AI denoise (which keep a render from starting), a load
  thread that cannot be started.
- MediaExport: the desktop's folder batch, which renders in one worker of its own; the
  share sheet; opens for a camera profile, a reset or the AI refresh; imports of several
  photos; progress and the notification.
- ContentJobs: lens calibration, AI denoise and automatic geometry in the same slot;
  sky and scene depth (they share the subject's path), range masks and the source they
  restore (`edit_history.rs:698-716`); moving and pasting masks; failures of the
  capture, of threads and of loads; the cache of object inferences.

## Not modelled

Nearly all of the repository's code lies outside: decoding, the image pipeline and its
GPU programs, the widgets, and file formats. It is sequential computation over images
and settings, without state of its own to explore; floating point and pixels have no
useful finite instance. Of the concurrent code, the folder batch, the folder tree, the
heap purge, the serialized reads and the downloads are not modelled yet; the plan has
them.

## Plan

Done: SidecarSave, DecodedRawCache, ReviewWriter, ThumbnailPool, ModelSlot, ContentJobs,
PreviewJobs and MediaExport. What is left, in this order:

1. PreviewJobs: the zoomed crop with its reduced crop, and an abstract canvas that the
   three renders implement.
2. `LockOrder` - the serialized reads with the documented order of locks, for deadlock;
   the heap purge.
3. SidecarSave: paste, rename, move and delete as actions.
4. An abstract cache that DecodedRawCache implements, and a composition of
   SidecarSave and ReviewWriter over one set of sidecars.
5. MediaExport: the folder batch, and the other opens of the platform.
