--------------------------- MODULE ThumbnailPool ---------------------------
(***************************************************************************)
(* The library's thumbnail pool (ui/library/thumbnails/workers.rs), the    *)
(* UI thread that requests and shows its pictures (thumbnails.rs,          *)
(* state/scan.rs).                                                         *)
(*                                                                         *)
(* A scan has a generation, its own channels and its own pool.  When the   *)
(* generation rises, what is left of the older pool cannot reach the UI    *)
(* thread any more: it is counted who of it waits at the gate or loads.    *)
(* Whether a picture is on screen at full size, at a small one or only in  *)
(* memory is left out: a photo with a picture may or may not ask for more. *)
(* So is which pictures the thumbnail cache holds: it may lose any.        *)
(***************************************************************************)
EXTENDS Integers, Sequences, SequencesExt, FiniteSets

CONSTANTS
  Photo,
  NoPhoto,       \* the photo of an event that is about no photo
  Worker,        \* the worker threads of one pool
  Edited,        \* the photos with edits when the library opens
  MaxRequests,   \* MAX_PENDING_THUMBNAILS
  MaxResults,    \* MAX_PENDING_THUMBNAIL_RESULTS
  MaxGeneration  \* bound: scans and cache clears

ASSUME ThumbnailAssumption ==
  /\ NoPhoto \notin Photo
  /\ IsFiniteSet(Photo) /\ IsFiniteSet(Worker)
  /\ Edited \subseteq Photo
  /\ MaxRequests \in Nat \ {0} /\ MaxResults \in Nat \ {0}
  /\ MaxGeneration \in Nat \ {0}

VARIABLES
  scan,      \* the UI thread's generation and channel ends
  entry,     \* entry[q]: q in the grid
  pool,      \* the current generation's work queue and channels
  thread,    \* thread[w]: the state of worker w of the current generation
  late,      \* late[g]: the threads of older generation g at the gate and in loads
  paused,    \* decoding_paused: Develop is on screen
  disk       \* the photos with edits, and the scans before the last clear

vars == <<scan, entry, pool, thread, late, paused, disk>>

Work == [photo : Photo, display : BOOLEAN, stage : {"raw", "developed"}]
NoWork == [photo |-> NoPhoto, display |-> FALSE, stage |-> "raw"]

\* What a load brings: the camera's preview, the preview of a photo whose
\* developed picture is still to be rendered, that picture, or an error.
Loaded == {"preview", "pending", "developed", "error"}
Catalog == [photo |-> NoPhoto, loaded |-> "catalog"]
ScanFailed == [photo |-> NoPhoto, loaded |-> "scan failed"]
Event == [photo : Photo, loaded : Loaded] \cup {Catalog, ScanFailed}

NewEntry == [shown |-> FALSE, developed |-> FALSE, queued |-> FALSE]
EmptyPool == [background |-> <<>>, inFlight |-> {}, initialDone |-> {},
              developedQueued |-> {}, requests |-> <<>>, results |-> <<>>]
NoThread == [at |-> "none", work |-> NoWork, loaded |-> "preview"]
Idle == [NoThread EXCEPT !.at = "idle"]

At(w) == thread[w].at
Workers(at) == {w \in Worker : At(w) = at}

-----------------------------------------------------------------------------
(* ThumbnailWorkQueue *)

\* The background asks for a photo that a request was already answered for.
Repeats(work) == ~work.display /\ work.stage = "raw" /\ work.photo \in pool.initialDone

\* Mutant of Claims: a photo in flight is loaded again.
ClaimsAlways(work) == ~Repeats(work)

\* claim: whether the worker loads the photo of this request.
Claims(work) == ~Repeats(work) /\ work.photo \notin pool.inFlight

\* Mutant of Finished: the photo stays in flight.
FinishedInFlight(work) ==
  [pool EXCEPT
     !.initialDone = IF work.stage = "raw" THEN @ \cup {work.photo} ELSE @,
     !.developedQueued = IF work.stage = "raw" THEN @ ELSE @ \ {work.photo}]

\* finish
Finished(work) ==
  [pool EXCEPT
     !.inFlight = @ \ {work.photo},
     !.initialDone = IF work.stage = "raw" THEN @ \cup {work.photo} ELSE @,
     !.developedQueued = IF work.stage = "raw" THEN @ ELSE @ \ {work.photo}]

\* schedule_developed_preview
WithDeveloped(q) ==
  IF q \in pool.developedQueued THEN pool
  ELSE [pool EXCEPT !.developedQueued = @ \cup {q},
                    !.background = Append(@, [photo |-> q, display |-> FALSE,
                                              stage |-> "developed"])]

-----------------------------------------------------------------------------
(* The threads of a scan. *)

Step(w, at) == thread' = [thread EXCEPT ![w].at = at]

Background == SetToSeq({[photo |-> q, display |-> FALSE, stage |-> "raw"] : q \in Photo})

\* run_thumbnail_workers: the catalog first, then the workers.
StartPool ==
  /\ scan.starting
  /\ Len(pool.results) < MaxResults
  /\ pool' = [pool EXCEPT !.background = Background, !.results = Append(@, Catalog)]
  /\ scan' = [scan EXCEPT !.starting = FALSE]
  /\ thread' = [w \in Worker |-> Idle]
  /\ UNCHANGED <<entry, late, paused, disk>>

\* send_scan_failure
ScanFails ==
  /\ scan.starting
  /\ Len(pool.results) < MaxResults
  /\ pool' = [pool EXCEPT !.results = Append(@, ScanFailed)]
  /\ scan' = [scan EXCEPT !.starting = FALSE]
  /\ UNCHANGED <<entry, thread, late, paused, disk>>

\* A worker takes a request, else background work unless decoding is paused.
Take(w) ==
  /\ At(w) = "idle"
  /\ \/ /\ pool.requests # <<>>
        /\ thread' = [thread EXCEPT ![w].at = "claiming", ![w].work = Head(pool.requests)]
        /\ pool' = [pool EXCEPT !.requests = Tail(@)]
     \/ /\ pool.requests = <<>> /\ ~paused /\ pool.background # <<>>
        /\ thread' = [thread EXCEPT ![w].at = "claiming", ![w].work = Head(pool.background)]
        /\ pool' = [pool EXCEPT !.background = Tail(@)]
  /\ UNCHANGED <<scan, entry, late, paused, disk>>

\* A request that is not claimed is dropped: the photo's load answers it.
Claim(w) ==
  LET work == thread[w].work
  IN /\ At(w) = "claiming"
     /\ \/ /\ Claims(work)
           /\ pool' = [pool EXCEPT !.inFlight = @ \cup {work.photo}]
           /\ Step(w, "waiting")
        \/ /\ ~Claims(work)
           /\ thread' = [thread EXCEPT ![w] = Idle]
           /\ UNCHANGED pool
     /\ UNCHANGED <<scan, entry, late, paused, disk>>

\* The load's answer, from the edits it reads first and a cache that may hold the
\* developed picture.
Answers(work) ==
  {"error"} \cup
  (IF work.photo \notin disk.edited THEN {"preview"}
   ELSE IF work.stage = "developed" THEN {"developed"}
   ELSE {"developed", "pending"})

\* A worker enters the gate, finds its generation current under it, looks at the
\* pause again, and loads.
Begin(w) ==
  /\ At(w) = "waiting"
  /\ paused => thread[w].work.display
  /\ \E loaded \in Answers(thread[w].work) :
       thread' = [thread EXCEPT ![w].at = "loading", ![w].loaded = loaded]
  /\ UNCHANGED <<scan, entry, pool, late, paused, disk>>

\* The load ends: its picture has entered the cache, the gate is released, and
\* the photo is no longer in flight.
EndLoad(w) ==
  LET work == thread[w].work
  IN /\ At(w) = "loading"
     /\ Step(w, "sending")
     /\ pool' = Finished(work)
     /\ UNCHANGED <<scan, entry, late, paused, disk>>

\* Mutant of Send: the result does not wait for room.
SendAlways(w) ==
  LET load == thread[w]
  IN /\ At(w) = "sending"
     /\ pool' = [pool EXCEPT !.results =
                   Append(@, [photo |-> load.work.photo, loaded |-> load.loaded])]
     /\ thread' = [thread EXCEPT ![w] = Idle]
     /\ UNCHANGED <<scan, entry, late, paused, disk>>

\* The result is sent once the channel has room.
Send(w) ==
  LET load == thread[w]
      pending == load.work.stage = "raw" /\ load.loaded = "pending"
  IN /\ At(w) = "sending"
     /\ Len(pool.results) < MaxResults
     /\ pool' = [pool EXCEPT !.results = Append(@, [photo |-> load.work.photo, loaded |-> load.loaded])]
     /\ thread' = [thread EXCEPT ![w] = IF pending THEN [@ EXCEPT !.at = "scheduling"] ELSE Idle]
     /\ UNCHANGED <<scan, entry, late, paused, disk>>

ScheduleDeveloped(w) ==
  /\ At(w) = "scheduling"
  /\ pool' = WithDeveloped(thread[w].work.photo)
  /\ thread' = [thread EXCEPT ![w] = Idle]
  /\ UNCHANGED <<scan, entry, late, paused, disk>>

\* Mutant of LateStops: the generation is only looked at before the gate.
LateLoads(g) ==
  /\ late[g].waiting > 0
  /\ late' = [late EXCEPT ![g].waiting = @ - 1, ![g].loading = @ + 1]
  /\ UNCHANGED <<scan, entry, pool, thread, paused, disk>>

\* A thread of an older pool enters the gate and finds its generation over.
LateStops(g) ==
  /\ late[g].waiting > 0
  /\ late' = [late EXCEPT ![g].waiting = @ - 1]
  /\ UNCHANGED <<scan, entry, pool, thread, paused, disk>>

LateEnds(g) ==
  /\ late[g].loading > 0
  /\ late' = [late EXCEPT ![g].loading = @ - 1]
  /\ UNCHANGED <<scan, entry, pool, thread, paused, disk>>

-----------------------------------------------------------------------------
(* The UI thread. *)

Running == scan.ui # "clearing"

\* The current pool becomes one of the older ones.
LeavePool ==
  /\ late' = [late EXCEPT ![scan.generation] =
                [waiting |-> @.waiting + Cardinality(Workers("waiting")),
                 loading |-> @.loading + Cardinality(Workers("loading"))]]
  /\ thread' = [w \in Worker |-> NoThread]
  /\ pool' = EmptyPool

\* rescan: a new generation with new channels.
NewScan(e) ==
  /\ scan.generation < MaxGeneration
  /\ scan' = [scan EXCEPT !.generation = @ + 1, !.open = TRUE, !.starting = TRUE,
                         !.ui = "scanning"]
  /\ entry' = [q \in Photo |-> [e[q] EXCEPT !.queued = FALSE]]
  /\ LeavePool

Refresh ==
  /\ Running
  /\ NewScan(entry)
  /\ UNCHANGED <<paused, disk>>

\* The scan, then its pool, holds the receiver of the requests.
PoolListens == scan.starting \/ Workers("none") = {}

\* touch_and_request_thumbnail: a photo in view asks for its picture, unless it
\* shows it at full size.
Touch(q) ==
  LET sends == scan.open /\ PoolListens /\ Len(pool.requests) < MaxRequests
  IN /\ Running /\ scan.listed
     /\ ~entry[q].queued
     /\ entry' = [entry EXCEPT ![q].queued = sends]
     /\ pool' = IF sends
                THEN [pool EXCEPT !.requests =
                        Append(@, [photo |-> q, display |-> TRUE, stage |-> "raw"])]
                ELSE pool
     /\ UNCHANGED <<scan, thread, late, paused, disk>>

\* poll: the catalog keeps the pictures of the photos it lists again.
Listed == [q \in Photo |-> [entry[q] EXCEPT !.queued = FALSE]]

\* Mutant of Shown: a preview replaces a developed picture.
ShownAlways(e, loaded) ==
  IF loaded = "error" THEN [e EXCEPT !.queued = FALSE]
  ELSE [shown |-> TRUE, developed |-> loaded = "developed", queued |-> loaded = "pending"]

\* poll: what a load's result changes in its entry.  A developed picture is not
\* replaced by a preview, unless its new one is on its way.
Shown(e, loaded) ==
  IF loaded = "error" \/ (e.developed /\ loaded = "preview")
  THEN [e EXCEPT !.queued = FALSE]
  ELSE [shown |-> TRUE, developed |-> loaded = "developed", queued |-> loaded = "pending"]

Poll ==
  LET event == Head(pool.results)
  IN /\ Running /\ scan.open /\ pool.results # <<>>
     /\ pool' = [pool EXCEPT !.results = Tail(@)]
     /\ \/ /\ event = Catalog
           /\ entry' = Listed
           /\ scan' = [scan EXCEPT !.listed = TRUE]
        \/ /\ event = ScanFailed
           /\ scan' = [scan EXCEPT !.open = FALSE]
           /\ UNCHANGED entry
        \/ /\ event.photo # NoPhoto
           /\ entry' = [entry EXCEPT ![event.photo] = Shown(@, event.loaded)]
           /\ UNCHANGED scan
     /\ UNCHANGED <<thread, late, paused, disk>>

\* prepare_for_develop, resume_thumbnail_decoding
ShowTab ==
  /\ Running
  /\ paused' = ~paused
  /\ UNCHANGED <<scan, entry, pool, thread, late, disk>>

\* The edits of the open photo were saved and its picture rendered
\* (install_developed_thumbnail).
InstallDeveloped(q) ==
  /\ Running /\ scan.listed
  /\ entry' = [entry EXCEPT ![q] = [NewEntry EXCEPT !.shown = TRUE, !.developed = TRUE]]
  /\ disk' = [disk EXCEPT !.edited = @ \cup {q}]
  /\ UNCHANGED <<scan, pool, thread, late, paused>>

\* invalidate_adjustment_thumbnail_for_asset
Invalidated(q) == [entry EXCEPT ![q] = NewEntry]

\* LibraryAction::ResetAdjustments of a photo that is not open
ResetAdjustments(q) ==
  /\ Running /\ scan.listed /\ q \in disk.edited
  /\ disk' = [disk EXCEPT !.edited = @ \ {q}]
  /\ NewScan(Invalidated(q))
  /\ UNCHANGED <<paused>>

\* clear_thumbnail_cache raises the generation and waits at the gate for the
\* loads that run; the scan that follows raises it again, which counts as one.
ClearCache ==
  /\ Running /\ scan.generation < MaxGeneration
  /\ scan' = [scan EXCEPT !.open = FALSE, !.starting = FALSE, !.ui = "clearing"]
  /\ entry' = [q \in Photo |-> NewEntry]
  /\ LeavePool
  /\ UNCHANGED <<paused, disk>>

CacheCleared ==
  /\ scan.ui = "clearing" /\ \A g \in DOMAIN late : late[g].loading = 0
  /\ disk' = [disk EXCEPT !.cleared = scan.generation]
  /\ NewScan(entry)
  /\ UNCHANGED <<paused>>

\* The gate is poisoned or the cache cannot be cleared: an error, and no scan.
ClearFails ==
  /\ scan.ui = "clearing" /\ \A g \in DOMAIN late : late[g].loading = 0
  /\ scan' = [scan EXCEPT !.ui = "not cleared"]
  /\ UNCHANGED <<entry, pool, thread, late, paused, disk>>

-----------------------------------------------------------------------------
Init ==
  /\ scan = [generation |-> 1, open |-> TRUE, starting |-> TRUE, listed |-> FALSE,
             ui |-> "scanning"]
  /\ entry = [q \in Photo |-> NewEntry]
  /\ pool = EmptyPool
  /\ thread = [w \in Worker |-> NoThread]
  /\ late = [g \in 1..MaxGeneration |-> [waiting |-> 0, loading |-> 0]]
  /\ paused = FALSE
  /\ disk = [edited |-> Edited, cleared |-> 0]

WorkerStep(w) ==
  \/ Take(w) \/ Claim(w) \/ Begin(w) \/ EndLoad(w)
  \/ Send(w) \/ ScheduleDeveloped(w)

User ==
  \/ Refresh \/ ShowTab \/ ClearCache
  \/ \E q \in Photo : Touch(q) \/ InstallDeveloped(q) \/ ResetAdjustments(q)

Next ==
  \/ StartPool \/ ScanFails \/ Poll \/ CacheCleared \/ ClearFails \/ User
  \/ \E w \in Worker : WorkerStep(w)
  \/ \E g \in 1..MaxGeneration : LateStops(g) \/ LateEnds(g)

Spec == Init /\ [][Next]_vars

\* Threads run, loads and renders end, and frames are drawn while results wait.
FairSpec ==
  /\ Spec
  /\ WF_vars(StartPool) /\ WF_vars(Poll) /\ WF_vars(CacheCleared \/ ClearFails)
  /\ \A w \in Worker : WF_vars(WorkerStep(w))
  /\ \A g \in 1..MaxGeneration : WF_vars(LateStops(g) \/ LateEnds(g))

-----------------------------------------------------------------------------
Entry == [shown : BOOLEAN, developed : BOOLEAN, queued : BOOLEAN]

ScanStates == [generation : 1..MaxGeneration, open : BOOLEAN, starting : BOOLEAN,
               listed : BOOLEAN, ui : {"scanning", "clearing", "not cleared"}]
PoolStates == [background : Seq(Work), inFlight : SUBSET Photo, initialDone : SUBSET Photo,
               developedQueued : SUBSET Photo, requests : Seq(Work), results : Seq(Event)]
ThreadStates == [at : {"none", "idle", "claiming", "waiting", "loading", "sending",
                       "scheduling"},
                 work : Work \cup {NoWork}, loaded : Loaded]

TypeOK ==
  /\ scan \in ScanStates
  /\ entry \in [Photo -> Entry]
  /\ pool \in PoolStates
  /\ Len(pool.requests) <= MaxRequests /\ Len(pool.results) <= MaxResults
  /\ thread \in [Worker -> ThreadStates]
  /\ late \in [1..MaxGeneration -> [waiting : Nat, loading : Nat]]
  /\ paused \in BOOLEAN
  /\ disk \in [edited : SUBSET Photo, cleared : 0..MaxGeneration]

Holds(w) == At(w) \in {"waiting", "loading"}

\* Two workers of a scan never load the same photo at once, whether it comes from
\* the background, from the screen or for its developed picture (in_flight).
OneLoadPerPhoto ==
  \A v, w \in Worker :
    v # w /\ Holds(v) /\ Holds(w) => thread[v].work.photo # thread[w].work.photo

\* No worker of an older scan loads once the user cleared the cache, so its
\* picture does not enter it again: they look at the generation under the gate.
ClearedCacheStaysClear == \A g \in 1..disk.cleared : late[g].loading = 0

\* A preview read before the photo was edited does not replace the picture of its
\* edits.
EditsStayOnScreen ==
  [][\A q \in Photo :
       entry[q].developed /\ entry'[q].shown /\ q \in disk'.edited
         => entry'[q].developed \/ entry'[q].queued]_vars

\* The entry shows a preview, perhaps until its developed picture arrives.
ShowsPreview(q) == entry[q].shown /\ ~entry[q].developed

\* While decoding is not paused every photo of a scan is loaded, and one that was
\* asked for is answered, whatever loads fail and however scans restart.
Waits(q) ==
  /\ scan.open /\ ~paused
  /\ q \notin pool.initialDone \/ (entry[q].queued /\ ~ShowsPreview(q))
PicturesArrive == \A q \in Photo : Waits(q) ~> ~Waits(q)
=============================================================================
