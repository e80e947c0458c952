---------------------------- MODULE ReviewWriter ----------------------------
(***************************************************************************)
(* How ratings and flags are saved (app/library_review.rs and              *)
(* ui/library/state/reviews.rs): the grid shows a change at once, one      *)
(* "calibraw-review-writer" thread saves the changes in order, and the     *)
(* grid takes over what the sidecar then holds.  The same sidecars are     *)
(* written by the edit saves of SidecarSave, read by the document load and *)
(* by library scans.                                                       *)
(*                                                                         *)
(* In a folder a rating replaces the review in the sidecar and an edit     *)
(* save the edits, each as one read-modify-write under SIDECAR_SAVE_LOCK.  *)
(* A media library's sidecar is written whole: a rating reads it and       *)
(* writes it back in two calls, and an edit save writes the review its     *)
(* document holds.                                                         *)
(*                                                                         *)
(* A change is a number, given in the order the user makes them, and a     *)
(* review the sequence of changes that led to it.                          *)
(***************************************************************************)
EXTENDS Integers, Sequences, FiniteSets, SequencesExt

CONSTANTS
  Photo,
  NoPhoto,
  Media,        \* the kinds of library: TRUE for a media library
  Faults,       \* the faults of this instance, a subset of FaultKind
  MaxChanges,   \* bound: the user makes that many changes
  MaxEdits,     \* bound: ... and that many edits
  MaxOpens,     \* bound: ... and opens that many photos
  MaxScans      \* bound: scans read that many photos

FaultKind == {"spawn", "io", "panic", "timeout"}

ASSUME ReviewAssumption ==
  /\ NoPhoto \notin Photo
  /\ Media \subseteq BOOLEAN /\ Media # {}
  /\ Faults \subseteq FaultKind
  /\ MaxChanges \in Nat /\ MaxEdits \in Nat /\ MaxOpens \in Nat /\ MaxScans \in Nat

Change == Nat
Review == Seq(Change)

\* A sidecar: the number of the newest edit in it, and its review.
Sidecar == [edits : Nat, review : Review]
Unedited == [edits |-> 0, review |-> <<>>]

\* No review: a failed save whose sidecar could not be read either.
Unknown == <<0>>

ReviewSave == [photo : Photo, change : Change]
ReviewSaved == [photo : Photo, change : Change, review : Review, ok : BOOLEAN]
NoSave == [photo |-> NoPhoto, change |-> 0]

VARIABLES
  media,     \* whether this is a media library
  grid,      \* grid[q]: the review the library shows
  pending,   \* pending[q]: ReviewWriter::pending, 0 for a photo without an entry
  worker,    \* the writer thread: where it is, its request and the sidecar it read
  requests,  \* its request channel
  results,   \* its result channel
  sidecar,
  doc,       \* the open document: its photo, newest edit and review
  saves,     \* edit saves that have not ended, the first one running
  load,      \* the document load, what it read, and the changes it waited for
  scanned,   \* scanned[q]: the review a library scan read and has yet to deliver
  ui,        \* "running", or the photo it waits to open for queued ratings
  made,      \* history: made[q], the changes the user made to q
  reported,  \* history: the changes whose failure was reported
  outdated,  \* history: photos whose review on screen an older read replaced
  count      \* history: how many changes, edits, opens and scans there were

vars == <<media, grid, pending, worker, requests, results, sidecar, doc, saves, load,
          scanned, ui, made, reported, outdated, count>>

documents == <<doc, saves, load, ui>>
writer == <<worker, requests, results>>

NoDoc == [photo |-> NoPhoto, edits |-> 0, review |-> <<>>]
NoLoad == [photo |-> NoPhoto, read |-> FALSE, edits |-> 0, review |-> <<>>, before |-> {}]
Idle == [at |-> "idle", request |-> NoSave, held |-> Unedited]
NotStarted == [Idle EXCEPT !.at = "none"]

Running == ui = "running"

Changes(review) == ToSet(review)

-----------------------------------------------------------------------------
(* Changing a review. *)

Counted(what) == count' = [count EXCEPT ![what] = @ + 1]

Made(q) ==
  /\ Running
  /\ count.changes < MaxChanges
  /\ Counted("changes")
  /\ made' = [made EXCEPT ![q] = Append(@, count.changes + 1)]

\* Queue the open document: a queued save of it is replaced, a running one is not.
QueueSave(document) ==
  LET save == [photo |-> document.photo, edits |-> document.edits, review |-> document.review]
      last == Len(saves)
  IN IF last > 1 /\ saves[last].photo = document.photo
     THEN [saves EXCEPT ![last] = save]
     ELSE Append(saves, save)

\* review_photos for the open photo of a media library, which is saved whole.
ReviewDocument(q) ==
  LET document == [doc EXCEPT !.review = Append(@, count.changes + 1)]
  IN /\ media /\ doc.photo = q
     /\ Made(q)
     /\ doc' = document
     /\ grid' = [grid EXCEPT ![q] = document.review]
     /\ saves' = QueueSave(document)
     /\ UNCHANGED <<media, pending, writer, sidecar, load, scanned, ui, reported, outdated>>

\* review_photos and save_reviews: shown at once, then sent to the writer.  A
\* writer that cannot be started or has stopped is reported.
ReviewPhoto(q) ==
  LET change == count.changes + 1
      starts == worker.at = "none"
      request == [photo |-> q, change |-> change]
  IN /\ ~(media /\ doc.photo = q)
     /\ Made(q)
     /\ doc' = IF doc.photo = q THEN [doc EXCEPT !.review = Append(@, change)] ELSE doc
     /\ grid' = [grid EXCEPT ![q] = Append(@, change)]
     /\ \/ /\ worker.at # "dead"
           /\ worker' = IF starts THEN Idle ELSE worker
           /\ results' = IF starts THEN <<>> ELSE results
           /\ requests' = Append(requests, request)
           /\ pending' = [pending EXCEPT ![q] = @ + 1]
           /\ UNCHANGED reported
        \/ /\ worker.at = "dead" \/ (starts /\ "spawn" \in Faults)
           /\ reported' = reported \cup {change}
           /\ UNCHANGED <<worker, requests, results, pending>>
     /\ UNCHANGED <<media, sidecar, saves, load, scanned, ui, outdated>>

-----------------------------------------------------------------------------
(* The writer thread: save_review. *)

\* write_review reads the review, or the whole sidecar of a media library.
ReadForReview ==
  /\ worker.at = "idle" /\ requests # <<>>
  /\ worker' = [at |-> "read", request |-> Head(requests),
                held |-> sidecar[Head(requests).photo]]
  /\ requests' = Tail(requests)
  /\ UNCHANGED <<media, grid, pending, results, sidecar, documents, scanned, made,
                 reported, outdated, count>>

\* Mutant of Written: a folder's sidecar is written whole as well.
WrittenWhole(now, held, change) == [held EXCEPT !.review = Append(@, change)]

\* What a rating leaves in a sidecar that now holds `now`, read as `held`.
Written(now, held, change) ==
  IF media THEN [held EXCEPT !.review = Append(@, change)]
           ELSE [now EXCEPT !.review = Append(held.review, change)]

Report(review, ok) ==
  /\ worker' = Idle
  /\ results' = Append(results, [photo |-> worker.request.photo,
                                 change |-> worker.request.change,
                                 review |-> review, ok |-> ok])

WriteReview ==
  LET q == worker.request.photo
      after == Written(sidecar[q], worker.held, worker.request.change)
  IN /\ worker.at = "read"
     /\ sidecar' = [sidecar EXCEPT ![q] = after]
     /\ Report(after.review, TRUE)
     /\ UNCHANGED <<media, grid, pending, requests, documents, scanned, made, reported,
                    outdated, count>>

\* The review is read again, if that is possible.
WriteReviewFails ==
  /\ "io" \in Faults
  /\ worker.at = "read"
  /\ \E review \in {sidecar[worker.request.photo].review, Unknown} : Report(review, FALSE)
  /\ UNCHANGED <<media, grid, pending, requests, sidecar, documents, scanned, made,
                 reported, outdated, count>>

\* The thread ends: its channels are disconnected.
WriterDies ==
  /\ "panic" \in Faults
  /\ worker.at \in {"idle", "read"}
  /\ worker' = [worker EXCEPT !.at = "dead"]
  /\ UNCHANGED <<media, grid, pending, requests, results, sidecar, documents, scanned,
                 made, reported, outdated, count>>

-----------------------------------------------------------------------------
(* Receiving the results. *)

\* What the UI thread keeps of the writer.
Known == [grid |-> grid, pending |-> pending, reported |-> reported, outdated |-> outdated]

\* Mutant of SettleReviewSave: every saved review is shown.
ShowEverySave(known, saved) ==
  LET q == saved.photo
  IN [grid |-> IF saved.review # Unknown THEN [known.grid EXCEPT ![q] = saved.review]
               ELSE known.grid,
      pending |-> [known.pending EXCEPT ![q] = IF @ > 1 THEN @ - 1 ELSE 0],
      reported |-> known.reported \cup (IF saved.ok THEN {} ELSE {saved.change}),
      outdated |-> known.outdated \ {q}]

\* Mutant of SettleReviewSave: the first result of a photo settles all its saves.
ForgetLaterSaves(known, saved) ==
  LET q == saved.photo
  IN [grid |-> known.grid,
      pending |-> [known.pending EXCEPT ![q] = 0],
      reported |-> known.reported \cup (IF saved.ok THEN {} ELSE {saved.change}),
      outdated |-> known.outdated]

\* settle_review_save: the review shows once its photo has no later save waiting.
SettleReviewSave(known, saved) ==
  LET q == saved.photo
      last == known.pending[q] <= 1
      shows == last /\ saved.review # Unknown
  IN [grid |-> IF shows THEN [known.grid EXCEPT ![q] = saved.review] ELSE known.grid,
      pending |-> [known.pending EXCEPT ![q] = IF last THEN 0 ELSE @ - 1],
      reported |-> known.reported \cup (IF saved.ok THEN {} ELSE {saved.change}),
      outdated |-> IF shows THEN known.outdated \ {q} ELSE known.outdated]

\* Changes in a writer that stopped are lost, which is reported.
Unwritten == {requests[i].change : i \in DOMAIN requests}
               \cup (IF worker.request = NoSave THEN {} ELSE {worker.request.change})

\* ReviewWriter::stopped
Stopped(known) == [known EXCEPT !.pending = [q \in Photo |-> 0],
                                !.reported = @ \cup Unwritten]

Learn(known) ==
  /\ grid' = known.grid
  /\ pending' = known.pending
  /\ reported' = known.reported
  /\ outdated' = known.outdated

\* Every result in the channel, and the end of a writer that stopped.
Received == FoldLeft(SettleReviewSave, Known, results)

\* Mutant of ForgetWriter: the requests stay for the next writer.
KeepRequests ==
  /\ Learn(Stopped(Received))
  /\ worker' = NotStarted
  /\ UNCHANGED requests

ForgetWriter ==
  /\ Learn(Stopped(Received))
  /\ worker' = NotStarted
  /\ requests' = <<>>

\* poll_review_saves
PollReviewSaves ==
  /\ Running
  /\ worker.at # "none"
  /\ results # <<>> \/ worker.at = "dead"
  /\ results' = <<>>
  /\ \/ worker.at # "dead" /\ Learn(Received) /\ UNCHANGED <<worker, requests>>
     \/ worker.at = "dead" /\ ForgetWriter
  /\ UNCHANGED <<media, sidecar, documents, scanned, made, count>>

-----------------------------------------------------------------------------
(* Opening a photo. *)

\* Mutant of Settled: what has been sent is taken for saved.
SettledWhenSent == requests = <<>>

\* review_saves_pending: no photo has a save waiting.
Settled == \A q \in Photo : pending[q] = 0

\* start_document_load: begin_sidecar_open closes the document, which this
\* module saves with every edit.
StartLoad(q) ==
  /\ doc' = NoDoc
  /\ load' = [NoLoad EXCEPT !.photo = q,
                             !.before = IF Settled THEN Changes(made[q]) ELSE {}]

OpenPhoto(q) ==
  /\ Running
  /\ load.photo = NoPhoto
  /\ count.opens < MaxOpens
  /\ Counted("opens")
  /\ IF Settled THEN StartLoad(q) /\ UNCHANGED ui
               ELSE ui' = q /\ UNCHANGED <<doc, load>>
  /\ UNCHANGED <<media, grid, pending, writer, sidecar, saves, scanned, made, reported,
                 outdated>>

\* finish_review_saves, one result at a time; a stopped writer ends the wait.
SettleRound ==
  /\ ~Running /\ ~Settled
  /\ \/ /\ results # <<>>
        /\ Learn(SettleReviewSave(Known, Head(results)))
        /\ results' = Tail(results)
        /\ UNCHANGED <<worker, requests>>
     \/ /\ results = <<>> /\ worker.at = "dead"
        /\ ForgetWriter
        /\ UNCHANGED results
  /\ UNCHANGED <<media, sidecar, documents, scanned, made, count>>

\* Two seconds are over, or every rating is saved.
SettleEnds ==
  /\ ~Running
  /\ Settled \/ "timeout" \in Faults
  /\ StartLoad(ui)
  /\ ui' = "running"
  /\ UNCHANGED <<media, grid, pending, writer, sidecar, saves, scanned, made, reported,
                 outdated, count>>

\* run_document_load reads the sidecar and poll_load_worker installs it.
ReadDocument ==
  /\ load.photo # NoPhoto /\ ~load.read
  /\ load' = [load EXCEPT !.read = TRUE, !.edits = sidecar[load.photo].edits,
                          !.review = sidecar[load.photo].review]
  /\ UNCHANGED <<media, grid, pending, writer, sidecar, doc, saves, scanned, ui, made,
                 reported, outdated, count>>

InstallDocument ==
  /\ Running
  /\ load.read
  /\ doc' = [photo |-> load.photo, edits |-> load.edits, review |-> load.review]
  /\ load' = NoLoad
  /\ UNCHANGED <<media, grid, pending, writer, sidecar, saves, scanned, ui, made,
                 reported, outdated, count>>

\* An edit and its save.
EditDocument ==
  LET document == [doc EXCEPT !.edits = count.edits + 1]
  IN /\ Running
     /\ doc.photo # NoPhoto
     /\ count.edits < MaxEdits
     /\ Counted("edits")
     /\ doc' = document
     /\ saves' = QueueSave(document)
     /\ UNCHANGED <<media, grid, pending, writer, sidecar, load, scanned, ui, made,
                    reported, outdated>>

\* Mutant of SavedEdits: a folder's edit save writes the review of its document.
SavedWhole(now, save) == [edits |-> save.edits, review |-> save.review]

\* save_sidecar_request: a folder's sidecar keeps the review it holds.
SavedEdits(now, save) ==
  [edits |-> save.edits, review |-> IF media THEN save.review ELSE now.review]

SaveEdits ==
  /\ saves # <<>>
  /\ sidecar' = [sidecar EXCEPT ![Head(saves).photo] = SavedEdits(@, Head(saves))]
  /\ saves' = Tail(saves)
  /\ UNCHANGED <<media, grid, pending, writer, doc, load, scanned, ui, made, reported,
                 outdated, count>>

-----------------------------------------------------------------------------
(* Library scans.  In a folder the catalog holds the reviews the scan read, in *)
(* a media library each thumbnail does.                                       *)

ScanReads(q) ==
  /\ scanned[q] = Unknown
  /\ count.scans < MaxScans
  /\ Counted("scans")
  /\ scanned' = [scanned EXCEPT ![q] = sidecar[q].review]
  /\ UNCHANGED <<media, grid, pending, writer, sidecar, documents, made, reported,
                 outdated>>

\* A thumbnail's review does not show while its photo has a save waiting.
Shows(q) == media => pending[q] = 0

ScanShows(q) ==
  /\ Running
  /\ scanned[q] # Unknown
  /\ scanned' = [scanned EXCEPT ![q] = Unknown]
  /\ IF Shows(q)
     THEN /\ grid' = [grid EXCEPT ![q] = scanned[q]]
          /\ outdated' = IF scanned[q] = grid[q] THEN outdated ELSE outdated \cup {q}
     ELSE UNCHANGED <<grid, outdated>>
  /\ UNCHANGED <<media, pending, writer, sidecar, documents, made, reported, count>>

-----------------------------------------------------------------------------
Init ==
  /\ media \in Media
  /\ grid = [q \in Photo |-> <<>>]
  /\ pending = [q \in Photo |-> 0]
  /\ worker = NotStarted
  /\ requests = <<>>
  /\ results = <<>>
  /\ sidecar = [q \in Photo |-> Unedited]
  /\ doc = NoDoc
  /\ saves = <<>>
  /\ load = NoLoad
  /\ scanned = [q \in Photo |-> Unknown]
  /\ ui = "running"
  /\ made = [q \in Photo |-> <<>>]
  /\ reported = {}
  /\ outdated = {}
  /\ count = [changes |-> 0, edits |-> 0, opens |-> 0, scans |-> 0]

Writer == ReadForReview \/ WriteReview \/ WriteReviewFails \/ WriterDies
Document == ReadDocument \/ InstallDocument \/ EditDocument \/ SaveEdits

Next ==
  \/ \E q \in Photo : ReviewDocument(q) \/ ReviewPhoto(q) \/ OpenPhoto(q)
  \/ \E q \in Photo : ScanReads(q) \/ ScanShows(q)
  \/ Writer \/ Document
  \/ PollReviewSaves \/ SettleRound \/ SettleEnds

Spec == Init /\ [][Next]_vars

-----------------------------------------------------------------------------
(* Properties. *)

\* What each part of the state may hold.
TypeOK ==
  /\ media \in Media
  /\ grid \in [Photo -> Review]
  /\ pending \in [Photo -> Nat]
  /\ worker.at \in {"none", "idle", "read", "dead"}
  /\ worker.request \in ReviewSave \cup {NoSave} /\ worker.held \in Sidecar
  /\ worker.at = "read" => worker.request # NoSave
  /\ requests \in Seq(ReviewSave) /\ results \in Seq(ReviewSaved)
  /\ worker.at = "none" => requests = <<>> /\ results = <<>>
  /\ sidecar \in [Photo -> Sidecar]
  /\ doc.photo \in Photo \cup {NoPhoto} /\ load.photo \in Photo \cup {NoPhoto}
  /\ \A i \in DOMAIN saves : saves[i].photo \in Photo
  /\ scanned \in [Photo -> Review]
  /\ ui \in Photo \cup {"running"}
  /\ made \in [Photo -> Review]
  /\ outdated \subseteq Photo

\* The saves of q that are queued, being written, or written and not received.
Queued(q) == Cardinality({i \in DOMAIN requests : requests[i].photo = q})
Writing(q) == IF worker.request.photo = q THEN 1 ELSE 0
Finished(q) == Cardinality({i \in DOMAIN results : results[i].photo = q})

\* The count of a photo's waiting saves is exact, also after a writer stopped
\* and another one was started, so that the last result is the one that shows.
PendingIsExact == \A q \in Photo : pending[q] = Queued(q) + Writing(q) + Finished(q)

ShowsNewest(q) ==
  pending[q] > 0 => grid[q] # <<>> /\ Last(grid[q]) = Last(made[q])

\* While a photo has a save waiting, and that is counted exactly, the grid shows the
\* user's last change: no result of an earlier save, nor a media library's thumbnail,
\* replaces it.
NewestRatingShows ==
  /\ PendingIsExact
  /\ \A q \in Photo : media \/ q \notin outdated => ShowsNewest(q)

\* Changes of q that are still to be saved, or whose failure is to be reported.
OnTheWay(q) ==
  Changes([i \in DOMAIN requests |-> requests[i].change])
    \cup {worker.request.change}
    \cup {results[i].change : i \in {j \in DOMAIN results : ~results[j].ok}}

InOrder(review) == \A i, j \in DOMAIN review : i < j => review[i] < review[j]

\* In a folder every change is in the sidecar, on its way or reported, whatever
\* edit saves and loads run meanwhile, and a later change always wins.
RatingsReachTheSidecar ==
  ~media =>
    \A q \in Photo :
      /\ Changes(made[q]) \subseteq Changes(sidecar[q].review) \cup OnTheWay(q) \cup reported
      /\ InOrder(sidecar[q].review)

EditsKept == \A q \in Photo : sidecar'[q].edits >= sidecar[q].edits

\* In a folder no save puts older edits back into a sidecar.
FolderKeepsEdits == [][~media => EditsKept]_vars

\* reviews.rs, write_review: a media library's sidecar "is written whole, so its
\* edits are kept".
RatingKeepsEdits == [][EditsKept]_vars

\* A document opened in a folder holds every rating made before it was opened,
\* unless its save failed or the wait for it timed out.
OpensWithReview ==
  ~media /\ load.read => load.before \subseteq Changes(load.review) \cup reported

=============================================================================
