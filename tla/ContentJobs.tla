---------------------------- MODULE ContentJobs ----------------------------
(***************************************************************************)
(* The local-AI jobs that make masks from the open photo's content, and    *)
(* the edit their results go into (app/foreground.rs, app/ai/).            *)
(*                                                                         *)
(* A content is what the models see: a photo with its Remove and retouch   *)
(* strokes.  Each has a number.  A mask has one component, whose input is  *)
(* the strokes of an object or the people and parts chosen; subject masks  *)
(* share one result.  Dialogs are modal, so the user edits only while no   *)
(* job runs and none asks for its download; retouch strokes and people     *)
(* masks are made without a dialog, and a photo may be opened at any time. *)
(* A step is a frame, whose change enters the edit history at its end.     *)
(***************************************************************************)
EXTENDS Integers, Sequences, SequencesExt, FiniteSets

CONSTANTS
  MaxMasks,       \* MAX_LOCAL_MASKS
  MaxInput,       \* bound: strokes and choices
  MaxHistory,     \* EDIT_HISTORY_LIMIT
  MaxContents,    \* bound: contents over all photos
  MaxGeneration,  \* bound: photos opened
  MaxActions      \* bound: what the user does

ASSUME ContentAssumption ==
  /\ MaxMasks \in Nat \ {0} /\ MaxInput \in Nat \ {0} /\ MaxHistory \in Nat \ {0}
  /\ MaxContents \in Nat \ {0} /\ MaxGeneration \in Nat \ {0} /\ MaxActions \in Nat

VARIABLES
  doc,       \* the open document
  edit,      \* its masks, and its content
  history,   \* EditHistory: the edits to step back and forward to
  op,        \* the foreground operation
  ai,        \* the consent asked for, the staged jobs and the running update
  cache,     \* mask source, subject result and people analysis
  composes,  \* people masks being made from the analysis
  retouch,   \* a retouch stroke is being made
  actions    \* how often the user has acted

vars == <<doc, edit, history, op, ai, cache, composes, retouch, actions>>

Kinds == {"subject", "object", "person"}
Input == 0..MaxInput

None == 0         \* no pending object
NoContent == -1
Older == 0        \* a content from before the photo was opened
NoKind == "none"
NoResult == [input |-> 0, content |-> NoContent]
NoUpdate == [running |-> FALSE, steps |-> <<>>, failed |-> FALSE]
NoHistory == [undo |-> <<>>, redo |-> <<>>]
NoCache == [source |-> NoContent, subject |-> NoContent, people |-> NoContent]
NoOp == [kind |-> NoKind, document |-> 0, cancelled |-> FALSE, content |-> NoContent,
         targets |-> <<>>, masks |-> "none"]

New(kind) == [kind |-> kind, input |-> 0, made |-> NoResult]
Made(content, input) == [input |-> input, content |-> content]

-----------------------------------------------------------------------------
(* The mask stack. *)

\* A component whose result is derived from content; an object needs a stroke.
Derived(c) == c.kind = "object" => c.input # 0

\* The members of a sequence that are in a set, in their order (SelectSeq as a fold).
Where(seq, set) ==
  FoldLeft(LAMBDA kept, x : IF x \in set THEN Append(kept, x) ELSE kept, <<>>, seq)

\* content_dependencies: the steps of a plan, a shared run for the subject and
\* the people.
Needing(masks, kind) == {i \in DOMAIN masks : masks[i].kind = kind /\ Derived(masks[i])}
Depends(masks, kind) == Needing(masks, kind) # {}
HasDependencies(masks) == \E kind \in Kinds : Depends(masks, kind)

Step(kind, at) == [kind |-> kind, at |-> at]
Indices(masks, kind) == Where([i \in DOMAIN masks |-> i], Needing(masks, kind))
Plan(masks) ==
  (IF Depends(masks, "subject") THEN <<Step("subject", 0)>> ELSE <<>>)
  \o [k \in DOMAIN Indices(masks, "object") |-> Step("object", Indices(masks, "object")[k])]
  \o (IF Depends(masks, "person") THEN <<Step("person", 0)>> ELSE <<>>)

StillNeeded(step, masks) ==
  IF step.kind = "object" THEN step.at \in Needing(masks, "object")
  ELSE Depends(masks, step.kind)

\* capture_ai_target
Target(masks, at) == [at |-> at, component |-> masks[at]]

\* resolve_ai_target: its slot while that still matches, else the only component
\* that does; 0 for none.
Resolved(masks, target) ==
  LET same == {i \in DOMAIN masks : masks[i] = target.component}
  IN IF target.at \in same THEN target.at
     ELSE IF Cardinality(same) = 1 THEN CHOOSE i \in same : TRUE
     ELSE 0

\* apply_generated_mask
WithSubject(masks, content) ==
  [i \in DOMAIN masks |->
     IF masks[i].kind = "subject" THEN [masks[i] EXCEPT !.made = Made(content, 0)]
     ELSE masks[i]]

\* restore_generated_caches: the result of the first subject mask that has one.
FirstSubject(masks) ==
  LET i == SelectInSeq(masks, LAMBDA c : c.kind = "subject" /\ c.made # NoResult)
  IN IF i = 0 THEN NoContent ELSE masks[i].made.content

-----------------------------------------------------------------------------
(* Edit history and content. *)

\* push_bounded
Bounded(seq) == IF Len(seq) > MaxHistory THEN Tail(seq) ELSE seq

\* The frame commits the edit (commit_current_state, commit_remove_state).
Become(e) ==
  /\ edit' = e
  /\ history' = IF e = edit THEN history
                ELSE [undo |-> Bounded(Append(history.undo, edit)), redo |-> <<>>]

BecomeMasks(masks) == Become([masks |-> masks, content |-> edit.content])

\* cancel_ai_update: no update and no staged job is left.
CancelledUpdate(a) ==
  [consent |-> a.consent, object |-> None, people |-> <<>>, update |-> NoUpdate]

\* Mutant of Invalidated: the people masks being made stay.
InvalidatedKeepsComposes ==
  /\ cache' = NoCache
  /\ composes' = composes
  /\ ai' = CancelledUpdate(ai)
  /\ op' = IF op = NoOp THEN op ELSE [op EXCEPT !.cancelled = TRUE]

\* invalidate_generated_mask_sources
Invalidated ==
  /\ cache' = NoCache
  /\ composes' = {}
  /\ ai' = CancelledUpdate(ai)
  /\ op' = IF op = NoOp THEN op ELSE [op EXCEPT !.cancelled = TRUE]

-----------------------------------------------------------------------------
(* Starting jobs.  An outcome is what a request makes of ai, op and the mark. *)

Outcome(a, o, stale) == [ai |-> a, op |-> o, stale |-> stale]

\* The staged inputs of a kind are taken, or dropped.
Unstaged(kind, a) ==
  IF kind = "object" THEN [a EXCEPT !.object = None]
  ELSE IF kind = "person" THEN [a EXCEPT !.people = <<>>]
  ELSE a

\* start_content_job with the staged inputs of its kind
Started(kind, a, masks, source, stale) ==
  LET targets == IF kind = "subject" THEN <<>>
                 ELSE IF kind = "object" THEN <<Target(masks, a.object)>>
                 ELSE [k \in DOMAIN a.people |-> Target(masks, a.people[k])]
  IN Outcome(Unstaged(kind, a),
             [kind |-> kind, document |-> doc.generation, cancelled |-> FALSE,
              content |-> source, targets |-> targets, masks |-> "none"],
             stale)

\* Mutant of Abandoned: declining a job leaves the update it belongs to.
AbandonedAlone(kind, a, stale) ==
  Outcome(Unstaged(kind, a),
          NoOp, stale)

\* abandon_ai_job
Abandoned(kind, a, stale) ==
  IF a.update.running THEN Outcome(CancelledUpdate(a), NoOp, TRUE)
  ELSE Outcome(Unstaged(kind, a),
               NoOp, stale)

\* request_content_job: the job starts, asks for its download first, or cannot run.
Requested(kind, a, masks, source, stale) ==
  { Started(kind, a, masks, source, stale),
    Outcome([a EXCEPT !.consent = kind], NoOp, stale),
    Abandoned(kind, a, stale) }

\* continue_ai_update: the next step that is still needed, or the update's end.
Continued(a, masks, source, stale) ==
  LET steps == a.update.steps
      at == SelectInSeq(steps, LAMBDA step : StillNeeded(step, masks))
      next == steps[at]
      staged == [consent |-> a.consent,
                 object |-> IF next.kind = "object" THEN next.at ELSE a.object,
                 people |-> IF next.kind = "person" THEN Indices(masks, "person") ELSE a.people,
                 update |-> [a.update EXCEPT !.steps = SubSeq(steps, at + 1, Len(steps))]]
  IN IF at = 0 THEN {Outcome([a EXCEPT !.update = NoUpdate], NoOp, a.update.failed)}
     ELSE Requested(next.kind, staged, masks, source, stale)

\* Mutant of Advanced: a job that failed does not fail its update.
AdvancedAnyway(a, masks, succeeded, interrupted) ==
  IF ~a.update.running THEN {Outcome(a, NoOp, doc.stale)}
  ELSE IF interrupted THEN {Outcome(CancelledUpdate(a), NoOp, TRUE)}
  ELSE Continued(a, masks, cache.source, doc.stale)

\* advance_ai_update, when a job has ended
Advanced(a, masks, succeeded, interrupted) ==
  IF ~a.update.running THEN {Outcome(a, NoOp, doc.stale)}
  ELSE IF interrupted THEN {Outcome(CancelledUpdate(a), NoOp, TRUE)}
  ELSE Continued([a EXCEPT !.update.failed = @ \/ ~succeeded], masks, cache.source, doc.stale)

Take(outcome) ==
  /\ ai' = outcome.ai
  /\ op' = outcome.op
  /\ doc' = [doc EXCEPT !.stale = outcome.stale]

-----------------------------------------------------------------------------
(* What the user does. *)

\* No dialog is open and a photo is.
Free ==
  /\ ~doc.loading /\ op = NoOp /\ ai.consent = NoKind
  /\ actions < MaxActions
  /\ actions' = actions + 1

\* capture_mask_source
Captured == IF cache.source = NoContent THEN edit.content ELSE cache.source

\* request_generated_mask: the last result, or a job.
AskForSubject(masks) ==
  \/ /\ cache.subject # NoContent
     /\ BecomeMasks(WithSubject(masks, cache.subject))
     /\ UNCHANGED <<doc, op, ai, cache>>
  \/ /\ cache.subject = NoContent
     /\ BecomeMasks(masks)
     /\ cache' = [cache EXCEPT !.source = Captured]
     /\ \E outcome \in Requested("subject", ai, masks, Captured, doc.stale) : Take(outcome)

\* request_object_mask: without a source only an error is shown.
AskForObject(masks, i) ==
  /\ BecomeMasks(masks)
  /\ UNCHANGED cache
  /\ IF masks[i].input = 0 \/ cache.source = NoContent THEN UNCHANGED <<doc, op, ai>>
     ELSE \E outcome \in Requested("object", [ai EXCEPT !.object = i], masks,
                                   cache.source, doc.stale) : Take(outcome)

\* The job of request_people_masks
AskForPeople(masks, i) ==
  /\ BecomeMasks(masks)
  /\ cache' = [cache EXCEPT !.source = Captured]
  /\ \E outcome \in Requested("person", [ai EXCEPT !.people = <<i>>], masks,
                              Captured, doc.stale) : Take(outcome)

ComposesBut(i) == {compose \in composes : compose.at # i}

\* start_people_compose: the analysis has the people of the choice.
Compose(i, choice) ==
  /\ cache.people # NoContent
  /\ cache' = [cache EXCEPT !.source = Captured]
  /\ composes' = ComposesBut(i)
                   \cup {[at |-> i, base |-> edit.masks[i].input, target |-> choice,
                          content |-> Captured]}
  /\ UNCHANGED <<doc, edit, history, op, ai>>

\* start_new_mask_component, prepare_content_mask
AddMask(kind) ==
  LET masks == Append(edit.masks, New(kind))
  IN /\ Free
     /\ Len(edit.masks) < MaxMasks
     /\ \/ kind = "subject" /\ AskForSubject(masks)
        \/ /\ kind = "object"
           /\ BecomeMasks(masks)
           /\ cache' = [cache EXCEPT !.source = Captured]
           /\ UNCHANGED <<doc, op, ai>>
        \/ kind = "person" /\ AskForPeople(masks, Len(masks))
     /\ UNCHANGED <<composes, retouch>>

\* A stroke of the object tool: prepare_object_stroke, then request_object_mask.
PaintObject(i, strokes) ==
  LET c == edit.masks[i]
      painted == [New("object") EXCEPT !.input = strokes]
  IN /\ Free
     /\ c.kind = "object" /\ strokes # c.input
     /\ \/ /\ c.made = NoResult
           /\ AskForObject([edit.masks EXCEPT ![i] = painted], i)
        \/ /\ c.made # NoResult /\ Len(edit.masks) < MaxMasks
           /\ AskForObject(Append(edit.masks, painted), Len(edit.masks) + 1)
     /\ UNCHANGED <<composes, retouch>>

\* What the mask's panel shows (shown_person_choice).
ShownChoice(i) ==
  LET made == {compose \in composes : compose.at = i}
  IN IF made = {} THEN edit.masks[i].input ELSE (CHOOSE compose \in made : TRUE).target

\* edit_people_mask: back to its own choice, from the analysis, or by a job.
ChoosePeople(i, choice) ==
  /\ Free
  /\ edit.masks[i].kind = "person" /\ choice # ShownChoice(i)
  /\ \/ /\ choice = edit.masks[i].input
        /\ composes' = ComposesBut(i)
        /\ UNCHANGED <<doc, edit, history, op, ai, cache>>
     \/ choice # edit.masks[i].input /\ Compose(i, choice)
     \/ /\ choice # edit.masks[i].input
        /\ composes' = ComposesBut(i)
        /\ AskForPeople([edit.masks EXCEPT ![i].input = choice], i)
  /\ UNCHANGED retouch

\* The button that makes a mask again
AskAgain(i) ==
  /\ Free
  /\ \/ edit.masks[i].kind = "subject" /\ AskForSubject(edit.masks) /\ UNCHANGED composes
     \/ edit.masks[i].kind = "object" /\ AskForObject(edit.masks, i) /\ UNCHANGED composes
     \/ edit.masks[i].kind = "person" /\ Compose(i, edit.masks[i].input)
     \/ edit.masks[i].kind = "person" /\ AskForPeople(edit.masks, i) /\ UNCHANGED composes
  /\ UNCHANGED retouch

\* duplicate_component: the copy is inserted after it.
Duplicate(i) ==
  /\ Free
  /\ Len(edit.masks) < MaxMasks
  /\ BecomeMasks(InsertAt(edit.masks, i + 1, edit.masks[i]))
  /\ UNCHANGED <<doc, op, ai, cache, composes, retouch>>

Delete(i) ==
  /\ Free
  /\ BecomeMasks(RemoveAt(edit.masks, i))
  /\ UNCHANGED <<doc, op, ai, cache, composes, retouch>>

\* start_retouch_worker
StartRetouch ==
  /\ Free /\ ~retouch
  /\ retouch' = TRUE
  /\ UNCHANGED <<doc, edit, history, op, ai, cache, composes>>

\* request_ai_update
RequestUpdate ==
  /\ Free /\ ~ai.update.running
  /\ \/ /\ ~HasDependencies(edit.masks)
        /\ doc' = [doc EXCEPT !.stale = FALSE]
        /\ UNCHANGED <<op, ai, cache>>
     \/ /\ HasDependencies(edit.masks)
        /\ cache' = [cache EXCEPT !.source = edit.content, !.subject = NoContent]
        /\ \E outcome \in Continued([ai EXCEPT !.update = [running |-> TRUE, failed |-> FALSE,
                                                           steps |-> Plan(edit.masks)]],
                                    edit.masks, edit.content, doc.stale) : Take(outcome)
  /\ UNCHANGED <<edit, history, composes, retouch>>

\* Step back or forward to e (apply_edit_snapshot).  rehydrate_restored_mask_state
\* looks at the mark, then whether the edit still has something to update; a
\* content that changes is noted after it.
Restore(e) ==
  LET changed == e.content # edit.content
      stale == (doc.stale \/ changed) /\ HasDependencies(e.masks)
      keepsSource == \E i \in DOMAIN e.masks : e.masks[i].kind = "object"
  IN /\ edit' = e
     /\ doc' = [doc EXCEPT !.stale = stale]
     /\ IF changed THEN Invalidated
        ELSE /\ cache' = [cache EXCEPT
                            !.source = IF keepsSource THEN @ ELSE NoContent,
                            !.subject = IF doc.stale THEN NoContent ELSE FirstSubject(e.masks)]
             /\ composes' = {}
             /\ ai' = CancelledUpdate(ai)
             /\ UNCHANGED op
     /\ retouch' = (retouch /\ ~changed)

Undo ==
  /\ Free
  /\ history.undo # <<>>
  /\ Restore(Last(history.undo))
  /\ history' = [undo |-> Front(history.undo), redo |-> Bounded(Append(history.redo, edit))]

Redo ==
  /\ Free
  /\ history.redo # <<>>
  /\ Restore(Last(history.redo))
  /\ history' = [undo |-> Bounded(Append(history.undo, edit)), redo |-> Front(history.redo)]

\* The dialog's Cancel, for an operation that is not being cancelled
CancelOperation ==
  /\ op # NoOp /\ ~op.cancelled
  /\ op' = [op EXCEPT !.cancelled = TRUE]
  /\ UNCHANGED <<doc, edit, history, ai, cache, composes, retouch, actions>>

\* show_ai_consent_dialog: start_ai_job, when what it needs is still there.
Accept ==
  LET kind == ai.consent
      a == [ai EXCEPT !.consent = NoKind]
      staged == /\ kind = "object" => a.object # None
                /\ kind = "person" => a.people # <<>>
  IN /\ kind # NoKind
     /\ IF staged /\ cache.source # NoContent
        THEN Take(Started(kind, a, edit.masks, cache.source, doc.stale))
        ELSE /\ ai' = Unstaged(kind, a)
             /\ UNCHANGED <<doc, op>>
     /\ UNCHANGED <<edit, history, cache, composes, retouch, actions>>

Decline ==
  /\ ai.consent # NoKind
  /\ Take(Abandoned(ai.consent, [ai EXCEPT !.consent = NoKind], doc.stale))
  /\ UNCHANGED <<edit, history, cache, composes, retouch, actions>>

-----------------------------------------------------------------------------
(* What ends on its own. *)

\* advance_remove_worker, note_remove_edit_changed: the content changes.
RetouchEnds ==
  /\ retouch
  /\ retouch' = FALSE
  /\ \/ /\ doc.contents < MaxContents
        /\ Become([masks |-> edit.masks, content |-> doc.contents + 1])
        /\ doc' = [doc EXCEPT !.contents = @ + 1, !.stale = HasDependencies(edit.masks)]
        /\ Invalidated
     \/ UNCHANGED <<doc, edit, history, op, ai, cache, composes>>
  /\ UNCHANGED actions

\* poll_people_composes, apply_people_compose: the mask is made, or is not.
ComposeEnds(compose) ==
  LET fits == /\ compose.at \in DOMAIN edit.masks
              /\ edit.masks[compose.at].kind = "person"
              /\ edit.masks[compose.at].input = compose.base
  IN /\ composes' = composes \ {compose}
     /\ \/ /\ fits
           /\ BecomeMasks([edit.masks EXCEPT
                             ![compose.at].input = compose.target,
                             ![compose.at].made = Made(compose.content, compose.target)])
        \/ UNCHANGED <<edit, history>>
     /\ UNCHANGED <<doc, op, ai, cache, retouch, actions>>

Accepted == ~op.cancelled /\ op.document = doc.generation

\* The job has ended: op leaves the slot, and an update goes on.
Ends(masks, succeeded, a) ==
  \E outcome \in Advanced(a, masks, succeeded, ~Accepted) : Take(outcome)

\* poll_ai_mask_worker; a photo without a subject is a failure.
SubjectEnds ==
  /\ op.kind = "subject"
  /\ \/ /\ Accepted
        /\ BecomeMasks(WithSubject(edit.masks, op.content))
        /\ cache' = [cache EXCEPT !.subject = op.content]
        /\ Ends(WithSubject(edit.masks, op.content), TRUE, ai)
     \/ /\ Ends(edit.masks, FALSE, ai)
        /\ UNCHANGED <<edit, history, cache>>
  /\ UNCHANGED <<composes, retouch, actions>>

\* skip_remaining_object_updates
WithoutObjects(a) ==
  [a EXCEPT !.update.steps = Where(@, {step \in Range(@) : step.kind # "object"})]

\* poll_object_worker
ObjectEnds ==
  LET target == op.targets[1]
      at == Resolved(edit.masks, target)
      masks == [edit.masks EXCEPT ![at].made = Made(op.content, target.component.input)]
  IN /\ op.kind = "object"
     /\ \/ /\ Accepted /\ at # 0
           /\ BecomeMasks(masks)
           /\ Ends(masks, TRUE, ai)
        \/ /\ Ends(edit.masks, FALSE, WithoutObjects(ai))
           /\ UNCHANGED <<edit, history>>
     /\ UNCHANGED <<cache, composes, retouch, actions>>

\* apply_people_progress, Found: a cancelled job's people do not count.
PeopleFound ==
  /\ op.kind = "person" /\ op.masks = "none" /\ Accepted
  /\ cache.people = NoContent
  /\ cache' = [cache EXCEPT !.people = op.content]
  /\ UNCHANGED <<doc, edit, history, op, ai, composes, retouch, actions>>

\* apply_people_masks writes the masks of the targets that people were found for,
\* one after the other.
WithPeople(masks, found) ==
  FoldLeft(LAMBDA m, k :
             LET target == op.targets[k]
                 at == Resolved(m, target)
             IN IF k \notin found \/ at = 0 THEN m
                ELSE [m EXCEPT ![at].made = Made(op.content, target.component.input)],
           masks, [k \in DOMAIN op.targets |-> k])

\* Mutant of PeopleMasks: a cancelled job's masks count.
PeopleMasksAnyway ==
  /\ op.kind = "person" /\ op.masks = "none"
  /\ \E found \in SUBSET DOMAIN op.targets :
       /\ BecomeMasks(WithPeople(edit.masks, found))
       /\ op' = [op EXCEPT !.masks = IF found = DOMAIN op.targets THEN "made" ELSE "error"]
  /\ UNCHANGED <<doc, ai, cache, composes, retouch, actions>>

\* apply_people_progress, Masks: an error when a mask lost its component or, having
\* people, found none.
PeopleMasks ==
  /\ op.kind = "person" /\ op.masks = "none" /\ Accepted
  /\ \E found \in SUBSET DOMAIN op.targets :
       LET Lost(k) == op.targets[k] # Target(edit.masks, op.targets[k].at)
                      /\ Resolved(edit.masks, op.targets[k]) = 0
           Unfound(k) == LET c == op.targets[k].component
                         IN c.made # NoResult \/ c.input # 0
           error == \E k \in DOMAIN op.targets :
                      IF k \in found THEN Lost(k) ELSE Unfound(k)
       IN /\ BecomeMasks(WithPeople(edit.masks, found))
          /\ op' = [op EXCEPT !.masks = IF error THEN "error" ELSE "made"]
  /\ UNCHANGED <<doc, ai, cache, composes, retouch, actions>>

\* poll_people_worker, when the job has ended
PeopleEnds ==
  /\ op.kind = "person"
  /\ \/ /\ Accepted /\ op.masks # "none"
        /\ cache' = [cache EXCEPT !.people = op.content]
        /\ Ends(edit.masks, op.masks = "made", ai)
     \/ /\ Ends(edit.masks, FALSE, ai)
        /\ UNCHANGED cache
  /\ UNCHANGED <<edit, history, composes, retouch, actions>>

\* start_document_load, begin_sidecar_open, reset_document_state
OpenPhoto ==
  /\ doc.generation < MaxGeneration /\ doc.contents < MaxContents
  /\ doc' = [generation |-> doc.generation + 1, loading |-> TRUE, stale |-> FALSE,
             contents |-> doc.contents + 1]
  /\ edit' = [masks |-> <<>>, content |-> doc.contents + 1]
  /\ history' = NoHistory
  /\ op' = IF op = NoOp THEN op ELSE [op EXCEPT !.cancelled = TRUE]
  /\ ai' = [CancelledUpdate(ai) EXCEPT !.consent = NoKind]
  /\ cache' = NoCache
  /\ composes' = {}
  /\ retouch' = FALSE
  /\ UNCHANGED actions

\* The masks of a saved edit: a result is of the photo's content, or of an older
\* one and the edit marked for an update.
Saved(content) ==
  {<<>>} \cup {<<[kind |-> kind, input |-> MaxInput, made |-> Made(content, MaxInput)]>> :
              kind \in Kinds \ {"subject"}}
         \cup {<<[New("subject") EXCEPT !.made = Made(content, 0)]>>}

\* poll_load_worker installs the photo.
PhotoLoads ==
  /\ doc.loading
  /\ \E stale \in BOOLEAN :
       \E masks \in Saved(IF stale THEN Older ELSE edit.content) :
         /\ edit' = [masks |-> masks, content |-> edit.content]
         /\ doc' = [doc EXCEPT !.loading = FALSE, !.stale = stale]
         /\ \E people \in {NoContent, edit.content} :
              cache' = [source |-> NoContent,
                        subject |-> IF stale THEN NoContent ELSE FirstSubject(masks),
                        people |-> people]
  /\ op' = IF op = NoOp THEN op ELSE [op EXCEPT !.cancelled = TRUE]
  /\ UNCHANGED <<history, ai, composes, retouch, actions>>

-----------------------------------------------------------------------------
Init ==
  /\ doc = [generation |-> 1, loading |-> FALSE, stale |-> FALSE, contents |-> 1]
  /\ edit = [masks |-> <<>>, content |-> 1]
  /\ history = NoHistory
  /\ op = NoOp
  /\ ai = [consent |-> NoKind, object |-> None, people |-> <<>>, update |-> NoUpdate]
  /\ cache = NoCache
  /\ composes = {}
  /\ retouch = FALSE
  /\ actions = 0

User ==
  \/ \E kind \in Kinds : AddMask(kind)
  \/ \E i \in DOMAIN edit.masks :
       \/ \E input \in Input : PaintObject(i, input) \/ ChoosePeople(i, input)
       \/ AskAgain(i) \/ Duplicate(i) \/ Delete(i)
  \/ StartRetouch \/ RequestUpdate \/ Undo \/ Redo
  \/ CancelOperation \/ Accept \/ Decline

Next ==
  \/ User
  \/ RetouchEnds \/ (\E compose \in composes : ComposeEnds(compose))
  \/ SubjectEnds \/ ObjectEnds
  \/ PeopleFound \/ PeopleMasks \/ PeopleEnds
  \/ OpenPhoto \/ PhotoLoads

Spec == Init /\ [][Next]_vars

-----------------------------------------------------------------------------
Contents == NoContent..MaxContents
Result == [input : Input, content : Contents]
Component == [kind : Kinds, input : Input, made : Result]
Edit == [masks : Seq(Component), content : Contents]

\* An update that runs has a job or waits for the user's consent to one, so the
\* panel does not stay busy for ever.
UpdateHasAJob == ai.update.running => op # NoOp \/ ai.consent # NoKind

\* Types, with what bounds the masks and the history.
TypeOK ==
  /\ doc \in [generation : 1..MaxGeneration, loading : BOOLEAN, stale : BOOLEAN,
              contents : Contents]
  /\ edit \in Edit /\ Len(edit.masks) <= MaxMasks
  /\ history \in [undo : Seq(Edit), redo : Seq(Edit)]
  /\ Len(history.undo) <= MaxHistory /\ Len(history.redo) <= MaxHistory
  /\ op \in [kind : Kinds \cup {NoKind}, document : 0..MaxGeneration, cancelled : BOOLEAN,
             content : Contents, masks : {"none", "made", "error"},
             targets : Seq([at : 1..MaxMasks, component : Component])]
  /\ ai \in [consent : Kinds \cup {NoKind}, object : 0..MaxMasks, people : Seq(1..MaxMasks),
             update : [running : BOOLEAN, failed : BOOLEAN,
                       steps : Seq([kind : Kinds, at : 0..MaxMasks])]]
  /\ cache \in [source : Contents, subject : Contents, people : Contents]
  /\ composes \subseteq [at : 1..MaxMasks, base : Input, target : Input, content : Contents]
  /\ retouch \in BOOLEAN
  /\ actions \in 0..MaxActions

\* The content results are made from is the open photo's: that of the mask source,
\* of the people found, of a people mask being made and of a job whose result
\* would be accepted, whatever retouch strokes and photos come in between.
WorkIsOfTheContent ==
  /\ cache.source \in {NoContent, edit.content}
  /\ cache.people \in {NoContent, edit.content}
  /\ \A compose \in composes : compose.content = edit.content
  /\ op # NoOp /\ Accepted => op.content = edit.content

StaleIn(masks) == \E i \in DOMAIN masks : masks[i].made \notin {NoResult, Made(edit.content, masks[i].made.input)}
Unmarked == ~doc.stale /\ (StaleIn(edit.masks) \/ cache.subject \notin {NoContent, edit.content})

\* Only stepping through the edit history brings up results of another content
\* that are not marked: no job, update, retouch stroke or saved edit does.
OnlyHistoryUnmarks == [][~Unmarked /\ Unmarked' => Undo \/ Redo]_vars

\* The promise of EditResults: see there.
ResultsOf(masks) ==
  {[kind |-> masks[i].kind, input |-> masks[i].made.input, content |-> masks[i].made.content] :
     i \in {j \in DOMAIN masks : masks[j].made # NoResult}}
Held ==
  ResultsOf(edit.masks)
  \cup (UNION {ResultsOf(e.masks) : e \in Range(history.undo) \cup Range(history.redo)})
  \cup (IF cache.subject = NoContent THEN {}
        ELSE {[kind |-> "subject", input |-> 0, content |-> cache.subject]})

Promise == INSTANCE EditResults WITH
  photo <- [document |-> doc.generation, loading |-> doc.loading, content |-> edit.content],
  asked <- {[kind |-> edit.masks[i].kind, input |-> edit.masks[i].input] :
              i \in DOMAIN edit.masks},
  held <- Held

ResultsAreOfThePhoto == Promise!Spec
=============================================================================
