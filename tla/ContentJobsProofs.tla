------------------------- MODULE ContentJobsProofs -------------------------
(***************************************************************************)
(* Proofs about ContentJobs for every value of its constants.              *)
(*                                                                         *)
(* WorkIsOfTheContent is not inductive alone: a step of an update starts a *)
(* job on the mask source, so an update that runs needs to have one (IInv, *)
(* which needs records only).  The other theorems need to know what is in  *)
(* the edit and what an update still has before it (JobsInv): a mark may   *)
(* go at the end of an update only because each stale result is in the     *)
(* steps left, in the request that waits for consent, or in the job.       *)
(*                                                                         *)
(* The parts: IInv and its theorem; folds over sequences, by the least     *)
(* counterexample; JobsInv and lemmas about masks and the history; what a  *)
(* request makes of the jobs; one lemma per action for JobsInv and the     *)
(* mark, the user's first; and the refinement of EditResults, action by    *)
(* action.                                                                 *)
(***************************************************************************)
EXTENDS ContentJobs, TLAPS, FiniteSetTheorems, SequenceTheorems, WellFoundedInduction

\* Records, field by field.
IsDoc(d) == d = [generation |-> d.generation, loading |-> d.loading, stale |-> d.stale,
                 contents |-> d.contents]
IsOp(o) == o = [kind |-> o.kind, document |-> o.document, cancelled |-> o.cancelled,
                content |-> o.content, targets |-> o.targets, masks |-> o.masks]
IsUpdate(u) == u = [running |-> u.running, steps |-> u.steps, failed |-> u.failed]
IsAi(a) == /\ a = [consent |-> a.consent, object |-> a.object, people |-> a.people,
                   update |-> a.update]
           /\ IsUpdate(a.update)
IsCache(c) == c = [source |-> c.source, subject |-> c.subject, people |-> c.people]

\* The variables that steps change field by field are records.
Records == IsDoc(doc) /\ IsOp(op) /\ IsAi(ai) /\ IsCache(cache)

\* An update that runs has the mask source of the photo's content.
UpdateHasItsSource ==
  ai.update.running => cache.source = edit.content /\ ~doc.loading

\* The inductive invariant of WorkIsOfTheContent.
IInv == Records /\ UpdateHasItsSource /\ WorkIsOfTheContent

-----------------------------------------------------------------------------
(* What starts a job. *)

\* An operation, or none, that makes its result from source.
IsJob(o, source) == IsOp(o) /\ (o = NoOp \/ o.content = source)

\* The outcome of a request for a: an update is running only if it was.
Follows(outcome, a, source) ==
  /\ IsJob(outcome.op, source)
  /\ IsAi(outcome.ai)
  /\ outcome.ai.update.running => a.update.running

\* An operation that is not there is a record, too.
LEMMA NoOpIsOp == IsOp(NoOp)
  BY DEF NoOp, IsOp

\* Staging or dropping an input of a job, or asking for consent, leaves the update as
\* it is.
LEMMA StagedIsAi ==
  ASSUME NEW a, IsAi(a), NEW o, NEW p, NEW c
  PROVE  /\ IsAi([a EXCEPT !.object = o]) /\ [a EXCEPT !.object = o].update = a.update
         /\ IsAi([a EXCEPT !.people = p]) /\ [a EXCEPT !.people = p].update = a.update
         /\ IsAi([a EXCEPT !.consent = c]) /\ [a EXCEPT !.consent = c].update = a.update
  BY DEF IsAi, IsUpdate

\* An update with other steps, or that fails, is a record and runs as before.
LEMMA UpdateFields ==
  ASSUME NEW u, IsUpdate(u), NEW s, NEW f
  PROVE  /\ IsUpdate([u EXCEPT !.steps = s]) /\ [u EXCEPT !.steps = s].running = u.running
         /\ IsUpdate([u EXCEPT !.failed = f]) /\ [u EXCEPT !.failed = f].running = u.running
  BY DEF IsUpdate

\* An update that is changed, or ended.
LEMMA UpdatedIsAi ==
  ASSUME NEW a, IsAi(a), NEW u, IsUpdate(u)
  PROVE  IsAi([a EXCEPT !.update = u]) /\ [a EXCEPT !.update = u].update = u
  BY DEF IsAi

\* A record of the four fields has the shape of ai.
LEMMA RecordIsAi ==
  ASSUME NEW c, NEW o, NEW p, NEW u, IsUpdate(u)
  PROVE  LET a == [consent |-> c, object |-> o, people |-> p, update |-> u]
         IN IsAi(a) /\ a.update = u
  BY DEF IsAi

\* Cancelling an update leaves none.
LEMMA CancelledUpdateIsAi ==
  ASSUME NEW a, IsAi(a)
  PROVE  IsAi(CancelledUpdate(a)) /\ ~CancelledUpdate(a).update.running
  BY DEF IsAi, IsUpdate, CancelledUpdate, NoUpdate

\* A job that starts belongs to the open photo and has the source it was given.
LEMMA StartedFollows ==
  ASSUME NEW kind, NEW a, NEW masks, NEW source, NEW stale, IsAi(a)
  PROVE  Follows(Started(kind, a, masks, source, stale), a, source)
  BY StagedIsAi DEF Started, Unstaged, Outcome, Follows, IsJob, IsOp

\* A job that is declined leaves no operation, and no update it belonged to.
LEMMA AbandonedFollows ==
  ASSUME NEW kind, NEW a, NEW source, NEW stale, IsAi(a)
  PROVE  Follows(Abandoned(kind, a, stale), a, source)
  BY StagedIsAi, CancelledUpdateIsAi, NoOpIsOp DEF Abandoned, Unstaged, Outcome, Follows, IsJob

\* A job that a request starts has the source it was given.
LEMMA RequestedFollows ==
  ASSUME NEW kind, NEW a, NEW masks, NEW source, NEW stale, IsAi(a),
         NEW outcome \in Requested(kind, a, masks, source, stale)
  PROVE  Follows(outcome, a, source)
<1>1. Follows(Outcome([a EXCEPT !.consent = kind], NoOp, stale), a, source)
  BY StagedIsAi, NoOpIsOp DEF Outcome, Follows, IsJob
<1> QED
  BY <1>1, StartedFollows, AbandonedFollows DEF Requested

\* An update goes on with the source it was given, or ends.
LEMMA ContinuedFollows ==
  ASSUME NEW a, NEW masks, NEW source, NEW stale, IsAi(a),
         NEW outcome \in Continued(a, masks, source, stale)
  PROVE  Follows(outcome, a, source)
<1> DEFINE steps == a.update.steps
           at == SelectInSeq(steps, LAMBDA step : StillNeeded(step, masks))
           next == steps[at]
           rest == SubSeq(steps, at + 1, Len(steps))
           staged == [consent |-> a.consent,
                      object |-> IF next.kind = "object" THEN next.at ELSE a.object,
                      people |-> IF next.kind = "person" THEN Indices(masks, "person")
                                 ELSE a.people,
                      update |-> [a.update EXCEPT !.steps = rest]]
           ended == [a EXCEPT !.update = NoUpdate]
<1> HIDE DEF at, next, rest
<1>1. \/ outcome = Outcome(ended, NoOp, a.update.failed)
      \/ outcome \in Requested(next.kind, staged, masks, source, stale)
  BY DEF Continued, at, next, rest
<1>3. IsAi(staged) /\ staged.update.running = a.update.running
  <2>1. LET u == [a.update EXCEPT !.steps = rest]
        IN IsUpdate(u) /\ u.running = a.update.running
    BY UpdateFields DEF IsAi
  <2> QED
    BY <2>1, RecordIsAi
<1>4. IsAi(ended) /\ ~ended.update.running
  <2>1. IsUpdate(NoUpdate) /\ ~NoUpdate.running
    BY DEF IsUpdate, NoUpdate
  <2> QED
    BY <2>1, UpdatedIsAi
<1>5. CASE outcome = Outcome(ended, NoOp, a.update.failed)
  BY <1>4, <1>5, NoOpIsOp DEF Outcome, Follows, IsJob
<1>6. CASE outcome \in Requested(next.kind, staged, masks, source, stale)
  <2> HIDE DEF staged
  <2>1. Follows(outcome, staged, source)
    BY <1>3, <1>6, RequestedFollows
  <2> QED
    BY <1>3, <2>1 DEF Follows
<1> QED
  BY <1>1, <1>5, <1>6

\* So does one whose job has ended.
LEMMA AdvancedFollows ==
  ASSUME NEW a, NEW masks, NEW succeeded, NEW interrupted, IsAi(a),
         NEW outcome \in Advanced(a, masks, succeeded, interrupted)
  PROVE  /\ Follows(outcome, a, cache.source)
         /\ ~a.update.running => outcome.op = NoOp
<1> DEFINE noted == [a EXCEPT !.update.failed = @ \/ ~succeeded]
<1>2. IsAi(noted) /\ noted.update.running = a.update.running
  <2>1. LET u == [a.update EXCEPT !.failed = a.update.failed \/ ~succeeded]
        IN IsUpdate(u) /\ u.running = a.update.running
    BY UpdateFields DEF IsAi
  <2>2. noted = [a EXCEPT !.update = [a.update EXCEPT !.failed = a.update.failed \/ ~succeeded]]
    OBVIOUS
  <2> QED
    BY <2>1, <2>2, UpdatedIsAi
<1>3. ASSUME outcome = Outcome(a, NoOp, doc.stale)
      PROVE  Follows(outcome, a, cache.source)
  BY <1>3, NoOpIsOp DEF Outcome, Follows, IsJob
<1>4. ASSUME outcome = Outcome(CancelledUpdate(a), NoOp, TRUE)
      PROVE  Follows(outcome, a, cache.source)
  BY <1>4, NoOpIsOp, CancelledUpdateIsAi DEF Outcome, Follows, IsJob
<1>5. ASSUME outcome \in Continued(noted, masks, cache.source, doc.stale)
      PROVE  Follows(outcome, a, cache.source)
  <2> HIDE DEF noted
  <2>1. Follows(outcome, noted, cache.source)
    BY <1>2, <1>5, ContinuedFollows
  <2> QED
    BY <1>2, <2>1 DEF Follows
<1>6. ~a.update.running => outcome.op = NoOp
  BY DEF Advanced, Outcome
<1> QED
  BY <1>3, <1>4, <1>5, <1>6 DEF Advanced

-----------------------------------------------------------------------------
(* Kinds of steps. *)

\* A step that neither touches jobs nor the content.
LEMMA QuietKeeps ==
  ASSUME IInv, UNCHANGED <<op, ai>>, IsDoc(doc'), doc'.generation = doc.generation,
         doc'.loading = doc.loading, edit'.content = edit.content, IsCache(cache'),
         ai.update.running => cache'.source = edit.content,
         cache'.source \in {NoContent, edit.content},
         cache'.people \in {NoContent, edit.content},
         \A compose \in composes' : compose.content = edit.content
  PROVE  IInv'
  BY DEF IInv, Records, UpdateHasItsSource, WorkIsOfTheContent, Accepted

\* A step that takes the outcome of a request: a job starts on the content, and
\* an update that runs has its source.
LEMMA TakenKeeps ==
  ASSUME IInv, NEW a, NEW source, NEW outcome, Follows(outcome, a, source), Take(outcome),
         outcome.op = NoOp \/ source = edit.content,
         a.update.running => cache'.source = edit.content /\ ~doc.loading,
         edit'.content = edit.content, IsCache(cache'),
         cache'.source \in {NoContent, edit.content},
         cache'.people \in {NoContent, edit.content},
         \A compose \in composes' : compose.content = edit.content
  PROVE  IInv'
<1>1. /\ ai' = outcome.ai /\ op' = outcome.op
      /\ IsDoc(doc') /\ doc'.generation = doc.generation /\ doc'.loading = doc.loading
  BY DEF Take, IInv, Records, IsDoc
<1>2. Records'
  BY <1>1 DEF Records, Follows, IsJob
<1>3. UpdateHasItsSource'
  BY <1>1 DEF UpdateHasItsSource, Follows
<1>4. WorkIsOfTheContent'
  BY <1>1 DEF WorkIsOfTheContent, Accepted, Follows, IsJob
<1> QED
  BY <1>2, <1>3, <1>4 DEF IInv

\* A step that gives the content up: nothing is left that was made from it.
LEMMA InvalidatedKeeps ==
  ASSUME IInv, Invalidated, IsDoc(doc')
  PROVE  IInv'
<1>1. IsCache(cache') /\ cache'.source = NoContent /\ cache'.people = NoContent
  BY DEF Invalidated, NoCache, IsCache
<1>2. IsAi(ai') /\ ~ai'.update.running
  BY CancelledUpdateIsAi DEF Invalidated, IInv, Records
<1>3. IsOp(op') /\ (op' = NoOp \/ op'.cancelled)
  BY DEF Invalidated, IInv, Records, IsOp
<1> QED
  BY <1>1, <1>2, <1>3
  DEF Invalidated, IInv, Records, UpdateHasItsSource, WorkIsOfTheContent, Accepted

\* The mask source is captured from the photo's content.
LEMMA CapturedIsContent ==
  ASSUME IInv
  PROVE  /\ Captured = edit.content
         /\ LET c == [cache EXCEPT !.source = Captured]
            IN IsCache(c) /\ c.source = edit.content /\ c.people = cache.people
  BY DEF Captured, IInv, Records, IsCache, WorkIsOfTheContent

\* A change of the masks keeps the content.
LEMMA BecomeMasksKeepsContent ==
  ASSUME NEW masks, BecomeMasks(masks)
  PROVE  edit'.content = edit.content
  BY DEF BecomeMasks, Become

-----------------------------------------------------------------------------
(* What the user asks for. *)

\* A subject mask that is asked for is the last result, or a job on the content.
LEMMA AskForSubjectKeeps ==
  ASSUME IInv, NEW masks, AskForSubject(masks), ~doc.loading, composes' = composes
  PROVE  IInv'
<1>1. CASE UNCHANGED <<doc, op, ai, cache>> /\ edit'.content = edit.content
  BY <1>1, QuietKeeps DEF IInv, Records, UpdateHasItsSource, WorkIsOfTheContent
<1>2. ASSUME cache' = [cache EXCEPT !.source = Captured], edit'.content = edit.content,
             NEW outcome \in Requested("subject", ai, masks, Captured, doc.stale),
             Take(outcome)
      PROVE  IInv'
  <2>1. Follows(outcome, ai, Captured)
    BY <1>2, RequestedFollows DEF IInv, Records
  <2> QED
    BY <1>2, <2>1, CapturedIsContent, TakenKeeps DEF IInv, WorkIsOfTheContent
<1> QED
  BY <1>1, <1>2, BecomeMasksKeepsContent DEF AskForSubject

\* An object mask that is asked for starts a job on the content, if there is a source.
LEMMA AskForObjectKeeps ==
  ASSUME IInv, NEW masks, NEW i, AskForObject(masks, i), ~doc.loading, composes' = composes
  PROVE  IInv'
<1>1. edit'.content = edit.content /\ cache' = cache
  BY BecomeMasksKeepsContent DEF AskForObject
<1>2. CASE UNCHANGED <<doc, op, ai>>
  BY <1>1, <1>2, QuietKeeps DEF IInv, Records, UpdateHasItsSource, WorkIsOfTheContent
<1>3. ASSUME cache.source # NoContent,
             NEW outcome \in Requested("object", [ai EXCEPT !.object = i], masks,
                                      cache.source, doc.stale),
             Take(outcome)
      PROVE  IInv'
  <2>1. cache.source = edit.content
    BY <1>3 DEF IInv, WorkIsOfTheContent
  <2>2. Follows(outcome, [ai EXCEPT !.object = i], cache.source)
    BY <1>3, StagedIsAi, RequestedFollows DEF IInv, Records
  <2> QED
    BY <1>1, <1>3, <2>1, <2>2, TakenKeeps DEF IInv, Records, WorkIsOfTheContent
<1> QED
  BY <1>2, <1>3 DEF AskForObject

\* People masks that are asked for start a job on the content.
LEMMA AskForPeopleKeeps ==
  ASSUME IInv, NEW masks, NEW i, AskForPeople(masks, i), ~doc.loading,
         composes' \subseteq composes
  PROVE  IInv'
<1>1. PICK outcome \in Requested("person", [ai EXCEPT !.people = <<i>>], masks,
                                 Captured, doc.stale) : Take(outcome)
  BY DEF AskForPeople
<1>2. edit'.content = edit.content /\ cache' = [cache EXCEPT !.source = Captured]
  BY BecomeMasksKeepsContent DEF AskForPeople
<1>3. Follows(outcome, [ai EXCEPT !.people = <<i>>], Captured)
  BY StagedIsAi, RequestedFollows DEF IInv, Records
<1>4. \A compose \in composes' : compose.content = edit.content
  BY DEF IInv, WorkIsOfTheContent
<1> QED
  BY <1>1, <1>2, <1>3, <1>4, CapturedIsContent, TakenKeeps DEF IInv, WorkIsOfTheContent

\* A people mask is made from the people and the source of the content.
LEMMA ComposeKeeps ==
  ASSUME IInv, NEW i, NEW choice, Compose(i, choice)
  PROVE  IInv'
<1>1. \A compose \in composes' : compose.content = edit.content
  BY CapturedIsContent DEF Compose, ComposesBut, IInv, WorkIsOfTheContent
<1> QED
  BY <1>1, CapturedIsContent, QuietKeeps
  DEF Compose, IInv, Records, UpdateHasItsSource, WorkIsOfTheContent

\* The edit stepped to has another content, or the same one.
LEMMA RestoreKeeps ==
  ASSUME IInv, ~doc.loading, NEW e, Restore(e)
  PROVE  IInv'
<1>1. IsDoc(doc') /\ doc'.generation = doc.generation /\ doc'.loading = doc.loading
  BY DEF Restore, IInv, Records, IsDoc
<1>2. CASE e.content # edit.content
  BY <1>1, <1>2, InvalidatedKeeps DEF Restore
<1>3. CASE e.content = edit.content
  <2>1. edit'.content = edit.content /\ op' = op /\ ai' = CancelledUpdate(ai) /\ composes' = {}
    BY <1>3 DEF Restore
  <2>2. IsCache(cache') /\ cache'.source \in {NoContent, edit.content}
        /\ cache'.people = cache.people
    BY <1>3 DEF Restore, IInv, Records, IsCache, WorkIsOfTheContent
  <2>3. IsAi(ai') /\ ~ai'.update.running
    BY <2>1, CancelledUpdateIsAi DEF IInv, Records
  <2> QED
    BY <1>1, <2>1, <2>2, <2>3
    DEF IInv, Records, UpdateHasItsSource, WorkIsOfTheContent, Accepted
<1> QED
  BY <1>2, <1>3

\* Each of the user's actions.
LEMMA UserKeeps ==
  ASSUME IInv, User
  PROVE  IInv'
<1>1. ASSUME NEW kind \in Kinds, AddMask(kind)
      PROVE  IInv'
  <2>1. CASE AskForSubject(Append(edit.masks, New(kind)))
    BY <1>1, <2>1, AskForSubjectKeeps DEF AddMask, Free
  <2>2. CASE AskForPeople(Append(edit.masks, New(kind)), Len(Append(edit.masks, New(kind))))
    BY <1>1, <2>2, AskForPeopleKeeps DEF AddMask, Free
  <2>3. CASE /\ BecomeMasks(Append(edit.masks, New(kind)))
             /\ cache' = [cache EXCEPT !.source = Captured]
             /\ UNCHANGED <<doc, op, ai>>
    BY <1>1, <2>3, BecomeMasksKeepsContent, CapturedIsContent, QuietKeeps
    DEF AddMask, IInv, Records, UpdateHasItsSource, WorkIsOfTheContent
  <2> QED
    BY <1>1, <2>1, <2>2, <2>3 DEF AddMask
<1>2. ASSUME NEW i \in DOMAIN edit.masks, NEW input \in Input, PaintObject(i, input)
      PROVE  IInv'
  BY <1>2, AskForObjectKeeps DEF PaintObject, Free
<1>3. ASSUME NEW i \in DOMAIN edit.masks, NEW input \in Input, ChoosePeople(i, input)
      PROVE  IInv'
  <2>1. CASE composes' = ComposesBut(i) /\ UNCHANGED <<doc, edit, history, op, ai, cache>>
    BY <2>1, QuietKeeps
    DEF ComposesBut, IInv, Records, UpdateHasItsSource, WorkIsOfTheContent
  <2>2. CASE Compose(i, input)
    BY <2>2, ComposeKeeps
  <2>3. CASE /\ composes' = ComposesBut(i)
             /\ AskForPeople([edit.masks EXCEPT ![i].input = input], i)
    BY <1>3, <2>3, AskForPeopleKeeps DEF ChoosePeople, Free, ComposesBut
  <2> QED
    BY <1>3, <2>1, <2>2, <2>3 DEF ChoosePeople
<1>4. ASSUME NEW i \in DOMAIN edit.masks, AskAgain(i)
      PROVE  IInv'
  <2>1. ~doc.loading
    BY <1>4 DEF AskAgain, Free
  <2> QED
    BY <1>4, <2>1, AskForSubjectKeeps, AskForObjectKeeps, ComposeKeeps, AskForPeopleKeeps
    DEF AskAgain
<1>5. ASSUME NEW masks, BecomeMasks(masks), UNCHANGED <<doc, op, ai, cache, composes>>
      PROVE  IInv'
  BY <1>5, BecomeMasksKeepsContent, QuietKeeps
  DEF IInv, Records, UpdateHasItsSource, WorkIsOfTheContent
<1>6. ASSUME NEW i \in DOMAIN edit.masks, Duplicate(i) \/ Delete(i)
      PROVE  IInv'
  BY <1>5, <1>6 DEF Duplicate, Delete
<1>7. CASE StartRetouch
  BY <1>7, QuietKeeps DEF StartRetouch, IInv, Records, UpdateHasItsSource, WorkIsOfTheContent
<1>8. CASE RequestUpdate
  <2>1. CASE UNCHANGED <<op, ai, cache>> /\ doc' = [doc EXCEPT !.stale = FALSE]
    <3>1. IsDoc(doc') /\ doc'.generation = doc.generation /\ doc'.loading = doc.loading
      BY <2>1 DEF IInv, Records, IsDoc
    <3> QED
      BY <1>8, <2>1, <3>1, QuietKeeps
      DEF RequestUpdate, IInv, Records, UpdateHasItsSource, WorkIsOfTheContent
  <2>2. CASE HasDependencies(edit.masks)
    <3> DEFINE u == [running |-> TRUE, failed |-> FALSE, steps |-> Plan(edit.masks)]
               a == [ai EXCEPT !.update = u]
    <3>1. PICK outcome \in Continued(a, edit.masks, edit.content, doc.stale) : Take(outcome)
      BY <1>8, <2>2 DEF RequestUpdate
    <3>2. IsAi(a)
      <4>1. IsUpdate(u)
        BY DEF IsUpdate
      <4> QED
        BY <4>1, UpdatedIsAi DEF IInv, Records
    <3> HIDE DEF a
    <3>3. Follows(outcome, a, edit.content)
      BY <3>1, <3>2, ContinuedFollows
    <3>4. /\ IsCache(cache') /\ cache'.source = edit.content /\ cache'.people = cache.people
          /\ UNCHANGED <<edit, composes>> /\ ~doc.loading
      BY <1>8, <2>2 DEF RequestUpdate, Free, IInv, Records, IsCache
    <3> QED
      BY <3>1, <3>3, <3>4, TakenKeeps DEF IInv, WorkIsOfTheContent
  <2> QED
    BY <1>8, <2>1, <2>2 DEF RequestUpdate
<1>9. CASE Undo \/ Redo
  BY <1>9, RestoreKeeps DEF Undo, Redo, Free
<1>10. CASE CancelOperation
  <2>1. IsOp(op') /\ op'.cancelled
    BY <1>10 DEF CancelOperation, IInv, Records, IsOp
  <2> QED
    BY <1>10, <2>1
    DEF CancelOperation, IInv, Records, UpdateHasItsSource, WorkIsOfTheContent, Accepted
<1>11. CASE Accept
  <2> DEFINE a == [ai EXCEPT !.consent = NoKind]
  <2>1. IsAi(a) /\ a.update = ai.update
    BY StagedIsAi DEF IInv, Records
  <2>2. UNCHANGED <<edit, cache, composes>>
    BY <1>11 DEF Accept
  <2> HIDE DEF a
  <2>3. CASE /\ Take(Started(ai.consent, a, edit.masks, cache.source, doc.stale))
             /\ cache.source # NoContent
    BY <2>1, <2>2, <2>3, StartedFollows, TakenKeeps
    DEF IInv, Records, UpdateHasItsSource, WorkIsOfTheContent
  <2>4. CASE ai' = Unstaged(ai.consent, a) /\ UNCHANGED <<doc, op>>
    <3>1. IsAi(ai') /\ ai'.update = ai.update
      BY <2>1, <2>4, StagedIsAi DEF Unstaged
    <3> QED
      BY <2>2, <2>4, <3>1
      DEF IInv, Records, UpdateHasItsSource, WorkIsOfTheContent, Accepted
  <2> QED
    BY <1>11, <2>3, <2>4 DEF Accept, a
<1>12. CASE Decline
  <2> DEFINE a == [ai EXCEPT !.consent = NoKind]
             outcome == Abandoned(ai.consent, a, doc.stale)
  <2>1. IsAi(a) /\ a.update = ai.update
    BY StagedIsAi DEF IInv, Records
  <2>2. UNCHANGED <<edit, cache, composes>> /\ Take(outcome)
    BY <1>12 DEF Decline
  <2>3. outcome.op = NoOp
    BY DEF Abandoned, Outcome
  <2> HIDE DEF a
  <2>4. Follows(outcome, a, edit.content)
    BY <2>1, AbandonedFollows
  <2> HIDE DEF outcome
  <2> QED
    BY <2>1, <2>2, <2>3, <2>4, TakenKeeps
    DEF IInv, Records, UpdateHasItsSource, WorkIsOfTheContent
<1> QED
  BY <1>1, <1>2, <1>3, <1>4, <1>6, <1>7, <1>8, <1>9, <1>10, <1>11, <1>12 DEF User

-----------------------------------------------------------------------------
(* What ends on its own. *)

\* A job has ended, and an update it belongs to goes on.
LEMMA EndsKeeps ==
  ASSUME IInv, NEW masks, NEW succeeded, NEW a, IsAi(a),
         a.update.running => ai.update.running, Ends(masks, succeeded, a),
         edit'.content = edit.content, IsCache(cache'), cache'.source = cache.source,
         cache'.people \in {NoContent, edit.content}, composes' = composes
  PROVE  IInv'
<1>1. PICK outcome \in Advanced(a, masks, succeeded, ~Accepted) : Take(outcome)
  BY DEF Ends
<1>2. Follows(outcome, a, cache.source) /\ (~a.update.running => outcome.op = NoOp)
  BY <1>1, AdvancedFollows
<1> QED
  BY <1>1, <1>2, TakenKeeps DEF IInv, Records, UpdateHasItsSource, WorkIsOfTheContent

\* Each step that is not the user's.
LEMMA OthersKeep ==
  ASSUME IInv, Next, ~User
  PROVE  IInv'
<1>1. CASE RetouchEnds
  <2>1. CASE Invalidated /\ doc' = [doc EXCEPT !.contents = @ + 1, !.stale = HasDependencies(edit.masks)]
    <3>1. IsDoc(doc')
      BY <2>1 DEF IInv, Records, IsDoc
    <3> QED
      BY <2>1, <3>1, InvalidatedKeeps
  <2>2. CASE UNCHANGED <<doc, edit, history, op, ai, cache, composes>>
    BY <2>2, QuietKeeps DEF IInv, Records, UpdateHasItsSource, WorkIsOfTheContent
  <2> QED
    BY <1>1, <2>1, <2>2 DEF RetouchEnds
<1>2. ASSUME NEW compose \in composes, ComposeEnds(compose)
      PROVE  IInv'
  BY <1>2, BecomeMasksKeepsContent, QuietKeeps
  DEF ComposeEnds, IInv, Records, UpdateHasItsSource, WorkIsOfTheContent
<1>3. IsAi(ai) /\ IsCache(cache) /\ cache.people \in {NoContent, edit.content}
  BY DEF IInv, Records, WorkIsOfTheContent
<1>4. CASE SubjectEnds
  <2>1. edit'.content = edit.content /\ composes' = composes
    BY <1>4, BecomeMasksKeepsContent DEF SubjectEnds
  <2>2. IsCache(cache') /\ cache'.source = cache.source /\ cache'.people = cache.people
    BY <1>3, <1>4 DEF SubjectEnds, IsCache
  <2> QED
    BY <1>3, <1>4, <2>1, <2>2, EndsKeeps DEF SubjectEnds
<1>5. CASE ObjectEnds
  <2>1. edit'.content = edit.content /\ composes' = composes /\ cache' = cache
    BY <1>5, BecomeMasksKeepsContent DEF ObjectEnds
  <2>2. IsAi(WithoutObjects(ai)) /\ WithoutObjects(ai).update.running = ai.update.running
    <3> DEFINE steps == Where(ai.update.steps,
                              {step \in Range(ai.update.steps) : step.kind # "object"})
               u == [ai.update EXCEPT !.steps = steps]
    <3>1. WithoutObjects(ai) = [ai EXCEPT !.update = u]
      BY DEF WithoutObjects
    <3> HIDE DEF steps
    <3>2. IsUpdate(u) /\ u.running = ai.update.running
      BY <1>3, UpdateFields DEF IsAi
    <3> HIDE DEF u
    <3>3. IsAi([ai EXCEPT !.update = u]) /\ [ai EXCEPT !.update = u].update = u
      BY <1>3, <3>2, UpdatedIsAi
    <3> QED
      BY <3>1, <3>2, <3>3
  <2> QED
    BY <1>3, <1>5, <2>1, <2>2, EndsKeeps DEF ObjectEnds
<1>6. op # NoOp /\ Accepted => op.content = edit.content
  BY DEF IInv, WorkIsOfTheContent
<1>7. op.kind = "person" => op # NoOp
  BY DEF NoOp, NoKind
<1>8. CASE PeopleFound
  <2>1. /\ UNCHANGED <<doc, edit, op, ai, composes>>
        /\ IsCache(cache') /\ cache'.source = cache.source /\ cache'.people = edit.content
    BY <1>3, <1>6, <1>7, <1>8 DEF PeopleFound, IsCache
  <2> QED
    BY <2>1, QuietKeeps DEF IInv, Records, UpdateHasItsSource, WorkIsOfTheContent
<1>9. CASE PeopleMasks
  <2>1. edit'.content = edit.content /\ UNCHANGED <<doc, ai, cache, composes>>
    BY <1>9, BecomeMasksKeepsContent DEF PeopleMasks
  <2>2. PICK m : op' = [op EXCEPT !.masks = m]
    BY <1>9 DEF PeopleMasks
  <2>3. /\ IsOp(op') /\ op'.kind = op.kind /\ op'.document = op.document
        /\ op'.cancelled = op.cancelled /\ op'.content = op.content
    BY <2>2 DEF IInv, Records, IsOp
  <2>4. op # NoOp
    BY <1>7, <1>9 DEF PeopleMasks
  <2> QED
    BY <2>1, <2>3, <2>4
    DEF IInv, Records, UpdateHasItsSource, WorkIsOfTheContent, Accepted
<1>10. CASE PeopleEnds
  <2>1. UNCHANGED <<edit, composes>> /\ \E succeeded : Ends(edit.masks, succeeded, ai)
    BY <1>10 DEF PeopleEnds
  <2>2. /\ IsCache(cache') /\ cache'.source = cache.source
        /\ cache'.people \in {NoContent, edit.content}
    BY <1>3, <1>6, <1>7, <1>10 DEF PeopleEnds, IsCache
  <2> QED
    BY <1>3, <2>1, <2>2, EndsKeeps
<1>11. CASE OpenPhoto \/ PhotoLoads
  <2>1. IsOp(op') /\ (op' = NoOp \/ op'.cancelled)
    BY <1>11 DEF OpenPhoto, PhotoLoads, IInv, Records, IsOp
  <2>2. IsAi(ai') /\ ~ai'.update.running
    <3>1. CASE OpenPhoto
      <4> DEFINE a == CancelledUpdate(ai)
      <4>1. IsAi(a) /\ ~a.update.running
        BY <1>3, CancelledUpdateIsAi
      <4>2. ai' = [a EXCEPT !.consent = NoKind]
        BY <3>1 DEF OpenPhoto
      <4> HIDE DEF a
      <4> QED
        BY <4>1, <4>2, StagedIsAi
    <3>2. CASE PhotoLoads
      BY <1>3, <3>2 DEF PhotoLoads, IInv, UpdateHasItsSource
    <3> QED
      BY <1>11, <3>1, <3>2
  <2>3. IsDoc(doc')
    BY <1>11 DEF OpenPhoto, PhotoLoads, IInv, Records, IsDoc
  <2>4. IsCache(cache') /\ cache'.source = NoContent /\ cache'.people \in {NoContent, edit'.content}
    <3>1. CASE OpenPhoto
      BY <3>1 DEF OpenPhoto, NoCache, IsCache
    <3>2. CASE PhotoLoads
      BY <3>2 DEF PhotoLoads, IsCache
    <3> QED
      BY <1>11, <3>1, <3>2
  <2>5. \A compose \in composes' : compose.content = edit'.content
    <3>1. CASE OpenPhoto
      BY <3>1 DEF OpenPhoto
    <3>2. CASE PhotoLoads
      <4>1. edit'.content = edit.content /\ composes' = composes
        BY <3>2 DEF PhotoLoads
      <4> QED
        BY <4>1 DEF IInv, WorkIsOfTheContent
    <3> QED
      BY <1>11, <3>1, <3>2
  <2> QED
    BY <2>1, <2>2, <2>3, <2>4, <2>5
    DEF IInv, Records, UpdateHasItsSource, WorkIsOfTheContent, Accepted
<1> QED
  BY <1>1, <1>2, <1>4, <1>5, <1>8, <1>9, <1>10, <1>11 DEF Next

-----------------------------------------------------------------------------
\* Work is of the photo's content in every behaviour: a job, a people mask or
\* found people of an earlier content never meet an edit that would take them
\* (invalidate_generated_mask_sources, accepts_result), for any number of masks,
\* photos and contents and any history.
THEOREM WorkStaysOfTheContent == Spec => []WorkIsOfTheContent
<1>1. Init => IInv
  BY DEF Init, IInv, Records, UpdateHasItsSource, WorkIsOfTheContent, IsDoc, IsOp, IsAi,
         IsUpdate, IsCache, NoOp, NoCache, NoUpdate
<1>2. IInv /\ [Next]_vars => IInv'
  <2>1. CASE UNCHANGED vars
    BY <2>1 DEF vars, IInv, Records, UpdateHasItsSource, WorkIsOfTheContent, Accepted
  <2> QED
    BY <2>1, UserKeeps, OthersKeep
<1>3. IInv => WorkIsOfTheContent
  BY DEF IInv
<1> QED
  BY <1>1, <1>2, <1>3, PTL DEF Spec

-----------------------------------------------------------------------------
(* Folds, by the least counterexample. *)

\* The order of the natural numbers.
Below == {pair \in Nat \X Nat : pair[1] < pair[2]}

\* A set of natural numbers has a least one: it stands for induction, whose theorems take
\* an operator, which no installed prover can instantiate.
LEMMA LeastNatural ==
  ASSUME NEW T \in SUBSET Nat, T # {}
  PROVE  \E m \in T : \A k \in T : m <= k
<1>1. IsWellFoundedOn(Below, Nat)
  <2>1. Below = OpToRel(<, Nat)
    BY DEF Below, OpToRel
  <2> QED
    BY <2>1, NatLessThanWellFounded
<1>2. PICK m \in T : \A k \in T : <<k, m>> \notin Below
  BY <1>1, WFMin
<1>3. \A k \in Nat, n \in Nat : k < n => <<k, n>> \in Below
  BY DEF Below
<1>4. \A k \in T : ~(k < m)
  BY <1>2, <1>3
<1> QED
  BY <1>4

\* The largest of the first positions.
LEMMA MaxIs ==
  ASSUME NEW s, NEW n \in Nat, NEW m \in s, s \in SUBSET (1 .. n), \A k \in s : k <= m
  PROVE  Max(s) = m
<1>1. \A k \in s : m >= k
  OBVIOUS
<1>2. \A x \in s : x >= m => x = m
  OBVIOUS
<1> QED
  BY <1>1, <1>2 DEF Max

\* The largest of a part of 1 .. n is in the part.
LEMMA MaxIsIn ==
  ASSUME NEW n \in Nat, NEW s \in SUBSET (1 .. n), s # {}
  PROVE  Max(s) \in s
<1> DEFINE above == {i \in Nat : \A y \in s : i >= y}
<1>1. above \in SUBSET Nat /\ n \in above
  OBVIOUS
<1>2. PICK i \in above : \A j \in above : i <= j
  <2> HIDE DEF above
  <2> QED
    BY <1>1, LeastNatural
<1>3. i \in s
  <2> SUFFICES ASSUME i \notin s PROVE FALSE
    OBVIOUS
  <2>1. i \in Nat /\ \A y \in s : y \in Nat /\ i >= y /\ i # y /\ y > 0
    BY <1>2
  <2>2. i - 1 \in Nat /\ \A y \in s : i - 1 >= y
    <3>1. PICK y \in s : TRUE
      OBVIOUS
    <3>2. i - 1 \in Nat
      BY <2>1, <3>1
    <3>3. ASSUME NEW z \in s
          PROVE  i - 1 >= z
      <4>1. i \in Nat /\ z \in Nat /\ i >= z /\ i # z
        BY <2>1, <3>3
      <4> QED
        BY <4>1
    <3> QED
      BY <3>2, <3>3
  <2>3. i - 1 \in above
    BY <2>2
  <2> HIDE DEF above
  <2> QED
    BY <1>2, <2>1, <2>3
<1>4. \A y \in s : i >= y
  BY <1>2
<1> QED
  BY <1>3, <1>4 DEF Max

\* The largest of 1 .. n is n, so a fold over a sequence ends with its last member.
LEMMA MaxOfFirst ==
  ASSUME NEW n \in Nat, NEW k \in 1 .. n
  PROVE  /\ 1 .. k \in SUBSET (1 .. n) /\ 1 .. k # {} /\ Max(1 .. k) = k
         /\ (1 .. k) \ {Max(1 .. k)} = 1 .. (k - 1)
<1>1. k \in 1 .. k /\ 1 .. k \in SUBSET (1 .. n) /\ \A j \in 1 .. k : j <= k
  OBVIOUS
<1>2. Max(1 .. k) = k
  BY <1>1, MaxIs
<1>3. (1 .. k) \ {k} = 1 .. (k - 1)
  OBVIOUS
<1> QED
  BY <1>1, <1>2, <1>3

\* The recursive function by which the community modules define a fold of steps f[k][v]
\* over the positions 1 to m exists, and its values stay where the steps lead.
FoldOf(base, f, d, g) ==
  g = [s \in SUBSET d |-> IF s = {} THEN base ELSE f[Max(s)][g[s \ {Max(s)}]]]

\* A fold over a sequence is a function of the members taken so far, which starts with the
\* base and takes one member a turn.
LEMMA FoldExists ==
  ASSUME NEW V, NEW base \in V, NEW f, NEW m \in Nat, f \in [1 .. m -> [V -> V]]
  PROVE  \E g : FoldOf(base, f, 1 .. m, g) /\ \A s \in SUBSET (1 .. m) : g[s] \in V
<1> DEFINE Good(k) == \E g : FoldOf(base, f, 1 .. k, g) /\ \A s \in SUBSET (1 .. k) : g[s] \in V
           bad == {k \in 0 .. m : ~Good(k)}
<1> SUFFICES ASSUME bad # {} PROVE FALSE
  <2>1. m \notin bad
    OBVIOUS
  <2> QED
    BY <2>1
<1>1. PICK k \in bad : \A j \in bad : k <= j
  <2>1. bad \in SUBSET Nat
    OBVIOUS
  <2> HIDE DEF bad
  <2> QED
    BY <2>1, LeastNatural
<1>2. k # 0
  <2> DEFINE g == [s \in SUBSET (1 .. 0) |-> base]
  <2>1. \A s \in SUBSET (1 .. 0) : s = {}
    OBVIOUS
  <2>2. FoldOf(base, f, 1 .. 0, g) /\ \A s \in SUBSET (1 .. 0) : g[s] \in V
    BY <2>1 DEF FoldOf
  <2> QED
    BY <2>2
<1>3. k \in 1 .. m /\ k - 1 \in 0 .. m /\ k - 1 \notin bad
  <2>1. k \in 0 .. m
    BY <1>1
  <2>2. k - 1 \notin bad
    <3> HIDE DEF bad
    <3> QED
      BY <1>1, <2>1
  <2> QED
    BY <1>2, <2>1, <2>2
<1>4. PICK g : FoldOf(base, f, 1 .. (k - 1), g) /\ \A s \in SUBSET (1 .. (k - 1)) : g[s] \in V
  BY <1>3
<1> DEFINE h == [s \in SUBSET (1 .. k) |-> IF k \in s THEN f[k][g[s \ {k}]] ELSE g[s]]
<1>5. ASSUME NEW s \in SUBSET (1 .. k)
      PROVE  h[s] \in V /\ h[s] = IF s = {} THEN base ELSE f[Max(s)][h[s \ {Max(s)}]]
  <2>1. CASE k \in s
    <3>1. Max(s) = k
      <4>1. k \in Nat /\ \A j \in s : j <= k
        BY <1>3
      <4> HIDE DEF h, bad
      <4> QED
        BY <2>1, <4>1, MaxIs
    <3>2. s \ {k} \in SUBSET (1 .. (k - 1)) /\ s \ {k} \in SUBSET (1 .. k) /\ k \notin s \ {k}
      BY <1>3
    <3>3. h[s \ {k}] = g[s \ {k}] /\ g[s \ {k}] \in V
      BY <1>4, <3>2
    <3>4. f[k][g[s \ {k}]] \in V
      BY <1>3, <3>3
    <3> QED
      BY <2>1, <3>1, <3>3, <3>4
  <2>2. CASE k \notin s
    <3>1. s \in SUBSET (1 .. (k - 1))
      BY <1>3, <2>2
    <3>2. g[s] \in V /\ g[s] = IF s = {} THEN base ELSE f[Max(s)][g[s \ {Max(s)}]]
      BY <3>1, <1>4 DEF FoldOf
    <3>3. h[s] = g[s] /\ h[s \ {Max(s)}] = g[s \ {Max(s)}]
      <4>1. s \ {Max(s)} \in SUBSET (1 .. k) /\ k \notin s \ {Max(s)}
        BY <2>2
      <4> QED
        BY <4>1, <2>2
    <3> QED
      BY <3>2, <3>3
  <2> QED
    BY <2>1, <2>2
<1>6. FoldOf(base, f, 1 .. k, h) /\ \A s \in SUBSET (1 .. k) : h[s] \in V
  BY <1>5 DEF FoldOf
<1> QED
  BY <1>1, <1>6

\* Where, member by member.
LEMMA WhereTurns ==
  ASSUME NEW S, NEW seq \in Seq(S), NEW set
  PROVE  \E turn : /\ turn[0] = <<>>
                   /\ \A k \in 1 .. Len(seq) :
                        turn[k] = IF seq[k] \in set THEN Append(turn[k - 1], seq[k])
                                  ELSE turn[k - 1]
                   /\ Where(seq, set) = turn[Len(seq)]
<1> DEFINE d == 1 .. Len(seq)
           f == [k \in d |-> [v \in Seq(S) |-> IF seq[k] \in set THEN Append(v, seq[k]) ELSE v]]
           Is(g) == g = [s \in SUBSET d |-> IF s = {} THEN <<>>
                           ELSE IF seq[Max(s)] \in set
                                THEN Append(g[s \ {Max(s)}], seq[Max(s)])
                                ELSE g[s \ {Max(s)}]]
<1>1. DOMAIN seq = d /\ Len(seq) \in Nat /\ \A k \in d : seq[k] \in S
  OBVIOUS
<1>2. \E g : Is(g)
  <2>1. f \in [d -> [Seq(S) -> Seq(S)]]
    <3>1. \A v \in Seq(S), k \in d : Append(v, seq[k]) \in Seq(S)
      BY <1>1
    <3> QED
      BY <3>1
  <2>2. PICK g : FoldOf(<<>>, f, d, g) /\ \A s \in SUBSET d : g[s] \in Seq(S)
    <3> HIDE DEF f
    <3>1. <<>> \in Seq(S)
      OBVIOUS
    <3> QED
      BY <1>1, <2>1, <3>1, FoldExists
  <2>3. ASSUME NEW s \in SUBSET d, s # {}
        PROVE  Max(s) \in d /\ s \ {Max(s)} \in SUBSET d
    <3>1. Max(s) \in s
      BY <1>1, <2>3, MaxIsIn
    <3> QED
      BY <3>1
  <2>4. ASSUME NEW s \in SUBSET d, s # {}
        PROVE  f[Max(s)][g[s \ {Max(s)}]]
                 = IF seq[Max(s)] \in set THEN Append(g[s \ {Max(s)}], seq[Max(s)])
                   ELSE g[s \ {Max(s)}]
    BY <2>2, <2>3, <2>4
  <2>5. Is(g)
    <3> HIDE DEF f
    <3> QED
      BY <2>2, <2>4 DEF FoldOf
  <2> QED
    BY <2>5
<1> DEFINE h == CHOOSE g : Is(g)
<1>3. Is(h)
  BY <1>2
<1>4. Where(seq, set) = h[d]
  BY <1>1 DEF Where, FoldLeft, MapThenFoldSet
<1> HIDE DEF h
<1> DEFINE turn == [k \in 0 .. Len(seq) |-> h[1 .. k]]
<1>5. turn[0] = <<>>
  <2>1. 1 .. 0 = {}
    OBVIOUS
  <2>2. h[{}] = <<>>
    BY <1>3
  <2> QED
    BY <1>1, <2>1, <2>2
<1>6. ASSUME NEW k \in 1 .. Len(seq)
      PROVE  turn[k] = IF seq[k] \in set THEN Append(turn[k - 1], seq[k]) ELSE turn[k - 1]
  <2>1. /\ 1 .. k \in SUBSET d /\ 1 .. k # {} /\ Max(1 .. k) = k
        /\ (1 .. k) \ {Max(1 .. k)} = 1 .. (k - 1)
    BY <1>1, MaxOfFirst
  <2>2. h[1 .. k] = IF seq[k] \in set THEN Append(h[1 .. (k - 1)], seq[k]) ELSE h[1 .. (k - 1)]
    BY <1>3, <2>1
  <2> QED
    BY <1>1, <2>2
<1>7. turn[Len(seq)] = h[d]
  BY <1>1
<1> HIDE DEF turn
<1> QED
  BY <1>4, <1>5, <1>6, <1>7

\* What Where keeps of a sequence: its members that are in the set, no others.
LEMMA WhereIs ==
  ASSUME NEW S, NEW seq \in Seq(S), NEW set
  PROVE  /\ Where(seq, set) \in Seq(S)
         /\ \A j \in DOMAIN Where(seq, set) : Where(seq, set)[j] \in set
         /\ \A k \in DOMAIN seq :
              seq[k] \in set => \E j \in DOMAIN Where(seq, set) : Where(seq, set)[j] = seq[k]
<1>1. PICK turn :
        /\ turn[0] = <<>>
        /\ \A k \in 1 .. Len(seq) :
             turn[k] = IF seq[k] \in set THEN Append(turn[k - 1], seq[k]) ELSE turn[k - 1]
        /\ Where(seq, set) = turn[Len(seq)]
  BY WhereTurns
<1> DEFINE Good(n) == /\ turn[n] \in Seq(S)
                      /\ \A j \in DOMAIN turn[n] : turn[n][j] \in set
                      /\ \A k \in 1 .. n : seq[k] \in set =>
                           \E j \in DOMAIN turn[n] : turn[n][j] = seq[k]
           bad == {n \in 0 .. Len(seq) : ~Good(n)}
<1>2. Len(seq) \in Nat /\ DOMAIN seq = 1 .. Len(seq)
  OBVIOUS
<1>3. bad = {}
  <2> SUFFICES ASSUME bad # {} PROVE FALSE
    OBVIOUS
  <2>1. PICK n \in bad : \A i \in bad : n <= i
    <3>1. bad \in SUBSET Nat
      BY <1>2
    <3> HIDE DEF bad
    <3> QED
      BY <3>1, LeastNatural
  <2>2. Good(0)
    BY <1>1
  <2>3. n \in 1 .. Len(seq) /\ n - 1 \in 0 .. Len(seq) /\ Good(n - 1)
    <3>1. n # 0
      BY <2>1, <2>2
    <3>2. n \in 1 .. Len(seq) /\ n - 1 \in 0 .. Len(seq)
      BY <1>2, <2>1, <3>1
    <3> QED
      BY <2>1, <3>2
  <2> DEFINE old == turn[n - 1]
             new == turn[n]
  <2>4. /\ old \in Seq(S) /\ seq[n] \in S
        /\ new = IF seq[n] \in set THEN Append(old, seq[n]) ELSE old
    BY <1>1, <2>3
  <2>5. /\ \A j \in DOMAIN old : old[j] \in set
        /\ \A k \in 1 .. (n - 1) : seq[k] \in set => \E j \in DOMAIN old : old[j] = seq[k]
    BY <2>3
  <2>6. \A k \in 1 .. n : k = n \/ k \in 1 .. (n - 1)
    BY <2>3
  <2> HIDE DEF old, new, bad
  <2>7. CASE seq[n] \notin set
    <3>1. new = old
      BY <2>4, <2>7
    <3>2. Good(n)
      BY <2>4, <2>5, <2>6, <2>7, <3>1 DEF old, new
    <3> QED
      BY <2>1, <3>2 DEF bad
  <2>8. CASE seq[n] \in set
    <3>1. /\ new \in Seq(S) /\ Len(new) = Len(old) + 1 /\ DOMAIN new = 1 .. Len(old) + 1
          /\ Len(old) \in Nat /\ DOMAIN old = 1 .. Len(old)
          /\ new[Len(old) + 1] = seq[n] /\ \A j \in 1 .. Len(old) : new[j] = old[j]
      BY <2>4, <2>8, AppendProperties
    <3>2. \A j \in DOMAIN new : new[j] \in set
      BY <2>5, <2>8, <3>1
    <3>3. ASSUME NEW k \in 1 .. n, seq[k] \in set
          PROVE  \E j \in DOMAIN new : new[j] = seq[k]
      <4>1. CASE k = n
        BY <3>1, <4>1
      <4>2. CASE k \in 1 .. (n - 1)
        <5>1. PICK j \in DOMAIN old : old[j] = seq[k]
          BY <2>5, <3>3, <4>2
        <5>2. j \in DOMAIN new /\ new[j] = seq[k]
          BY <3>1, <5>1
        <5> QED
          BY <5>2
      <4> QED
        BY <2>6, <4>1, <4>2
    <3>4. Good(n)
      BY <3>1, <3>2, <3>3 DEF new
    <3> QED
      BY <2>1, <3>4 DEF bad
  <2> QED
    BY <2>7, <2>8
<1>4. Good(Len(seq))
  BY <1>2, <1>3
<1> QED
  BY <1>1, <1>2, <1>4

-----------------------------------------------------------------------------
(* Where a result goes. *)

\* A target is resolved to a component like it, its own slot first.
LEMMA ResolvedIs ==
  ASSUME NEW masks \in Seq(Component), NEW target,
         NEW at, at = Resolved(masks, target)
  PROVE  /\ at \in {0} \cup DOMAIN masks
         /\ at # 0 => masks[at] = target.component
         /\ target.at \in DOMAIN masks /\ masks[target.at] = target.component => at = target.at
<1> DEFINE same == {i \in DOMAIN masks : masks[i] = target.component}
<1>1. CASE target.at \in same
  BY <1>1 DEF Resolved
<1>2. CASE target.at \notin same
  <2>1. CASE Cardinality(same) = 1
    <3>1. same # {}
      BY <2>1, FS_EmptySet
    <3>2. at = CHOOSE i \in same : TRUE
      BY <1>2, <2>1 DEF Resolved
    <3>3. at \in same
      BY <3>1, <3>2
    <3> QED
      BY <1>2, <3>3
  <2>2. CASE Cardinality(same) # 1
    <3>1. at = 0
      BY <1>2, <2>2 DEF Resolved
    <3> QED
      BY <1>2, <3>1
  <2> QED
    BY <2>1, <2>2
<1> QED
  BY <1>1, <1>2

\* The types of a component and its result.
LEMMA MadeIsResult ==
  ASSUME NEW content \in Contents, NEW input \in Input
  PROVE  Made(content, input) \in Result
  BY DEF Made, Result

\* A component that is given a result stays one, with its kind and input.
LEMMA RemadeIsComponent ==
  ASSUME NEW c \in Component, NEW r \in Result
  PROVE  LET d == [c EXCEPT !.made = r]
         IN d \in Component /\ d.kind = c.kind /\ d.input = c.input /\ d.made = r
  BY DEF Component

\* A job's target: a component and where it was (capture_ai_target).
TargetType == [at : 1 .. MaxMasks, component : Component]

\* One people mask is written.
Written(masks, found, k) ==
  IF k \notin found \/ Resolved(masks, op.targets[k]) = 0 THEN masks
  ELSE [masks EXCEPT ![Resolved(masks, op.targets[k])].made =
          Made(op.content, op.targets[k].component.input)]

\* One turn of apply_people_masks writes the mask of a target that people were found for,
\* where the target is resolved to, and no other.
LEMMA WrittenIs ==
  ASSUME NEW masks \in Seq(Component), NEW found, NEW k \in DOMAIN op.targets,
         op.targets \in Seq(TargetType),
         op.content \in Contents
  PROVE  LET new == Written(masks, found, k)
             at == Resolved(masks, op.targets[k])
         IN /\ new \in Seq(Component) /\ Len(new) = Len(masks) /\ DOMAIN new = DOMAIN masks
            /\ \A i \in DOMAIN masks :
                 \/ new[i] = masks[i] /\ ~(k \in found /\ i = at)
                 \/ /\ k \in found /\ i = at /\ masks[i] = op.targets[k].component
                    /\ new[i] = [masks[i] EXCEPT !.made = Made(op.content, masks[i].input)]
<1> DEFINE new == Written(masks, found, k)
           at == Resolved(masks, op.targets[k])
<1>1. /\ at \in {0} \cup DOMAIN masks
      /\ at # 0 => masks[at] = op.targets[k].component
      /\ DOMAIN masks = 1 .. Len(masks) /\ Len(masks) \in Nat
  BY ResolvedIs
<1>2. CASE k \notin found \/ at = 0
  <2>1. new = masks
    BY <1>2 DEF Written
  <2>2. \A i \in DOMAIN masks : ~(k \in found /\ i = at)
    BY <1>1, <1>2
  <2> QED
    BY <1>1, <2>1, <2>2
<1>3. CASE k \in found /\ at # 0
  <2> DEFINE c == [masks[at] EXCEPT !.made = Made(op.content, masks[at].input)]
  <2>1. at \in 1 .. Len(masks) /\ masks[at] \in Component /\ masks[at] = op.targets[k].component
    <3> HIDE DEF at
    <3>1. at \in 1 .. Len(masks)
      BY <1>1, <1>3
    <3> QED
      BY <1>1, <1>3, <3>1, ElementOfSeq
  <2>2. c \in Component
    <3>1. masks[at].input \in Input
      BY <2>1 DEF Component
    <3> QED
      BY <2>1, <3>1, MadeIsResult, RemadeIsComponent
  <2>3. new = [masks EXCEPT ![at] = c]
    BY <1>3, <2>1 DEF Written
  <2> HIDE DEF c
  <2>4. /\ new \in Seq(Component) /\ Len(new) = Len(masks)
        /\ \A j \in 1 .. Len(masks) : new[j] = IF j = at THEN c ELSE masks[j]
    BY <2>1, <2>2, <2>3, ExceptSeq
  <2> HIDE DEF new, at
  <2>5. \A i \in DOMAIN masks :
          \/ new[i] = masks[i] /\ ~(k \in found /\ i = at)
          \/ k \in found /\ i = at /\ masks[i] = op.targets[k].component /\ new[i] = c
    BY <1>1, <1>3, <2>1, <2>4
  <2> QED
    BY <1>1, <2>4, <2>5 DEF c, new, at
<1> QED
  BY <1>2, <1>3

\* apply_people_masks, mask by mask.
LEMMA PeopleTurns ==
  ASSUME NEW masks \in Seq(Component), NEW found,
         op.targets \in Seq(TargetType),
         op.content \in Contents
  PROVE  \E turn : /\ turn[0] = masks
                   /\ \A k \in 1 .. Len(op.targets) :
                        turn[k] = Written(turn[k - 1], found, k)
                   /\ WithPeople(masks, found) = turn[Len(op.targets)]
<1> DEFINE d == 1 .. Len(op.targets)
           f == [k \in d |-> [v \in Seq(Component) |-> Written(v, found, k)]]
           Is(g) == g = [s \in SUBSET d |-> IF s = {} THEN masks
                           ELSE Written(g[s \ {Max(s)}], found, Max(s))]
<1>1. DOMAIN op.targets = d /\ Len(op.targets) \in Nat
  OBVIOUS
<1>2. \E g : Is(g)
  <2>1. f \in [d -> [Seq(Component) -> Seq(Component)]]
    <3>1. \A v \in Seq(Component), k \in d : Written(v, found, k) \in Seq(Component)
      BY <1>1, WrittenIs
    <3> QED
      BY <3>1
  <2>2. PICK g : FoldOf(masks, f, d, g) /\ \A s \in SUBSET d : g[s] \in Seq(Component)
    <3> HIDE DEF f
    <3> QED
      BY <1>1, <2>1, FoldExists
  <2>3. ASSUME NEW s \in SUBSET d, s # {}
        PROVE  Max(s) \in d /\ s \ {Max(s)} \in SUBSET d
    <3>1. Max(s) \in s
      BY <1>1, <2>3, MaxIsIn
    <3> QED
      BY <3>1
  <2>4. ASSUME NEW s \in SUBSET d, s # {}
        PROVE  f[Max(s)][g[s \ {Max(s)}]] = Written(g[s \ {Max(s)}], found, Max(s))
    BY <2>2, <2>3, <2>4
  <2>5. Is(g)
    <3> HIDE DEF f
    <3> QED
      BY <2>2, <2>4 DEF FoldOf
  <2> QED
    BY <2>5
<1> DEFINE h == CHOOSE g : Is(g)
<1>3. Is(h)
  BY <1>2
<1>4. WithPeople(masks, found) = h[d]
  <2> DEFINE positions == [k \in DOMAIN op.targets |-> k]
             Unfolded(g) == g = [s \in SUBSET DOMAIN positions |->
               IF s = {} THEN masks ELSE Written(g[s \ {Max(s)}], found, positions[Max(s)])]
  <2>1. WithPeople(masks, found) = (CHOOSE g : Unfolded(g))[DOMAIN positions]
    BY DEF WithPeople, FoldLeft, MapThenFoldSet, Written
  <2>2. ASSUME NEW g
        PROVE  Unfolded(g) <=> Is(g)
    <3>1. DOMAIN positions = d /\ \A k \in d : positions[k] = k
      BY <1>1
    <3>2. \A s \in SUBSET d : s # {} => Max(s) \in d
      BY <1>1, MaxIsIn
    <3> HIDE DEF positions
    <3>3. \A s \in SUBSET d :
            (IF s = {} THEN masks ELSE Written(g[s \ {Max(s)}], found, positions[Max(s)]))
              = (IF s = {} THEN masks ELSE Written(g[s \ {Max(s)}], found, Max(s)))
      BY <3>1, <3>2
    <3> QED
      BY <3>1, <3>3
  <2>3. (CHOOSE g : Unfolded(g)) = h
    <3> HIDE DEF Unfolded, Is
    <3> QED
      BY <2>2
  <2>4. DOMAIN positions = d
    BY <1>1
  <2> QED
    BY <2>1, <2>3, <2>4
<1> HIDE DEF h
<1> DEFINE turn == [k \in 0 .. Len(op.targets) |-> h[1 .. k]]
<1>5. turn[0] = masks
  <2>1. 1 .. 0 = {}
    OBVIOUS
  <2>2. h[{}] = masks
    BY <1>3
  <2> QED
    BY <1>1, <2>1, <2>2
<1>6. ASSUME NEW k \in 1 .. Len(op.targets)
      PROVE  turn[k] = Written(turn[k - 1], found, k)
  <2>1. /\ 1 .. k \in SUBSET d /\ 1 .. k # {} /\ Max(1 .. k) = k
        /\ (1 .. k) \ {Max(1 .. k)} = 1 .. (k - 1)
    BY <1>1, MaxOfFirst
  <2>2. h[1 .. k] = Written(h[1 .. (k - 1)], found, k)
    BY <1>3, <2>1
  <2> QED
    BY <1>1, <2>2
<1>7. turn[Len(op.targets)] = h[d]
  BY <1>1
<1> HIDE DEF turn
<1> QED
  BY <1>4, <1>5, <1>6, <1>7

-----------------------------------------------------------------------------
(* What the edit, the jobs and the update are. *)

\* A result goes with its component's input: all subjects share one, and an object
\* without a stroke has none.
WellMade(c) ==
  /\ c.kind = "subject" => c.input = 0 /\ c.made.input = 0
  /\ c.kind = "object" /\ c.input = 0 => c.made = NoResult
\* Components, masks and edits whose results go with their inputs.
SoundComponent == {c \in Component : WellMade(c)}
SoundMasks == {masks \in Seq(SoundComponent) : Len(masks) <= MaxMasks}
SoundEdit == [masks : SoundMasks, content : 0 .. MaxContents]

\* The types of the variables.
DocFits == doc \in [generation : 1 .. MaxGeneration, loading : BOOLEAN, stale : BOOLEAN,
                    contents : Contents]
HistoryFits ==
  /\ history \in [undo : Seq(SoundEdit), redo : Seq(SoundEdit)]
  /\ Len(history.undo) <= MaxHistory /\ Len(history.redo) <= MaxHistory
CacheType == [source : Contents, subject : Contents, people : Contents]
ComposeType == [at : 1 .. MaxMasks, base : Input, target : Input, content : Contents]

StepType == [kind : Kinds, at : 0 .. MaxMasks]
UpdateType == [running : BOOLEAN, failed : BOOLEAN, steps : Seq(StepType)]
AiType == [consent : Kinds \cup {NoKind}, object : 0 .. MaxMasks, people : Seq(1 .. MaxMasks),
           update : UpdateType]
OpType == [kind : Kinds \cup {NoKind}, document : 0 .. MaxGeneration, cancelled : BOOLEAN,
           content : Contents, masks : {"none", "made", "error"}, targets : Seq(TargetType)]

\* What is staged waits for its consent and is in the edit.
AiFits(a, masks) ==
  /\ a \in AiType
  /\ a.object # None => a.consent = "object" /\ a.object \in Needing(masks, "object")
  /\ a.people # <<>> => a.consent = "person"
  /\ \A k \in DOMAIN a.people : a.people[k] \in Needing(masks, "person")
  /\ a.consent = "subject" => Needing(masks, "subject") # {}
  /\ a.consent = "object" /\ a.update.running => a.object # None
  /\ a.consent = "person" /\ a.update.running => a.people # <<>>

\* A job's targets are of its kind; that of an object has a stroke.
OpFits(o) ==
  /\ o \in OpType
  /\ o = NoOp \/ o.kind \in Kinds
  /\ o.kind = "object" => Len(o.targets) = 1 /\ Derived(o.targets[1].component)
  /\ \A k \in DOMAIN o.targets : o.targets[k].component.kind = o.kind

\* One dialog at a time, and an update has one.
OneDialog(a, o) ==
  /\ o # NoOp => a.consent = NoKind
  /\ a.update.running => o # NoOp \/ a.consent # NoKind

\* A job whose result would be accepted is for a subject of the edit.
SubjectIsWanted == op.kind = "subject" /\ Accepted => Needing(edit.masks, "subject") # {}

\* Nothing of the photo before is left while one is loaded.
LoadingIsQuiet ==
  doc.loading =>
    /\ op = NoOp \/ ~Accepted
    /\ ai.consent = NoKind /\ ~ai.update.running /\ composes = {} /\ ~retouch
    /\ cache = NoCache /\ edit.masks = <<>>

-----------------------------------------------------------------------------
(* What an update makes again. *)

\* The masks whose result is of another content than the given one.
StaleMasks(masks, content) ==
  {i \in DOMAIN masks : masks[i].made # NoResult /\ masks[i].made.content # content}

\* How a mask is made again: by a step of the update, by the staged request that waits for
\* consent, or by the job that runs.
BySteps(steps, masks, i) ==
  \E k \in DOMAIN steps :
    steps[k].kind = masks[i].kind /\ (masks[i].kind = "object" => steps[k].at = i)
ByRequest(kind, a, masks, i) ==
  /\ kind = masks[i].kind
  /\ kind = "object" => a.object = i
  /\ kind = "person" => \E k \in DOMAIN a.people : a.people[k] = i
ByOp(o, masks, i) ==
  /\ o.kind = masks[i].kind
  /\ o.kind # "subject" => \E k \in DOMAIN o.targets : o.targets[k] = Target(masks, i)
  /\ o.kind = "person" => o.masks = "none"

\* An update that has not failed still has every stale result before it: in its steps, in the
\* job that waits for consent, or in the job that runs.
UpdateCovers(a, o, masks, content) ==
  a.update.running /\ ~a.update.failed =>
    \/ o.kind = "person" /\ o.masks = "error"
    \/ \A i \in StaleMasks(masks, content) :
         BySteps(a.update.steps, masks, i) \/ ByRequest(a.consent, a, masks, i) \/ ByOp(o, masks, i)

\* The subject's result in use is of the edit's content (the cache of generated masks).
FreshSubject == cache.subject \in {NoContent, edit.content}

\* The inductive invariant: types, what goes with a dialog and a load, the subject's result of
\* a marked edit, and the stale results an update still makes again.
JobsInv ==
  /\ DocFits /\ edit \in SoundEdit /\ HistoryFits /\ cache \in CacheType
  /\ composes \subseteq ComposeType /\ retouch \in BOOLEAN /\ actions \in 0 .. MaxActions
  /\ AiFits(ai, edit.masks) /\ OpFits(op) /\ OneDialog(ai, op)
  /\ SubjectIsWanted /\ LoadingIsQuiet
  /\ doc.stale \/ ai.update.running => FreshSubject
  /\ (op # NoOp => Accepted) => UpdateCovers(ai, op, edit.masks, edit.content)

-----------------------------------------------------------------------------
(* Masks. *)

\* Sound masks are a sequence of components, of which there are MAX_LOCAL_MASKS at most.
LEMMA SoundIs ==
  ASSUME NEW masks \in SoundMasks
  PROVE  /\ masks \in Seq(SoundComponent) /\ masks \in Seq(Component)
         /\ Len(masks) \in Nat /\ Len(masks) <= MaxMasks
         /\ DOMAIN masks = 1 .. Len(masks) /\ DOMAIN masks \subseteq 1 .. MaxMasks
         /\ \A i \in DOMAIN masks : masks[i] \in Component /\ WellMade(masks[i])
<1>1. masks \in Seq(SoundComponent) /\ Len(masks) \in Nat /\ Len(masks) <= MaxMasks
      /\ DOMAIN masks = 1 .. Len(masks)
  BY DEF SoundMasks
<1>2. \A i \in DOMAIN masks : masks[i] \in SoundComponent
  BY <1>1, ElementOfSeq
<1>3. SoundComponent \subseteq Component
  BY DEF SoundComponent
<1>4. masks \in Seq(Component)
  BY <1>1, <1>3, SeqMonotonic
<1>5. DOMAIN masks \subseteq 1 .. MaxMasks
  BY <1>1, ContentAssumption
<1> QED
  BY <1>1, <1>2, <1>4, <1>5 DEF SoundComponent

\* The positions that need a kind of job.
LEMMA NeedingIs ==
  ASSUME NEW masks \in SoundMasks, NEW kind
  PROVE  /\ Needing(masks, kind) \subseteq DOMAIN masks
         /\ Needing(masks, kind) \subseteq 1 .. MaxMasks
         /\ \A i \in Needing(masks, kind) : masks[i].kind = kind /\ Derived(masks[i])
         /\ \A i \in DOMAIN masks : masks[i].kind = kind /\ kind # "object" => i \in Needing(masks, kind)
         /\ \A content : \A i \in StaleMasks(masks, content) :
              masks[i].kind = kind => i \in Needing(masks, kind)
<1>1. DOMAIN masks \subseteq 1 .. MaxMasks /\ \A i \in DOMAIN masks : WellMade(masks[i])
  BY SoundIs
<1> QED
  BY <1>1 DEF Needing, Derived, StaleMasks, WellMade

\* The positions of an update for a kind are those that need it, every one of them.
LEMMA IndicesAre ==
  ASSUME NEW masks \in SoundMasks, NEW kind
  PROVE  /\ Indices(masks, kind) \in Seq(1 .. MaxMasks)
         /\ \A k \in DOMAIN Indices(masks, kind) : Indices(masks, kind)[k] \in Needing(masks, kind)
         /\ \A i \in Needing(masks, kind) : \E k \in DOMAIN Indices(masks, kind) : Indices(masks, kind)[k] = i
<1> DEFINE positions == [i \in DOMAIN masks |-> i]
<1>1. /\ Len(masks) \in Nat /\ DOMAIN masks = 1 .. Len(masks)
      /\ DOMAIN masks \subseteq 1 .. MaxMasks
  BY SoundIs
<1>2. /\ positions \in Seq(1 .. MaxMasks) /\ DOMAIN positions = DOMAIN masks
      /\ \A i \in DOMAIN masks : positions[i] = i
  <2>1. positions \in [1 .. Len(masks) -> 1 .. MaxMasks]
    BY <1>1
  <2> QED
    BY <1>1, <2>1, SeqDef
<1>3. Needing(masks, kind) \subseteq DOMAIN masks
  BY NeedingIs
<1> HIDE DEF positions
<1>4. LET w == Where(positions, Needing(masks, kind))
      IN /\ w \in Seq(1 .. MaxMasks)
         /\ \A j \in DOMAIN w : w[j] \in Needing(masks, kind)
         /\ \A k \in DOMAIN positions :
              positions[k] \in Needing(masks, kind) => \E j \in DOMAIN w : w[j] = positions[k]
  BY <1>2, WhereIs
<1> QED
  BY <1>2, <1>3, <1>4 DEF Indices, positions

\* Some masks are made again from the content, or with other people.
Refreshes(masks, new, content) ==
  /\ new \in Seq(Component) /\ Len(new) = Len(masks)
  /\ \A i \in DOMAIN masks :
       \/ new[i] = masks[i]
       \/ /\ new[i].kind = masks[i].kind /\ Derived(masks[i]) /\ Derived(new[i])
          /\ new[i].kind = "subject" => new[i].input = masks[i].input
          /\ new[i].made = Made(content, new[i].input)

\* Masks made again stay sound and need the same jobs, and none of them becomes stale.
LEMMA RefreshedIs ==
  ASSUME NEW masks \in SoundMasks, NEW new, NEW content, Refreshes(masks, new, content)
  PROVE  /\ new \in SoundMasks /\ DOMAIN new = DOMAIN masks
         /\ \A kind : Needing(new, kind) = Needing(masks, kind)
         /\ \A i \in StaleMasks(new, content) : i \in StaleMasks(masks, content) /\ new[i] = masks[i]
<1>1. /\ DOMAIN masks = 1 .. Len(masks) /\ DOMAIN new = DOMAIN masks /\ Len(new) <= MaxMasks
      /\ \A i \in DOMAIN masks : masks[i] \in Component /\ WellMade(masks[i])
      /\ \A i \in DOMAIN new : new[i] \in Component
  BY SoundIs DEF Refreshes
<1>2. ASSUME NEW i \in DOMAIN masks
      PROVE  /\ WellMade(new[i])
             /\ Derived(new[i]) <=> Derived(masks[i])
             /\ new[i].kind = masks[i].kind
             /\ new[i] # masks[i] => new[i].made = Made(content, new[i].input)
  <2>1. CASE new[i] = masks[i]
    BY <1>1, <2>1
  <2>2. CASE new[i] # masks[i]
    <3>1. /\ new[i].kind = masks[i].kind /\ Derived(masks[i]) /\ Derived(new[i])
          /\ new[i].kind = "subject" => new[i].input = masks[i].input
          /\ new[i].made = Made(content, new[i].input)
      BY <2>2 DEF Refreshes
    <3>2. WellMade(new[i])
      BY <1>1, <3>1 DEF WellMade, Derived, Made
    <3> QED
      BY <3>1, <3>2
  <2> QED
    BY <2>1, <2>2
<1>3. new \in SoundMasks
  <2>1. \A i \in DOMAIN new : new[i] \in SoundComponent
    BY <1>1, <1>2 DEF SoundComponent
  <2>2. new \in Seq(SoundComponent)
    <3>1. new \in [1 .. Len(new) -> SoundComponent] /\ Len(new) \in Nat
      BY <2>1 DEF Refreshes
    <3> QED
      BY <3>1, SeqDef
  <2> QED
    BY <1>1, <2>2 DEF SoundMasks
<1>4. \A kind : Needing(new, kind) = Needing(masks, kind)
  BY <1>1, <1>2 DEF Needing
<1>5. \A i \in StaleMasks(new, content) : i \in StaleMasks(masks, content) /\ new[i] = masks[i]
  <2> SUFFICES ASSUME NEW i \in StaleMasks(new, content)
               PROVE  i \in StaleMasks(masks, content) /\ new[i] = masks[i]
    OBVIOUS
  <2>1. i \in DOMAIN masks /\ new[i].made # NoResult /\ new[i].made.content # content
    BY <1>1 DEF StaleMasks
  <2>2. Made(content, new[i].input).content = content
    BY DEF Made
  <2>3. new[i] = masks[i]
    BY <1>2, <2>1, <2>2
  <2> QED
    BY <2>1, <2>3 DEF StaleMasks
<1> QED
  BY <1>1, <1>3, <1>4, <1>5

\* A component the user makes has no result.
LEMMA NewIsSound ==
  ASSUME NEW kind \in Kinds
  PROVE  New(kind) \in SoundComponent /\ New(kind).kind = kind /\ New(kind).made = NoResult
<1>1. 0 \in Input /\ NoContent \in Contents
  BY ContentAssumption DEF Input, Contents, NoContent
<1>2. NoResult \in Result
  BY <1>1 DEF NoResult, Result
<1>3. New(kind) \in Component
  BY <1>1, <1>2 DEF New, Component
<1> QED
  BY <1>3 DEF New, SoundComponent, WellMade, NoResult

\* A component is added at the end (start_new_mask_component).
LEMMA AppendedIsSound ==
  ASSUME NEW masks \in SoundMasks, Len(masks) < MaxMasks, NEW c \in SoundComponent
  PROVE  LET new == Append(masks, c)
         IN /\ new \in SoundMasks /\ Len(new) = Len(masks) + 1 /\ new[Len(masks) + 1] = c
            /\ DOMAIN new = 1 .. Len(masks) + 1
            /\ \A i \in DOMAIN masks : new[i] = masks[i]
<1> DEFINE new == Append(masks, c)
<1>1. masks \in Seq(SoundComponent) /\ Len(masks) \in Nat /\ DOMAIN masks = 1 .. Len(masks)
  BY SoundIs
<1>2. /\ new \in Seq(SoundComponent) /\ Len(new) = Len(masks) + 1 /\ new[Len(masks) + 1] = c
      /\ \A i \in 1 .. Len(masks) : new[i] = masks[i]
  BY <1>1, AppendProperties
<1>3. DOMAIN new = 1 .. Len(masks) + 1
  BY <1>2
<1> HIDE DEF new
<1>4. Len(new) <= MaxMasks
  BY <1>1, <1>2, ContentAssumption
<1> QED
  BY <1>1, <1>2, <1>3, <1>4 DEF SoundMasks, new

\* A component is replaced, the others stay.
LEMMA ReplacedIsSound ==
  ASSUME NEW masks \in SoundMasks, NEW i \in DOMAIN masks, NEW c \in SoundComponent
  PROVE  LET new == [masks EXCEPT ![i] = c]
         IN /\ new \in SoundMasks /\ DOMAIN new = DOMAIN masks /\ new[i] = c
            /\ \A j \in DOMAIN masks : j # i => new[j] = masks[j]
<1> DEFINE new == [masks EXCEPT ![i] = c]
<1>1. /\ masks \in Seq(SoundComponent) /\ DOMAIN masks = 1 .. Len(masks)
      /\ Len(masks) <= MaxMasks /\ i \in 1 .. Len(masks)
  BY SoundIs
<1>2. /\ new \in Seq(SoundComponent) /\ Len(new) = Len(masks)
      /\ \A j \in 1 .. Len(masks) : new[j] = IF j = i THEN c ELSE masks[j]
  BY <1>1, ExceptSeq
<1>3. DOMAIN new = DOMAIN masks
  OBVIOUS
<1> HIDE DEF new
<1> QED
  BY <1>1, <1>2, <1>3 DEF SoundMasks, new

\* A copy, or a component less: nothing that was not there.
From(new, masks) == \A k \in DOMAIN new : \E j \in DOMAIN masks : new[k] = masks[j]

\* A part of a sequence has only its members.
LEMMA CutIs ==
  ASSUME NEW S, NEW masks \in Seq(S), NEW a \in Nat, NEW b \in Nat, a >= 1, b <= Len(masks)
  PROVE  LET cut == SubSeq(masks, a, b)
         IN /\ cut \in Seq(S) /\ From(cut, masks)
            /\ Len(cut) = IF a <= b THEN b - a + 1 ELSE 0
<1> DEFINE cut == SubSeq(masks, a, b)
<1>1. Len(masks) \in Nat /\ DOMAIN masks = 1 .. Len(masks) /\ \A k \in DOMAIN masks : masks[k] \in S
  OBVIOUS
<1>2. \A k \in a .. b : k \in DOMAIN masks
  BY <1>1
<1>3. \A k \in a .. b : masks[k] \in S
  BY <1>1, <1>2
<1>4. /\ cut \in Seq(S)
      /\ Len(cut) = IF a <= b THEN b - a + 1 ELSE 0
      /\ \A k \in 1 .. b - a + 1 : cut[k] = masks[a + k - 1]
  BY <1>3, SubSeqProperties
<1> HIDE DEF cut
<1>5. DOMAIN cut = 1 .. Len(cut)
  BY <1>4
<1>6. ASSUME NEW k \in DOMAIN cut
      PROVE  \E j \in DOMAIN masks : cut[k] = masks[j]
  <2>1. k \in 1 .. b - a + 1 /\ a + k - 1 \in a .. b
    BY <1>4, <1>5
  <2> QED
    BY <1>2, <1>4, <2>1
<1> QED
  BY <1>4, <1>6 DEF cut, From

\* Joined sequences have only the members of both.
LEMMA JoinedIs ==
  ASSUME NEW S, NEW masks, NEW p \in Seq(S), NEW q \in Seq(S), From(p, masks), From(q, masks)
  PROVE  p \o q \in Seq(S) /\ From(p \o q, masks) /\ Len(p \o q) = Len(p) + Len(q)
<1>1. /\ p \o q \in Seq(S) /\ Len(p \o q) = Len(p) + Len(q)
      /\ \A i \in 1 .. Len(p) + Len(q) : (p \o q)[i] = IF i <= Len(p) THEN p[i] ELSE q[i - Len(p)]
  BY ConcatProperties
<1>2. /\ Len(p) \in Nat /\ DOMAIN p = 1 .. Len(p) /\ Len(q) \in Nat /\ DOMAIN q = 1 .. Len(q)
      /\ DOMAIN (p \o q) = 1 .. Len(p) + Len(q)
  BY <1>1, LenProperties
<1>3. ASSUME NEW k \in DOMAIN (p \o q)
      PROVE  \E j \in DOMAIN masks : (p \o q)[k] = masks[j]
  <2>1. CASE k <= Len(p)
    BY <1>1, <1>2, <2>1 DEF From
  <2>2. CASE ~(k <= Len(p))
    <3>1. k - Len(p) \in DOMAIN q /\ (p \o q)[k] = q[k - Len(p)]
      BY <1>1, <1>2, <2>2
    <3> QED
      BY <3>1 DEF From
  <2> QED
    BY <2>1, <2>2
<1> QED
  BY <1>1, <1>3 DEF From

\* duplicate_component: sound masks with a copy of one are sound.
LEMMA InsertedIsSound ==
  ASSUME NEW masks \in SoundMasks, Len(masks) < MaxMasks, NEW i \in DOMAIN masks
  PROVE  LET new == InsertAt(masks, i + 1, masks[i])
         IN new \in SoundMasks /\ From(new, masks)
<1> DEFINE front == SubSeq(masks, 1, i)
           copy == <<masks[i]>>
           back == SubSeq(masks, i + 1, Len(masks))
<1>1. /\ masks \in Seq(SoundComponent) /\ DOMAIN masks = 1 .. Len(masks)
      /\ Len(masks) \in Nat /\ i \in Nat /\ i >= 1 /\ i <= Len(masks) /\ i + 1 \in Nat
      /\ masks[i] \in SoundComponent
  BY SoundIs, ElementOfSeq
<1>2. front \in Seq(SoundComponent) /\ From(front, masks) /\ Len(front) = i
  <2>1. /\ front \in Seq(SoundComponent) /\ From(front, masks)
        /\ Len(front) = IF 1 <= i THEN i - 1 + 1 ELSE 0
    BY <1>1, CutIs
  <2> HIDE DEF front
  <2> QED
    BY <1>1, <2>1
<1>3. back \in Seq(SoundComponent) /\ From(back, masks) /\ Len(back) = Len(masks) - i
  <2>1. /\ back \in Seq(SoundComponent) /\ From(back, masks)
        /\ Len(back) = IF i + 1 <= Len(masks) THEN Len(masks) - (i + 1) + 1 ELSE 0
    BY <1>1, CutIs
  <2> HIDE DEF back
  <2> QED
    BY <1>1, <2>1
<1>4. copy \in Seq(SoundComponent) /\ From(copy, masks) /\ Len(copy) = 1
  BY <1>1 DEF From
<1>5. InsertAt(masks, i + 1, masks[i]) = front \o copy \o back
  <2>1. (i + 1) - 1 = i
    BY <1>1
  <2> QED
    BY <2>1 DEF InsertAt
<1> HIDE DEF front, back, copy
<1> DEFINE most == front \o copy
<1>6. most \in Seq(SoundComponent) /\ From(most, masks) /\ Len(most) = i + 1
  BY <1>2, <1>4, JoinedIs
<1> HIDE DEF most
<1>7. /\ most \o back \in Seq(SoundComponent) /\ From(most \o back, masks)
      /\ Len(most \o back) = (i + 1) + (Len(masks) - i)
  BY <1>3, <1>6, JoinedIs
<1>8. (i + 1) + (Len(masks) - i) <= MaxMasks
  BY <1>1, ContentAssumption
<1> QED
  BY <1>5, <1>7, <1>8 DEF SoundMasks, most

\* Sound masks without one of them are sound.
LEMMA RemovedIsSound ==
  ASSUME NEW masks \in SoundMasks, NEW i \in DOMAIN masks
  PROVE  LET new == RemoveAt(masks, i)
         IN new \in SoundMasks /\ From(new, masks)
<1> DEFINE front == SubSeq(masks, 1, i - 1)
           back == SubSeq(masks, i + 1, Len(masks))
<1>1. /\ masks \in Seq(SoundComponent) /\ DOMAIN masks = 1 .. Len(masks) /\ Len(masks) <= MaxMasks
      /\ Len(masks) \in Nat /\ i - 1 \in Nat /\ i \in Nat /\ i >= 1 /\ i <= Len(masks) /\ i + 1 \in Nat
  BY SoundIs
<1>2. front \in Seq(SoundComponent) /\ From(front, masks) /\ Len(front) = i - 1
  <2>1. /\ front \in Seq(SoundComponent) /\ From(front, masks)
        /\ Len(front) = IF 1 <= i - 1 THEN (i - 1) - 1 + 1 ELSE 0
    BY <1>1, CutIs
  <2> HIDE DEF front
  <2> QED
    BY <1>1, <2>1
<1>3. back \in Seq(SoundComponent) /\ From(back, masks) /\ Len(back) = Len(masks) - i
  <2>1. /\ back \in Seq(SoundComponent) /\ From(back, masks)
        /\ Len(back) = IF i + 1 <= Len(masks) THEN Len(masks) - (i + 1) + 1 ELSE 0
    BY <1>1, CutIs
  <2> HIDE DEF back
  <2> QED
    BY <1>1, <2>1
<1>4. RemoveAt(masks, i) = front \o back
  BY DEF RemoveAt
<1> HIDE DEF front, back
<1>5. /\ front \o back \in Seq(SoundComponent) /\ From(front \o back, masks)
      /\ Len(front \o back) = (i - 1) + (Len(masks) - i)
  BY <1>2, <1>3, JoinedIs
<1>6. (i - 1) + (Len(masks) - i) <= MaxMasks
  BY <1>1, ContentAssumption
<1> QED
  BY <1>4, <1>5, <1>6 DEF SoundMasks

-----------------------------------------------------------------------------
(* The history. *)

\* The history keeps the last MaxHistory edits.
LEMMA BoundedIs ==
  ASSUME NEW S, NEW seq \in Seq(S), Len(seq) <= MaxHistory, NEW e \in S
  PROVE  LET new == Bounded(Append(seq, e))
         IN /\ new \in Seq(S) /\ Len(new) <= MaxHistory
            /\ \A k \in DOMAIN new : new[k] = e \/ \E j \in DOMAIN seq : new[k] = seq[j]
<1> DEFINE longer == Append(seq, e)
           new == Bounded(longer)
<1>1. /\ longer \in Seq(S) /\ Len(longer) = Len(seq) + 1 /\ Len(seq) \in Nat
      /\ DOMAIN seq = 1 .. Len(seq) /\ longer[Len(seq) + 1] = e
      /\ \A k \in 1 .. Len(seq) : longer[k] = seq[k]
  BY AppendProperties
<1>2. MaxHistory \in Nat
  BY ContentAssumption
<1>3. \A k \in 1 .. Len(seq) + 1 : longer[k] = e \/ \E j \in DOMAIN seq : longer[k] = seq[j]
  BY <1>1
<1> HIDE DEF longer
<1>4. CASE Len(longer) > MaxHistory
  <2>1. new = Tail(longer) /\ longer # <<>>
    BY <1>1, <1>4 DEF Bounded
  <2>2. /\ Tail(longer) \in Seq(S) /\ Len(Tail(longer)) = Len(longer) - 1
        /\ \A k \in 1 .. Len(Tail(longer)) : Tail(longer)[k] = longer[k + 1]
    BY <1>1, <2>1, HeadTailProperties
  <2> HIDE DEF new
  <2>3. DOMAIN new = 1 .. Len(seq) /\ \A k \in 1 .. Len(seq) : new[k] = longer[k + 1]
    BY <1>1, <2>1, <2>2
  <2>4. \A k \in 1 .. Len(seq) : k + 1 \in 1 .. Len(seq) + 1
    BY <1>1
  <2>5. Len(new) <= MaxHistory
    BY <1>1, <2>1, <2>2
  <2> QED
    BY <1>3, <2>1, <2>2, <2>3, <2>4, <2>5 DEF new, longer
<1>5. CASE ~(Len(longer) > MaxHistory)
  <2>1. new = longer
    BY <1>5 DEF Bounded
  <2>2. Len(longer) <= MaxHistory /\ DOMAIN longer = 1 .. Len(seq) + 1
    BY <1>1, <1>2, <1>5
  <2> QED
    BY <1>1, <1>3, <2>1, <2>2 DEF longer
<1> QED
  BY <1>4, <1>5

\* Stepping takes the last edit off.
LEMMA SteppedIs ==
  ASSUME NEW S, NEW seq \in Seq(S), seq # <<>>, Len(seq) <= MaxHistory
  PROVE  /\ Last(seq) \in S /\ Len(seq) \in DOMAIN seq
         /\ Front(seq) \in Seq(S) /\ Len(Front(seq)) <= MaxHistory
         /\ From(Front(seq), seq)
<1>1. Len(seq) \in Nat /\ Len(seq) >= 1 /\ DOMAIN seq = 1 .. Len(seq) /\ Len(seq) - 1 \in Nat
  BY EmptySeq
<1>2. /\ Front(seq) \in Seq(S) /\ From(Front(seq), seq)
      /\ Len(Front(seq)) = IF 1 <= Len(seq) - 1 THEN (Len(seq) - 1) - 1 + 1 ELSE 0
  BY <1>1, CutIs DEF Front
<1> DEFINE n == Len(seq)
           front == Front(seq)
<1>3. n \in Nat /\ n >= 1 /\ n <= MaxHistory /\ MaxHistory \in Nat
  BY <1>1, ContentAssumption
<1>4. Last(seq) \in S /\ n \in DOMAIN seq
  BY <1>1, ElementOfSeq DEF Last
<1>5. Len(front) = IF 1 <= n - 1 THEN (n - 1) - 1 + 1 ELSE 0
  BY <1>2
<1> HIDE DEF n, front
<1>6. Len(front) <= MaxHistory
  BY <1>3, <1>5
<1> QED
  BY <1>2, <1>4, <1>6 DEF n, front

\* The frame commits a sound edit.
LEMMA BecomeFits ==
  ASSUME edit \in SoundEdit, HistoryFits, NEW e \in SoundEdit, Become(e)
  PROVE  edit' \in SoundEdit /\ HistoryFits'
<1>1. CASE e = edit
  BY <1>1 DEF Become, HistoryFits
<1>2. CASE e # edit
  <2> DEFINE new == Bounded(Append(history.undo, edit))
  <2>1. history' = [undo |-> new, redo |-> <<>>] /\ edit' = e
    BY <1>2 DEF Become
  <2>2. history.undo \in Seq(SoundEdit) /\ Len(history.undo) <= MaxHistory
    BY DEF HistoryFits
  <2>3. new \in Seq(SoundEdit) /\ Len(new) <= MaxHistory
    BY <2>2, BoundedIs
  <2>4. <<>> \in Seq(SoundEdit) /\ Len(<<>>) <= MaxHistory
    BY EmptySeq, ContentAssumption
  <2> HIDE DEF new
  <2> QED
    BY <2>1, <2>3, <2>4 DEF HistoryFits
<1> QED
  BY <1>1, <1>2

\* An edit of the masks keeps the content, and the history's types.
LEMMA BecomeMasksFits ==
  ASSUME edit \in SoundEdit, HistoryFits, NEW masks \in SoundMasks, BecomeMasks(masks)
  PROVE  /\ edit' \in SoundEdit /\ HistoryFits'
         /\ edit'.masks = masks /\ edit'.content = edit.content
<1> DEFINE e == [masks |-> masks, content |-> edit.content]
<1>1. e \in SoundEdit
  BY DEF SoundEdit
<1>2. Become(e) /\ edit' = e
  BY DEF BecomeMasks, Become
<1> QED
  BY <1>1, <1>2, BecomeFits

\* An edit is its masks and its content.
LEMMA EditIs ==
  ASSUME edit \in SoundEdit
  PROVE  /\ edit.masks \in SoundMasks /\ edit.content \in 0 .. MaxContents
         /\ edit.content \in Contents /\ edit.content # NoContent
<1>1. 0 .. MaxContents \subseteq Contents /\ NoContent \notin 0 .. MaxContents
  BY ContentAssumption DEF Contents, NoContent
<1> QED
  BY <1>1 DEF SoundEdit

-----------------------------------------------------------------------------
(* What a request makes. *)

\* An outcome that fits the edit's masks.
OutcomeFits(outcome, masks) ==
  /\ outcome.stale \in BOOLEAN
  /\ AiFits(outcome.ai, masks) /\ OpFits(outcome.op) /\ OneDialog(outcome.ai, outcome.op)
  /\ outcome.op.kind = "subject" => Needing(masks, "subject") # {}

\* The inputs of a request are staged, and those of no other.
Ready(kind, a, masks) ==
  /\ kind \in Kinds /\ a \in AiType /\ a.consent = NoKind
  /\ kind = "subject" => Needing(masks, "subject") # {}
  /\ kind = "object" => a.object \in Needing(masks, "object")
  /\ kind # "object" => a.object = None
  /\ kind = "person" => a.people # <<>>
  /\ kind # "person" => a.people = <<>>
  /\ \A k \in DOMAIN a.people : a.people[k] \in Needing(masks, "person")

\* What is staged is for the request only.
Staged(kind, a) ==
  /\ kind \in Kinds /\ a \in AiType /\ a.consent = NoKind
  /\ kind # "object" => a.object = None
  /\ kind # "person" => a.people = <<>>

\* The request and the steps left make every stale result again.
RequestCovers(kind, a, masks, content) ==
  a.update.running /\ ~a.update.failed =>
    \A i \in StaleMasks(masks, content) :
      BySteps(a.update.steps, masks, i) \/ ByRequest(kind, a, masks, i)

\* Nothing is staged and no consent asked for.
Idle(a) == a \in AiType /\ a.consent = NoKind /\ a.object = None /\ a.people = <<>>

\* The jobs and the update change field by field.
LEMMA AiFields ==
  ASSUME NEW a \in AiType
  PROVE  /\ a.consent \in Kinds \cup {NoKind} /\ a.object \in 0 .. MaxMasks
         /\ a.people \in Seq(1 .. MaxMasks) /\ a.update \in UpdateType
         /\ \A c \in Kinds \cup {NoKind} :
              LET b == [a EXCEPT !.consent = c]
              IN b \in AiType /\ b.consent = c /\ b.object = a.object /\ b.people = a.people
                 /\ b.update = a.update
         /\ \A o \in 0 .. MaxMasks :
              LET b == [a EXCEPT !.object = o]
              IN b \in AiType /\ b.consent = a.consent /\ b.object = o /\ b.people = a.people
                 /\ b.update = a.update
         /\ \A p \in Seq(1 .. MaxMasks) :
              LET b == [a EXCEPT !.people = p]
              IN b \in AiType /\ b.consent = a.consent /\ b.object = a.object /\ b.people = p
                 /\ b.update = a.update
         /\ \A u \in UpdateType :
              LET b == [a EXCEPT !.update = u]
              IN b \in AiType /\ b.consent = a.consent /\ b.object = a.object
                 /\ b.people = a.people /\ b.update = u
  BY DEF AiType

\* An update changes field by field.
LEMMA UpdateFieldsFit ==
  ASSUME NEW u \in UpdateType
  PROVE  /\ u.running \in BOOLEAN /\ u.failed \in BOOLEAN /\ u.steps \in Seq(StepType)
         /\ \A s \in Seq(StepType) :
              LET v == [u EXCEPT !.steps = s]
              IN v \in UpdateType /\ v.running = u.running /\ v.failed = u.failed /\ v.steps = s
         /\ \A f \in BOOLEAN :
              LET v == [u EXCEPT !.failed = f]
              IN v \in UpdateType /\ v.running = u.running /\ v.failed = f /\ v.steps = u.steps
  BY DEF UpdateType

\* No update has no steps and does not run.
LEMMA NoUpdateFits ==
  /\ NoUpdate \in UpdateType /\ ~NoUpdate.running /\ ~NoUpdate.failed
  /\ None \in 0 .. MaxMasks /\ <<>> \in Seq(1 .. MaxMasks)
<1>1. <<>> \in Seq(StepType) /\ <<>> \in Seq(1 .. MaxMasks)
  BY EmptySeq
<1> QED
  BY <1>1, ContentAssumption DEF NoUpdate, UpdateType, None

\* No operation is none of the jobs.
LEMMA NoOpFits ==
  OpFits(NoOp) /\ NoOp.kind = NoKind /\ NoKind \notin Kinds
<1>1. <<>> \in Seq(TargetType) /\ NoContent \in Contents /\ 0 \in 0 .. MaxGeneration
  BY EmptySeq, ContentAssumption DEF Contents, NoContent
<1>2. NoOp \in OpType
  BY <1>1 DEF NoOp, OpType, NoKind
<1> QED
  BY <1>2 DEF OpFits, NoOp, NoKind, Kinds

\* An update that is cancelled leaves nothing staged.
LEMMA CancelledFits ==
  ASSUME NEW a \in AiType
  PROVE  LET b == CancelledUpdate(a)
         IN b \in AiType /\ b.consent = a.consent /\ b.object = None /\ b.people = <<>>
            /\ b.update = NoUpdate
  BY NoUpdateFits, AiFields DEF CancelledUpdate, AiType

\* Jobs with nothing staged fit the masks, when the consent asked for does.
LEMMA QuietFits ==
  ASSUME NEW a \in AiType, NEW masks, a.object = None, a.people = <<>>, ~a.update.running,
         a.consent = "subject" => Needing(masks, "subject") # {}
  PROVE  AiFits(a, masks)
  BY DEF AiFits

\* Jobs with nothing staged and no consent asked for fit any masks.
LEMMA IdleFits ==
  ASSUME NEW a, Idle(a), NEW masks
  PROVE  AiFits(a, masks)
<1>1. a.consent # "subject" /\ a.consent # "object" /\ a.consent # "person"
  BY DEF Idle, NoKind
<1> QED
  BY <1>1 DEF Idle, AiFits

\* Inputs that are taken or dropped are not staged any more.
LEMMA UnstagedFits ==
  ASSUME NEW kind, NEW a, Staged(kind, a)
  PROVE  Idle(Unstaged(kind, a)) /\ Unstaged(kind, a).update = a.update
<1>1. CASE kind = "object"
  BY <1>1, NoUpdateFits, AiFields DEF Unstaged, Staged, Idle
<1>2. CASE kind = "person"
  BY <1>2, NoUpdateFits, AiFields DEF Unstaged, Staged, Idle
<1>3. CASE kind # "object" /\ kind # "person"
  BY <1>3 DEF Unstaged, Staged, Idle
<1> QED
  BY <1>1, <1>2, <1>3

\* A target is captured of a component of the masks.
LEMMA TargetFits ==
  ASSUME NEW masks \in SoundMasks, NEW kind, NEW i \in Needing(masks, kind)
  PROVE  /\ Target(masks, i) \in TargetType /\ Target(masks, i).at = i
         /\ Target(masks, i).component = masks[i]
         /\ masks[i].kind = kind /\ Derived(masks[i])
<1>1. i \in DOMAIN masks /\ i \in 1 .. MaxMasks /\ masks[i].kind = kind /\ Derived(masks[i])
  BY NeedingIs
<1>2. masks[i] \in Component
  BY <1>1, SoundIs
<1> QED
  BY <1>1, <1>2 DEF Target, TargetType

\* A job that starts has the staged targets, and none is staged any more.
LEMMA StartedFits ==
  ASSUME DocFits, NEW masks \in SoundMasks, NEW kind, NEW a, Ready(kind, a, masks),
         NEW source \in Contents, NEW stale \in BOOLEAN,
         NEW outcome, outcome = Started(kind, a, masks, source, stale)
  PROVE  /\ OutcomeFits(outcome, masks)
         /\ outcome.op # NoOp /\ outcome.op.document = doc.generation /\ ~outcome.op.cancelled
         /\ outcome.ai.update = a.update /\ outcome.stale = stale
         /\ \A content : RequestCovers(kind, a, masks, content) =>
              UpdateCovers(outcome.ai, outcome.op, masks, content)
<1> DEFINE targets == IF kind = "subject" THEN <<>>
                      ELSE IF kind = "object" THEN <<Target(masks, a.object)>>
                      ELSE [k \in DOMAIN a.people |-> Target(masks, a.people[k])]
           o == [kind |-> kind, document |-> doc.generation, cancelled |-> FALSE,
                 content |-> source, targets |-> targets, masks |-> "none"]
<1>1. outcome = Outcome(Unstaged(kind, a), o, stale)
  BY DEF Started
<1>2. kind \in Kinds /\ kind # NoKind /\ a \in AiType
  BY DEF Ready, Kinds, NoKind
<1>3. /\ targets \in Seq(TargetType)
      /\ kind = "object" => Len(targets) = 1 /\ Derived(targets[1].component)
      /\ \A k \in DOMAIN targets : targets[k].component.kind = kind
      /\ \A i \in DOMAIN masks : ByRequest(kind, a, masks, i) /\ kind # "subject" =>
           \E k \in DOMAIN targets : targets[k] = Target(masks, i)
  <2>1. CASE kind = "subject"
    BY <2>1, EmptySeq
  <2>2. CASE kind = "object"
    <3>1. /\ Target(masks, a.object) \in TargetType /\ Target(masks, a.object).component.kind = kind
          /\ Derived(Target(masks, a.object).component)
      BY <2>2, TargetFits DEF Ready
    <3>2. targets = <<Target(masks, a.object)>>
      BY <2>2
    <3> HIDE DEF targets
    <3>3. /\ targets \in Seq(TargetType) /\ Len(targets) = 1 /\ DOMAIN targets = {1}
          /\ targets[1] = Target(masks, a.object)
      BY <3>1, <3>2
    <3> QED
      BY <2>2, <3>1, <3>3 DEF ByRequest
  <2>3. CASE kind = "person"
    <3>1. targets = [k \in DOMAIN a.people |-> Target(masks, a.people[k])]
      BY <2>3
    <3> HIDE DEF targets
    <3>2. /\ Len(a.people) \in Nat /\ DOMAIN a.people = 1 .. Len(a.people)
          /\ \A k \in DOMAIN a.people : a.people[k] \in Needing(masks, "person")
      BY <1>2, AiFields, LenProperties DEF Ready
    <3>3. \A k \in DOMAIN a.people : /\ targets[k] \in TargetType
                                      /\ targets[k] = Target(masks, a.people[k])
                                      /\ targets[k].component.kind = "person"
      BY <3>1, <3>2, TargetFits
    <3>4. targets \in Seq(TargetType)
      <4>1. targets \in [1 .. Len(a.people) -> TargetType]
        BY <3>1, <3>2, <3>3
      <4> QED
        BY <3>2, <4>1, SeqDef
    <3>5. DOMAIN targets = DOMAIN a.people
      BY <3>1
    <3> QED
      BY <2>3, <3>3, <3>4, <3>5 DEF ByRequest
  <2> QED
    BY <1>2, <2>1, <2>2, <2>3 DEF Kinds
<1> HIDE DEF targets
<1>4. /\ o \in OpType /\ o.kind = kind /\ o.targets = targets /\ o.masks = "none"
      /\ o.document = doc.generation /\ ~o.cancelled
  BY <1>2, <1>3 DEF OpType, DocFits
<1> HIDE DEF o
<1>5. OpFits(o) /\ o # NoOp
  BY <1>2, <1>3, <1>4, NoOpFits DEF OpFits
<1>6. Idle(Unstaged(kind, a)) /\ Unstaged(kind, a).update = a.update
  BY UnstagedFits DEF Ready, Staged
<1>7. OutcomeFits(outcome, masks)
  <2>1. AiFits(Unstaged(kind, a), masks)
    BY <1>6, IdleFits
  <2> QED
    BY <1>1, <1>4, <1>5, <1>6, <2>1 DEF OutcomeFits, Outcome, OneDialog, Idle, Ready
<1>8. ASSUME NEW content, RequestCovers(kind, a, masks, content)
      PROVE  UpdateCovers(outcome.ai, outcome.op, masks, content)
  <2>1. outcome.ai.update = a.update /\ outcome.op = o
    BY <1>1, <1>6 DEF Outcome
  <2>2. \A i \in DOMAIN masks : ByRequest(kind, a, masks, i) => ByOp(o, masks, i)
    BY <1>3, <1>4 DEF ByRequest, ByOp
  <2>3. StaleMasks(masks, content) \subseteq DOMAIN masks
    BY DEF StaleMasks
  <2> QED
    BY <1>8, <2>1, <2>2, <2>3 DEF RequestCovers, UpdateCovers
<1> QED
  BY <1>1, <1>4, <1>5, <1>6, <1>7, <1>8 DEF Outcome

\* A job that is declined.
LEMMA AbandonedFits ==
  ASSUME NEW masks \in SoundMasks, NEW kind, NEW a, Staged(kind, a),
         NEW stale \in BOOLEAN, NEW outcome, outcome = Abandoned(kind, a, stale)
  PROVE  /\ OutcomeFits(outcome, masks) /\ outcome.op = NoOp /\ ~outcome.ai.update.running
         /\ outcome.stale => stale \/ a.update.running
         /\ stale => outcome.stale
<1>1. a \in AiType /\ a.consent = NoKind /\ a.update.running \in BOOLEAN
  BY AiFields, UpdateFieldsFit DEF Staged
<1>2. CASE a.update.running
  <2> DEFINE b == CancelledUpdate(a)
  <2>1. outcome = Outcome(b, NoOp, TRUE)
    BY <1>2 DEF Abandoned
  <2>2. Idle(b) /\ b.update = NoUpdate
    BY <1>1, CancelledFits DEF Idle
  <2> HIDE DEF b
  <2>3. AiFits(b, masks) /\ ~b.update.running
    BY <2>2, IdleFits, NoUpdateFits
  <2> QED
    BY <1>2, <2>1, <2>3, NoOpFits DEF OutcomeFits, Outcome, OneDialog, NoKind
<1>3. CASE ~a.update.running
  <2> DEFINE b == Unstaged(kind, a)
  <2>1. outcome = Outcome(b, NoOp, stale)
    BY <1>3 DEF Abandoned
  <2>2. Idle(b) /\ b.update = a.update
    BY UnstagedFits
  <2> HIDE DEF b
  <2>3. AiFits(b, masks)
    BY <2>2, IdleFits
  <2> QED
    BY <1>3, <2>1, <2>2, <2>3, NoOpFits DEF OutcomeFits, Outcome, OneDialog, NoKind
<1> QED
  BY <1>1, <1>2, <1>3

\* Every outcome of a request fits, and a running update still covers what is stale.
LEMMA RequestedFits ==
  ASSUME DocFits, NEW masks \in SoundMasks, NEW kind, NEW a, Ready(kind, a, masks),
         NEW source \in Contents, NEW stale \in BOOLEAN,
         NEW outcome \in Requested(kind, a, masks, source, stale)
  PROVE  /\ OutcomeFits(outcome, masks)
         /\ outcome.op # NoOp => outcome.op.document = doc.generation /\ ~outcome.op.cancelled
         /\ outcome.stale => stale \/ a.update.running
         /\ stale => outcome.stale
         /\ \A content : RequestCovers(kind, a, masks, content) =>
              UpdateCovers(outcome.ai, outcome.op, masks, content)
<1>1. CASE outcome = Started(kind, a, masks, source, stale)
  BY <1>1, StartedFits
<1>2. CASE outcome = Abandoned(kind, a, stale)
  <2>1. a.update.running \in BOOLEAN /\ Staged(kind, a)
    BY AiFields, UpdateFieldsFit DEF Ready, Staged
  <2> QED
    BY <1>2, <2>1, AbandonedFits DEF UpdateCovers
<1>3. CASE outcome = Outcome([a EXCEPT !.consent = kind], NoOp, stale)
  <2> DEFINE b == [a EXCEPT !.consent = kind]
  <2>1. /\ b \in AiType /\ b.consent = kind /\ b.object = a.object /\ b.people = a.people
        /\ b.update = a.update /\ kind # NoKind
    BY AiFields DEF Ready, Kinds, NoKind
  <2>2. outcome.ai = b /\ outcome.op = NoOp /\ outcome.stale = stale
    BY <1>3 DEF Outcome
  <2> HIDE DEF b
  <2>3. AiFits(b, masks)
    <3>1. None \notin Needing(masks, "object")
      BY NeedingIs, ContentAssumption DEF None
    <3> QED
      BY <2>1, <3>1 DEF AiFits, Ready
  <2>4. OutcomeFits(outcome, masks)
    BY <2>1, <2>2, <2>3, NoOpFits DEF OutcomeFits, OneDialog, NoKind
  <2>5. ASSUME NEW content, RequestCovers(kind, a, masks, content)
        PROVE  UpdateCovers(outcome.ai, outcome.op, masks, content)
    BY <2>1, <2>2, <2>5 DEF RequestCovers, UpdateCovers, ByRequest
  <2> QED
    BY <2>2, <2>4, <2>5
<1> QED
  BY <1>1, <1>2, <1>3 DEF Requested

-----------------------------------------------------------------------------
(* The steps of an update. *)

\* The first step that is still needed.
LEMMA FirstNeeded ==
  ASSUME NEW masks, NEW steps \in Seq(StepType),
         NEW at, at = SelectInSeq(steps, LAMBDA step : StillNeeded(step, masks))
  PROVE  /\ at = 0 => \A k \in DOMAIN steps : ~StillNeeded(steps[k], masks)
         /\ at # 0 => /\ at \in DOMAIN steps /\ StillNeeded(steps[at], masks)
                      /\ \A k \in DOMAIN steps : StillNeeded(steps[k], masks) => at <= k
<1> DEFINE needed == {k \in 1 .. Len(steps) : StillNeeded(steps[k], masks)}
<1>1. at = IF needed # {} THEN Min(needed) ELSE 0
  BY DEF SelectInSeq
<1>2. DOMAIN steps = 1 .. Len(steps) /\ Len(steps) \in Nat
  OBVIOUS
<1>3. CASE needed = {}
  BY <1>1, <1>2, <1>3
<1>4. CASE needed # {}
  <2>1. \E k \in needed : \A j \in needed : k <= j
    <3>1. needed \in SUBSET Nat
      BY <1>2
    <3> HIDE DEF needed
    <3> QED
      BY <1>4, <3>1, LeastNatural
  <2>2. at \in needed /\ \A j \in needed : at <= j
    <3> HIDE DEF needed
    <3> QED
      BY <1>1, <1>4, <2>1 DEF Min
  <2>3. /\ at \in 1 .. Len(steps) /\ StillNeeded(steps[at], masks)
        /\ \A k \in 1 .. Len(steps) : StillNeeded(steps[k], masks) => at <= k
    BY <2>2
  <2>4. at # 0
    BY <1>2, <2>3
  <2>5. at \in DOMAIN steps
    BY <1>2, <2>3
  <2> QED
    BY <1>2, <2>3, <2>4, <2>5
<1> QED
  BY <1>3, <1>4

\* The step that remakes a stale result is still needed.
LEMMA StaleIsNeeded ==
  ASSUME NEW masks \in SoundMasks, NEW content, NEW i \in StaleMasks(masks, content),
         NEW step, step.kind = masks[i].kind, masks[i].kind = "object" => step.at = i
  PROVE  StillNeeded(step, masks)
<1>1. i \in Needing(masks, step.kind)
  BY NeedingIs
<1> QED
  BY <1>1 DEF StillNeeded, Depends

\* continue_ai_update: the next step's job fits the masks, and with the steps after it makes
\* every stale result again that the steps before it left.
LEMMA ContinuedFits ==
  ASSUME DocFits, NEW masks \in SoundMasks, NEW a, Idle(a), a.update.running,
         NEW source \in Contents, NEW stale \in BOOLEAN, NEW content,
         ~a.update.failed =>
           \A i \in StaleMasks(masks, content) : BySteps(a.update.steps, masks, i),
         NEW outcome \in Continued(a, masks, source, stale)
  PROVE  /\ OutcomeFits(outcome, masks)
         /\ outcome.op # NoOp => outcome.op.document = doc.generation /\ ~outcome.op.cancelled
         /\ UpdateCovers(outcome.ai, outcome.op, masks, content)
         /\ stale => outcome.stale \/ StaleMasks(masks, content) = {}
<1> DEFINE steps == a.update.steps
           at == SelectInSeq(steps, LAMBDA step : StillNeeded(step, masks))
           next == steps[at]
           rest == SubSeq(steps, at + 1, Len(steps))
           staged == [consent |-> a.consent,
                      object |-> IF next.kind = "object" THEN next.at ELSE a.object,
                      people |-> IF next.kind = "person" THEN Indices(masks, "person")
                                 ELSE a.people,
                      update |-> [a.update EXCEPT !.steps = rest]]
           ended == [a EXCEPT !.update = NoUpdate]
<1>1. /\ a \in AiType /\ a.consent = NoKind /\ a.object = None /\ a.people = <<>>
      /\ a.update \in UpdateType /\ steps \in Seq(StepType) /\ a.update.failed \in BOOLEAN
  BY AiFields, UpdateFieldsFit DEF Idle
<1>2. /\ at = 0 => \A k \in DOMAIN steps : ~StillNeeded(steps[k], masks)
      /\ at # 0 => /\ at \in DOMAIN steps /\ StillNeeded(steps[at], masks)
                   /\ \A k \in DOMAIN steps : StillNeeded(steps[k], masks) => at <= k
  BY <1>1, FirstNeeded
<1>3. \/ at = 0 /\ outcome = Outcome(ended, NoOp, a.update.failed)
      \/ at # 0 /\ outcome \in Requested(next.kind, staged, masks, source, stale)
  BY DEF Continued
<1>4. ASSUME NEW i \in StaleMasks(masks, content), ~a.update.failed
      PROVE  \E k \in DOMAIN steps :
               /\ steps[k].kind = masks[i].kind /\ (masks[i].kind = "object" => steps[k].at = i)
               /\ StillNeeded(steps[k], masks)
  <2>1. PICK k \in DOMAIN steps :
          steps[k].kind = masks[i].kind /\ (masks[i].kind = "object" => steps[k].at = i)
    BY <1>4 DEF BySteps
  <2>2. StillNeeded(steps[k], masks)
    BY <2>1, StaleIsNeeded
  <2> QED
    BY <2>1, <2>2
<1> HIDE DEF steps, at, next, rest
<1>5. CASE at = 0
  <2>1. outcome = Outcome(ended, NoOp, a.update.failed)
    BY <1>3, <1>5
  <2>2. Idle(ended) /\ ended.update = NoUpdate
    BY <1>1, NoUpdateFits, AiFields DEF Idle
  <2> HIDE DEF ended
  <2>3. AiFits(ended, masks) /\ ~ended.update.running
    BY <2>2, IdleFits, NoUpdateFits
  <2>4. ~a.update.failed => StaleMasks(masks, content) = {}
    BY <1>2, <1>4, <1>5
  <2>5. outcome.ai = ended /\ outcome.op = NoOp /\ outcome.stale = a.update.failed
    BY <2>1 DEF Outcome
  <2> QED
    BY <1>1, <2>3, <2>4, <2>5, NoOpFits DEF OutcomeFits, OneDialog, UpdateCovers, NoKind
<1>6. CASE at # 0
  <2>1. outcome \in Requested(next.kind, staged, masks, source, stale)
    BY <1>3, <1>6
  <2>2. at \in DOMAIN steps /\ DOMAIN steps = 1 .. Len(steps) /\ Len(steps) \in Nat
    BY <1>1, <1>2, <1>6
  <2>3. next \in StepType /\ next.kind \in Kinds /\ next.at \in 0 .. MaxMasks
    <3>1. next \in StepType
      BY <1>1, <2>2, ElementOfSeq DEF next
    <3> QED
      BY <3>1 DEF StepType
  <2>4. /\ rest \in Seq(StepType) /\ Len(rest) = Len(steps) - at
        /\ \A k \in 1 .. Len(steps) - at : rest[k] = steps[at + k]
    <3>1. \A k \in (at + 1) .. Len(steps) : steps[k] \in StepType
      BY <1>1, <2>2
    <3>2. /\ rest \in Seq(StepType)
          /\ Len(rest) = IF at + 1 <= Len(steps) THEN Len(steps) - (at + 1) + 1 ELSE 0
          /\ \A k \in 1 .. (Len(steps) - (at + 1) + 1) : rest[k] = steps[(at + 1) + k - 1]
      BY <2>2, <3>1, SubSeqProperties DEF rest
    <3>3. /\ IF at + 1 <= Len(steps) THEN Len(steps) - (at + 1) + 1 = Len(steps) - at
             ELSE Len(steps) - at = 0
          /\ \A k \in 1 .. Len(steps) - at : (at + 1) + k - 1 = at + k
          /\ Len(steps) - (at + 1) + 1 = Len(steps) - at
      BY <2>2
    <3> QED
      BY <3>2, <3>3
  <2> DEFINE u == [a.update EXCEPT !.steps = rest]
             o == IF next.kind = "object" THEN next.at ELSE a.object
             p == IF next.kind = "person" THEN Indices(masks, "person") ELSE a.people
  <2>5. /\ u \in UpdateType /\ u.running = a.update.running
        /\ u.failed = a.update.failed /\ u.steps = rest
    <3>1. a.update \in UpdateType /\ rest \in Seq(StepType)
      BY <1>1, <2>4
    <3>2. ASSUME NEW v \in UpdateType, NEW r \in Seq(StepType)
          PROVE  /\ [v EXCEPT !.steps = r] \in UpdateType
                 /\ [v EXCEPT !.steps = r].running = v.running
                 /\ [v EXCEPT !.steps = r].failed = v.failed
                 /\ [v EXCEPT !.steps = r].steps = r
      <4> HIDE DEF at, next, rest, staged, ended, o, p
      <4> QED
        BY DEF UpdateType
    <3> QED
      BY <3>1, <3>2, Zenon DEF u
  <2>6. /\ o \in 0 .. MaxMasks
        /\ next.kind # "object" => o = None
        /\ next.kind = "object" => o = next.at
    BY <1>1, <2>3, AiFields
  <2>7. /\ p \in Seq(1 .. MaxMasks)
        /\ next.kind # "person" => p = <<>>
        /\ \A k \in DOMAIN p : p[k] \in Needing(masks, "person")
        /\ next.kind = "person" => \A i \in Needing(masks, "person") : \E k \in DOMAIN p : p[k] = i
    <3>1. CASE next.kind = "person"
      BY <3>1, IndicesAre
    <3>2. CASE next.kind # "person"
      BY <1>1, <3>2, NoUpdateFits
    <3> QED
      BY <3>1, <3>2
  <2>8. staged = [consent |-> NoKind, object |-> o, people |-> p, update |-> u]
    BY <1>1
  <2> HIDE DEF u, o, p, staged
  <2>9. /\ staged \in AiType /\ staged.consent = NoKind /\ staged.object = o
        /\ staged.people = p /\ staged.update = u
    BY <2>5, <2>6, <2>7, <2>8 DEF AiType
  <2>10. StillNeeded(next, masks)
    BY <1>2, <1>6 DEF next
  <2>11. Ready(next.kind, staged, masks)
    <3>1. next.kind = "object" => staged.object \in Needing(masks, "object")
      BY <2>6, <2>9, <2>10 DEF StillNeeded
    <3>2. next.kind # "object" => Needing(masks, next.kind) # {}
      BY <2>10 DEF StillNeeded, Depends
    <3>3. next.kind = "person" => staged.people # <<>>
      <4> SUFFICES ASSUME next.kind = "person", p = <<>> PROVE FALSE
        BY <2>9
      <4>1. PICK i \in Needing(masks, "person") : TRUE
        BY <3>2
      <4>2. PICK k \in DOMAIN p : TRUE
        BY <2>7, <4>1
      <4> QED
        BY <4>2
    <3> QED
      BY <2>3, <2>6, <2>7, <2>9, <3>1, <3>2, <3>3 DEF Ready
  <2>12. RequestCovers(next.kind, staged, masks, content)
    <3> SUFFICES ASSUME ~a.update.failed, NEW i \in StaleMasks(masks, content)
                 PROVE  BySteps(rest, masks, i) \/ ByRequest(next.kind, staged, masks, i)
      BY <2>5, <2>9 DEF RequestCovers
    <3>1. PICK k \in DOMAIN steps :
            /\ steps[k].kind = masks[i].kind /\ (masks[i].kind = "object" => steps[k].at = i)
            /\ StillNeeded(steps[k], masks)
      BY <1>4
    <3>2. at <= k
      BY <1>2, <1>6, <3>1
    <3>3. CASE k = at
      <4>1. i \in Needing(masks, next.kind)
        BY <3>1, <3>3, NeedingIs DEF next
      <4> QED
        BY <2>6, <2>7, <2>9, <3>1, <3>3, <4>1 DEF ByRequest, next
    <3>4. CASE k # at
      <4>1. k - at \in 1 .. Len(steps) - at /\ at + (k - at) = k
        BY <2>2, <3>1, <3>2, <3>4
      <4>2. k - at \in DOMAIN rest /\ rest[k - at] = steps[k]
        BY <2>4, <4>1
      <4> QED
        BY <3>1, <4>2 DEF BySteps
    <3> QED
      BY <3>3, <3>4
  <2> QED
    BY <2>1, <2>11, <2>12, RequestedFits
<1> QED
  BY <1>5, <1>6

\* An update goes on after a job that remade what it was for; others end with their job.
LEMMA AdvancedFits ==
  ASSUME DocFits, cache \in CacheType, NEW masks \in SoundMasks, NEW a, Idle(a),
         NEW succeeded \in BOOLEAN, NEW interrupted \in BOOLEAN, NEW content,
         a.update.running /\ ~a.update.failed /\ succeeded /\ ~interrupted =>
           \A i \in StaleMasks(masks, content) : BySteps(a.update.steps, masks, i),
         NEW outcome \in Advanced(a, masks, succeeded, interrupted)
  PROVE  /\ OutcomeFits(outcome, masks)
         /\ outcome.op # NoOp => outcome.op.document = doc.generation /\ ~outcome.op.cancelled
         /\ UpdateCovers(outcome.ai, outcome.op, masks, content)
         /\ doc.stale => outcome.stale \/ StaleMasks(masks, content) = {}
         /\ outcome.stale => doc.stale \/ a.update.running
<1>1. /\ a \in AiType /\ a.update \in UpdateType /\ a.update.running \in BOOLEAN
      /\ a.update.failed \in BOOLEAN /\ doc.stale \in BOOLEAN /\ cache.source \in Contents
  BY AiFields, UpdateFieldsFit DEF Idle, DocFits, CacheType
<1>2. CASE ~a.update.running
  <2>1. outcome = Outcome(a, NoOp, doc.stale)
    BY <1>2 DEF Advanced
  <2>2. AiFits(a, masks)
    BY IdleFits
  <2> QED
    BY <1>1, <1>2, <2>1, <2>2, NoOpFits DEF Outcome, OutcomeFits, OneDialog, UpdateCovers, NoKind
<1>3. CASE a.update.running /\ interrupted
  <2> DEFINE b == CancelledUpdate(a)
  <2>1. outcome = Outcome(b, NoOp, TRUE)
    BY <1>3 DEF Advanced
  <2>2. Idle(b) /\ b.update = NoUpdate
    BY <1>1, CancelledFits DEF Idle
  <2> HIDE DEF b
  <2>3. AiFits(b, masks) /\ ~b.update.running
    BY <2>2, IdleFits, NoUpdateFits
  <2> QED
    BY <1>1, <1>3, <2>1, <2>3, NoOpFits DEF Outcome, OutcomeFits, OneDialog, UpdateCovers, NoKind
<1>4. CASE a.update.running /\ ~interrupted
  <2> DEFINE f == a.update.failed \/ ~succeeded
             u == [a.update EXCEPT !.failed = f]
             noted == [a EXCEPT !.update = u]
  <2>1. /\ u \in UpdateType /\ u.running = a.update.running /\ u.failed = f
        /\ u.steps = a.update.steps
    <3>1. f \in BOOLEAN
      BY <1>1
    <3> HIDE DEF f
    <3> QED
      BY <1>1, <3>1, UpdateFieldsFit
  <2>2. outcome \in Continued(noted, masks, cache.source, doc.stale)
    BY <1>4 DEF Advanced
  <2> HIDE DEF u
  <2>3. Idle(noted) /\ noted.update = u
    BY <1>1, <2>1, AiFields DEF Idle
  <2> HIDE DEF noted
  <2>4. noted.update.running
    BY <1>4, <2>1, <2>3
  <2>5. ~noted.update.failed =>
          \A i \in StaleMasks(masks, content) : BySteps(noted.update.steps, masks, i)
    BY <1>4, <2>1, <2>3
  <2> QED
    BY <1>1, <1>4, <2>2, <2>3, <2>4, <2>5, ContinuedFits
<1> QED
  BY <1>1, <1>2, <1>3, <1>4

-----------------------------------------------------------------------------
(* Kinds of steps. *)

\* Results of another content are marked.
Marked == doc.stale \/ (StaleMasks(edit.masks, edit.content) = {} /\ FreshSubject)

\* What a step does to the document, the edit and its history fits.
EditFits ==
  /\ DocFits /\ edit \in SoundEdit /\ HistoryFits /\ cache \in CacheType
  /\ composes \subseteq ComposeType /\ retouch \in BOOLEAN /\ actions \in 0 .. MaxActions
  /\ doc.loading => composes = {} /\ ~retouch /\ cache = NoCache /\ edit.masks = <<>>

\* What the invariant says of types.
LEMMA JobsFacts ==
  ASSUME JobsInv
  PROVE  /\ EditFits /\ ai \in AiType /\ OpFits(op) /\ op \in OpType
         /\ edit.masks \in SoundMasks /\ edit.content \in 0 .. MaxContents
         /\ edit.content \in Contents /\ edit.content # NoContent
         /\ cache.source \in Contents /\ cache.subject \in Contents /\ cache.people \in Contents
         /\ op.content \in Contents /\ NoContent \in Contents
         /\ ai.update \in UpdateType /\ ai.update.running \in BOOLEAN
<1>1. NoContent \in Contents
  BY ContentAssumption DEF Contents, NoContent
<1>2. ai \in AiType /\ op \in OpType
  BY DEF JobsInv, AiFits, OpFits
<1> QED
  BY <1>1, <1>2, EditIs, AiFields, UpdateFieldsFit
  DEF JobsInv, EditFits, LoadingIsQuiet, CacheType, OpType

\* Nothing is staged while no consent is asked for.
LEMMA IdleIs ==
  ASSUME JobsInv, op # NoOp \/ ai.consent = NoKind
  PROVE  Idle(ai)
<1>1. ai.consent = NoKind /\ NoKind # "object" /\ NoKind # "person"
  BY DEF JobsInv, OneDialog, NoKind
<1> QED
  BY <1>1 DEF JobsInv, AiFits, Idle

\* While the user may edit no job runs, none waits for consent and no update runs.
LEMMA FreeIs ==
  ASSUME JobsInv, Free
  PROVE  /\ ~doc.loading /\ op = NoOp /\ Idle(ai) /\ ~ai.update.running
         /\ actions' \in 0 .. MaxActions
<1>1. actions' \in 0 .. MaxActions
  BY ContentAssumption DEF Free, JobsInv
<1> QED
  BY <1>1, IdleIs DEF Free, JobsInv, OneDialog

\* A step that takes the outcome of a request.
LEMMA TakenFits ==
  ASSUME EditFits', NEW outcome, OutcomeFits(outcome, edit'.masks), Take(outcome),
         doc'.generation = doc.generation, doc'.loading = doc.loading,
         outcome.op # NoOp => outcome.op.document = doc.generation /\ ~outcome.op.cancelled,
         doc.loading => /\ outcome.op = NoOp /\ outcome.ai.consent = NoKind
                        /\ ~outcome.ai.update.running,
         outcome.stale \/ outcome.ai.update.running => FreshSubject',
         UpdateCovers(outcome.ai, outcome.op, edit'.masks, edit'.content)
  PROVE  JobsInv'
<1>1. ai' = outcome.ai /\ op' = outcome.op /\ doc' = [doc EXCEPT !.stale = outcome.stale]
  BY DEF Take
<1>2. doc'.stale = outcome.stale
  BY <1>1 DEF EditFits, DocFits
<1>3. AiFits(ai, edit.masks)' /\ OpFits(op)' /\ OneDialog(ai, op)' /\ SubjectIsWanted'
  BY <1>1 DEF OutcomeFits, SubjectIsWanted
<1>4. LoadingIsQuiet'
  BY <1>1 DEF LoadingIsQuiet, EditFits
<1>5. UpdateCovers(ai, op, edit.masks, edit.content)'
  BY <1>1
<1> QED
  BY <1>1, <1>2, <1>3, <1>4, <1>5 DEF JobsInv, EditFits

\* The mark that the outcome leaves.
LEMMA TakenDoc ==
  ASSUME DocFits, NEW outcome, Take(outcome), outcome.stale \in BOOLEAN
  PROVE  /\ DocFits' /\ doc'.generation = doc.generation /\ doc'.loading = doc.loading
         /\ doc'.stale = outcome.stale
  BY DEF DocFits, Take

\* The user changes the masks while no job runs.
LEMMA ChangedFits ==
  ASSUME JobsInv, Free, EditFits', UNCHANGED <<op, ai>>,
         doc'.generation = doc.generation, doc'.loading = doc.loading,
         doc'.stale => FreshSubject'
  PROVE  JobsInv'
<1>1. op = NoOp /\ Idle(ai) /\ ~ai.update.running /\ ~doc.loading
  BY FreeIs
<1>2. AiFits(ai, edit'.masks)
  BY <1>1, IdleFits
<1>3. NoOp.kind # "subject"
  BY DEF NoOp, NoKind
<1> QED
  BY <1>1, <1>2, <1>3
  DEF JobsInv, EditFits, OneDialog, SubjectIsWanted, LoadingIsQuiet, UpdateCovers

\* An update covers masks that are made again.
LEMMA CoversRefreshed ==
  ASSUME NEW masks \in SoundMasks, NEW new, NEW content, Refreshes(masks, new, content),
         NEW a, NEW o, UpdateCovers(a, o, masks, content)
  PROVE  UpdateCovers(a, o, new, content)
<1>1. \A i \in StaleMasks(new, content) : i \in StaleMasks(masks, content) /\ new[i] = masks[i]
  BY RefreshedIs
<1> QED
  BY <1>1 DEF UpdateCovers, BySteps, ByRequest, ByOp, Target

\* Masks are made again while a job runs or asks for its consent.
LEMMA RefreshedFits ==
  ASSUME JobsInv, ~doc.loading, EditFits', UNCHANGED <<doc, ai, op>>,
         edit'.content = edit.content, Refreshes(edit.masks, edit'.masks, edit.content),
         FreshSubject => FreshSubject'
  PROVE  JobsInv' /\ (Marked => Marked')
<1>1. edit.masks \in SoundMasks
  BY JobsFacts
<1>2. /\ \A kind : Needing(edit'.masks, kind) = Needing(edit.masks, kind)
      /\ \A i \in StaleMasks(edit'.masks, edit.content) : i \in StaleMasks(edit.masks, edit.content)
  BY <1>1, RefreshedIs
<1>3. AiFits(ai, edit'.masks)
  BY <1>2 DEF JobsInv, AiFits
<1>4. UpdateCovers(ai, op, edit.masks, edit.content) =>
        UpdateCovers(ai, op, edit'.masks, edit.content)
  BY <1>1, CoversRefreshed
<1>5. Accepted' = Accepted
  BY DEF Accepted
<1>6. SubjectIsWanted' /\ LoadingIsQuiet'
  BY <1>2, <1>5 DEF JobsInv, SubjectIsWanted, LoadingIsQuiet
<1> QED
  BY <1>2, <1>3, <1>4, <1>5, <1>6 DEF JobsInv, EditFits, Marked

\* The content changes, or another photo opens: nothing is left to make.
LEMMA GivenUpFits ==
  ASSUME JobsInv, EditFits', Idle(ai') \/ ai' = CancelledUpdate(ai),
         ~ai'.update.running,
         op' = IF op = NoOp THEN op ELSE [op EXCEPT !.cancelled = TRUE],
         ai'.consent = NoKind \/ (edit'.masks = edit.masks /\ ai'.consent = ai.consent),
         doc'.loading => ai'.consent = NoKind,
         doc'.stale => FreshSubject'
  PROVE  JobsInv'
<1>1. op \in OpType /\ ai \in AiType
  BY JobsFacts
<1>2. OpFits(op) /\ OneDialog(ai, op)
  BY DEF JobsInv
<1>3. CASE op = NoOp
  <2>1. op' = NoOp
    BY <1>3
  <2>2. AiFits(ai, edit.masks)'
    <3>1. CASE Idle(ai')
      BY <3>1, IdleFits
    <3>2. CASE ai' = CancelledUpdate(ai)
      <4>1. ai' \in AiType /\ ai'.object = None /\ ai'.people = <<>>
        BY <1>1, <3>2, CancelledFits
      <4>2. ai'.consent = "subject" => Needing(edit'.masks, "subject") # {}
        BY DEF JobsInv, AiFits, NoKind
      <4> QED
        BY <4>1, <4>2, QuietFits
    <3> QED
      BY <3>1, <3>2
  <2> QED
    BY <2>1, <2>2, NoOpFits
    DEF JobsInv, EditFits, OneDialog, SubjectIsWanted, LoadingIsQuiet, UpdateCovers, NoKind
<1>4. CASE op # NoOp
  <2>1. /\ op' \in OpType /\ op'.cancelled /\ op'.kind = op.kind /\ op'.targets = op.targets
        /\ op'.masks = op.masks
    BY <1>1, <1>4 DEF OpType
  <2>2. OpFits(op)'
    BY <1>2, <1>4, <2>1 DEF OpFits
  <2>3. ai.consent = NoKind
    BY <1>2, <1>4 DEF OneDialog
  <2>4. Idle(ai')
    <3>1. Idle(CancelledUpdate(ai))
      BY <1>1, <2>3, CancelledFits DEF Idle
    <3> QED
      BY <3>1
  <2>5. AiFits(ai, edit.masks)' /\ ai'.consent = NoKind
    BY <2>4, IdleFits DEF Idle
  <2> QED
    BY <2>1, <2>2, <2>5
    DEF JobsInv, EditFits, OneDialog, SubjectIsWanted, LoadingIsQuiet, UpdateCovers, Accepted
<1> QED
  BY <1>3, <1>4

\* The mask source is captured.
LEMMA CapturedFits ==
  ASSUME JobsInv
  PROVE  /\ Captured \in Contents
         /\ LET c == [cache EXCEPT !.source = Captured]
            IN c \in CacheType /\ c.subject = cache.subject /\ c.people = cache.people
<1>1. Captured \in Contents
  BY JobsFacts DEF Captured
<1> QED
  BY <1>1 DEF JobsInv, CacheType

-----------------------------------------------------------------------------
(* What the user asks for. *)

\* The subject's result is written to every subject mask.
LEMMA SubjectsRefreshed ==
  ASSUME NEW masks \in SoundMasks, NEW content \in Contents
  PROVE  LET new == WithSubject(masks, content)
         IN /\ Refreshes(masks, new, content)
            /\ \A i \in DOMAIN masks : masks[i].kind = "subject" => new[i].made.content = content
<1> DEFINE new == WithSubject(masks, content)
<1>1. /\ masks \in Seq(Component) /\ Len(masks) \in Nat /\ DOMAIN masks = 1 .. Len(masks)
      /\ \A i \in DOMAIN masks : masks[i] \in Component /\ WellMade(masks[i])
  BY SoundIs
<1>2. 0 \in Input /\ Made(content, 0) \in Result
  BY ContentAssumption, MadeIsResult DEF Input
<1>3. /\ DOMAIN new = DOMAIN masks
      /\ \A i \in DOMAIN masks :
           new[i] = IF masks[i].kind = "subject" THEN [masks[i] EXCEPT !.made = Made(content, 0)]
                    ELSE masks[i]
  BY DEF WithSubject
<1> HIDE DEF new
<1>4. ASSUME NEW i \in DOMAIN masks, masks[i].kind = "subject"
      PROVE  /\ new[i] \in Component /\ new[i].kind = "subject" /\ new[i].input = masks[i].input
             /\ new[i].made = Made(content, new[i].input) /\ Derived(masks[i]) /\ Derived(new[i])
  <2>1. /\ new[i] \in Component /\ new[i].kind = masks[i].kind /\ new[i].input = masks[i].input
        /\ new[i].made = Made(content, 0)
    <3>1. masks[i] \in Component /\ new[i] = [masks[i] EXCEPT !.made = Made(content, 0)]
      BY <1>1, <1>3, <1>4
    <3> QED
      BY <1>2, <3>1, RemadeIsComponent
  <2>2. masks[i].input = 0
    BY <1>1, <1>4 DEF WellMade
  <2> QED
    BY <1>4, <2>1, <2>2 DEF Derived
<1>5. \A i \in DOMAIN masks : masks[i].kind # "subject" => new[i] = masks[i] /\ new[i] \in Component
  BY <1>1, <1>3
<1>6. new \in Seq(Component) /\ Len(new) = Len(masks)
  <2>1. new \in [1 .. Len(masks) -> Component]
    <3>1. new = [i \in DOMAIN masks |-> new[i]]
      BY <1>3 DEF new, WithSubject
    <3> QED
      BY <1>1, <1>4, <1>5, <3>1
  <2> QED
    BY <1>1, <2>1, SeqDef
<1>7. Refreshes(masks, new, content)
  BY <1>4, <1>5, <1>6 DEF Refreshes
<1>8. \A i \in DOMAIN masks : masks[i].kind = "subject" => new[i].made.content = content
  <2>1. \A input : Made(content, input).content = content
    BY DEF Made
  <2> QED
    BY <1>4, <2>1
<1> QED
  BY <1>7, <1>8 DEF new

\* The result in use after the history is stepped through is one of the edit's.
LEMMA FirstSubjectIs ==
  ASSUME NEW masks \in SoundMasks, NEW content, content = FirstSubject(masks)
  PROVE  /\ content \in Contents
         /\ content # NoContent =>
              \E i \in DOMAIN masks : /\ masks[i].kind = "subject" /\ masks[i].made # NoResult
                                      /\ content = masks[i].made.content
<1> DEFINE Has(c) == c.kind = "subject" /\ c.made # NoResult
           having == {k \in 1 .. Len(masks) : Has(masks[k])}
           at == IF having # {} THEN Min(having) ELSE 0
<1>1. content = IF at = 0 THEN NoContent ELSE masks[at].made.content
  BY DEF FirstSubject, SelectInSeq
<1>2. NoContent \in Contents
  BY ContentAssumption DEF Contents, NoContent
<1>3. CASE having = {}
  BY <1>1, <1>2, <1>3
<1>4. CASE having # {}
  <2>1. \E k \in having : \A j \in having : k <= j
    <3>1. having \in SUBSET Nat
      BY SoundIs
    <3> HIDE DEF having
    <3> QED
      BY <1>4, <3>1, LeastNatural
  <2>2. at \in having
    <3> HIDE DEF having
    <3> QED
      BY <1>4, <2>1 DEF Min
  <2> HIDE DEF at
  <2>3. at \in DOMAIN masks /\ at # 0 /\ Has(masks[at])
    BY <2>2, SoundIs
  <2>4. masks[at].made.content \in Contents
    BY <2>3, SoundIs DEF Component, Result
  <2> QED
    BY <1>1, <2>3, <2>4
<1> QED
  BY <1>3, <1>4

\* The masks that are asked for bring no stale result.
Fresh(masks) == StaleMasks(edit.masks, edit.content) = {} => StaleMasks(masks, edit.content) = {}

\* The request of a user starts a job, asks for its download or drops it.
LEMMA AskedFits ==
  ASSUME JobsInv, Free, NEW masks \in SoundMasks, Fresh(masks), BecomeMasks(masks),
         cache' \in CacheType, cache'.subject = cache.subject,
         composes' \subseteq ComposeType, retouch' = retouch,
         NEW kind, NEW a, Ready(kind, a, masks), a.update = ai.update, NEW source \in Contents,
         NEW outcome \in Requested(kind, a, masks, source, doc.stale), Take(outcome)
  PROVE  JobsInv' /\ (Marked => Marked')
<1>1. ~doc.loading /\ ~ai.update.running /\ actions' \in 0 .. MaxActions
  BY FreeIs
<1>2. DocFits /\ edit \in SoundEdit /\ HistoryFits /\ doc.stale \in BOOLEAN /\ retouch \in BOOLEAN
  BY DEF JobsInv, DocFits
<1>3. /\ edit' \in SoundEdit /\ HistoryFits' /\ edit'.masks = masks
      /\ edit'.content = edit.content
  BY <1>2, BecomeMasksFits
<1>4. /\ OutcomeFits(outcome, masks)
      /\ outcome.op # NoOp => outcome.op.document = doc.generation /\ ~outcome.op.cancelled
      /\ outcome.stale => doc.stale
      /\ doc.stale => outcome.stale
  BY <1>1, <1>2, RequestedFits
<1>5. UpdateCovers(outcome.ai, outcome.op, masks, edit.content)
  <2>1. RequestCovers(kind, a, masks, edit.content)
    BY <1>1 DEF RequestCovers
  <2> QED
    BY <1>2, <2>1, RequestedFits
<1>6. ~outcome.ai.update.running
  <2>1. IsAi(a)
    BY DEF IsAi, IsUpdate, Ready, AiType, UpdateType
  <2> QED
    BY <1>1, <2>1, RequestedFollows DEF Follows
<1>7. /\ DocFits' /\ doc'.generation = doc.generation /\ doc'.loading = doc.loading
      /\ doc'.stale = outcome.stale
  BY <1>2, <1>4, TakenDoc DEF OutcomeFits
<1>8. EditFits'
  BY <1>1, <1>2, <1>3, <1>7 DEF EditFits
<1>9. FreshSubject' = FreshSubject /\ (doc.stale => FreshSubject)
  BY <1>3 DEF FreshSubject, JobsInv
<1>10. JobsInv'
  BY <1>1, <1>3, <1>4, <1>5, <1>6, <1>7, <1>8, <1>9, TakenFits
<1>11. Marked => Marked'
  BY <1>3, <1>4, <1>7, <1>9 DEF Marked, Fresh
<1> QED
  BY <1>10, <1>11

\* The user changes the masks.
LEMMA MasksChangedFit ==
  ASSUME JobsInv, Free, NEW masks \in SoundMasks, Fresh(masks), BecomeMasks(masks),
         cache' \in CacheType, cache'.subject = cache.subject,
         composes' \subseteq ComposeType, retouch' \in BOOLEAN, UNCHANGED <<doc, op, ai>>
  PROVE  JobsInv' /\ (Marked => Marked')
<1>1. ~doc.loading /\ actions' \in 0 .. MaxActions
  BY FreeIs
<1>2. DocFits /\ edit \in SoundEdit /\ HistoryFits
  BY DEF JobsInv
<1>3. /\ edit' \in SoundEdit /\ HistoryFits' /\ edit'.masks = masks
      /\ edit'.content = edit.content
  BY <1>2, BecomeMasksFits
<1>4. EditFits'
  BY <1>1, <1>2, <1>3 DEF EditFits, DocFits
<1>5. FreshSubject' = FreshSubject /\ (doc.stale => FreshSubject)
  BY <1>3 DEF FreshSubject, JobsInv
<1> QED
  BY <1>3, <1>4, <1>5, ChangedFits DEF Marked, Fresh

\* Only the dialogs, the cache's source and the people masks being made change.
LEMMA UneditedFits ==
  ASSUME JobsInv, Free, UNCHANGED <<doc, edit, history, op, ai>>, cache' \in CacheType,
         cache'.subject = cache.subject, composes' \subseteq ComposeType, retouch' \in BOOLEAN
  PROVE  JobsInv' /\ (Marked => Marked')
<1>1. ~doc.loading /\ actions' \in 0 .. MaxActions
  BY FreeIs
<1>2. EditFits'
  BY <1>1 DEF EditFits, JobsInv, DocFits, HistoryFits
<1>3. FreshSubject' = FreshSubject /\ (doc.stale => FreshSubject)
  BY DEF FreshSubject, JobsInv
<1> QED
  BY <1>2, <1>3, ChangedFits DEF Marked

\* request_generated_mask: the result in use is shown, which is of the content in a marked
\* edit, or a job is requested.
LEMMA AskForSubjectFits ==
  ASSUME JobsInv, Free, NEW masks \in SoundMasks, Fresh(masks), NEW i \in DOMAIN masks,
         masks[i].kind = "subject", AskForSubject(masks), UNCHANGED <<composes, retouch>>
  PROVE  JobsInv' /\ (Marked => Marked')
<1>1. composes' \subseteq ComposeType /\ retouch' \in BOOLEAN /\ cache \in CacheType
      /\ edit \in SoundEdit /\ HistoryFits
  BY DEF JobsInv
<1>2. CASE /\ cache.subject # NoContent
           /\ BecomeMasks(WithSubject(masks, cache.subject))
           /\ UNCHANGED <<doc, op, ai, cache>>
  <2> DEFINE new == WithSubject(masks, cache.subject)
  <2>1. Refreshes(masks, new, cache.subject) /\ cache.subject \in Contents
    BY SubjectsRefreshed, JobsFacts
  <2> HIDE DEF new
  <2>2. new \in SoundMasks
    BY <2>1, RefreshedIs
  <2>3. CASE cache.subject = edit.content
    <3>1. Fresh(new)
      <4>1. \A j \in StaleMasks(new, edit.content) : j \in StaleMasks(masks, edit.content)
        BY <2>1, <2>3, RefreshedIs
      <4> QED
        BY <4>1 DEF Fresh
    <3> QED
      BY <1>1, <1>2, <2>2, <3>1, MasksChangedFit DEF new
  <2>4. CASE cache.subject # edit.content
    <3>1. ~FreshSubject
      BY <1>2, <2>4 DEF FreshSubject
    <3>2. ~doc.stale
      BY <3>1 DEF JobsInv
    <3>3. /\ edit' \in SoundEdit /\ HistoryFits' /\ edit'.masks = new
          /\ edit'.content = edit.content
      BY <1>1, <1>2, <2>2, BecomeMasksFits DEF new
    <3>4. EditFits'
      BY <1>1, <1>2, <3>3, FreeIs DEF EditFits, JobsInv, DocFits
    <3>5. JobsInv'
      BY <1>2, <3>2, <3>4, ChangedFits
    <3> QED
      BY <3>1, <3>2, <3>5 DEF Marked
  <2> QED
    BY <2>3, <2>4
<1>3. ASSUME cache.subject = NoContent, BecomeMasks(masks),
             cache' = [cache EXCEPT !.source = Captured],
             NEW outcome \in Requested("subject", ai, masks, Captured, doc.stale), Take(outcome)
      PROVE  JobsInv' /\ (Marked => Marked')
  <2>1. Captured \in Contents /\ cache' \in CacheType /\ cache'.subject = cache.subject
    BY <1>3, CapturedFits
  <2>2. Ready("subject", ai, masks)
    <3>1. Idle(ai)
      BY FreeIs
    <3>2. i \in Needing(masks, "subject") /\ <<>> = <<>>
      BY NeedingIs
    <3>3. ai.people \in Seq(1 .. MaxMasks) /\ ai.people = <<>> /\ DOMAIN ai.people = {}
      BY <3>1 DEF Idle
    <3> QED
      BY <3>1, <3>2, <3>3 DEF Ready, Idle, Kinds
  <2> QED
    BY <1>1, <1>3, <2>1, <2>2, AskedFits
<1> QED
  BY <1>2, <1>3 DEF AskForSubject

\* request_object_mask: the job is for the object that was painted.
LEMMA AskForObjectFits ==
  ASSUME JobsInv, Free, NEW masks \in SoundMasks, Fresh(masks), NEW i \in DOMAIN masks,
         masks[i].kind = "object", AskForObject(masks, i), UNCHANGED <<composes, retouch>>
  PROVE  JobsInv' /\ (Marked => Marked')
<1>1. composes' \subseteq ComposeType /\ retouch' \in BOOLEAN /\ cache' \in CacheType
      /\ cache' = cache
  BY DEF JobsInv, AskForObject
<1>2. CASE UNCHANGED <<doc, op, ai>>
  BY <1>1, <1>2, MasksChangedFit DEF AskForObject
<1>3. ASSUME masks[i].input # 0,
             NEW outcome \in Requested("object", [ai EXCEPT !.object = i], masks,
                                      cache.source, doc.stale),
             Take(outcome)
      PROVE  JobsInv' /\ (Marked => Marked')
  <2> DEFINE a == [ai EXCEPT !.object = i]
  <2>1. Idle(ai) /\ i \in 1 .. MaxMasks
    BY FreeIs, SoundIs
  <2>2. i \in 0 .. MaxMasks
    BY <2>1
  <2>3. /\ a \in AiType /\ a.consent = ai.consent /\ a.object = i /\ a.people = ai.people
        /\ a.update = ai.update
    BY <2>1, <2>2, AiFields DEF Idle
  <2> HIDE DEF a
  <2>4. i \in Needing(masks, "object")
    BY <1>3 DEF Needing, Derived
  <2>5. Ready("object", a, masks)
    <3>1. DOMAIN a.people = {} /\ a.people = <<>>
      BY <2>1, <2>3 DEF Idle
    <3> QED
      BY <2>1, <2>3, <2>4, <3>1 DEF Ready, Idle, Kinds
  <2>6. cache.source \in Contents /\ cache'.subject = cache.subject
    BY <1>1, JobsFacts
  <2>7. BecomeMasks(masks)
    BY DEF AskForObject
  <2>8. outcome \in Requested("object", a, masks, cache.source, doc.stale)
    BY <1>3 DEF a
  <2> QED
    BY <1>1, <1>3, <2>3, <2>5, <2>6, <2>7, <2>8, AskedFits
<1> QED
  BY <1>2, <1>3 DEF AskForObject

\* request_people_masks: the job is for the people that were chosen.
LEMMA AskForPeopleFits ==
  ASSUME JobsInv, Free, NEW masks \in SoundMasks, Fresh(masks), NEW i \in DOMAIN masks,
         masks[i].kind = "person", AskForPeople(masks, i), composes' \subseteq composes,
         retouch' = retouch
  PROVE  JobsInv' /\ (Marked => Marked')
<1> DEFINE a == [ai EXCEPT !.people = <<i>>]
<1>1. PICK outcome \in Requested("person", a, masks, Captured, doc.stale) : Take(outcome)
  BY DEF AskForPeople
<1>2. BecomeMasks(masks) /\ cache' = [cache EXCEPT !.source = Captured]
  BY DEF AskForPeople
<1>3. Captured \in Contents /\ cache' \in CacheType /\ cache'.subject = cache.subject
  BY <1>2, CapturedFits
<1>4. Idle(ai) /\ i \in 1 .. MaxMasks
  BY FreeIs, SoundIs
<1>5. <<i>> \in Seq(1 .. MaxMasks) /\ <<i>> # <<>> /\ \A k \in DOMAIN <<i>> : <<i>>[k] = i
  BY <1>4
<1>6. /\ a \in AiType /\ a.consent = ai.consent /\ a.object = ai.object /\ a.people = <<i>>
      /\ a.update = ai.update
  BY <1>4, <1>5, AiFields DEF Idle
<1> HIDE DEF a
<1>7. i \in Needing(masks, "person")
  BY NeedingIs
<1>8. Ready("person", a, masks)
  BY <1>4, <1>5, <1>6, <1>7 DEF Ready, Idle, Kinds
<1>9. composes' \subseteq ComposeType
  BY DEF JobsInv
<1> QED
  BY <1>1, <1>2, <1>3, <1>6, <1>8, <1>9, AskedFits

\* start_people_compose changes neither the masks nor the mark.
LEMMA ComposeFits ==
  ASSUME JobsInv, Free, NEW i \in DOMAIN edit.masks, NEW choice \in Input, Compose(i, choice),
         retouch' = retouch
  PROVE  JobsInv' /\ (Marked => Marked')
<1>1. cache' = [cache EXCEPT !.source = Captured]
  BY DEF Compose
<1>2. Captured \in Contents /\ cache' \in CacheType /\ cache'.subject = cache.subject
  BY <1>1, CapturedFits
<1>3. i \in 1 .. MaxMasks /\ edit.masks[i].input \in Input
  BY JobsFacts, SoundIs DEF Component
<1>4. composes' \subseteq ComposeType
  BY <1>2, <1>3 DEF Compose, ComposesBut, ComposeType, JobsInv
<1> QED
  BY <1>2, <1>4, UneditedFits DEF Compose, JobsInv

\* Both parts are in a sequence that is joined.
LEMMA JoinedHas ==
  ASSUME NEW S, NEW p \in Seq(S), NEW q \in Seq(S)
  PROVE  p \o q \in Seq(S) /\ From(p, p \o q) /\ From(q, p \o q)
<1>1. /\ p \o q \in Seq(S) /\ Len(p \o q) = Len(p) + Len(q)
      /\ \A i \in 1 .. Len(p) + Len(q) : (p \o q)[i] = IF i <= Len(p) THEN p[i] ELSE q[i - Len(p)]
  BY ConcatProperties
<1>2. /\ Len(p) \in Nat /\ DOMAIN p = 1 .. Len(p) /\ Len(q) \in Nat /\ DOMAIN q = 1 .. Len(q)
      /\ DOMAIN (p \o q) = 1 .. Len(p) + Len(q)
  BY <1>1, LenProperties
<1>3. \A k \in DOMAIN p : k \in DOMAIN (p \o q) /\ (p \o q)[k] = p[k]
  BY <1>1, <1>2
<1>4. ASSUME NEW k \in DOMAIN q
      PROVE  k + Len(p) \in DOMAIN (p \o q) /\ (p \o q)[k + Len(p)] = q[k]
  <2>1. k + Len(p) \in 1 .. Len(p) + Len(q) /\ ~(k + Len(p) <= Len(p))
        /\ (k + Len(p)) - Len(p) = k
    BY <1>2
  <2> QED
    BY <1>1, <1>2, <2>1
<1> QED
  BY <1>1, <1>3, <1>4 DEF From

\* The plan of an update has a step for every result of another content.
LEMMA PlanIs ==
  ASSUME NEW masks \in SoundMasks
  PROVE  /\ Plan(masks) \in Seq(StepType)
         /\ \A content : \A i \in StaleMasks(masks, content) : BySteps(Plan(masks), masks, i)
<1> DEFINE at == Indices(masks, "object")
           subjects == IF Depends(masks, "subject") THEN <<Step("subject", 0)>> ELSE <<>>
           objects == [k \in DOMAIN at |-> Step("object", at[k])]
           people == IF Depends(masks, "person") THEN <<Step("person", 0)>> ELSE <<>>
<1>1. 0 \in 0 .. MaxMasks /\ \A kind \in Kinds : \A k \in 0 .. MaxMasks : Step(kind, k) \in StepType
  BY ContentAssumption DEF Step, StepType
<1>2. subjects \in Seq(StepType) /\ people \in Seq(StepType)
  <2>1. Step("subject", 0) \in StepType /\ Step("person", 0) \in StepType
    BY <1>1 DEF Kinds
  <2> QED
    BY <2>1
<1>3. /\ at \in Seq(1 .. MaxMasks) /\ DOMAIN at = 1 .. Len(at) /\ Len(at) \in Nat
      /\ \A i \in Needing(masks, "object") : \E k \in DOMAIN at : at[k] = i
  BY IndicesAre, LenProperties
<1> HIDE DEF at
<1>4. /\ objects \in Seq(StepType) /\ DOMAIN objects = DOMAIN at
      /\ \A k \in DOMAIN at : objects[k] = Step("object", at[k])
  <2>1. \A k \in DOMAIN at : at[k] \in 0 .. MaxMasks
    <3>1. \A k \in DOMAIN at : at[k] \in 1 .. MaxMasks
      BY <1>3, ElementOfSeq
    <3> QED
      BY <3>1, ContentAssumption
  <2>2. \A k \in DOMAIN at : Step("object", at[k]) \in StepType
    BY <1>1, <2>1 DEF Kinds
  <2>3. objects \in [1 .. Len(at) -> StepType]
    BY <1>3, <2>2
  <2> QED
    BY <1>3, <2>3, SeqDef
<1>5. Plan(masks) = subjects \o objects \o people
  BY DEF Plan, at
<1> HIDE DEF objects
<1> DEFINE most == subjects \o objects
<1>6. most \in Seq(StepType) /\ From(subjects, most) /\ From(objects, most)
  BY <1>2, <1>4, JoinedHas
<1>7. most \o people \in Seq(StepType) /\ From(most, most \o people) /\ From(people, most \o people)
  <2> HIDE DEF most, people
  <2> QED
    BY <1>2, <1>6, JoinedHas
<1> DEFINE plan == most \o people
<1>8. plan = Plan(masks)
  BY <1>5
<1>9. /\ \A k \in DOMAIN subjects : \E j \in DOMAIN plan : plan[j] = subjects[k]
      /\ \A k \in DOMAIN objects : \E j \in DOMAIN plan : plan[j] = objects[k]
      /\ \A k \in DOMAIN people : \E j \in DOMAIN plan : plan[j] = people[k]
  <2> HIDE DEF most, plan, subjects, people
  <2>1. From(most, plan) /\ From(people, plan)
    BY <1>7 DEF plan
  <2>2. \A k \in DOMAIN most : \E j \in DOMAIN plan : plan[j] = most[k]
    BY <2>1 DEF From
  <2> QED
    BY <1>6, <2>1, <2>2 DEF From
<1> HIDE DEF plan
<1>10. ASSUME NEW content, NEW i \in StaleMasks(masks, content)
       PROVE  BySteps(plan, masks, i)
  <2>1. i \in Needing(masks, masks[i].kind) /\ masks[i].kind \in Kinds
    <3>1. i \in DOMAIN masks
      BY DEF StaleMasks
    <3> QED
      BY <1>10, <3>1, NeedingIs, SoundIs DEF Component
  <2>2. CASE masks[i].kind = "subject"
    <3>1. subjects = <<Step("subject", 0)>>
      BY <2>1, <2>2 DEF Depends
    <3>2. 1 \in DOMAIN subjects /\ subjects[1].kind = "subject"
      BY <3>1 DEF Step
    <3> QED
      BY <1>9, <2>2, <3>2 DEF BySteps
  <2>3. CASE masks[i].kind = "object"
    <3>1. PICK k \in DOMAIN at : at[k] = i
      BY <1>3, <2>1, <2>3
    <3>2. k \in DOMAIN objects /\ objects[k].kind = "object" /\ objects[k].at = i
      BY <1>4, <3>1 DEF Step
    <3> QED
      BY <1>9, <2>3, <3>2 DEF BySteps
  <2>4. CASE masks[i].kind = "person"
    <3>1. people = <<Step("person", 0)>>
      BY <2>1, <2>4 DEF Depends
    <3>2. 1 \in DOMAIN people /\ people[1].kind = "person"
      BY <3>1 DEF Step
    <3> QED
      BY <1>9, <2>4, <3>2 DEF BySteps
  <2> QED
    BY <2>1, <2>2, <2>3, <2>4 DEF Kinds
<1> QED
  BY <1>7, <1>8, <1>10 DEF plan

-----------------------------------------------------------------------------
(* Masks that bring no stale result. *)

\* Masks of the edit, copied or fewer, bring no stale result.
LEMMA CopiesAreFresh ==
  ASSUME NEW masks, From(masks, edit.masks)
  PROVE  Fresh(masks)
  BY DEF Fresh, From, StaleMasks

\* A component without a result brings no stale one.
LEMMA AppendedIsFresh ==
  ASSUME JobsInv, Len(edit.masks) < MaxMasks, NEW c \in SoundComponent, c.made = NoResult
  PROVE  LET masks == Append(edit.masks, c)
         IN /\ masks \in SoundMasks /\ Fresh(masks) /\ Len(masks) = Len(edit.masks) + 1
            /\ Len(edit.masks) + 1 \in DOMAIN masks /\ masks[Len(edit.masks) + 1] = c
<1> DEFINE masks == Append(edit.masks, c)
<1>1. /\ masks \in SoundMasks /\ Len(masks) = Len(edit.masks) + 1
      /\ masks[Len(edit.masks) + 1] = c /\ DOMAIN masks = 1 .. Len(edit.masks) + 1
      /\ \A i \in DOMAIN edit.masks : masks[i] = edit.masks[i]
  BY JobsFacts, AppendedIsSound
<1>2. DOMAIN edit.masks = 1 .. Len(edit.masks) /\ Len(edit.masks) \in Nat
  BY JobsFacts, SoundIs
<1> HIDE DEF masks
<1>3. \A i \in DOMAIN masks : i \in DOMAIN edit.masks \/ masks[i] = c
  BY <1>1, <1>2
<1>4. Fresh(masks)
  BY <1>1, <1>3 DEF Fresh, StaleMasks
<1> QED
  BY <1>1, <1>2, <1>4 DEF masks

\* A component with no result, or with the one it had, brings no stale one.
LEMMA ReplacedIsFresh ==
  ASSUME JobsInv, NEW i \in DOMAIN edit.masks, NEW c \in SoundComponent,
         c.made \in {NoResult, edit.masks[i].made}
  PROVE  LET masks == [edit.masks EXCEPT ![i] = c]
         IN /\ masks \in SoundMasks /\ Fresh(masks)
            /\ i \in DOMAIN masks /\ masks[i] = c
<1> DEFINE masks == [edit.masks EXCEPT ![i] = c]
<1>1. /\ masks \in SoundMasks /\ DOMAIN masks = DOMAIN edit.masks /\ masks[i] = c
      /\ \A j \in DOMAIN edit.masks : j # i => masks[j] = edit.masks[j]
  BY JobsFacts, ReplacedIsSound
<1> HIDE DEF masks
<1>2. Fresh(masks)
  BY <1>1 DEF Fresh, StaleMasks
<1> QED
  BY <1>1, <1>2 DEF masks

\* A stroke painted, or other people chosen.
LEMMA PaintedIsSound ==
  ASSUME NEW strokes \in Input
  PROVE  LET c == [New("object") EXCEPT !.input = strokes]
         IN c \in SoundComponent /\ c.kind = "object" /\ c.made = NoResult
<1>1. New("object") \in SoundComponent /\ New("object").kind = "object" /\ New("object").made = NoResult
  BY NewIsSound DEF Kinds
<1> QED
  BY <1>1 DEF SoundComponent, Component, WellMade

\* A people mask keeps its result while other people are chosen for it.
LEMMA ChosenIsSound ==
  ASSUME NEW c \in SoundComponent, c.kind = "person", NEW choice \in Input
  PROVE  LET d == [c EXCEPT !.input = choice]
         IN d \in SoundComponent /\ d.kind = "person" /\ d.made = c.made
  BY DEF SoundComponent, Component, WellMade

-----------------------------------------------------------------------------
(* The user's actions. *)

\* A mask is added: it has no result, or the one in use.
LEMMA AddMaskFits ==
  ASSUME JobsInv, NEW kind \in Kinds, AddMask(kind)
  PROVE  JobsInv' /\ (Marked => Marked')
<1> DEFINE masks == Append(edit.masks, New(kind))
<1>1. Free /\ UNCHANGED <<composes, retouch>> /\ Len(edit.masks) < MaxMasks
  BY DEF AddMask
<1>2. New(kind) \in SoundComponent /\ New(kind).kind = kind /\ New(kind).made = NoResult
  BY NewIsSound
<1>3. /\ masks \in SoundMasks /\ Fresh(masks) /\ Len(masks) = Len(edit.masks) + 1
      /\ Len(masks) \in DOMAIN masks /\ masks[Len(masks)] = New(kind)
  BY <1>1, <1>2, AppendedIsFresh
<1>4. \/ kind = "subject" /\ AskForSubject(masks)
      \/ /\ kind = "object"
         /\ BecomeMasks(masks)
         /\ cache' = [cache EXCEPT !.source = Captured]
         /\ UNCHANGED <<doc, op, ai>>
      \/ kind = "person" /\ AskForPeople(masks, Len(masks))
  BY DEF AddMask
<1> HIDE DEF masks
<1>5. CASE kind = "subject" /\ AskForSubject(masks)
  BY <1>1, <1>2, <1>3, <1>5, AskForSubjectFits
<1>6. CASE /\ BecomeMasks(masks)
           /\ cache' = [cache EXCEPT !.source = Captured]
           /\ UNCHANGED <<doc, op, ai>>
  <2>1. cache' \in CacheType /\ cache'.subject = cache.subject
    BY <1>6, CapturedFits
  <2> QED
    BY <1>1, <1>3, <1>6, <2>1, MasksChangedFit DEF JobsInv
<1>7. CASE kind = "person" /\ AskForPeople(masks, Len(masks))
  BY <1>1, <1>2, <1>3, <1>7, AskForPeopleFits
<1> QED
  BY <1>4, <1>5, <1>6, <1>7

\* A stroke is painted for an object.
LEMMA PaintObjectFits ==
  ASSUME JobsInv, NEW i \in DOMAIN edit.masks, NEW strokes \in Input, PaintObject(i, strokes)
  PROVE  JobsInv' /\ (Marked => Marked')
<1> DEFINE painted == [New("object") EXCEPT !.input = strokes]
<1>1. Free /\ UNCHANGED <<composes, retouch>>
  BY DEF PaintObject
<1>2. painted \in SoundComponent /\ painted.kind = "object" /\ painted.made = NoResult
  BY PaintedIsSound
<1>3. \/ AskForObject([edit.masks EXCEPT ![i] = painted], i)
      \/ /\ Len(edit.masks) < MaxMasks
         /\ AskForObject(Append(edit.masks, painted), Len(edit.masks) + 1)
  BY DEF PaintObject
<1> HIDE DEF painted
<1>4. CASE AskForObject([edit.masks EXCEPT ![i] = painted], i)
  <2> DEFINE masks == [edit.masks EXCEPT ![i] = painted]
  <2>1. masks \in SoundMasks /\ Fresh(masks) /\ i \in DOMAIN masks /\ masks[i] = painted
    BY <1>2, ReplacedIsFresh
  <2> HIDE DEF masks
  <2> QED
    BY <1>1, <1>2, <1>4, <2>1, AskForObjectFits DEF masks
<1>5. CASE /\ Len(edit.masks) < MaxMasks
           /\ AskForObject(Append(edit.masks, painted), Len(edit.masks) + 1)
  <2> DEFINE masks == Append(edit.masks, painted)
             last == Len(edit.masks) + 1
  <2>1. masks \in SoundMasks /\ Fresh(masks) /\ last \in DOMAIN masks /\ masks[last] = painted
    BY <1>2, <1>5, AppendedIsFresh
  <2>2. AskForObject(masks, last)
    BY <1>5
  <2> HIDE DEF masks, last
  <2> QED
    BY <1>1, <1>2, <2>1, <2>2, AskForObjectFits
<1> QED
  BY <1>3, <1>4, <1>5

\* People are chosen, and a mask for them made from the analysis or by a job.
LEMMA ChoosePeopleFits ==
  ASSUME JobsInv, NEW i \in DOMAIN edit.masks, NEW choice \in Input, ChoosePeople(i, choice)
  PROVE  JobsInv' /\ (Marked => Marked')
<1>1. Free /\ retouch' = retouch /\ edit.masks[i].kind = "person"
  BY DEF ChoosePeople
<1>2. ComposesBut(i) \subseteq composes /\ composes \subseteq ComposeType /\ retouch \in BOOLEAN
      /\ cache \in CacheType
  BY DEF ComposesBut, JobsInv
<1>3. CASE composes' = ComposesBut(i) /\ UNCHANGED <<doc, edit, history, op, ai, cache>>
  <2>1. composes' \subseteq ComposeType
    BY <1>2, <1>3
  <2> QED
    BY <1>1, <1>2, <1>3, <2>1, UneditedFits
<1>4. CASE Compose(i, choice)
  BY <1>1, <1>4, ComposeFits
<1>5. CASE /\ composes' = ComposesBut(i)
           /\ AskForPeople([edit.masks EXCEPT ![i].input = choice], i)
  <2> DEFINE c == [edit.masks[i] EXCEPT !.input = choice]
             masks == [edit.masks EXCEPT ![i] = c]
  <2>1. edit.masks[i] \in SoundComponent
    BY JobsFacts, SoundIs, ElementOfSeq
  <2>2. c \in SoundComponent /\ c.kind = "person" /\ c.made = edit.masks[i].made
    BY <1>1, <2>1, ChosenIsSound
  <2>3. masks = [edit.masks EXCEPT ![i].input = choice]
    OBVIOUS
  <2>4. AskForPeople(masks, i)
    BY <1>5, <2>3
  <2> HIDE DEF c
  <2>5. masks \in SoundMasks /\ Fresh(masks) /\ i \in DOMAIN masks /\ masks[i] = c
    BY <2>2, ReplacedIsFresh
  <2> HIDE DEF masks
  <2> QED
    BY <1>1, <1>2, <1>5, <2>2, <2>4, <2>5, AskForPeopleFits
<1> QED
  BY <1>3, <1>4, <1>5 DEF ChoosePeople

\* A mask is made again.
LEMMA AskAgainFits ==
  ASSUME JobsInv, NEW i \in DOMAIN edit.masks, AskAgain(i)
  PROVE  JobsInv' /\ (Marked => Marked')
<1>1. Free /\ retouch' = retouch /\ edit.masks \in SoundMasks /\ Fresh(edit.masks)
  BY JobsFacts DEF AskAgain, Fresh
<1>2. edit.masks[i].input \in Input
  BY <1>1, SoundIs DEF Component
<1> QED
  BY <1>1, <1>2, AskForSubjectFits, AskForObjectFits, AskForPeopleFits, ComposeFits DEF AskAgain

\* A component is copied or deleted.
LEMMA CopyFits ==
  ASSUME JobsInv, NEW i \in DOMAIN edit.masks, Duplicate(i) \/ Delete(i)
  PROVE  JobsInv' /\ (Marked => Marked')
<1>1. /\ Free /\ UNCHANGED <<doc, op, ai, cache, composes, retouch>>
      /\ edit.masks \in SoundMasks
  BY JobsFacts DEF Duplicate, Delete
<1>2. cache' \in CacheType /\ composes' \subseteq ComposeType /\ retouch' \in BOOLEAN
  BY <1>1 DEF JobsInv
<1>3. CASE Duplicate(i)
  <2> DEFINE masks == InsertAt(edit.masks, i + 1, edit.masks[i])
  <2>1. masks \in SoundMasks /\ From(masks, edit.masks) /\ BecomeMasks(masks)
    BY <1>1, <1>3, InsertedIsSound DEF Duplicate
  <2> HIDE DEF masks
  <2> QED
    BY <1>1, <1>2, <2>1, CopiesAreFresh, MasksChangedFit
<1>4. CASE Delete(i)
  <2> DEFINE masks == RemoveAt(edit.masks, i)
  <2>1. masks \in SoundMasks /\ From(masks, edit.masks) /\ BecomeMasks(masks)
    BY <1>1, <1>4, RemovedIsSound DEF Delete
  <2> HIDE DEF masks
  <2> QED
    BY <1>1, <1>2, <2>1, CopiesAreFresh, MasksChangedFit
<1> QED
  BY <1>3, <1>4

\* A retouch stroke is started.
LEMMA StartRetouchFits ==
  ASSUME JobsInv, StartRetouch
  PROVE  JobsInv' /\ (Marked => Marked')
<1>1. cache' \in CacheType /\ composes' \subseteq ComposeType
  BY DEF StartRetouch, JobsInv
<1> QED
  BY <1>1, UneditedFits DEF StartRetouch

\* An edit with nothing to update has no stale result.
LEMMA NothingIsStale ==
  ASSUME NEW masks \in SoundMasks, ~HasDependencies(masks), NEW content
  PROVE  StaleMasks(masks, content) = {}
<1> SUFFICES ASSUME NEW i \in StaleMasks(masks, content) PROVE FALSE
  OBVIOUS
<1>1. i \in DOMAIN masks
  BY DEF StaleMasks
<1>2. masks[i].kind \in Kinds
  BY <1>1, SoundIs DEF Component
<1>3. i \in Needing(masks, masks[i].kind)
  BY NeedingIs
<1> QED
  BY <1>2, <1>3 DEF HasDependencies, Depends

\* request_ai_update: the plan of the update has every stale result.
LEMMA RequestUpdateFits ==
  ASSUME JobsInv, RequestUpdate
  PROVE  JobsInv' /\ (Marked => Marked')
<1>1. /\ Free /\ UNCHANGED <<edit, history, composes, retouch>> /\ edit.masks \in SoundMasks
      /\ edit.content \in Contents /\ NoContent \in Contents
  BY JobsFacts DEF RequestUpdate
<1>2. /\ ~doc.loading /\ Idle(ai) /\ actions' \in 0 .. MaxActions /\ DocFits
      /\ doc.stale \in BOOLEAN
  BY <1>1, FreeIs DEF JobsInv, DocFits
<1>3. CASE /\ ~HasDependencies(edit.masks)
           /\ doc' = [doc EXCEPT !.stale = FALSE]
           /\ UNCHANGED <<op, ai, cache>>
  <2>1. /\ DocFits' /\ doc'.generation = doc.generation /\ doc'.loading = doc.loading
        /\ ~doc'.stale
    BY <1>2, <1>3 DEF DocFits
  <2>2. EditFits'
    BY <1>1, <1>2, <1>3, <2>1 DEF EditFits, JobsInv, HistoryFits
  <2>3. JobsInv'
    BY <1>1, <1>3, <2>1, <2>2, ChangedFits
  <2>4. StaleMasks(edit.masks, edit.content) = {}
    BY <1>1, <1>3, NothingIsStale
  <2>5. Marked => FreshSubject
    BY DEF Marked, JobsInv
  <2> QED
    BY <1>1, <1>3, <2>3, <2>4, <2>5 DEF Marked, FreshSubject
<1>4. CASE HasDependencies(edit.masks)
  <2> DEFINE u == [running |-> TRUE, failed |-> FALSE, steps |-> Plan(edit.masks)]
             a == [ai EXCEPT !.update = u]
  <2>1. PICK outcome \in Continued(a, edit.masks, edit.content, doc.stale) : Take(outcome)
    BY <1>4 DEF RequestUpdate
  <2>2. cache' = [cache EXCEPT !.source = edit.content, !.subject = NoContent]
    BY <1>4 DEF RequestUpdate
  <2>3. cache' \in CacheType /\ cache'.subject = NoContent
    BY <1>1, <2>2 DEF JobsInv, CacheType
  <2>4. u \in UpdateType /\ u.running /\ ~u.failed /\ u.steps = Plan(edit.masks)
    BY <1>1, PlanIs DEF UpdateType
  <2> HIDE DEF u
  <2>5. Idle(a) /\ a.update = u
    BY <1>2, <2>4, AiFields DEF Idle
  <2> HIDE DEF a
  <2>6. \A i \in StaleMasks(edit.masks, edit.content) : BySteps(a.update.steps, edit.masks, i)
    BY <1>1, <2>4, <2>5, PlanIs
  <2>7. /\ OutcomeFits(outcome, edit.masks)
        /\ outcome.op # NoOp => outcome.op.document = doc.generation /\ ~outcome.op.cancelled
        /\ UpdateCovers(outcome.ai, outcome.op, edit.masks, edit.content)
        /\ doc.stale => outcome.stale \/ StaleMasks(edit.masks, edit.content) = {}
    BY <1>1, <1>2, <2>1, <2>4, <2>5, <2>6, ContinuedFits
  <2>8. /\ DocFits' /\ doc'.generation = doc.generation /\ doc'.loading = doc.loading
        /\ doc'.stale = outcome.stale
    BY <1>2, <2>1, <2>7, TakenDoc DEF OutcomeFits
  <2>9. EditFits' /\ FreshSubject'
    BY <1>1, <1>2, <2>3, <2>8 DEF EditFits, JobsInv, HistoryFits, FreshSubject
  <2>10. JobsInv'
    BY <1>1, <1>2, <2>1, <2>7, <2>8, <2>9, TakenFits
  <2> QED
    BY <1>1, <2>7, <2>8, <2>9, <2>10 DEF Marked
<1> QED
  BY <1>3, <1>4 DEF RequestUpdate

\* Another edit of the history is stepped to.
LEMMA RestoreFits ==
  ASSUME JobsInv, Free, NEW e \in SoundEdit, Restore(e), HistoryFits'
  PROVE  JobsInv'
<1>1. /\ ~doc.loading /\ op = NoOp /\ Idle(ai) /\ actions' \in 0 .. MaxActions /\ ai \in AiType
      /\ cache \in CacheType /\ retouch \in BOOLEAN
  BY FreeIs DEF JobsInv, Idle
<1>2. /\ DocFits' /\ ~doc'.loading
      /\ doc'.stale => doc.stale \/ e.content # edit.content
  <2> DEFINE stale == (doc.stale \/ e.content # edit.content) /\ HasDependencies(e.masks)
  <2>1. doc' = [doc EXCEPT !.stale = stale] /\ stale \in BOOLEAN
    BY DEF Restore
  <2>2. stale => doc.stale \/ e.content # edit.content
    OBVIOUS
  <2> HIDE DEF stale
  <2> QED
    BY <1>1, <2>1, <2>2 DEF DocFits, JobsInv
<1>3. edit' = e /\ edit'.content = e.content /\ retouch' \in BOOLEAN /\ NoContent \in Contents
  BY <1>1, JobsFacts DEF Restore
<1>4. Idle(CancelledUpdate(ai)) /\ ~CancelledUpdate(ai).update.running
  BY <1>1, CancelledFits, NoUpdateFits DEF Idle
<1>5. CASE e.content # edit.content
  <2>1. Invalidated
    BY <1>5 DEF Restore
  <2>2. /\ cache' = NoCache /\ composes' = {} /\ ai' = CancelledUpdate(ai)
        /\ op' = IF op = NoOp THEN op ELSE [op EXCEPT !.cancelled = TRUE]
    BY <2>1 DEF Invalidated
  <2>3. cache' \in CacheType /\ cache'.subject = NoContent
    BY <1>3, <2>2 DEF NoCache, CacheType
  <2>4. EditFits' /\ FreshSubject'
    BY <1>1, <1>2, <1>3, <2>2, <2>3 DEF EditFits, FreshSubject
  <2> QED
    BY <1>4, <2>2, <2>4, GivenUpFits DEF Idle
<1>6. CASE e.content = edit.content
  <2>1. composes' = {} /\ ai' = CancelledUpdate(ai) /\ op' = op
    BY <1>6 DEF Restore
  <2>2. PICK source \in {cache.source, NoContent} :
          cache' = [cache EXCEPT !.source = source,
                       !.subject = IF doc.stale THEN NoContent ELSE FirstSubject(e.masks)]
    BY <1>6 DEF Restore
  <2>3. source \in Contents /\ FirstSubject(e.masks) \in Contents
    BY <1>3, JobsFacts, FirstSubjectIs DEF SoundEdit
  <2>4. /\ cache' \in CacheType
        /\ doc.stale => cache'.subject = NoContent
    BY <1>1, <1>3, <2>2, <2>3 DEF CacheType
  <2>5. EditFits' /\ (doc'.stale => FreshSubject')
    BY <1>1, <1>2, <1>3, <1>6, <2>1, <2>4 DEF EditFits, FreshSubject
  <2> QED
    BY <1>1, <1>4, <2>1, <2>5, GivenUpFits DEF Idle
<1> QED
  BY <1>5, <1>6

\* apply_edit_snapshot: stepping through the history keeps the invariant, but not the mark.
LEMMA StepsFit ==
  ASSUME JobsInv, Undo \/ Redo
  PROVE  JobsInv'
<1>1. /\ history.undo \in Seq(SoundEdit) /\ history.redo \in Seq(SoundEdit) /\ edit \in SoundEdit
      /\ Len(history.undo) <= MaxHistory /\ Len(history.redo) <= MaxHistory
  BY DEF JobsInv, HistoryFits
<1>2. CASE Undo
  <2>1. /\ Free /\ history.undo # <<>> /\ Restore(Last(history.undo))
        /\ history' = [undo |-> Front(history.undo), redo |-> Bounded(Append(history.redo, edit))]
    BY <1>2 DEF Undo
  <2>2. /\ Last(history.undo) \in SoundEdit /\ Front(history.undo) \in Seq(SoundEdit)
        /\ Len(Front(history.undo)) <= MaxHistory
    BY <1>1, <2>1, SteppedIs
  <2>3. LET new == Bounded(Append(history.redo, edit))
        IN new \in Seq(SoundEdit) /\ Len(new) <= MaxHistory
    BY <1>1, BoundedIs
  <2>4. HistoryFits'
    BY <2>1, <2>2, <2>3 DEF HistoryFits
  <2> QED
    BY <2>1, <2>2, <2>4, RestoreFits
<1>3. CASE Redo
  <2>1. /\ Free /\ history.redo # <<>> /\ Restore(Last(history.redo))
        /\ history' = [undo |-> Bounded(Append(history.undo, edit)), redo |-> Front(history.redo)]
    BY <1>3 DEF Redo
  <2>2. /\ Last(history.redo) \in SoundEdit /\ Front(history.redo) \in Seq(SoundEdit)
        /\ Len(Front(history.redo)) <= MaxHistory
    BY <1>1, <2>1, SteppedIs
  <2>3. LET new == Bounded(Append(history.undo, edit))
        IN new \in Seq(SoundEdit) /\ Len(new) <= MaxHistory
    BY <1>1, BoundedIs
  <2>4. HistoryFits'
    BY <2>1, <2>2, <2>3 DEF HistoryFits
  <2> QED
    BY <2>1, <2>2, <2>4, RestoreFits
<1> QED
  BY <1>2, <1>3

\* The dialog's Cancel makes the job's result one that is not accepted.
LEMMA CancelFits ==
  ASSUME JobsInv, CancelOperation
  PROVE  JobsInv' /\ (Marked => Marked')
<1>1. op \in OpType /\ OpFits(op)
  BY JobsFacts
<1>2. /\ op # NoOp /\ op' = [op EXCEPT !.cancelled = TRUE]
      /\ UNCHANGED <<doc, edit, history, ai, cache, composes, retouch, actions>>
  BY DEF CancelOperation
<1>3. /\ op' \in OpType /\ op'.cancelled /\ op'.kind = op.kind /\ op'.targets = op.targets
      /\ op' # NoOp
  BY <1>1, <1>2 DEF OpType, NoOp
<1>4. OpFits(op)'
  BY <1>1, <1>2, <1>3 DEF OpFits
<1>5. JobsInv'
  BY <1>2, <1>3, <1>4
  DEF JobsInv, DocFits, HistoryFits, OneDialog, SubjectIsWanted, LoadingIsQuiet, FreshSubject,
      Accepted
<1> QED
  BY <1>2, <1>5 DEF Marked, FreshSubject

\* While a consent is asked for, no job runs and no photo loads.
LEMMA ConsentIs ==
  ASSUME JobsInv, ai.consent # NoKind
  PROVE  LET a == [ai EXCEPT !.consent = NoKind]
         IN /\ op = NoOp /\ ~doc.loading /\ ai.consent \in Kinds
            /\ Staged(ai.consent, a) /\ a.update = ai.update
            /\ a.object = ai.object /\ a.people = ai.people
<1>1. op = NoOp /\ ~doc.loading /\ ai \in AiType /\ ai.consent \in Kinds
  BY JobsFacts, AiFields DEF JobsInv, OneDialog, LoadingIsQuiet
<1> DEFINE a == [ai EXCEPT !.consent = NoKind]
<1>2. /\ a \in AiType /\ a.consent = NoKind /\ a.object = ai.object /\ a.people = ai.people
      /\ a.update = ai.update
  BY <1>1, AiFields
<1> HIDE DEF a
<1>3. Staged(ai.consent, a)
  BY <1>1, <1>2 DEF Staged, JobsInv, AiFits
<1> QED
  BY <1>1, <1>2, <1>3 DEF a

\* start_ai_job after its download: the staged inputs are still in the edit.
LEMMA AcceptFits ==
  ASSUME IInv, JobsInv, Accept
  PROVE  JobsInv' /\ (Marked => Marked')
<1> DEFINE kind == ai.consent
           a == [ai EXCEPT !.consent = NoKind]
           staged == /\ kind = "object" => a.object # None
                     /\ kind = "person" => a.people # <<>>
<1>1. /\ kind # NoKind /\ UNCHANGED <<edit, history, cache, composes, retouch, actions>>
      /\ IF staged /\ cache.source # NoContent
         THEN Take(Started(kind, a, edit.masks, cache.source, doc.stale))
         ELSE ai' = Unstaged(kind, a) /\ UNCHANGED <<doc, op>>
  BY DEF Accept
<1>2. /\ op = NoOp /\ ~doc.loading /\ kind \in Kinds /\ Staged(kind, a) /\ a.update = ai.update
      /\ a.object = ai.object /\ a.people = ai.people
  BY <1>1, ConsentIs
<1>3. DocFits /\ edit.masks \in SoundMasks /\ doc.stale \in BOOLEAN /\ cache.source \in Contents
  BY JobsFacts DEF JobsInv, DocFits
<1> HIDE DEF a
<1>4. CASE staged /\ cache.source # NoContent
  <2> DEFINE outcome == Started(kind, a, edit.masks, cache.source, doc.stale)
  <2>1. Ready(kind, a, edit.masks)
    BY <1>2, <1>4 DEF Ready, Staged, JobsInv, AiFits
  <2>2. UpdateCovers(ai, op, edit.masks, edit.content)
    BY <1>2 DEF JobsInv
  <2>3. RequestCovers(kind, a, edit.masks, edit.content)
    <3> SUFFICES ASSUME a.update.running, ~a.update.failed,
                        NEW i \in StaleMasks(edit.masks, edit.content)
                 PROVE  BySteps(a.update.steps, edit.masks, i) \/ ByRequest(kind, a, edit.masks, i)
      BY DEF RequestCovers
    <3>1. edit.masks[i].kind \in Kinds
      BY <1>3, SoundIs DEF StaleMasks, Component
    <3>2. ~ByOp(op, edit.masks, i) /\ ~(op.kind = "person")
      BY <1>2, <3>1, NoOpFits DEF ByOp, NoOp, NoKind
    <3>3. BySteps(ai.update.steps, edit.masks, i) \/ ByRequest(kind, ai, edit.masks, i)
      BY <1>2, <2>2, <3>2 DEF UpdateCovers
    <3> QED
      BY <1>2, <3>3 DEF ByRequest
  <2>4. outcome = Started(kind, a, edit.masks, cache.source, doc.stale) /\ Take(outcome)
    BY <1>1, <1>4
  <2> HIDE DEF outcome
  <2>5. /\ OutcomeFits(outcome, edit.masks)
        /\ outcome.op # NoOp => outcome.op.document = doc.generation /\ ~outcome.op.cancelled
        /\ UpdateCovers(outcome.ai, outcome.op, edit.masks, edit.content)
        /\ outcome.stale = doc.stale /\ outcome.ai.update = ai.update
    BY <1>2, <1>3, <2>1, <2>3, <2>4, StartedFits
  <2>6. /\ DocFits' /\ doc'.generation = doc.generation /\ doc'.loading = doc.loading
        /\ doc'.stale = outcome.stale
    BY <1>3, <2>4, <2>5, TakenDoc
  <2>7. EditFits' /\ FreshSubject' = FreshSubject
    BY <1>1, <1>2, <2>6 DEF EditFits, JobsInv, HistoryFits, FreshSubject
  <2>8. outcome.stale \/ outcome.ai.update.running => FreshSubject'
    BY <2>5, <2>7 DEF JobsInv
  <2>9. JobsInv'
    BY <1>1, <1>2, <2>4, <2>5, <2>6, <2>7, <2>8, TakenFits
  <2> QED
    BY <1>1, <2>5, <2>6, <2>7, <2>9 DEF Marked
<1>5. CASE ~(staged /\ cache.source # NoContent)
  <2>1. ai' = Unstaged(kind, a) /\ UNCHANGED <<doc, op>>
    BY <1>1, <1>5
  <2>2. Idle(ai') /\ ai'.update = ai.update
    BY <1>2, <2>1, UnstagedFits
  <2>3. ~ai.update.running
    <3> SUFFICES ASSUME ai.update.running PROVE FALSE
      OBVIOUS
    <3>1. cache.source = edit.content /\ edit.content # NoContent
      BY JobsFacts DEF IInv, UpdateHasItsSource
    <3>2. staged
      BY <1>2 DEF JobsInv, AiFits
    <3> QED
      BY <1>5, <3>1, <3>2
  <2>4. AiFits(ai, edit.masks)' /\ ai'.consent = NoKind
    BY <2>2, IdleFits DEF Idle
  <2>5. JobsInv'
    BY <1>1, <1>2, <2>1, <2>2, <2>3, <2>4
    DEF JobsInv, DocFits, HistoryFits, OneDialog, SubjectIsWanted, LoadingIsQuiet, FreshSubject,
        Accepted, UpdateCovers
  <2> QED
    BY <1>1, <2>1, <2>5 DEF Marked, FreshSubject
<1> QED
  BY <1>4, <1>5

\* abandon_ai_job: a declined job ends its update, and marks the edit.
LEMMA DeclineFits ==
  ASSUME JobsInv, Decline
  PROVE  JobsInv' /\ (Marked => Marked')
<1> DEFINE kind == ai.consent
           a == [ai EXCEPT !.consent = NoKind]
           outcome == Abandoned(kind, a, doc.stale)
<1>1. /\ kind # NoKind /\ Take(outcome)
      /\ UNCHANGED <<edit, history, cache, composes, retouch, actions>>
  BY DEF Decline
<1>2. /\ op = NoOp /\ ~doc.loading /\ Staged(kind, a) /\ a.update = ai.update
  BY <1>1, ConsentIs
<1>3. DocFits /\ edit.masks \in SoundMasks /\ doc.stale \in BOOLEAN
  BY JobsFacts DEF JobsInv, DocFits
<1> HIDE DEF a
<1>4. /\ OutcomeFits(outcome, edit.masks) /\ outcome.op = NoOp /\ ~outcome.ai.update.running
      /\ outcome.stale => doc.stale \/ ai.update.running
      /\ doc.stale => outcome.stale
  BY <1>2, <1>3, AbandonedFits
<1> HIDE DEF outcome
<1>5. /\ DocFits' /\ doc'.generation = doc.generation /\ doc'.loading = doc.loading
      /\ doc'.stale = outcome.stale
  BY <1>1, <1>3, <1>4, TakenDoc DEF OutcomeFits
<1>6. EditFits' /\ FreshSubject' = FreshSubject
  BY <1>1, <1>2, <1>5 DEF EditFits, JobsInv, HistoryFits, FreshSubject
<1>7. outcome.stale => FreshSubject'
  BY <1>4, <1>6 DEF JobsInv
<1>8. UpdateCovers(outcome.ai, outcome.op, edit'.masks, edit'.content)
  BY <1>4 DEF UpdateCovers
<1>9. JobsInv'
  BY <1>1, <1>2, <1>4, <1>5, <1>6, <1>7, <1>8, TakenFits
<1> QED
  BY <1>1, <1>4, <1>5, <1>6, <1>9 DEF Marked

\* Every action of the user fits, and all but stepping through the history keep the mark.
LEMMA UserFits ==
  ASSUME IInv, JobsInv, User
  PROVE  JobsInv' /\ (Undo \/ Redo \/ (Marked => Marked'))
<1>1. ASSUME NEW kind \in Kinds, AddMask(kind)
      PROVE  JobsInv' /\ (Marked => Marked')
  BY <1>1, AddMaskFits
<1>2. ASSUME NEW i \in DOMAIN edit.masks,
             \/ \E input \in Input : PaintObject(i, input) \/ ChoosePeople(i, input)
             \/ AskAgain(i) \/ Duplicate(i) \/ Delete(i)
      PROVE  JobsInv' /\ (Marked => Marked')
  BY <1>2, PaintObjectFits, ChoosePeopleFits, AskAgainFits, CopyFits
<1>3. CASE StartRetouch \/ RequestUpdate \/ CancelOperation \/ Accept \/ Decline
  BY <1>3, StartRetouchFits, RequestUpdateFits, CancelFits, AcceptFits, DeclineFits
<1>4. CASE Undo \/ Redo
  BY <1>4, StepsFit
<1> QED
  BY <1>1, <1>2, <1>3, <1>4 DEF User

-----------------------------------------------------------------------------
(* What ends on its own. *)

\* A job has ended, and an update it belongs to goes on.
LEMMA EndsFits ==
  ASSUME JobsInv, op # NoOp, NEW masks, NEW succeeded \in BOOLEAN, NEW a, Idle(a),
         a.update.running = ai.update.running, Ends(masks, succeeded, a), Fresh(masks),
         edit' \in SoundEdit, HistoryFits', edit'.masks = masks, edit'.content = edit.content,
         cache' \in CacheType, cache'.subject \in {cache.subject, edit.content},
         doc.loading => edit' = edit /\ cache' = cache,
         UNCHANGED <<composes, retouch, actions>>,
         a.update.running /\ ~a.update.failed /\ succeeded /\ Accepted =>
           \A i \in StaleMasks(masks, edit.content) : BySteps(a.update.steps, masks, i)
  PROVE  JobsInv' /\ (Marked => Marked')
<1>1. PICK outcome \in Advanced(a, masks, succeeded, ~Accepted) : Take(outcome)
  BY DEF Ends
<1>2. DocFits /\ cache \in CacheType /\ doc.stale \in BOOLEAN /\ masks \in SoundMasks
  BY DEF JobsInv, DocFits, SoundEdit
<1> DEFINE interrupted == ~Accepted
<1>3. interrupted \in BOOLEAN /\ outcome \in Advanced(a, masks, succeeded, interrupted)
  BY <1>1
<1>4. a.update.running /\ ~a.update.failed /\ succeeded /\ ~interrupted =>
           \A i \in StaleMasks(masks, edit.content) : BySteps(a.update.steps, masks, i)
  OBVIOUS
<1> HIDE DEF interrupted
<1>5. /\ OutcomeFits(outcome, masks)
      /\ outcome.op # NoOp => outcome.op.document = doc.generation /\ ~outcome.op.cancelled
      /\ UpdateCovers(outcome.ai, outcome.op, masks, edit.content)
      /\ doc.stale => outcome.stale \/ StaleMasks(masks, edit.content) = {}
      /\ outcome.stale => doc.stale \/ a.update.running
  BY <1>2, <1>3, <1>4, AdvancedFits
<1>6. /\ DocFits' /\ doc'.generation = doc.generation /\ doc'.loading = doc.loading
      /\ doc'.stale = outcome.stale
  BY <1>1, <1>2, <1>5, TakenDoc DEF OutcomeFits
<1>7. EditFits' /\ (FreshSubject => FreshSubject')
  BY <1>6 DEF EditFits, JobsInv, FreshSubject, LoadingIsQuiet
<1>8. /\ outcome.ai.update.running => a.update.running
      /\ ~a.update.running => outcome.op = NoOp /\ outcome.ai = a
  <2>1. IsAi(a)
    BY DEF IsAi, IsUpdate, Idle, AiType, UpdateType
  <2>2. ~a.update.running => outcome = Outcome(a, NoOp, doc.stale)
    BY <1>3 DEF Advanced
  <2> QED
    BY <1>3, <2>1, <2>2, AdvancedFollows DEF Follows, Outcome
<1>9. doc.loading => /\ outcome.op = NoOp /\ outcome.ai.consent = NoKind
                     /\ ~outcome.ai.update.running
  BY <1>8 DEF JobsInv, LoadingIsQuiet, Idle
<1>10. outcome.stale \/ outcome.ai.update.running => FreshSubject'
  BY <1>5, <1>7, <1>8 DEF JobsInv
<1>11. JobsInv'
  BY <1>1, <1>5, <1>6, <1>7, <1>9, <1>10, TakenFits
<1>12. Marked => Marked'
  BY <1>5, <1>6, <1>7 DEF Marked, Fresh, JobsInv
<1> QED
  BY <1>11, <1>12

\* A job that fails or does not count leaves the edit.
LEMMA FailsFit ==
  ASSUME JobsInv, op # NoOp, NEW a, Idle(a), a.update.running = ai.update.running,
         Ends(edit.masks, FALSE, a), UNCHANGED <<edit, history, cache, composes, retouch, actions>>
  PROVE  JobsInv' /\ (Marked => Marked')
<1>1. Fresh(edit.masks)
  BY DEF Fresh
<1>2. edit' \in SoundEdit /\ HistoryFits' /\ cache' \in CacheType
  BY DEF JobsInv, HistoryFits
<1> QED
  BY <1>1, <1>2, EndsFits

\* A job that is accepted is of the open photo's content.
LEMMA AcceptedIs ==
  ASSUME IInv, JobsInv, op # NoOp, Accepted
  PROVE  /\ ~doc.loading /\ op.content = edit.content /\ Idle(ai)
         /\ UpdateCovers(ai, op, edit.masks, edit.content)
  BY IdleIs DEF IInv, WorkIsOfTheContent, JobsInv, LoadingIsQuiet

\* An update whose job is accepted has the stale results in its steps, or in the job.
LEMMA LeftToSteps ==
  ASSUME IInv, JobsInv, op # NoOp, Accepted, NEW new,
         Refreshes(edit.masks, new, edit.content), ai.update.running, ~ai.update.failed,
         ~(op.kind = "person" /\ op.masks = "error"),
         NEW i \in StaleMasks(new, edit.content), ~ByOp(op, edit.masks, i)
  PROVE  BySteps(ai.update.steps, new, i)
<1>1. i \in StaleMasks(edit.masks, edit.content) /\ new[i] = edit.masks[i]
      /\ edit.masks[i].kind \in Kinds
  <2>1. i \in StaleMasks(edit.masks, edit.content) /\ new[i] = edit.masks[i]
    BY JobsFacts, RefreshedIs
  <2> QED
    BY <2>1, JobsFacts, SoundIs DEF StaleMasks, Component
<1>2. ~ByRequest(ai.consent, ai, edit.masks, i)
  BY <1>1, AcceptedIs DEF ByRequest, Idle, Kinds, NoKind
<1>3. BySteps(ai.update.steps, edit.masks, i)
  BY <1>1, <1>2, AcceptedIs DEF UpdateCovers
<1> QED
  BY <1>1, <1>3 DEF BySteps

\* Masks that are made again bring no stale result.
LEMMA RefreshedIsFresh ==
  ASSUME JobsInv, NEW new, Refreshes(edit.masks, new, edit.content)
  PROVE  new \in SoundMasks /\ Fresh(new)
<1>1. /\ new \in SoundMasks
      /\ \A i \in StaleMasks(new, edit.content) : i \in StaleMasks(edit.masks, edit.content)
  BY JobsFacts, RefreshedIs
<1> QED
  BY <1>1 DEF Fresh

\* note_remove_edit_changed: a new content marks the edit if it has something to update, and
\* forgets what was made of the one before (invalidate_generated_mask_sources).
LEMMA RetouchEndsFits ==
  ASSUME JobsInv, RetouchEnds
  PROVE  JobsInv' /\ (Marked => Marked')
<1>1. retouch /\ ~doc.loading
  BY DEF RetouchEnds, JobsInv, LoadingIsQuiet
<1>2. CASE UNCHANGED <<doc, edit, history, op, ai, cache, composes>>
  <2>1. retouch' = FALSE /\ actions' = actions
    BY DEF RetouchEnds
  <2> QED
    BY <1>1, <1>2, <2>1
    DEF JobsInv, DocFits, HistoryFits, OneDialog, SubjectIsWanted, LoadingIsQuiet, FreshSubject,
        Accepted, Marked
<1>3. CASE /\ doc.contents < MaxContents
           /\ Become([masks |-> edit.masks, content |-> doc.contents + 1])
           /\ doc' = [doc EXCEPT !.contents = @ + 1, !.stale = HasDependencies(edit.masks)]
           /\ Invalidated
  <2> DEFINE e == [masks |-> edit.masks, content |-> doc.contents + 1]
             stale == HasDependencies(edit.masks)
  <2>1. doc.contents \in -1 .. MaxContents /\ MaxContents \in Nat
    BY ContentAssumption DEF JobsInv, DocFits, Contents, NoContent
  <2>2. doc.contents + 1 \in 0 .. MaxContents /\ doc.contents + 1 \in Contents
    BY <1>3, <2>1 DEF Contents, NoContent
  <2>3. e \in SoundEdit
    BY <2>2, JobsFacts DEF SoundEdit
  <2>4. edit' = e /\ edit' \in SoundEdit /\ HistoryFits'
    BY <1>3, <2>3, BecomeFits DEF JobsInv, Become
  <2>5. stale \in BOOLEAN
    BY DEF HasDependencies
  <2>6. doc' = [doc EXCEPT !.contents = doc.contents + 1, !.stale = stale]
    BY <1>3
  <2> HIDE DEF stale
  <2>7. DocFits' /\ doc'.loading = doc.loading /\ doc'.stale = stale
    BY <2>2, <2>5, <2>6 DEF DocFits, JobsInv
  <2>8. /\ cache' = NoCache /\ composes' = {} /\ ai' = CancelledUpdate(ai)
        /\ op' = IF op = NoOp THEN op ELSE [op EXCEPT !.cancelled = TRUE]
    BY <1>3 DEF Invalidated
  <2>9. cache' \in CacheType /\ cache'.subject = NoContent
    BY <2>8, JobsFacts DEF NoCache, CacheType
  <2>10. EditFits' /\ FreshSubject'
    BY <1>1, <2>4, <2>7, <2>8, <2>9 DEF EditFits, FreshSubject, RetouchEnds, JobsInv
  <2>11. ~ai'.update.running /\ ai'.consent = ai.consent
    BY <2>8, CancelledFits, NoUpdateFits, JobsFacts
  <2>12. JobsInv'
    BY <1>1, <2>4, <2>7, <2>8, <2>10, <2>11, GivenUpFits
  <2>13. ~stale => StaleMasks(edit'.masks, edit'.content) = {}
    BY <2>4, JobsFacts, NothingIsStale DEF stale
  <2> QED
    BY <2>7, <2>10, <2>12, <2>13 DEF Marked
<1> QED
  BY <1>2, <1>3 DEF RetouchEnds

\* A people mask that is made is of the content.
LEMMA ComposedIs ==
  ASSUME IInv, JobsInv, NEW compose \in composes, compose.at \in DOMAIN edit.masks,
         edit.masks[compose.at].kind = "person"
  PROVE  LET new == [edit.masks EXCEPT
                       ![compose.at].input = compose.target,
                       ![compose.at].made = Made(compose.content, compose.target)]
         IN Refreshes(edit.masks, new, edit.content)
<1> DEFINE at == compose.at
           c == [edit.masks[at] EXCEPT !.input = compose.target,
                                       !.made = Made(compose.content, compose.target)]
           new == [edit.masks EXCEPT ![at] = c]
<1>1. /\ compose.content = edit.content /\ compose \in ComposeType
      /\ edit.masks \in SoundMasks /\ edit.content \in Contents
  BY JobsFacts DEF JobsInv, IInv, WorkIsOfTheContent
<1>2. edit.masks[at] \in Component /\ edit.masks \in Seq(Component)
  BY <1>1, SoundIs
<1>3. Made(compose.content, compose.target) \in Result /\ compose.target \in Input
  BY <1>1, MadeIsResult DEF ComposeType
<1>4. /\ c \in Component /\ c.kind = "person" /\ c.input = compose.target
      /\ c.made = Made(edit.content, c.input)
  BY <1>1, <1>2, <1>3 DEF Component
<1>5. new = [edit.masks EXCEPT
                       ![compose.at].input = compose.target,
                       ![compose.at].made = Made(compose.content, compose.target)]
  OBVIOUS
<1> HIDE DEF c
<1>6. new \in Seq(Component) /\ Len(new) = Len(edit.masks)
      /\ \A i \in DOMAIN edit.masks : new[i] = IF i = at THEN c ELSE edit.masks[i]
  BY <1>2, <1>4, ExceptSeq
<1>7. Derived(edit.masks[at]) /\ Derived(c)
  BY <1>4 DEF Derived
<1> HIDE DEF new
<1>8. Refreshes(edit.masks, new, edit.content)
  BY <1>4, <1>6, <1>7 DEF Refreshes
<1> QED
  BY <1>5, <1>8

\* apply_people_compose: the mask is of the content.
LEMMA ComposeEndsFits ==
  ASSUME IInv, JobsInv, NEW compose \in composes, ComposeEnds(compose)
  PROVE  JobsInv' /\ (Marked => Marked')
<1>1. /\ ~doc.loading /\ compose.content = edit.content /\ compose \in ComposeType
      /\ edit \in SoundEdit /\ HistoryFits /\ edit.masks \in SoundMasks
      /\ edit.content \in Contents
  BY JobsFacts DEF JobsInv, LoadingIsQuiet, IInv, WorkIsOfTheContent
<1>2. /\ composes' \subseteq composes
      /\ UNCHANGED <<doc, op, ai, cache, retouch, actions>>
  BY DEF ComposeEnds
<1> DEFINE at == compose.at
           new == [edit.masks EXCEPT ![at].input = compose.target,
                                     ![at].made = Made(compose.content, compose.target)]
<1>3. \/ /\ at \in DOMAIN edit.masks /\ edit.masks[at].kind = "person" /\ BecomeMasks(new)
      \/ UNCHANGED <<edit, history>>
  BY DEF ComposeEnds
<1>4. CASE UNCHANGED <<edit, history>>
  <2>1. Refreshes(edit.masks, edit'.masks, edit.content)
    BY <1>1, <1>4, SoundIs DEF Refreshes
  <2>2. EditFits' /\ FreshSubject' = FreshSubject
    BY <1>1, <1>2, <1>4 DEF EditFits, JobsInv, DocFits, HistoryFits, FreshSubject
  <2> QED
    BY <1>1, <1>2, <1>4, <2>1, <2>2, RefreshedFits
<1>5. CASE at \in DOMAIN edit.masks /\ edit.masks[at].kind = "person" /\ BecomeMasks(new)
  <2>1. Refreshes(edit.masks, new, edit.content)
    BY <1>5, ComposedIs
  <2> HIDE DEF new
  <2>2. new \in SoundMasks
    BY <1>1, <2>1, RefreshedIs
  <2>3. edit' \in SoundEdit /\ HistoryFits' /\ edit'.masks = new /\ edit'.content = edit.content
    BY <1>1, <1>5, <2>2, BecomeMasksFits
  <2>4. EditFits' /\ FreshSubject' = FreshSubject
    BY <1>1, <1>2, <2>3 DEF EditFits, JobsInv, DocFits, FreshSubject
  <2> QED
    BY <1>1, <1>2, <2>1, <2>3, <2>4, RefreshedFits
<1> QED
  BY <1>3, <1>4, <1>5

\* poll_ai_mask_worker: the subject of an accepted job is of the content, in every subject
\* mask and in the cache.
LEMMA SubjectEndsFits ==
  ASSUME IInv, JobsInv, SubjectEnds
  PROVE  JobsInv' /\ (Marked => Marked')
<1>1. /\ op.kind = "subject" /\ op # NoOp /\ UNCHANGED <<composes, retouch, actions>>
      /\ Idle(ai) /\ edit \in SoundEdit /\ HistoryFits /\ edit.masks \in SoundMasks
      /\ op.content \in Contents
  BY JobsFacts, IdleIs DEF SubjectEnds, JobsInv, NoOp, NoKind
<1> DEFINE new == WithSubject(edit.masks, op.content)
<1>2. CASE Ends(edit.masks, FALSE, ai) /\ UNCHANGED <<edit, history, cache>>
  BY <1>1, <1>2, FailsFit
<1>3. CASE /\ Accepted
           /\ BecomeMasks(new)
           /\ cache' = [cache EXCEPT !.subject = op.content]
           /\ Ends(new, TRUE, ai)
  <2>1. ~doc.loading /\ op.content = edit.content
    BY <1>1, <1>3, AcceptedIs
  <2>2. /\ Refreshes(edit.masks, new, edit.content)
        /\ \A i \in DOMAIN edit.masks :
             edit.masks[i].kind = "subject" => new[i].made.content = edit.content
    BY <1>1, <2>1, SubjectsRefreshed
  <2> HIDE DEF new
  <2>3. new \in SoundMasks /\ Fresh(new)
    BY <2>2, RefreshedIsFresh
  <2>4. edit' \in SoundEdit /\ HistoryFits' /\ edit'.masks = new /\ edit'.content = edit.content
    BY <1>1, <1>3, <2>3, BecomeMasksFits
  <2>5. cache' \in CacheType /\ cache'.subject = edit.content
    BY <1>1, <1>3, <2>1 DEF JobsInv, CacheType
  <2>6. ASSUME ai.update.running, ~ai.update.failed,
               NEW i \in StaleMasks(new, edit.content)
        PROVE  BySteps(ai.update.steps, new, i)
    <3>1. i \in DOMAIN edit.masks /\ new[i] = edit.masks[i] /\ new[i].made.content # edit.content
      BY <1>1, <2>2, RefreshedIs DEF StaleMasks
    <3>2. ~ByOp(op, edit.masks, i)
      BY <1>1, <2>2, <3>1 DEF ByOp
    <3> QED
      BY <1>1, <1>3, <2>2, <2>6, <3>2, LeftToSteps
  <2> QED
    BY <1>1, <1>3, <2>1, <2>3, <2>4, <2>5, <2>6, EndsFits
<1> QED
  BY <1>2, <1>3 DEF SubjectEnds

\* skip_remaining_object_updates drops steps and changes nothing else.
LEMMA WithoutObjectsIs ==
  ASSUME Idle(ai)
  PROVE  /\ Idle(WithoutObjects(ai))
         /\ WithoutObjects(ai).update.running = ai.update.running
<1> DEFINE steps == Where(ai.update.steps,
                          {step \in Range(ai.update.steps) : step.kind # "object"})
           u == [ai.update EXCEPT !.steps = steps]
<1>1. WithoutObjects(ai) = [ai EXCEPT !.update = u]
  BY DEF WithoutObjects
<1>2. ai \in AiType /\ ai.update \in UpdateType /\ ai.update.steps \in Seq(StepType)
  BY AiFields, UpdateFieldsFit DEF Idle
<1>3. steps \in Seq(StepType)
  BY <1>2, WhereIs
<1> HIDE DEF steps
<1>4. u \in UpdateType /\ u.running = ai.update.running
  BY <1>2, <1>3, UpdateFieldsFit
<1> HIDE DEF u
<1> QED
  BY <1>1, <1>2, <1>4, AiFields DEF Idle

\* The object's mask is made for its stroke, of the content, where it is resolved to.
LEMMA ObjectMadeIs ==
  ASSUME JobsInv, op.kind = "object", op.content = edit.content,
         NEW at, at = Resolved(edit.masks, op.targets[1]), at # 0
  PROVE  LET new == [edit.masks EXCEPT
                       ![at].made = Made(op.content, op.targets[1].component.input)]
         IN /\ Refreshes(edit.masks, new, edit.content)
            /\ new[at].made.content = edit.content
            /\ \A i \in DOMAIN edit.masks : ByOp(op, edit.masks, i) => i = at
<1> DEFINE target == op.targets[1]
           new == [edit.masks EXCEPT ![at].made = Made(op.content, target.component.input)]
<1>1. edit.masks \in SoundMasks /\ edit.content \in Contents
  BY JobsFacts
<1>2. /\ edit.masks \in Seq(Component) /\ at \in DOMAIN edit.masks
      /\ edit.masks[at] = target.component /\ edit.masks[at] \in Component
      /\ target.at \in DOMAIN edit.masks /\ edit.masks[target.at] = target.component => at = target.at
  BY <1>1, SoundIs, ResolvedIs
<1>3. target.component.kind = "object" /\ Derived(target.component) /\ DOMAIN op.targets = {1}
  <2>1. op.targets \in Seq(TargetType) /\ Len(op.targets) = 1 /\ Derived(target.component)
    BY DEF JobsInv, OpFits, OpType
  <2>2. DOMAIN op.targets = {1}
    BY <2>1
  <2> QED
    BY <2>1, <2>2 DEF JobsInv, OpFits
<1> HIDE DEF target
<1> DEFINE c == [edit.masks[at] EXCEPT !.made = Made(edit.content, edit.masks[at].input)]
<1>4. new = [edit.masks EXCEPT ![at] = c]
  BY <1>2
<1>5. /\ c \in Component /\ c.kind = "object" /\ c.input = edit.masks[at].input
      /\ c.made = Made(edit.content, c.input) /\ Derived(c)
  <2>1. Made(edit.content, edit.masks[at].input) \in Result
    BY <1>1, <1>2, MadeIsResult DEF Component
  <2>2. /\ c \in Component /\ c.kind = edit.masks[at].kind /\ c.input = edit.masks[at].input
        /\ c.made = Made(edit.content, edit.masks[at].input)
    BY <1>2, <2>1, RemadeIsComponent
  <2> QED
    BY <1>2, <1>3, <2>2 DEF Derived
<1> HIDE DEF c, new
<1>6. /\ new \in Seq(Component) /\ Len(new) = Len(edit.masks)
      /\ \A i \in DOMAIN edit.masks : new[i] = IF i = at THEN c ELSE edit.masks[i]
  BY <1>2, <1>4, <1>5, ExceptSeq
<1>7. Refreshes(edit.masks, new, edit.content)
  BY <1>2, <1>3, <1>5, <1>6 DEF Refreshes
<1>8. new[at].made.content = edit.content
  BY <1>2, <1>5, <1>6 DEF Made
<1>9. ASSUME NEW i \in DOMAIN edit.masks, ByOp(op, edit.masks, i)
      PROVE  i = at
  <2>1. target = Target(edit.masks, i)
    BY <1>3, <1>9 DEF ByOp, target
  <2> QED
    BY <1>2, <1>9, <2>1 DEF Target
<1> QED
  BY <1>7, <1>8, <1>9 DEF new, target

\* poll_object_worker: the mask of an accepted job is of the content.
LEMMA ObjectEndsFits ==
  ASSUME IInv, JobsInv, ObjectEnds
  PROVE  JobsInv' /\ (Marked => Marked')
<1>1. /\ op.kind = "object" /\ op # NoOp /\ UNCHANGED <<cache, composes, retouch, actions>>
      /\ Idle(ai) /\ edit \in SoundEdit /\ HistoryFits /\ edit.masks \in SoundMasks
      /\ op.content \in Contents /\ cache \in CacheType
  BY JobsFacts, IdleIs DEF ObjectEnds, JobsInv, NoOp, NoKind
<1> DEFINE target == op.targets[1]
           at == Resolved(edit.masks, target)
           new == [edit.masks EXCEPT ![at].made = Made(op.content, target.component.input)]
<1>2. \/ Accepted /\ at # 0 /\ BecomeMasks(new) /\ Ends(new, TRUE, ai)
      \/ Ends(edit.masks, FALSE, WithoutObjects(ai)) /\ UNCHANGED <<edit, history>>
  BY DEF ObjectEnds
<1>3. CASE Ends(edit.masks, FALSE, WithoutObjects(ai)) /\ UNCHANGED <<edit, history>>
  BY <1>1, <1>3, WithoutObjectsIs, FailsFit
<1>4. CASE Accepted /\ at # 0 /\ BecomeMasks(new) /\ Ends(new, TRUE, ai)
  <2>1. ~doc.loading /\ op.content = edit.content
    BY <1>1, <1>4, AcceptedIs
  <2>2. /\ Refreshes(edit.masks, new, edit.content)
        /\ new[at].made.content = edit.content
        /\ \A i \in DOMAIN edit.masks : ByOp(op, edit.masks, i) => i = at
    BY <1>1, <1>4, <2>1, ObjectMadeIs
  <2> HIDE DEF target, at, new
  <2>3. new \in SoundMasks /\ Fresh(new)
    BY <2>2, RefreshedIsFresh
  <2>4. edit' \in SoundEdit /\ HistoryFits' /\ edit'.masks = new /\ edit'.content = edit.content
    BY <1>1, <1>4, <2>3, BecomeMasksFits
  <2>5. ASSUME ai.update.running, ~ai.update.failed,
               NEW i \in StaleMasks(new, edit.content)
        PROVE  BySteps(ai.update.steps, new, i)
    <3>1. i \in DOMAIN edit.masks /\ new[i].made.content # edit.content
      BY <1>1, <2>2, RefreshedIs DEF StaleMasks
    <3>2. ~ByOp(op, edit.masks, i)
      BY <2>2, <3>1
    <3> QED
      BY <1>1, <1>4, <2>2, <2>5, <3>2, LeftToSteps
  <2> QED
    BY <1>1, <1>4, <2>1, <2>3, <2>4, <2>5, EndsFits
<1> QED
  BY <1>2, <1>3, <1>4

-----------------------------------------------------------------------------
(* People masks. *)

\* A component with the job's result for its input.
Remade(c) == [c EXCEPT !.made = Made(op.content, c.input)]

\* A component with the job's result keeps its kind and input.
LEMMA RemadeIs ==
  ASSUME NEW c \in Component, op.content \in Contents
  PROVE  /\ Remade(c) \in Component /\ Remade(c).kind = c.kind /\ Remade(c).input = c.input
         /\ Remade(c).made = Made(op.content, c.input) /\ Remade(Remade(c)) = Remade(c)
<1>1. c.input \in Input /\ Made(op.content, c.input) \in Result
  BY MadeIsResult DEF Component
<1>2. /\ Remade(c) \in Component /\ Remade(c).kind = c.kind /\ Remade(c).input = c.input
      /\ Remade(c).made = Made(op.content, c.input)
  BY <1>1, RemadeIsComponent DEF Remade
<1>3. Remade(Remade(c)) = Remade(c)
  <2> DEFINE d == Remade(c)
             r == Made(op.content, c.input)
  <2>1. d \in Component /\ d.input = c.input /\ d.made = r
    BY <1>2
  <2>2. Remade(d) = [d EXCEPT !.made = r]
    BY <2>1 DEF Remade
  <2> HIDE DEF d, r
  <2>3. [d EXCEPT !.made = r] = d
    BY <2>1 DEF Component
  <2> QED
    BY <2>2, <2>3 DEF d
<1> QED
  BY <1>2, <1>3

\* apply_people_masks makes people masks again, those of the targets found for sure.
PeopleMade(masks, new, found, targets) ==
  /\ new \in Seq(Component) /\ Len(new) = Len(masks)
  /\ \A i \in DOMAIN masks :
       new[i] = masks[i] \/ (masks[i].kind = "person" /\ new[i] = Remade(masks[i]))
  /\ \A k \in targets : \A i \in DOMAIN masks :
       k \in found /\ op.targets[k] = Target(masks, i) => new[i] = Remade(masks[i])

\* apply_people_masks, target after target: each mask it writes is a people mask.
LEMMA PeopleAre ==
  ASSUME NEW masks \in Seq(Component), NEW found, op.targets \in Seq(TargetType),
         op.content \in Contents,
         \A k \in DOMAIN op.targets : op.targets[k].component.kind = "person"
  PROVE  PeopleMade(masks, WithPeople(masks, found), found, DOMAIN op.targets)
<1>1. PICK turn : /\ turn[0] = masks
                  /\ \A k \in 1 .. Len(op.targets) : turn[k] = Written(turn[k - 1], found, k)
                  /\ WithPeople(masks, found) = turn[Len(op.targets)]
  BY PeopleTurns
<1> DEFINE Good(n) == PeopleMade(masks, turn[n], found, 1 .. n)
           bad == {n \in 0 .. Len(op.targets) : ~Good(n)}
<1>2. /\ Len(op.targets) \in Nat /\ DOMAIN op.targets = 1 .. Len(op.targets)
      /\ DOMAIN masks = 1 .. Len(masks) /\ \A i \in DOMAIN masks : masks[i] \in Component
  OBVIOUS
<1>3. bad = {}
  <2> SUFFICES ASSUME bad # {} PROVE FALSE
    OBVIOUS
  <2>1. PICK n \in bad : \A i \in bad : n <= i
    <3>1. bad \in SUBSET Nat
      BY <1>2
    <3> HIDE DEF bad
    <3> QED
      BY <3>1, LeastNatural
  <2>2. Good(0)
    <3>1. 1 .. 0 = {}
      OBVIOUS
    <3> QED
      BY <1>1, <3>1 DEF PeopleMade
  <2>3. n \in 1 .. Len(op.targets) /\ n - 1 \in 0 .. Len(op.targets) /\ Good(n - 1)
    <3>1. n # 0
      BY <2>1, <2>2
    <3>2. n \in 1 .. Len(op.targets) /\ n - 1 \in 0 .. Len(op.targets)
      BY <1>2, <2>1, <3>1
    <3> QED
      BY <2>1, <3>2
  <2> DEFINE old == turn[n - 1]
             new == turn[n]
             at == Resolved(old, op.targets[n])
  <2>4. PeopleMade(masks, old, found, 1 .. (n - 1)) /\ new = Written(old, found, n)
    BY <1>1, <2>3
  <2> HIDE DEF old, new, bad
  <2>5. old \in Seq(Component) /\ Len(old) = Len(masks) /\ DOMAIN old = DOMAIN masks
    <3>1. old \in Seq(Component) /\ Len(old) = Len(masks)
      BY <2>4 DEF PeopleMade
    <3> QED
      BY <1>2, <3>1
  <2>6. /\ new \in Seq(Component) /\ Len(new) = Len(masks)
        /\ \A i \in DOMAIN masks :
             \/ new[i] = old[i] /\ ~(n \in found /\ i = at)
             \/ /\ n \in found /\ i = at /\ old[i] = op.targets[n].component
                /\ new[i] = Remade(old[i])
    <3>1. n \in DOMAIN op.targets
      BY <1>2, <2>3
    <3> QED
      BY <2>4, <2>5, <3>1, WrittenIs DEF Remade
  <2>7. \A i \in DOMAIN masks :
          Remade(Remade(masks[i])) = Remade(masks[i]) /\ Remade(masks[i]).kind = masks[i].kind
    BY <1>2, RemadeIs
  <2>8. \A i \in DOMAIN masks : old[i] = masks[i] \/ (masks[i].kind = "person" /\ old[i] = Remade(masks[i]))
    BY <2>4 DEF PeopleMade
  <2>9. op.targets[n].component.kind = "person"
    BY <1>2, <2>3
  <2> HIDE DEF at
  <2>10. ASSUME NEW i \in DOMAIN masks
         PROVE  new[i] = masks[i] \/ (masks[i].kind = "person" /\ new[i] = Remade(masks[i]))
    <3>1. CASE new[i] = old[i]
      BY <2>8, <3>1
    <3>2. CASE old[i] = op.targets[n].component /\ new[i] = Remade(old[i])
      <4>1. CASE old[i] = masks[i]
        BY <2>9, <3>2, <4>1
      <4>2. CASE masks[i].kind = "person" /\ old[i] = Remade(masks[i])
        BY <2>7, <3>2, <4>2
      <4> QED
        BY <2>8, <4>1, <4>2
    <3> QED
      BY <2>6, <3>1, <3>2
  <2>11. ASSUME NEW k \in 1 .. n, NEW i \in DOMAIN masks, k \in found,
                op.targets[k] = Target(masks, i)
         PROVE  new[i] = Remade(masks[i])
    <3>1. old[i] = Remade(masks[i]) => new[i] = Remade(masks[i])
      BY <2>6, <2>7
    <3>2. CASE k # n
      <4>1. k \in 1 .. (n - 1)
        BY <2>3, <3>2
      <4> QED
        BY <2>4, <2>11, <3>1, <4>1 DEF PeopleMade
    <3>3. CASE k = n
      <4>1. CASE old[i] = masks[i]
        <5>1. op.targets[n].at = i /\ op.targets[n].component = masks[i]
          BY <2>11, <3>3 DEF Target
        <5>2. at = i
          BY <2>5, <4>1, <5>1, ResolvedIs DEF at
        <5> QED
          BY <2>6, <2>11, <3>3, <4>1, <5>2
      <4> QED
        BY <2>8, <3>1, <4>1
    <3> QED
      BY <3>2, <3>3
  <2>12. Good(n)
    BY <2>6, <2>10, <2>11 DEF PeopleMade, new
  <2> QED
    BY <2>1, <2>12 DEF bad
<1>4. Good(Len(op.targets))
  BY <1>2, <1>3
<1> QED
  BY <1>1, <1>2, <1>4

\* Those masks are refreshed.
LEMMA PeopleAreRefreshed ==
  ASSUME NEW masks \in SoundMasks, NEW new, NEW found, NEW targets, op.content \in Contents,
         PeopleMade(masks, new, found, targets)
  PROVE  Refreshes(masks, new, op.content)
<1>1. \A i \in DOMAIN masks : masks[i] \in Component
  BY SoundIs
<1>2. ASSUME NEW i \in DOMAIN masks, masks[i].kind = "person", new[i] = Remade(masks[i])
      PROVE  /\ new[i].kind = masks[i].kind /\ Derived(masks[i]) /\ Derived(new[i])
             /\ new[i].kind = "subject" => new[i].input = masks[i].input
             /\ new[i].made = Made(op.content, new[i].input)
  BY <1>1, <1>2, RemadeIs DEF Derived
<1> QED
  BY <1>2 DEF PeopleMade, Refreshes

\* A people job's masks are made for what was chosen, of the content.
LEMMA PeopleMadeIs ==
  ASSUME IInv, JobsInv, op.kind = "person", op # NoOp, Accepted, NEW found
  PROVE  LET new == WithPeople(edit.masks, found)
         IN /\ Refreshes(edit.masks, new, edit.content)
            /\ PeopleMade(edit.masks, new, found, DOMAIN op.targets)
<1>1. op.content = edit.content /\ edit.masks \in SoundMasks /\ op.content \in Contents
  BY JobsFacts, AcceptedIs
<1>2. /\ op.targets \in Seq(TargetType)
      /\ \A k \in DOMAIN op.targets : op.targets[k].component.kind = "person"
  BY DEF JobsInv, OpFits, OpType
<1>3. PeopleMade(edit.masks, WithPeople(edit.masks, found), found, DOMAIN op.targets)
  BY <1>1, <1>2, SoundIs, PeopleAre
<1> QED
  BY <1>1, <1>3, PeopleAreRefreshed

\* A job with its masks tells whether they are made.
LEMMA ToldFits ==
  ASSUME OpFits(op), op # NoOp, NEW m \in {"none", "made", "error"}
  PROVE  LET o == [op EXCEPT !.masks = m]
         IN /\ OpFits(o) /\ o # NoOp /\ o.kind = op.kind /\ o.targets = op.targets /\ o.masks = m
            /\ o.document = op.document /\ o.cancelled = op.cancelled /\ o.content = op.content
<1> DEFINE o == [op EXCEPT !.masks = m]
<1>1. op \in OpType /\ op.kind \in Kinds /\ NoOp.kind \notin Kinds
  BY NoOpFits DEF OpFits
<1>2. /\ o \in OpType /\ o.kind = op.kind /\ o.targets = op.targets /\ o.masks = m
      /\ o.document = op.document /\ o.cancelled = op.cancelled /\ o.content = op.content
  BY <1>1 DEF OpType
<1> HIDE DEF o
<1>3. OpFits(o) /\ o # NoOp
  BY <1>1, <1>2 DEF OpFits
<1> QED
  BY <1>2, <1>3 DEF o

\* apply_people_progress, Found: only the analysis changes.
LEMMA PeopleFoundFits ==
  ASSUME IInv, JobsInv, PeopleFound
  PROVE  JobsInv' /\ (Marked => Marked')
<1>1. /\ op # NoOp /\ Accepted /\ edit.masks \in SoundMasks /\ op.content \in Contents
      /\ cache' = [cache EXCEPT !.people = op.content]
      /\ UNCHANGED <<doc, edit, history, op, ai, composes, retouch, actions>>
  BY JobsFacts DEF PeopleFound, NoOp, NoKind
<1>2. ~doc.loading
  BY <1>1, AcceptedIs
<1>3. cache' \in CacheType /\ cache'.subject = cache.subject
  BY <1>1 DEF JobsInv, CacheType
<1>4. EditFits' /\ FreshSubject' = FreshSubject
  BY <1>1, <1>2, <1>3 DEF EditFits, JobsInv, DocFits, HistoryFits, FreshSubject
<1>5. Refreshes(edit.masks, edit'.masks, edit.content)
  BY <1>1, SoundIs DEF Refreshes
<1> QED
  BY <1>1, <1>2, <1>4, <1>5, RefreshedFits

\* apply_people_progress, Masks: every stale mask of the job is made again, or the job has an
\* error, which fails its update.
LEMMA PeopleMasksFit ==
  ASSUME IInv, JobsInv, PeopleMasks
  PROVE  JobsInv' /\ (Marked => Marked')
<1>1. /\ op.kind = "person" /\ op.masks = "none" /\ op # NoOp /\ Accepted
      /\ edit.masks \in SoundMasks /\ op.content \in Contents
      /\ edit \in SoundEdit /\ HistoryFits /\ OpFits(op)
      /\ UNCHANGED <<doc, ai, cache, composes, retouch, actions>>
  BY JobsFacts DEF PeopleMasks, NoOp, NoKind, JobsInv
<1>2. ~doc.loading /\ op.content = edit.content
  BY <1>1, AcceptedIs
<1>3. PICK found \in SUBSET DOMAIN op.targets :
        LET Lost(k) == op.targets[k] # Target(edit.masks, op.targets[k].at)
                       /\ Resolved(edit.masks, op.targets[k]) = 0
            Unfound(k) == LET c == op.targets[k].component
                          IN c.made # NoResult \/ c.input # 0
            error == \E k \in DOMAIN op.targets :
                       IF k \in found THEN Lost(k) ELSE Unfound(k)
        IN /\ BecomeMasks(WithPeople(edit.masks, found))
           /\ op' = [op EXCEPT !.masks = IF error THEN "error" ELSE "made"]
  BY DEF PeopleMasks
<1> DEFINE new == WithPeople(edit.masks, found)
<1>4. PICK m \in {"made", "error"} :
        /\ op' = [op EXCEPT !.masks = m]
        /\ m = "made" => \A k \in DOMAIN op.targets :
                           k \notin found => op.targets[k].component.made = NoResult
  BY <1>3
<1>5. PeopleMade(edit.masks, new, found, DOMAIN op.targets)
  BY <1>1, PeopleMadeIs
<1>6. BecomeMasks(new)
  BY <1>3
<1>7. Refreshes(edit.masks, new, edit.content)
  BY <1>1, PeopleMadeIs
<1> HIDE DEF new
<1>8. new \in SoundMasks /\ Fresh(new)
  BY <1>7, RefreshedIsFresh
<1>9. edit' \in SoundEdit /\ HistoryFits' /\ edit'.masks = new /\ edit'.content = edit.content
  BY <1>1, <1>6, <1>8, BecomeMasksFits
<1>10. /\ OpFits(op') /\ op' # NoOp /\ op'.kind = "person" /\ op'.targets = op.targets
       /\ op'.masks = m /\ op'.document = op.document /\ op'.cancelled = op.cancelled
  BY <1>1, <1>4, ToldFits
<1>11. AiFits(ai, new)
  <2>1. \A kind : Needing(new, kind) = Needing(edit.masks, kind)
    BY <1>1, <1>7, RefreshedIs
  <2> QED
    BY <2>1 DEF JobsInv, AiFits
<1>12. UpdateCovers(ai, op', new, edit.content)
  <2> SUFFICES ASSUME ai.update.running, ~ai.update.failed, m = "made",
                      NEW i \in StaleMasks(new, edit.content)
               PROVE  BySteps(ai.update.steps, new, i)
    BY <1>4, <1>10 DEF UpdateCovers
  <2>1. /\ i \in DOMAIN edit.masks /\ new[i] = edit.masks[i] /\ edit.masks[i] \in Component
        /\ edit.masks[i].made # NoResult /\ edit.masks[i].made.content # edit.content
    BY <1>1, <1>7, RefreshedIs, SoundIs DEF StaleMasks
  <2>2. new[i] # Remade(edit.masks[i])
    <3>1. Remade(edit.masks[i]).made = Made(op.content, edit.masks[i].input)
      BY <1>1, <2>1, RemadeIs
    <3>2. Made(op.content, edit.masks[i].input).content = edit.content
      BY <1>2 DEF Made
    <3> QED
      BY <2>1, <3>1, <3>2
  <2>3. ~ByOp(op, edit.masks, i)
    <3> SUFFICES ASSUME NEW k \in DOMAIN op.targets, op.targets[k] = Target(edit.masks, i)
                 PROVE  FALSE
      BY <1>1 DEF ByOp
    <3>1. k \notin found
      BY <1>5, <2>1, <2>2 DEF PeopleMade
    <3>2. op.targets[k].component = edit.masks[i]
      BY DEF Target
    <3> QED
      BY <1>4, <2>1, <3>1, <3>2
  <2> QED
    BY <1>1, <1>7, <2>3, LeftToSteps
<1>13. EditFits' /\ FreshSubject' = FreshSubject /\ Accepted' = Accepted
  BY <1>1, <1>2, <1>9, <1>10 DEF EditFits, JobsInv, DocFits, FreshSubject, Accepted
<1>14. JobsInv'
  BY <1>1, <1>2, <1>9, <1>10, <1>11, <1>12, <1>13
  DEF JobsInv, EditFits, OneDialog, SubjectIsWanted, LoadingIsQuiet
<1>15. Marked => Marked'
  BY <1>1, <1>8, <1>9, <1>13 DEF Marked, Fresh
<1> QED
  BY <1>14, <1>15

\* poll_people_worker: a job that ends with an error fails its update.
LEMMA PeopleEndsFits ==
  ASSUME IInv, JobsInv, PeopleEnds
  PROVE  JobsInv' /\ (Marked => Marked')
<1>1. /\ op.kind = "person" /\ op # NoOp
      /\ UNCHANGED <<edit, history, composes, retouch, actions>>
      /\ Idle(ai) /\ edit \in SoundEdit /\ HistoryFits /\ edit.masks \in SoundMasks
      /\ op.content \in Contents
  BY JobsFacts, IdleIs DEF PeopleEnds, JobsInv, NoOp, NoKind
<1>2. CASE Ends(edit.masks, FALSE, ai) /\ UNCHANGED cache
  BY <1>1, <1>2, FailsFit
<1>3. CASE /\ Accepted /\ op.masks # "none"
           /\ cache' = [cache EXCEPT !.people = op.content]
           /\ Ends(edit.masks, op.masks = "made", ai)
  <2>1. ~doc.loading
    BY <1>1, <1>3, AcceptedIs
  <2>2. cache' \in CacheType /\ cache'.subject = cache.subject
    BY <1>1, <1>3 DEF JobsInv, CacheType
  <2>3. edit' \in SoundEdit /\ HistoryFits' /\ Fresh(edit.masks)
    BY <1>1 DEF HistoryFits, Fresh
  <2>4. Refreshes(edit.masks, edit.masks, edit.content)
    BY <1>1, SoundIs DEF Refreshes
  <2>5. ASSUME ai.update.running, ~ai.update.failed, op.masks = "made",
               NEW i \in StaleMasks(edit.masks, edit.content)
        PROVE  BySteps(ai.update.steps, edit.masks, i)
    <3>1. ~ByOp(op, edit.masks, i)
      BY <1>1, <2>5 DEF ByOp
    <3> QED
      BY <1>1, <1>3, <2>4, <2>5, <3>1, LeftToSteps
  <2> DEFINE succeeded == op.masks = "made"
  <2>6. succeeded \in BOOLEAN /\ Ends(edit.masks, succeeded, ai)
    BY <1>3
  <2>7. ai.update.running /\ ~ai.update.failed /\ succeeded /\ Accepted =>
          \A i \in StaleMasks(edit.masks, edit.content) : BySteps(ai.update.steps, edit.masks, i)
    BY <2>5
  <2> HIDE DEF succeeded
  <2> QED
    BY <1>1, <2>1, <2>2, <2>3, <2>6, <2>7, EndsFits
<1> QED
  BY <1>2, <1>3 DEF PeopleEnds

\* start_document_load: the photo that is opened starts without results.
LEMMA OpenPhotoFits ==
  ASSUME JobsInv, OpenPhoto
  PROVE  JobsInv' /\ Marked'
<1>1. /\ NoContent \in Contents /\ ai \in AiType /\ retouch' = FALSE /\ actions' = actions
      /\ composes' = {} /\ cache' = NoCache /\ history' = NoHistory
      /\ edit' = [masks |-> <<>>, content |-> doc.contents + 1]
      /\ op' = IF op = NoOp THEN op ELSE [op EXCEPT !.cancelled = TRUE]
  BY JobsFacts DEF OpenPhoto
<1>2. doc.contents + 1 \in 0 .. MaxContents /\ doc.contents + 1 \in Contents
      /\ doc.generation + 1 \in 1 .. MaxGeneration
  <2>1. doc.contents \in -1 .. MaxContents /\ MaxContents \in Nat
        /\ doc.generation \in 1 .. MaxGeneration /\ MaxGeneration \in Nat
    BY ContentAssumption DEF JobsInv, DocFits, Contents, NoContent
  <2>2. doc.contents < MaxContents /\ doc.generation < MaxGeneration
    BY DEF OpenPhoto
  <2> QED
    BY <2>1, <2>2 DEF Contents, NoContent
<1>3. DocFits' /\ doc'.loading /\ ~doc'.stale
  BY <1>2 DEF OpenPhoto, DocFits
<1>4. edit' \in SoundEdit /\ edit'.masks = <<>> /\ edit'.content = doc.contents + 1
  BY <1>1, <1>2, EmptySeq, ContentAssumption DEF SoundEdit, SoundMasks
<1>5. HistoryFits'
  BY <1>1, EmptySeq, ContentAssumption DEF HistoryFits, NoHistory
<1>6. cache' \in CacheType /\ cache'.subject = NoContent
  BY <1>1 DEF CacheType, NoCache
<1>7. EditFits' /\ FreshSubject'
  BY <1>1, <1>3, <1>4, <1>5, <1>6 DEF EditFits, JobsInv, FreshSubject
<1>8. Idle(ai') /\ ai'.consent = NoKind /\ ~ai'.update.running
  <2> DEFINE a == CancelledUpdate(ai)
  <2>1. a \in AiType /\ a.object = None /\ a.people = <<>> /\ a.update = NoUpdate
    BY <1>1, CancelledFits
  <2>2. ai' = [a EXCEPT !.consent = NoKind]
    BY DEF OpenPhoto
  <2> HIDE DEF a
  <2> QED
    BY <2>1, <2>2, AiFields, NoUpdateFits DEF Idle
<1>9. JobsInv'
  BY <1>1, <1>7, <1>8, GivenUpFits
<1>10. StaleMasks(edit'.masks, edit'.content) = {}
  BY <1>4 DEF StaleMasks
<1> QED
  BY <1>7, <1>9, <1>10 DEF Marked

\* The masks of a saved edit are sound, and have results of one content only.
LEMMA SavedIs ==
  ASSUME NEW content \in Contents, NEW masks \in Saved(content)
  PROVE  /\ masks \in SoundMasks /\ StaleMasks(masks, content) = {}
         /\ \A i \in DOMAIN masks : masks[i].made.content = content
<1>1. /\ MaxInput \in Input /\ MaxInput # 0 /\ 0 \in Input
      /\ Made(content, MaxInput) \in Result /\ Made(content, 0) \in Result
      /\ MaxMasks >= 1
  BY ContentAssumption, MadeIsResult DEF Input
<1>2. /\ \A r : Made(content, r).content = content /\ Made(content, r).input = r
  BY DEF Made
<1>3. CASE masks = <<>>
  BY <1>3, EmptySeq, ContentAssumption DEF SoundMasks, StaleMasks
<1>4. ASSUME NEW c \in SoundComponent, masks = <<c>>, c.made.content = content
      PROVE  /\ masks \in SoundMasks /\ StaleMasks(masks, content) = {}
             /\ \A i \in DOMAIN masks : masks[i].made.content = content
  <2>1. masks \in Seq(SoundComponent) /\ Len(masks) = 1 /\ DOMAIN masks = {1} /\ masks[1] = c
    BY <1>4
  <2> QED
    BY <1>1, <1>4, <2>1 DEF SoundMasks, StaleMasks
<1>5. ASSUME NEW kind \in Kinds \ {"subject"},
             masks = <<[kind |-> kind, input |-> MaxInput, made |-> Made(content, MaxInput)]>>
      PROVE  \E c \in SoundComponent : masks = <<c>> /\ c.made.content = content
  <2> DEFINE c == [kind |-> kind, input |-> MaxInput, made |-> Made(content, MaxInput)]
  <2>1. /\ c \in Component /\ c.kind # "subject" /\ c.input # 0
        /\ c.made.content = content /\ masks = <<c>>
    BY <1>1, <1>2, <1>5 DEF Component
  <2> HIDE DEF c
  <2>2. c \in SoundComponent
    BY <2>1 DEF SoundComponent, WellMade
  <2> QED
    BY <2>1, <2>2
<1>6. ASSUME masks = <<[New("subject") EXCEPT !.made = Made(content, 0)]>>
      PROVE  \E c \in SoundComponent : masks = <<c>> /\ c.made.content = content
  <2> DEFINE c == [New("subject") EXCEPT !.made = Made(content, 0)]
  <2>1. New("subject") \in SoundComponent /\ New("subject").kind = "subject"
    BY NewIsSound DEF Kinds
  <2>2. New("subject") \in Component /\ New("subject").input = 0
    BY <2>1 DEF SoundComponent, New
  <2>3. /\ c \in Component /\ c.kind = "subject" /\ c.input = 0 /\ c.made = Made(content, 0)
        /\ masks = <<c>>
    BY <1>1, <1>6, <2>1, <2>2, RemadeIsComponent
  <2> HIDE DEF c
  <2>4. c \in SoundComponent
    BY <1>2, <2>3 DEF SoundComponent, WellMade
  <2> QED
    BY <1>2, <2>3, <2>4
<1> QED
  BY <1>3, <1>4, <1>5, <1>6 DEF Saved

\* poll_load_worker: a saved edit whose results are of an older content is marked.
LEMMA PhotoLoadsFits ==
  ASSUME JobsInv, PhotoLoads
  PROVE  JobsInv' /\ Marked'
<1>1. PICK stale \in BOOLEAN :
        \E masks \in Saved(IF stale THEN Older ELSE edit.content) :
         /\ edit' = [masks |-> masks, content |-> edit.content]
         /\ doc' = [doc EXCEPT !.loading = FALSE, !.stale = stale]
         /\ \E people \in {NoContent, edit.content} :
              cache' = [source |-> NoContent,
                        subject |-> IF stale THEN NoContent ELSE FirstSubject(masks),
                        people |-> people]
  BY DEF PhotoLoads
<1> DEFINE saved == IF stale THEN Older ELSE edit.content
<1>2. PICK masks \in Saved(saved), people \in {NoContent, edit.content} :
         /\ edit' = [masks |-> masks, content |-> edit.content]
         /\ doc' = [doc EXCEPT !.loading = FALSE, !.stale = stale]
         /\ cache' = [source |-> NoContent,
                        subject |-> IF stale THEN NoContent ELSE FirstSubject(masks),
                        people |-> people]
  BY <1>1
<1>3. /\ doc.loading /\ op' = IF op = NoOp THEN op ELSE [op EXCEPT !.cancelled = TRUE]
      /\ UNCHANGED <<history, ai, composes, retouch, actions>>
  BY DEF PhotoLoads
<1>4. /\ NoContent \in Contents /\ edit.content \in Contents /\ edit.content \in 0 .. MaxContents
      /\ Older \in Contents /\ ai \in AiType
  BY JobsFacts, ContentAssumption DEF Older, Contents, NoContent
<1>5. /\ masks \in SoundMasks /\ StaleMasks(masks, saved) = {}
      /\ \A i \in DOMAIN masks : masks[i].made.content = saved
  BY <1>4, SavedIs
<1>6. FirstSubject(masks) \in Contents /\ FirstSubject(masks) \in {NoContent, saved}
  BY <1>5, FirstSubjectIs
<1>7. edit' \in SoundEdit /\ edit'.masks = masks /\ edit'.content = edit.content
  BY <1>2, <1>4, <1>5 DEF SoundEdit
<1>8. cache' \in CacheType /\ (stale => cache'.subject = NoContent)
      /\ (~stale => cache'.subject \in {NoContent, edit.content})
  BY <1>2, <1>4, <1>6 DEF CacheType
<1>9. DocFits' /\ ~doc'.loading /\ doc'.stale = stale
  BY <1>2 DEF JobsInv, DocFits
<1>10. EditFits' /\ FreshSubject'
  BY <1>3, <1>7, <1>8, <1>9 DEF EditFits, JobsInv, HistoryFits, FreshSubject
<1>11. Idle(ai') /\ ai'.consent = NoKind /\ ~ai'.update.running
  BY <1>3, IdleIs DEF JobsInv, LoadingIsQuiet, Idle
<1>12. JobsInv'
  BY <1>3, <1>9, <1>10, <1>11, GivenUpFits
<1>13. ~stale => StaleMasks(edit'.masks, edit'.content) = {}
  BY <1>5, <1>7
<1> QED
  BY <1>9, <1>10, <1>12, <1>13 DEF Marked

\* Each step that is not the user's fits and keeps the mark.
LEMMA OthersFit ==
  ASSUME IInv, JobsInv, Next, ~User
  PROVE  JobsInv' /\ (Marked => Marked')
  BY RetouchEndsFits, ComposeEndsFits, SubjectEndsFits, ObjectEndsFits, PeopleFoundFits,
     PeopleMasksFit, PeopleEndsFits, OpenPhotoFits, PhotoLoadsFits DEF Next

-----------------------------------------------------------------------------
\* A result that is not marked as such is stale.
LEMMA UnmarkedIs ==
  ASSUME JobsInv
  PROVE  Unmarked <=> ~Marked
<1>1. /\ DOMAIN edit.masks = 1 .. Len(edit.masks)
      /\ \A i \in DOMAIN edit.masks : edit.masks[i].made \in Result
  BY JobsFacts, SoundIs DEF Component
<1>2. ASSUME NEW r \in Result
      PROVE  r \notin {NoResult, Made(edit.content, r.input)} <=>
               r # NoResult /\ r.content # edit.content
  BY <1>2 DEF Result, Made
<1>3. StaleIn(edit.masks) <=> StaleMasks(edit.masks, edit.content) # {}
  BY <1>1, <1>2 DEF StaleIn, StaleMasks
<1> QED
  BY <1>3 DEF Unmarked, Marked, FreshSubject, JobsInv, DocFits

\* The first state.
LEMMA JobsStart ==
  ASSUME Init
  PROVE  JobsInv
<1>1. /\ NoContent \in Contents /\ 1 \in 0 .. MaxContents /\ 1 \in Contents
      /\ 1 \in 1 .. MaxGeneration
  BY ContentAssumption DEF Contents, NoContent
<1>2. DocFits
  BY <1>1 DEF Init, DocFits
<1>3. edit \in SoundEdit /\ edit.masks = <<>>
  BY <1>1, EmptySeq, ContentAssumption DEF Init, SoundEdit, SoundMasks
<1>4. HistoryFits
  BY EmptySeq, ContentAssumption DEF Init, HistoryFits, NoHistory
<1>5. cache \in CacheType /\ cache.subject = NoContent
  BY <1>1 DEF Init, CacheType, NoCache
<1>6. Idle(ai) /\ ~ai.update.running
  <2>1. ai = [consent |-> NoKind, object |-> None, people |-> <<>>, update |-> NoUpdate]
    BY DEF Init
  <2> QED
    BY <2>1, NoUpdateFits DEF Idle, AiType
<1>7. AiFits(ai, edit.masks) /\ OpFits(op) /\ op = NoOp /\ NoOp.kind # "subject"
  BY <1>6, IdleFits, NoOpFits DEF Init, NoKind
<1>8. /\ ~doc.stale /\ ~doc.loading /\ composes = {} /\ retouch = FALSE /\ actions = 0
      /\ 0 \in 0 .. MaxActions /\ ai.consent = NoKind
  BY <1>6, ContentAssumption DEF Init, Idle
<1> QED
  BY <1>2, <1>3, <1>4, <1>5, <1>6, <1>7, <1>8
  DEF JobsInv, OneDialog, SubjectIsWanted, LoadingIsQuiet, FreshSubject, UpdateCovers

\* The invariant of the jobs' types and of what an update still makes again.
LEMMA JobsTyped ==
  ASSUME JobsInv
  PROVE  TypeOK
<1>1. SoundEdit \subseteq Edit
  <2>1. ASSUME NEW masks \in SoundMasks PROVE masks \in Seq(Component)
    BY SoundIs
  <2>2. 0 .. MaxContents \subseteq Contents
    BY ContentAssumption DEF Contents, NoContent
  <2> QED
    BY <2>1, <2>2 DEF SoundEdit, Edit
<1>2. edit \in Edit /\ Len(edit.masks) <= MaxMasks
  BY <1>1, JobsFacts, SoundIs DEF JobsInv
<1>3. /\ history \in [undo : Seq(Edit), redo : Seq(Edit)]
      /\ Len(history.undo) <= MaxHistory /\ Len(history.redo) <= MaxHistory
  <2>1. /\ history \in [undo : Seq(SoundEdit), redo : Seq(SoundEdit)]
        /\ Len(history.undo) <= MaxHistory /\ Len(history.redo) <= MaxHistory
    BY DEF JobsInv, HistoryFits
  <2>2. \A s \in Seq(SoundEdit) : s \in Seq(Edit)
    BY <1>1, SeqMonotonic
  <2> QED
    BY <2>1, <2>2
<1>4. op \in OpType /\ ai \in AiType
  BY JobsFacts
<1>5. op \in [kind : Kinds \cup {NoKind}, document : 0..MaxGeneration, cancelled : BOOLEAN,
             content : Contents, masks : {"none", "made", "error"},
             targets : Seq([at : 1..MaxMasks, component : Component])]
  BY <1>4 DEF OpType, TargetType
<1>6. ai \in [consent : Kinds \cup {NoKind}, object : 0..MaxMasks, people : Seq(1..MaxMasks),
             update : [running : BOOLEAN, failed : BOOLEAN,
                       steps : Seq([kind : Kinds, at : 0..MaxMasks])]]
  BY <1>4 DEF AiType, UpdateType, StepType
<1> QED
  BY <1>2, <1>3, <1>5, <1>6 DEF JobsInv, DocFits, CacheType, ComposeType, TypeOK

\* Both invariants hold at the start, and each step keeps them.
LEMMA InvStart == Init => IInv /\ JobsInv
<1>1. Init => IInv
  BY DEF Init, IInv, Records, UpdateHasItsSource, WorkIsOfTheContent, IsDoc, IsOp, IsAi,
         IsUpdate, IsCache, NoOp, NoCache, NoUpdate
<1> QED
  BY <1>1, JobsStart

LEMMA InvKept == IInv /\ JobsInv /\ [Next]_vars => IInv' /\ JobsInv'
<1>1. CASE UNCHANGED vars
  <2>1. IInv => IInv'
    BY <1>1 DEF vars, IInv, Records, UpdateHasItsSource, WorkIsOfTheContent, Accepted
  <2>2. JobsInv => JobsInv'
    BY <1>1 DEF vars, JobsInv, DocFits, HistoryFits, OneDialog, SubjectIsWanted, LoadingIsQuiet,
           FreshSubject, Accepted
  <2> QED
    BY <2>1, <2>2
<1>2. CASE Next
  BY <1>2, UserKeeps, OthersKeep, UserFits, OthersFit
<1> QED
  BY <1>1, <1>2

\* Masks, history, jobs and caches keep their types and bounds in every behaviour.
THEOREM TypeCorrect == Spec => []TypeOK
<1>1. IInv /\ JobsInv => TypeOK
  BY JobsTyped
<1> QED
  BY <1>1, InvStart, InvKept, PTL DEF Spec

\* In every behaviour an update that runs has a job or waits for the user's consent to one
\* (continue_ai_update, abandon_ai_job), so the panel does not stay busy for ever.
THEOREM UpdatesHaveJobs == Spec => []UpdateHasAJob
<1>1. IInv /\ JobsInv => UpdateHasAJob
  BY DEF UpdateHasAJob, JobsInv, OneDialog
<1> QED
  BY <1>1, InvStart, InvKept, PTL DEF Spec

\* In every behaviour only stepping through the edit history brings up results of another
\* content that are not marked (note_remove_edit_changed, rehydrate_restored_mask_state,
\* advance_ai_update): not a job, an update that ends, a retouch stroke or a saved edit.
THEOREM OnlyStepsUnmark == Spec => OnlyHistoryUnmarks
<1>1. IInv /\ JobsInv /\ [Next]_vars /\ JobsInv' =>
        [~Unmarked /\ Unmarked' => Undo \/ Redo]_vars
  <2> SUFFICES ASSUME IInv, JobsInv, JobsInv', Next, ~Unmarked, Unmarked'
               PROVE  Undo \/ Redo
    OBVIOUS
  <2>1. Marked /\ ~Marked'
    <3>1. Marked
      BY UnmarkedIs
    <3>2. (Unmarked <=> ~Marked)'
      BY UnmarkedIs, PTL
    <3> QED
      BY <3>1, <3>2
  <2> QED
    BY <2>1, UserFits, OthersFit
<1> QED
  BY <1>1, InvStart, InvKept, PTL DEF Spec, OnlyHistoryUnmarks

-----------------------------------------------------------------------------
(* What the edit holds. *)

\* The edits of a history, and the result in use.
Edits(h) == Range(h.undo) \cup Range(h.redo)
SubjectHeld(content) ==
  IF content = NoContent THEN {} ELSE {[kind |-> "subject", input |-> 0, content |-> content]}

\* A step that only gives results up.
LEMMA GivesUp ==
  ASSUME ~doc.loading, ~doc'.loading, doc'.generation = doc.generation, Held' \subseteq Held
  PROVE  Promise!Change
  BY DEF Promise!Change

\* A step that lets results in.
LEMMA Answers ==
  ASSUME ~doc.loading, doc'.loading = doc.loading, doc'.generation = doc.generation,
         edit'.content = edit.content,
         \A r \in Held' : \/ r \in Held
                          \/ /\ r.content = edit.content
                             /\ \E i \in DOMAIN edit'.masks :
                                  r.kind = edit'.masks[i].kind /\ r.input = edit'.masks[i].input
  PROVE  Promise!Answer
  BY DEF Promise!Answer, Promise!Answers, Promise!AskedBy

\* A step that changes no edit and not the result in use.
LEMMA Stutters ==
  ASSUME UNCHANGED <<edit, history>>, cache'.subject = cache.subject,
         doc'.loading = doc.loading, doc'.generation = doc.generation
  PROVE  UNCHANGED Promise!vars
  BY DEF Promise!vars, Held
\* A result of an edit is that of a mask of it.
LEMMA ResultIs ==
  ASSUME NEW masks, NEW r
  PROVE  r \in ResultsOf(masks) <=>
           \E i \in DOMAIN masks :
             /\ masks[i].made # NoResult
             /\ r = [kind |-> masks[i].kind, input |-> masks[i].made.input,
                     content |-> masks[i].made.content]
  BY DEF ResultsOf

\* What is held, by where it is.
HeldBy(r) ==
  \/ r \in ResultsOf(edit.masks) \/ r \in SubjectHeld(cache.subject)
  \/ \E e \in Edits(history) : r \in ResultsOf(e.masks)

\* As a formula, for the state after a step.
HeldParts == \A r : r \in Held <=> HeldBy(r)

\* A result that is held is of the edit, in use, or of an edit in the history.
LEMMA HeldIs == HeldParts
<1> DEFINE past == UNION {ResultsOf(e.masks) : e \in Range(history.undo) \cup Range(history.redo)}
<1>1. Held = ResultsOf(edit.masks) \cup past \cup SubjectHeld(cache.subject)
  BY DEF Held, SubjectHeld
<1>2. \A r : r \in past <=> \E e \in Edits(history) : r \in ResultsOf(e.masks)
  BY DEF Edits
<1> HIDE DEF past
<1> QED
  BY <1>1, <1>2 DEF HeldBy, HeldParts

\* A step that brings no edit into the history but the one before it.
LEMMA HeldAfter ==
  ASSUME Edits(history') \subseteq Edits(history) \cup {edit}, NEW r \in Held'
  PROVE  r \in Held \/ r \in ResultsOf(edit'.masks) \/ r \in SubjectHeld(cache'.subject)
<1>1. \/ r \in ResultsOf(edit'.masks) \/ r \in SubjectHeld(cache'.subject)
      \/ \E e \in Edits(history') : r \in ResultsOf(e.masks)
  <2>1. HeldParts'
    BY HeldIs, PTL
  <2> QED
    BY <2>1 DEF HeldBy, HeldParts
<1>2. ASSUME NEW e \in Edits(history'), r \in ResultsOf(e.masks)
      PROVE  r \in Held
  BY <1>2, HeldIs DEF HeldBy, HeldParts
<1> QED
  BY <1>1, <1>2

\* The history after a step that commits an edit.
LEMMA HistoryAfter ==
  ASSUME JobsInv, NEW e, Become(e)
  PROVE  edit' = e /\ Edits(history') \subseteq Edits(history) \cup {edit}
<1>1. edit' = e
  BY DEF Become
<1>2. CASE e = edit
  BY <1>1, <1>2 DEF Become
<1>3. CASE e # edit
  <2> DEFINE new == Bounded(Append(history.undo, edit))
  <2>1. history' = [undo |-> new, redo |-> <<>>]
    BY <1>3 DEF Become
  <2>2. \A k \in DOMAIN new : new[k] = edit \/ \E j \in DOMAIN history.undo : new[k] = history.undo[j]
    BY BoundedIs DEF JobsInv, HistoryFits
  <2> HIDE DEF new
  <2>3. Edits(history') = Range(new)
    BY <2>1 DEF Edits, Range
  <2> QED
    BY <1>1, <2>2, <2>3 DEF Edits, Range
<1> QED
  BY <1>2, <1>3

\* Masks whose results are all held.
Known(masks) == ResultsOf(masks) \subseteq Held

\* The user changes masks, which brings no result.
LEMMA MasksGiveUp ==
  ASSUME JobsInv, Free, NEW masks, Known(masks), BecomeMasks(masks),
         cache'.subject \in {cache.subject, NoContent},
         doc'.generation = doc.generation, doc'.loading = doc.loading
  PROVE  Promise!Change
<1>1. edit'.masks = masks /\ Edits(history') \subseteq Edits(history) \cup {edit}
  BY HistoryAfter DEF BecomeMasks
<1>2. SubjectHeld(cache'.subject) \subseteq Held
  BY HeldIs DEF SubjectHeld, HeldBy, HeldParts
<1>3. Held' \subseteq Held
  BY <1>1, <1>2, HeldAfter DEF Known
<1> QED
  BY <1>3, FreeIs, GivesUp

\* A job's results are of the content, for what the masks ask for.
LEMMA RefreshAnswers ==
  ASSUME JobsInv, ~doc.loading, NEW new, BecomeMasks(new),
         Refreshes(edit.masks, new, edit.content),
         doc'.generation = doc.generation, doc'.loading = doc.loading,
         \/ cache'.subject = cache.subject
         \/ cache'.subject = edit.content /\ Needing(edit.masks, "subject") # {}
  PROVE  Promise!Answer
<1>1. /\ edit'.masks = new /\ edit'.content = edit.content
      /\ Edits(history') \subseteq Edits(history) \cup {edit}
  BY HistoryAfter DEF BecomeMasks
<1>2. edit.masks \in SoundMasks /\ new \in SoundMasks /\ DOMAIN new = DOMAIN edit.masks
      /\ \A kind : Needing(new, kind) = Needing(edit.masks, kind)
  BY JobsFacts, RefreshedIs
<1>3. ASSUME NEW r \in ResultsOf(new)
      PROVE  \/ r \in Held
             \/ /\ r.content = edit.content
                /\ \E i \in DOMAIN new : r.kind = new[i].kind /\ r.input = new[i].input
  <2>1. PICK i \in DOMAIN new :
          /\ new[i].made # NoResult
          /\ r = [kind |-> new[i].kind, input |-> new[i].made.input, content |-> new[i].made.content]
    BY ResultIs
  <2>2. CASE new[i] = edit.masks[i]
    <3>1. r \in ResultsOf(edit.masks)
      BY <1>2, <2>1, <2>2, ResultIs
    <3> QED
      BY <3>1, HeldIs DEF HeldBy, HeldParts
  <2>3. CASE new[i].made = Made(edit.content, new[i].input)
    <3>1. new[i].made.content = edit.content /\ new[i].made.input = new[i].input
      BY <2>3 DEF Made
    <3> QED
      BY <2>1, <3>1
  <2> QED
    BY <1>2, <2>2, <2>3 DEF Refreshes
<1>4. ASSUME NEW r \in SubjectHeld(cache'.subject)
      PROVE  \/ r \in Held
             \/ /\ r.content = edit.content
                /\ \E i \in DOMAIN new : r.kind = new[i].kind /\ r.input = new[i].input
  <2>1. CASE cache'.subject = cache.subject
    BY <1>4, <2>1, HeldIs DEF HeldBy, HeldParts
  <2>2. CASE cache'.subject = edit.content /\ Needing(edit.masks, "subject") # {}
    <3>1. PICK i \in Needing(new, "subject") : TRUE
      BY <1>2, <2>2
    <3>2. i \in DOMAIN new /\ new[i].kind = "subject" /\ new[i].input = 0
      BY <1>2, NeedingIs, SoundIs DEF WellMade
    <3>3. r.kind = "subject" /\ r.input = 0 /\ r.content = edit.content
      BY <1>4, <2>2 DEF SubjectHeld
    <3> QED
      BY <3>2, <3>3
  <2> QED
    BY <2>1, <2>2
<1>5. \A r \in Held' : \/ r \in Held
                       \/ /\ r.content = edit.content
                          /\ \E i \in DOMAIN edit'.masks :
                               r.kind = edit'.masks[i].kind /\ r.input = edit'.masks[i].input
  BY <1>1, <1>3, <1>4, HeldAfter
<1> QED
  BY <1>1, <1>5, Answers

-----------------------------------------------------------------------------
(* What the user does brings no result. *)

\* The edit's own masks bring no result.
LEMMA EditIsKnown == Known(edit.masks)
  BY HeldIs DEF Known, HeldBy, HeldParts

\* Masks of the edit, copied or fewer, bring none.
LEMMA CopiesAreKnown ==
  ASSUME NEW masks, From(masks, edit.masks)
  PROVE  Known(masks)
<1>1. ASSUME NEW r \in ResultsOf(masks)
      PROVE  r \in ResultsOf(edit.masks)
  BY ResultIs DEF From
<1> QED
  BY <1>1, HeldIs DEF Known, HeldBy, HeldParts

\* A component without a result brings none.
LEMMA AppendedIsKnown ==
  ASSUME JobsInv, Len(edit.masks) < MaxMasks, NEW c \in SoundComponent, c.made = NoResult
  PROVE  Known(Append(edit.masks, c))
<1> DEFINE masks == Append(edit.masks, c)
<1>1. /\ masks[Len(edit.masks) + 1] = c /\ DOMAIN masks = 1 .. Len(edit.masks) + 1
      /\ \A i \in DOMAIN edit.masks : masks[i] = edit.masks[i]
  BY JobsFacts, AppendedIsSound
<1>2. DOMAIN edit.masks = 1 .. Len(edit.masks) /\ Len(edit.masks) \in Nat
  BY JobsFacts, SoundIs
<1> HIDE DEF masks
<1>3. \A i \in DOMAIN masks : (i \in DOMAIN edit.masks /\ masks[i] = edit.masks[i]) \/ masks[i] = c
  BY <1>1, <1>2
<1>4. ResultsOf(masks) \subseteq ResultsOf(edit.masks)
  BY <1>3 DEF ResultsOf
<1> QED
  BY <1>4, HeldIs DEF Known, masks, HeldBy, HeldParts

\* A component with no result, or with the one it had, brings none.
LEMMA ReplacedIsKnown ==
  ASSUME JobsInv, NEW i \in DOMAIN edit.masks, NEW c \in SoundComponent,
         c.made = NoResult \/ (c.made = edit.masks[i].made /\ c.kind = edit.masks[i].kind)
  PROVE  Known([edit.masks EXCEPT ![i] = c])
<1> DEFINE masks == [edit.masks EXCEPT ![i] = c]
<1>1. /\ DOMAIN masks = DOMAIN edit.masks /\ masks[i] = c
      /\ \A j \in DOMAIN edit.masks : j # i => masks[j] = edit.masks[j]
  BY JobsFacts, ReplacedIsSound
<1> HIDE DEF masks
<1>2. ASSUME NEW r \in ResultsOf(masks)
      PROVE  r \in ResultsOf(edit.masks)
  <2>1. PICK j \in DOMAIN masks :
          /\ masks[j].made # NoResult
          /\ r = [kind |-> masks[j].kind, input |-> masks[j].made.input,
                  content |-> masks[j].made.content]
    BY ResultIs
  <2>2. masks[j].made = edit.masks[j].made /\ masks[j].kind = edit.masks[j].kind
    BY <1>1, <2>1
  <2> QED
    BY <1>1, <2>1, <2>2, ResultIs
<1> QED
  BY <1>2, HeldIs DEF Known, masks, HeldBy, HeldParts

\* A mark that changes is all that changes of the document.
LEMMA TakenIsQuiet ==
  ASSUME JobsInv, NEW outcome, Take(outcome)
  PROVE  doc'.generation = doc.generation /\ doc'.loading = doc.loading
  BY DEF JobsInv, DocFits, Take

\* Asking for masks shows the results that are held, or requests a job.
LEMMA AsksGiveUp ==
  ASSUME JobsInv, Free, NEW masks \in SoundMasks, Known(masks), NEW i,
         AskForSubject(masks) \/ AskForObject(masks, i) \/ AskForPeople(masks, i)
  PROVE  Promise!Change
<1>1. /\ cache \in CacheType
      /\ LET c == [cache EXCEPT !.source = Captured] IN c.subject = cache.subject
  BY CapturedFits DEF JobsInv
<1>2. CASE /\ cache.subject # NoContent /\ BecomeMasks(WithSubject(masks, cache.subject))
           /\ UNCHANGED <<doc, op, ai, cache>>
  <2> DEFINE new == WithSubject(masks, cache.subject)
  <2>1. /\ DOMAIN new = DOMAIN masks
        /\ \A k \in DOMAIN masks :
             \/ new[k] = masks[k]
             \/ new[k].kind = "subject" /\ new[k].made = Made(cache.subject, 0)
    <3>1. \A k \in DOMAIN masks : masks[k] \in Component
      BY SoundIs
    <3> QED
      BY <3>1 DEF WithSubject, Component
  <2> HIDE DEF new
  <2>2. Known(new)
    <3> SUFFICES ASSUME NEW r \in ResultsOf(new) PROVE r \in Held
      BY DEF Known
    <3>1. PICK k \in DOMAIN new :
            /\ new[k].made # NoResult
            /\ r = [kind |-> new[k].kind, input |-> new[k].made.input,
                    content |-> new[k].made.content]
      BY ResultIs
    <3>2. CASE new[k] = masks[k]
      <4>1. r \in ResultsOf(masks)
        BY <2>1, <3>1, <3>2, ResultIs
      <4> QED
        BY <4>1 DEF Known
    <3>3. CASE new[k].kind = "subject" /\ new[k].made = Made(cache.subject, 0)
      <4>1. r \in SubjectHeld(cache.subject)
        BY <1>2, <3>1, <3>3 DEF SubjectHeld, Made
      <4> QED
        BY <4>1, HeldIs DEF HeldBy, HeldParts
    <3> QED
      BY <2>1, <3>1, <3>2, <3>3
  <2> QED
    BY <1>2, <2>2, MasksGiveUp DEF new
<1>3. ASSUME BecomeMasks(masks), cache'.subject = cache.subject,
             UNCHANGED doc \/ \E outcome : Take(outcome)
      PROVE  Promise!Change
  BY <1>3, TakenIsQuiet, MasksGiveUp
<1> QED
  BY <1>1, <1>2, <1>3 DEF AskForSubject, AskForObject, AskForPeople

\* What a step of the program is for the promise.
Kept == Promise!Next \/ UNCHANGED Promise!vars

\* Each of the promise is a step for it.
LEMMA ChangeIsKept == Promise!Change => Kept
  BY DEF Kept, Promise!Next
LEMMA AnswerIsKept == Promise!Answer => Kept
  BY DEF Kept, Promise!Next

\* So is one that changes nothing of it.
LEMMA UneditedIsKept ==
  ASSUME UNCHANGED <<edit, history>>, cache'.subject = cache.subject,
         doc'.loading = doc.loading, doc'.generation = doc.generation
  PROVE  Kept
  BY Stutters DEF Kept

\* The edit stepped to is one of the history.
LEMMA RestoreGivesUp ==
  ASSUME JobsInv, Free, NEW e \in SoundEdit, e \in Edits(history), Restore(e),
         Edits(history') \subseteq Edits(history) \cup {edit}
  PROVE  Promise!Change
<1>1. /\ ~doc.loading /\ edit' = e /\ NoContent \in Contents
      /\ doc'.generation = doc.generation /\ doc'.loading = doc.loading
  BY FreeIs, JobsFacts DEF Restore, JobsInv, DocFits
<1>2. ResultsOf(e.masks) \subseteq Held
  BY HeldIs DEF HeldBy, HeldParts
<1>3. cache'.subject \in {NoContent, FirstSubject(e.masks)}
  <2> DEFINE subject == IF doc.stale THEN NoContent ELSE FirstSubject(e.masks)
  <2>1. \/ cache' = NoCache
        \/ \E source : cache' = [cache EXCEPT !.source = source, !.subject = subject]
    BY DEF Restore, Invalidated
  <2>2. cache \in CacheType /\ NoCache.subject = NoContent
    BY DEF JobsInv, NoCache
  <2>3. subject \in {NoContent, FirstSubject(e.masks)}
    OBVIOUS
  <2> HIDE DEF subject
  <2> QED
    BY <2>1, <2>2, <2>3 DEF CacheType
<1>4. SubjectHeld(FirstSubject(e.masks)) \subseteq ResultsOf(e.masks)
  <2> SUFFICES ASSUME FirstSubject(e.masks) # NoContent,
                      NEW r \in SubjectHeld(FirstSubject(e.masks))
               PROVE  r \in ResultsOf(e.masks)
    BY DEF SubjectHeld
  <2>1. e.masks \in SoundMasks
    BY DEF SoundEdit
  <2>2. PICK i \in DOMAIN e.masks :
          /\ e.masks[i].kind = "subject" /\ e.masks[i].made # NoResult
          /\ FirstSubject(e.masks) = e.masks[i].made.content
    BY <2>1, FirstSubjectIs
  <2>3. e.masks[i].made.input = 0
    BY <2>1, <2>2, SoundIs DEF WellMade
  <2>4. r = [kind |-> e.masks[i].kind, input |-> e.masks[i].made.input,
             content |-> e.masks[i].made.content]
    BY <2>2, <2>3 DEF SubjectHeld
  <2> QED
    BY <2>2, <2>4, ResultIs
<1>5. SubjectHeld(cache'.subject) \subseteq Held
  BY <1>2, <1>3, <1>4 DEF SubjectHeld
<1>6. Held' \subseteq Held
  BY <1>1, <1>2, <1>5, HeldAfter
<1> QED
  BY <1>1, <1>6, GivesUp

\* Stepping through the history moves edits between it and the edit, and brings no result.
LEMMA StepsGiveUp ==
  ASSUME JobsInv, Undo \/ Redo
  PROVE  Promise!Change
<1>1. /\ history.undo \in Seq(SoundEdit) /\ history.redo \in Seq(SoundEdit) /\ edit \in SoundEdit
      /\ Len(history.undo) <= MaxHistory /\ Len(history.redo) <= MaxHistory
  BY DEF JobsInv, HistoryFits
<1>2. ASSUME NEW from \in Seq(SoundEdit), NEW to \in Seq(SoundEdit), from # <<>>,
             Len(from) <= MaxHistory, Len(to) <= MaxHistory, Free,
             Edits(history) = Range(from) \cup Range(to),
             Edits(history') = Range(Front(from)) \cup Range(Bounded(Append(to, edit))),
             Restore(Last(from))
      PROVE  Promise!Change
  <2>1. /\ Last(from) \in SoundEdit /\ Len(from) \in DOMAIN from /\ From(Front(from), from)
    BY <1>2, SteppedIs
  <2>2. Last(from) \in Range(from)
    BY <2>1 DEF Last, Range
  <2>3. Range(Front(from)) \subseteq Range(from)
    BY <2>1 DEF From, Range
  <2>4. Range(Bounded(Append(to, edit))) \subseteq Range(to) \cup {edit}
    <3> DEFINE new == Bounded(Append(to, edit))
    <3>1. \A k \in DOMAIN new : new[k] = edit \/ \E j \in DOMAIN to : new[k] = to[j]
      BY <1>1, <1>2, BoundedIs
    <3> HIDE DEF new
    <3>2. Range(new) \subseteq Range(to) \cup {edit}
      BY <3>1 DEF Range
    <3> QED
      BY <3>2 DEF new
  <2>5. Edits(history') \subseteq Edits(history) \cup {edit}
    BY <1>2, <2>3, <2>4
  <2> QED
    BY <1>2, <2>1, <2>2, <2>5, RestoreGivesUp
<1>3. CASE Undo
  <2>1. /\ Free /\ history.undo # <<>> /\ Restore(Last(history.undo))
        /\ history' = [undo |-> Front(history.undo), redo |-> Bounded(Append(history.redo, edit))]
    BY <1>3 DEF Undo
  <2>2. Edits(history') = Range(Front(history.undo)) \cup Range(Bounded(Append(history.redo, edit)))
    BY <2>1 DEF Edits
  <2> QED
    BY <1>1, <1>2, <2>1, <2>2 DEF Edits
<1>4. CASE Redo
  <2>1. /\ Free /\ history.redo # <<>> /\ Restore(Last(history.redo))
        /\ history' = [undo |-> Bounded(Append(history.undo, edit)), redo |-> Front(history.redo)]
    BY <1>4 DEF Redo
  <2>2. Edits(history') = Range(Front(history.redo)) \cup Range(Bounded(Append(history.undo, edit)))
    BY <2>1 DEF Edits
  <2> QED
    BY <1>1, <1>2, <2>1, <2>2 DEF Edits
<1> QED
  BY <1>3, <1>4

-----------------------------------------------------------------------------
(* Each action, for the promise. *)

\* A mask is added: the result it shows is the one in use.
LEMMA AddMaskKept ==
  ASSUME JobsInv, NEW kind \in Kinds, AddMask(kind)
  PROVE  Kept
<1> DEFINE masks == Append(edit.masks, New(kind))
<1>1. Free /\ Len(edit.masks) < MaxMasks
  BY DEF AddMask
<1>2. New(kind) \in SoundComponent /\ New(kind).made = NoResult
  BY NewIsSound
<1>3. masks \in SoundMasks /\ Known(masks)
  BY <1>1, <1>2, AppendedIsFresh, AppendedIsKnown
<1>4. \/ AskForSubject(masks)
      \/ /\ BecomeMasks(masks)
         /\ cache' = [cache EXCEPT !.source = Captured]
         /\ UNCHANGED <<doc, op, ai>>
      \/ AskForPeople(masks, Len(masks))
  BY DEF AddMask
<1> HIDE DEF masks
<1>5. CASE AskForSubject(masks) \/ AskForPeople(masks, Len(masks))
  BY <1>1, <1>3, <1>5, AsksGiveUp, ChangeIsKept
<1>6. CASE /\ BecomeMasks(masks)
           /\ cache' = [cache EXCEPT !.source = Captured]
           /\ UNCHANGED <<doc, op, ai>>
  <2>1. cache'.subject = cache.subject
    BY <1>6, CapturedFits
  <2> QED
    BY <1>1, <1>3, <1>6, <2>1, MasksGiveUp, ChangeIsKept
<1> QED
  BY <1>4, <1>5, <1>6

\* A stroke is painted for an object, which has no result yet.
LEMMA PaintObjectKept ==
  ASSUME JobsInv, NEW i \in DOMAIN edit.masks, NEW strokes \in Input, PaintObject(i, strokes)
  PROVE  Kept
<1> DEFINE painted == [New("object") EXCEPT !.input = strokes]
<1>1. Free
  BY DEF PaintObject
<1>2. painted \in SoundComponent /\ painted.made = NoResult
  BY PaintedIsSound
<1>3. \/ AskForObject([edit.masks EXCEPT ![i] = painted], i)
      \/ /\ Len(edit.masks) < MaxMasks
         /\ AskForObject(Append(edit.masks, painted), Len(edit.masks) + 1)
  BY DEF PaintObject
<1> HIDE DEF painted
<1>4. CASE AskForObject([edit.masks EXCEPT ![i] = painted], i)
  <2> DEFINE masks == [edit.masks EXCEPT ![i] = painted]
  <2>1. masks \in SoundMasks /\ Known(masks)
    BY <1>2, ReplacedIsFresh, ReplacedIsKnown
  <2> HIDE DEF masks
  <2> QED
    BY <1>1, <1>4, <2>1, AsksGiveUp, ChangeIsKept DEF masks
<1>5. CASE /\ Len(edit.masks) < MaxMasks
           /\ AskForObject(Append(edit.masks, painted), Len(edit.masks) + 1)
  <2>1. Append(edit.masks, painted) \in SoundMasks /\ Known(Append(edit.masks, painted))
    BY <1>2, <1>5, AppendedIsFresh, AppendedIsKnown
  <2> QED
    BY <1>1, <1>5, <2>1, AsksGiveUp, ChangeIsKept
<1> QED
  BY <1>3, <1>4, <1>5

\* start_people_compose changes no edit.
LEMMA ComposeKept ==
  ASSUME JobsInv, NEW i, NEW choice, Compose(i, choice)
  PROVE  Kept
<1>1. cache'.subject = cache.subject
  BY CapturedFits DEF Compose
<1> QED
  BY <1>1, UneditedIsKept DEF Compose

\* People are chosen: the mask keeps the result it had.
LEMMA ChoosePeopleKept ==
  ASSUME JobsInv, NEW i \in DOMAIN edit.masks, NEW choice \in Input, ChoosePeople(i, choice)
  PROVE  Kept
<1>1. Free /\ edit.masks[i].kind = "person"
  BY DEF ChoosePeople
<1>2. CASE UNCHANGED <<doc, edit, history, op, ai, cache>>
  BY <1>2, UneditedIsKept
<1>3. CASE Compose(i, choice)
  BY <1>3, ComposeKept
<1>4. CASE AskForPeople([edit.masks EXCEPT ![i].input = choice], i)
  <2> DEFINE c == [edit.masks[i] EXCEPT !.input = choice]
             masks == [edit.masks EXCEPT ![i] = c]
  <2>1. edit.masks[i] \in SoundComponent
    BY JobsFacts, SoundIs, ElementOfSeq
  <2>2. c \in SoundComponent /\ c.kind = edit.masks[i].kind /\ c.made = edit.masks[i].made
    BY <1>1, <2>1, ChosenIsSound
  <2>3. AskForPeople(masks, i)
    BY <1>4
  <2> HIDE DEF c
  <2>4. masks \in SoundMasks /\ Known(masks)
    BY <2>2, ReplacedIsFresh, ReplacedIsKnown
  <2> HIDE DEF masks
  <2> QED
    BY <1>1, <2>3, <2>4, AsksGiveUp, ChangeIsKept
<1> QED
  BY <1>2, <1>3, <1>4 DEF ChoosePeople

\* A mask is asked for again: only the result in use is shown.
LEMMA AskAgainKept ==
  ASSUME JobsInv, NEW i \in DOMAIN edit.masks, AskAgain(i)
  PROVE  Kept
<1>1. Free /\ edit.masks \in SoundMasks /\ Known(edit.masks)
  BY JobsFacts, EditIsKnown DEF AskAgain
<1> QED
  BY <1>1, AsksGiveUp, ChangeIsKept, ComposeKept DEF AskAgain

\* A component is copied or deleted, with its result.
LEMMA CopyKept ==
  ASSUME JobsInv, NEW i \in DOMAIN edit.masks, Duplicate(i) \/ Delete(i)
  PROVE  Kept
<1>1. Free /\ UNCHANGED <<doc, op, ai, cache, composes, retouch>> /\ edit.masks \in SoundMasks
  BY JobsFacts DEF Duplicate, Delete
<1>2. ASSUME NEW masks, From(masks, edit.masks), BecomeMasks(masks)
      PROVE  Kept
  BY <1>1, <1>2, CopiesAreKnown, MasksGiveUp, ChangeIsKept
<1>3. CASE Duplicate(i)
  <2>1. From(InsertAt(edit.masks, i + 1, edit.masks[i]), edit.masks)
    BY <1>1, <1>3, InsertedIsSound DEF Duplicate
  <2> QED
    BY <1>2, <1>3, <2>1 DEF Duplicate
<1>4. CASE Delete(i)
  <2>1. From(RemoveAt(edit.masks, i), edit.masks)
    BY <1>1, RemovedIsSound
  <2> QED
    BY <1>2, <1>4, <2>1 DEF Delete
<1> QED
  BY <1>3, <1>4

\* A step that forgets the subject's result, or keeps the cache, and edits nothing.
LEMMA ForgottenIsKept ==
  ASSUME ~doc.loading, UNCHANGED <<edit, history>>, cache'.subject = NoContent,
         doc'.loading = doc.loading, doc'.generation = doc.generation
  PROVE  Kept
<1>1. Edits(history') \subseteq Edits(history) \cup {edit}
  OBVIOUS
<1>2. \A r \in Held' : r \in Held
  BY <1>1, HeldAfter, HeldIs DEF HeldBy, HeldParts, SubjectHeld
<1> QED
  BY <1>2, GivesUp, ChangeIsKept

\* request_ai_update forgets the result in use.
LEMMA RequestUpdateKept ==
  ASSUME JobsInv, RequestUpdate
  PROVE  Kept
<1>1. Free /\ UNCHANGED <<edit, history>> /\ ~doc.loading
  BY FreeIs DEF RequestUpdate
<1>2. CASE doc' = [doc EXCEPT !.stale = FALSE] /\ UNCHANGED <<op, ai, cache>>
  <2>1. doc'.loading = doc.loading /\ doc'.generation = doc.generation
    BY <1>2 DEF JobsInv, DocFits
  <2> QED
    BY <1>1, <1>2, <2>1, UneditedIsKept
<1>3. ASSUME cache' = [cache EXCEPT !.source = edit.content, !.subject = NoContent],
             NEW outcome, Take(outcome)
      PROVE  Kept
  <2>1. cache'.subject = NoContent
    BY <1>3 DEF JobsInv, CacheType
  <2> QED
    BY <1>1, <1>3, <2>1, TakenIsQuiet, ForgottenIsKept
<1> QED
  BY <1>2, <1>3 DEF RequestUpdate

\* The dialogs and the start of a retouch stroke edit nothing.
LEMMA DialogsKept ==
  ASSUME JobsInv, StartRetouch \/ CancelOperation \/ Accept \/ Decline
  PROVE  Kept
<1>1. /\ UNCHANGED <<edit, history, cache>>
      /\ UNCHANGED doc \/ \E outcome : Take(outcome)
  BY DEF StartRetouch, CancelOperation, Accept, Decline
<1> QED
  BY <1>1, TakenIsQuiet, UneditedIsKept

\* No action of the user brings a result in.
LEMMA UserKept ==
  ASSUME JobsInv, User
  PROVE  Kept
<1>1. CASE \E kind \in Kinds : AddMask(kind)
  BY <1>1, AddMaskKept
<1>2. ASSUME NEW i \in DOMAIN edit.masks, NEW input \in Input,
             PaintObject(i, input) \/ ChoosePeople(i, input)
      PROVE  Kept
  BY <1>2, PaintObjectKept, ChoosePeopleKept
<1>3. ASSUME NEW i \in DOMAIN edit.masks, AskAgain(i) \/ Duplicate(i) \/ Delete(i)
      PROVE  Kept
  BY <1>3, AskAgainKept, CopyKept
<1>4. CASE Undo \/ Redo
  BY <1>4, StepsGiveUp, ChangeIsKept
<1> QED
  BY <1>1, <1>2, <1>3, <1>4, RequestUpdateKept, DialogsKept DEF User

\* A retouch stroke changes the content: the results in the masks stay, that in use is
\* forgotten.
LEMMA RetouchEndsKept ==
  ASSUME JobsInv, RetouchEnds
  PROVE  Kept
<1>1. retouch /\ ~doc.loading
  BY DEF RetouchEnds, JobsInv, LoadingIsQuiet
<1>2. CASE UNCHANGED <<doc, edit, history, op, ai, cache, composes>>
  BY <1>2, UneditedIsKept
<1>3. CASE /\ Become([masks |-> edit.masks, content |-> doc.contents + 1])
           /\ doc' = [doc EXCEPT !.contents = @ + 1, !.stale = HasDependencies(edit.masks)]
           /\ Invalidated
  <2>1. edit'.masks = edit.masks /\ Edits(history') \subseteq Edits(history) \cup {edit}
    BY <1>3, HistoryAfter
  <2>2. cache'.subject = NoContent
    BY <1>3 DEF Invalidated, NoCache
  <2>3. doc'.loading = doc.loading /\ doc'.generation = doc.generation
    BY <1>3 DEF JobsInv, DocFits
  <2>4. \A r \in Held' : r \in Held
    BY <2>1, <2>2, HeldAfter, HeldIs DEF HeldBy, HeldParts, SubjectHeld
  <2> QED
    BY <1>1, <2>3, <2>4, GivesUp, ChangeIsKept
<1> QED
  BY <1>2, <1>3 DEF RetouchEnds

\* A people mask that is made is of the content, for the people chosen.
LEMMA ComposeEndsKept ==
  ASSUME IInv, JobsInv, NEW compose \in composes, ComposeEnds(compose)
  PROVE  Kept
<1>1. ~doc.loading /\ UNCHANGED <<doc, cache>>
  BY DEF JobsInv, LoadingIsQuiet, ComposeEnds
<1> DEFINE at == compose.at
           new == [edit.masks EXCEPT ![at].input = compose.target,
                                     ![at].made = Made(compose.content, compose.target)]
<1>2. \/ /\ at \in DOMAIN edit.masks /\ edit.masks[at].kind = "person" /\ BecomeMasks(new)
      \/ UNCHANGED <<edit, history>>
  BY DEF ComposeEnds
<1>3. CASE at \in DOMAIN edit.masks /\ edit.masks[at].kind = "person" /\ BecomeMasks(new)
  <2>1. Refreshes(edit.masks, new, edit.content)
    BY <1>3, ComposedIs
  <2> HIDE DEF new
  <2> QED
    BY <1>1, <1>3, <2>1, RefreshAnswers, AnswerIsKept
<1>4. CASE UNCHANGED <<edit, history>>
  BY <1>1, <1>4, UneditedIsKept
<1> QED
  BY <1>2, <1>3, <1>4

\* An accepted subject is of the open photo's content, and asked for by a subject mask.
LEMMA SubjectEndsKept ==
  ASSUME IInv, JobsInv, SubjectEnds
  PROVE  Kept
<1>1. /\ op.kind = "subject" /\ op # NoOp /\ edit.masks \in SoundMasks
      /\ op.content \in Contents
  BY JobsFacts DEF SubjectEnds, NoOp, NoKind
<1>2. doc'.loading = doc.loading /\ doc'.generation = doc.generation
  BY TakenIsQuiet DEF SubjectEnds, Ends
<1> DEFINE new == WithSubject(edit.masks, op.content)
<1>3. CASE UNCHANGED <<edit, history, cache>>
  BY <1>2, <1>3, UneditedIsKept
<1>4. CASE /\ Accepted
           /\ BecomeMasks(new)
           /\ cache' = [cache EXCEPT !.subject = op.content]
  <2>1. ~doc.loading /\ op.content = edit.content
    BY <1>1, <1>4, AcceptedIs
  <2>2. Refreshes(edit.masks, new, edit.content)
    BY <1>1, <2>1, SubjectsRefreshed
  <2>3. cache'.subject = edit.content /\ Needing(edit.masks, "subject") # {}
    BY <1>1, <1>4, <2>1 DEF JobsInv, CacheType, SubjectIsWanted
  <2> HIDE DEF new
  <2> QED
    BY <1>2, <1>4, <2>1, <2>2, <2>3, RefreshAnswers, AnswerIsKept
<1> QED
  BY <1>3, <1>4 DEF SubjectEnds

\* An accepted object is of the content, for the strokes of the component it is written to.
LEMMA ObjectEndsKept ==
  ASSUME IInv, JobsInv, ObjectEnds
  PROVE  Kept
<1>1. op.kind = "object" /\ op # NoOp /\ cache' = cache
  BY DEF ObjectEnds, NoOp, NoKind
<1>2. doc'.loading = doc.loading /\ doc'.generation = doc.generation
  BY TakenIsQuiet DEF ObjectEnds, Ends
<1> DEFINE target == op.targets[1]
           at == Resolved(edit.masks, target)
           new == [edit.masks EXCEPT ![at].made = Made(op.content, target.component.input)]
<1>3. UNCHANGED <<edit, history>> \/ (Accepted /\ at # 0 /\ BecomeMasks(new))
  BY DEF ObjectEnds
<1>4. CASE UNCHANGED <<edit, history>>
  BY <1>1, <1>2, <1>4, UneditedIsKept
<1>5. CASE Accepted /\ at # 0 /\ BecomeMasks(new)
  <2>1. ~doc.loading /\ op.content = edit.content
    BY <1>1, <1>5, AcceptedIs
  <2>2. Refreshes(edit.masks, new, edit.content)
    BY <1>1, <1>5, <2>1, ObjectMadeIs
  <2> HIDE DEF new
  <2> QED
    BY <1>1, <1>2, <1>5, <2>1, <2>2, RefreshAnswers, AnswerIsKept
<1> QED
  BY <1>3, <1>4, <1>5

\* Accepted people masks are of the content, for what their components ask for.
LEMMA PeopleKept ==
  ASSUME IInv, JobsInv, PeopleFound \/ PeopleMasks \/ PeopleEnds
  PROVE  Kept
<1>1. op.kind = "person" /\ op # NoOp
  <2>1. op.kind = "person"
    BY DEF PeopleFound, PeopleMasks, PeopleEnds
  <2> QED
    BY <2>1 DEF NoOp, NoKind
<1>2. CASE PeopleFound
  <2>1. cache'.subject = cache.subject
    BY <1>2 DEF PeopleFound, JobsInv, CacheType
  <2> QED
    BY <1>2, <2>1, UneditedIsKept DEF PeopleFound
<1>3. CASE PeopleMasks
  <2>1. Accepted /\ UNCHANGED <<doc, cache>>
    BY <1>3 DEF PeopleMasks
  <2>2. PICK found : BecomeMasks(WithPeople(edit.masks, found))
    BY <1>3 DEF PeopleMasks
  <2>3. ~doc.loading /\ Refreshes(edit.masks, WithPeople(edit.masks, found), edit.content)
    BY <1>1, <2>1, AcceptedIs, PeopleMadeIs
  <2> QED
    BY <2>1, <2>2, <2>3, RefreshAnswers, AnswerIsKept
<1>4. CASE PeopleEnds
  <2>1. UNCHANGED <<edit, history>> /\ \E outcome : Take(outcome)
    BY <1>4 DEF PeopleEnds, Ends
  <2>2. cache'.subject = cache.subject
    BY <1>4 DEF PeopleEnds, JobsInv, CacheType
  <2> QED
    BY <2>1, <2>2, TakenIsQuiet, UneditedIsKept
<1> QED
  BY <1>2, <1>3, <1>4

\* A photo that is opened has no results, and what is loaded are its own.
LEMMA PhotosKept ==
  ASSUME JobsInv, OpenPhoto \/ PhotoLoads
  PROVE  Kept
<1>1. doc.generation \in Nat /\ doc.loading \in BOOLEAN
  BY ContentAssumption DEF JobsInv, DocFits
<1>2. CASE OpenPhoto
  <2>1. /\ doc'.generation > doc.generation /\ doc'.loading /\ edit'.masks = <<>>
        /\ history' = NoHistory /\ cache'.subject = NoContent
    BY <1>1, <1>2 DEF OpenPhoto, NoCache
  <2>2. Held' = {}
    <3>1. Range(history.undo)' = {} /\ Range(history.redo)' = {}
      BY <2>1 DEF NoHistory, Range
    <3>2. ResultsOf(edit.masks)' = {}
      BY <2>1 DEF ResultsOf
    <3> QED
      BY <2>1, <3>1, <3>2 DEF Held
  <2> QED
    BY <2>1, <2>2 DEF Kept, Promise!Next, Promise!Open
<1>3. CASE PhotoLoads
  <2>1. doc.loading /\ edit'.content = edit.content
    <3>1. \E masks : edit' = [masks |-> masks, content |-> edit.content]
      BY <1>3 DEF PhotoLoads
    <3>2. doc.loading
      BY <1>3 DEF PhotoLoads
    <3> QED
      BY <3>1, <3>2
  <2>2. doc'.generation = doc.generation /\ doc'.loading = FALSE
    BY <1>3 DEF PhotoLoads, JobsInv, DocFits
  <2>3. Promise!Load
    <3> DEFINE photo == [document |-> doc.generation, loading |-> doc.loading,
                         content |-> edit.content]
               after == [document |-> doc'.generation, loading |-> doc'.loading,
                         content |-> edit'.content]
    <3>1. after = [document |-> doc.generation, loading |-> doc'.loading, content |-> edit.content]
      BY <2>1, <2>2
    <3>2. ASSUME NEW loading
          PROVE  [photo EXCEPT !.loading = loading]
                   = [document |-> doc.generation, loading |-> loading, content |-> edit.content]
      BY SMTT(30)
    <3>3. after = [photo EXCEPT !.loading = doc'.loading]
      BY <3>1, <3>2
    <3> HIDE DEF photo, after
    <3>4. after = [photo EXCEPT !.loading = FALSE]
      BY <2>2, <3>3
    <3> QED
      BY <2>1, <3>4 DEF Promise!Load, photo, after
  <2> QED
    BY <2>3 DEF Kept, Promise!Next
<1> QED
  BY <1>2, <1>3

\* The first state holds no result.
LEMMA PromiseStarts ==
  ASSUME Init
  PROVE  Promise!Init
<1>1. ~doc.loading /\ edit.masks = <<>> /\ history = NoHistory /\ cache.subject = NoContent
  BY DEF Init, NoCache
<1>2. Held = {}
  <2>1. Range(history.undo) = {} /\ Range(history.redo) = {}
    BY <1>1 DEF NoHistory, Range
  <2>2. ResultsOf(edit.masks) = {}
    BY <1>1 DEF ResultsOf
  <2> QED
    BY <1>1, <2>1, <2>2 DEF Held
<1> QED
  BY <1>1, <1>2 DEF Promise!Init

\* Every step of the program is a step of the promise, or a stutter.
LEMMA EveryStepKept ==
  ASSUME IInv, JobsInv, [Next]_vars
  PROVE  Kept
<1>1. CASE UNCHANGED vars
  BY <1>1, UneditedIsKept DEF vars
<1>2. CASE Next
  BY <1>2, UserKept, RetouchEndsKept, ComposeEndsKept, SubjectEndsKept, ObjectEndsKept,
     PeopleKept, PhotosKept DEF Next
<1> QED
  BY <1>1, <1>2

\* The jobs implement EditResults, for any number of masks, photos and contents and any
\* history: a result of a local-AI job enters the edit, its history or the cache only while the
\* photo is open with the content the result was made from, and only for something the edit
\* asks for (accepts_result, resolve_ai_target, invalidate_generated_mask_sources).
THEOREM ResultsFollowThePhoto == Spec => ResultsAreOfThePhoto
<1>1. Init => Promise!Init
  BY PromiseStarts
<1>2. IInv /\ JobsInv /\ [Next]_vars => [Promise!Next]_(Promise!vars)
  BY EveryStepKept DEF Kept
<1> QED
  BY <1>1, <1>2, InvStart, InvKept, PTL DEF Spec, ResultsAreOfThePhoto, Promise!Spec
=============================================================================
