------------------------- MODULE SidecarSaveProofs -------------------------
(***************************************************************************)
(* Type correctness, the order of saves, and what holds each edit, for any *)
(* number of photos, edits and documents and any faults.  The first half    *)
(* proves IndInv, the types and the queue's order; the second proves        *)
(* DataInv on top of it: later saves hold what earlier ones hold, and every *)
(* wanted edit is in its sidecar, on its way there, in the open document,   *)
(* in a reported failure, or raced with something else.                     *)
(***************************************************************************)
EXTENDS SidecarSave, SequenceTheorems, TLAPS

(* The persistence record is well formed and its queue in order. *)
Well(s, doc) == s \in PersistenceType /\ InOrder(s, doc.revision)

-----------------------------------------------------------------------------
(* The document. *)

(* A commit keeps the document well formed and never takes a revision back. *)
LEMMA CommitType ==
  ASSUME NEW doc \in DocumentType
  PROVE  /\ Commit(doc) \in DocumentType
         /\ Commit(doc).revision >= doc.revision
<1>1. CASE ~doc.dirty
  BY <1>1 DEF Commit, DocumentType
<1>2. CASE doc.dirty
  <2>1. doc.revision + 1 \in Nat /\ doc.committed \cup {doc.revision + 1} \in SUBSET Edit
    BY DEF DocumentType, Edit
  <2>2. Commit(doc) = [doc EXCEPT !.committed = doc.committed \cup {doc.revision + 1},
                                  !.revision = doc.revision + 1, !.dirty = FALSE]
    BY <1>2 DEF Commit
  <2>3. Commit(doc) \in DocumentType
    BY <2>1, <2>2 DEF DocumentType
  <2>4. Commit(doc).revision = doc.revision + 1
    BY <2>2 DEF DocumentType
  <2>5. QED
    BY <2>3, <2>4 DEF DocumentType
<1>3. QED
  BY <1>1, <1>2

(* A frame's observation commits, or waits for the gesture. *)
LEMMA ObserveType ==
  ASSUME NEW doc \in DocumentType
  PROVE  /\ Observe(doc) \in DocumentType
         /\ Observe(doc).revision >= doc.revision
  BY CommitType DEF Observe, DocumentType

(* What a save captures is a set of edits. *)
LEMMA CapturedType ==
  ASSUME NEW doc \in DocumentType
  PROVE  Captured(doc) \in SUBSET Edit
  BY DEF Captured, DocumentType, Edit

(* What the queue and the running save consist of. *)
LEMMA QueueType ==
  ASSUME NEW s \in PersistenceType
  PROVE  /\ s.pending \in Seq(Request)
         /\ DOMAIN s.pending = 1 .. Len(s.pending) /\ Len(s.pending) \in Nat
         /\ \A i \in DOMAIN s.pending :
              /\ s.pending[i] \in Request
              /\ s.pending[i].generation \in Nat /\ s.pending[i].revision \in Nat
         /\ s.job.generation \in Nat /\ s.job.revision \in Nat
         /\ s.job.edits \in SUBSET Edit
         /\ s.generation \in Nat
<1>1. s.pending \in Seq(Request) /\ s.job \in Request \cup {NoRequest} /\ s.generation \in Nat
  BY DEF PersistenceType
<1>2. \A i \in DOMAIN s.pending : s.pending[i] \in Request
  BY <1>1
<1>3. \A r \in Request \cup {NoRequest} :
        r.generation \in Nat /\ r.revision \in Nat /\ r.edits \in SUBSET Edit
  BY DEF Request, NoRequest
<1>4. QED
  BY <1>1, <1>2, <1>3

(* A queue stays in order while the document moves on. *)
LEMMA OrderMonotone ==
  ASSUME NEW s \in PersistenceType, NEW old \in Nat, NEW new \in Nat,
         old <= new, InOrder(s, old)
  PROVE  InOrder(s, new)
  BY QueueType DEF InOrder, NoNewerThan

-----------------------------------------------------------------------------
(* The queue. *)

(* A request for the open document is well formed. *)
LEMMA RequestForType ==
  ASSUME NEW s \in PersistenceType, NEW doc \in DocumentType,
         NEW explicit \in BOOLEAN, s.target # NoPhoto
  PROVE  /\ RequestFor(s, doc, explicit) \in Request
         /\ RequestFor(s, doc, explicit).generation = s.generation
         /\ RequestFor(s, doc, explicit).revision = doc.revision
<1>1. s.target \in Photo /\ s.generation \in Nat /\ doc.revision \in Nat
  BY DEF PersistenceType, DocumentType, Target
<1>2. QED
  BY <1>1, CapturedType DEF RequestFor, Request

(* Replacing the document's request where it stands, or pushing its first one,
   keeps the queue in order. *)
LEMMA EnqueueWell ==
  ASSUME NEW s \in PersistenceType, NEW request \in Request, NEW revision \in Nat,
         InOrder(s, revision),
         request.generation = s.generation, request.revision = revision
  PROVE  /\ Enqueue(s, request) \in PersistenceType
         /\ InOrder(Enqueue(s, request), revision)
<1> DEFINE mine == {i \in DOMAIN s.pending : s.pending[i].generation = request.generation}
           first == CHOOSE i \in mine : \A j \in mine : i <= j
           t == Enqueue(s, request)
<1>0. /\ s.pending \in Seq(Request)
      /\ \A i \in DOMAIN s.pending :
             s.pending[i].generation \in Nat /\ s.pending[i].revision \in Nat
      /\ s.job.generation \in Nat /\ s.job.revision \in Nat /\ s.generation \in Nat
  BY QueueType
<1>1. CASE mine = {}
  <2>1. t = [s EXCEPT !.pending = Append(s.pending, request)]
    BY <1>1 DEF Enqueue
  <2>2. Append(s.pending, request) \in Seq(Request)
    BY <1>0
  <2>3. t \in PersistenceType
    BY <2>1, <2>2 DEF PersistenceType
  <2>4. /\ t.pending = Append(s.pending, request)
        /\ t.generation = s.generation /\ t.job = s.job /\ t.thread = s.thread
    BY <2>1 DEF PersistenceType
  <2>5. \A i \in DOMAIN s.pending : s.pending[i].generation < s.generation
    BY <1>0, <1>1 DEF InOrder, NoNewerThan
  <2>6. /\ DOMAIN t.pending = 1 .. Len(s.pending) + 1
        /\ \A i \in DOMAIN s.pending : t.pending[i] = s.pending[i]
        /\ t.pending[Len(s.pending) + 1] = request
        /\ DOMAIN s.pending = 1 .. Len(s.pending)
    BY <1>0, <2>4
  <2>7. OldestFirst(t)
    <3> SUFFICES ASSUME NEW i \in DOMAIN t.pending, NEW j \in DOMAIN t.pending, i < j
                 PROVE  t.pending[i].generation < t.pending[j].generation
      BY DEF OldestFirst
    <3>1. i \in DOMAIN s.pending /\ (j \in DOMAIN s.pending \/ j = Len(s.pending) + 1)
      BY <1>0, <2>6
    <3>2. QED
      BY <1>0, <2>5, <2>6, <3>1 DEF OldestFirst, InOrder
  <2>8. QED
    BY <1>0, <2>3, <2>4, <2>5, <2>6, <2>7 DEF InOrder, NoNewerThan, InFlight
<1>2. CASE mine # {}
  <2> DEFINE replaced == [request EXCEPT !.explicit = @ \/ s.pending[first].explicit]
  <2>1. \A i, j \in mine : i = j
    BY <1>0 DEF InOrder, OldestFirst
  <2>2. first \in mine
    <3>1. PICK i \in mine : TRUE
      BY <1>2
    <3>2. \A j \in mine : i <= j
      BY <1>0, <2>1, <3>1
    <3>3. QED
      BY <3>1, <3>2
  <2>3. t = [s EXCEPT !.pending = [s.pending EXCEPT ![first] = replaced]]
    BY <1>2 DEF Enqueue
  <2>4. /\ replaced \in Request
        /\ replaced.generation = s.generation /\ replaced.revision = revision
    BY <1>0, <2>2 DEF Request
  <2>5. [s.pending EXCEPT ![first] = replaced] \in Seq(Request)
    BY <1>0, <2>2, <2>4, ExceptSeq
  <2>6. t \in PersistenceType
    BY <2>3, <2>5 DEF PersistenceType
  <2>7. /\ DOMAIN t.pending = DOMAIN s.pending
        /\ \A i \in DOMAIN s.pending : i # first => t.pending[i] = s.pending[i]
        /\ t.pending[first] = replaced
        /\ s.pending[first].generation = s.generation
        /\ t.generation = s.generation /\ t.job = s.job /\ t.thread = s.thread
    BY <1>0, <2>2, <2>3 DEF PersistenceType
  <2>8. \A i \in DOMAIN s.pending : t.pending[i].generation = s.pending[i].generation
    BY <2>4, <2>7
  <2>9. OldestFirst(t)
    BY <2>7, <2>8 DEF OldestFirst, InOrder
  <2>10. ASSUME NEW i \in DOMAIN t.pending
         PROVE  NoNewerThan(t.pending[i], t.generation, revision)
    <3>1. CASE i = first
      <4> HIDE DEF replaced, first, t
      <4>1. QED
        BY <1>0, <2>4, <2>7, <3>1 DEF NoNewerThan
    <3>2. CASE i # first
      BY <2>7, <2>10, <3>2 DEF InOrder
    <3>3. QED
      BY <3>1, <3>2
  <2>11. ASSUME InFlight(t), NEW i \in DOMAIN t.pending
         PROVE  NoNewerThan(t.job, t.pending[i].generation, t.pending[i].revision)
    <3>1. InFlight(s)
      BY <2>7, <2>11 DEF InFlight
    <3>2. NoNewerThan(s.job, s.generation, revision)
      BY <3>1 DEF InOrder
    <3>3. CASE i = first
      BY <2>4, <2>7, <3>2, <3>3
    <3>4. CASE i # first
      BY <2>7, <2>11, <3>1, <3>4 DEF InOrder
    <3>5. QED
      BY <3>3, <3>4
  <2>12. InFlight(t) => NoNewerThan(t.job, t.generation, revision)
    BY <2>7 DEF InOrder, InFlight
  <2>13. QED
    BY <2>6, <2>9, <2>10, <2>11, <2>12 DEF InOrder
<1>3. QED
  BY <1>1, <1>2

(* Autosaves and explicit saves keep the queue well formed and in order. *)
LEMMA QueueCurrentWell ==
  ASSUME NEW s \in PersistenceType, NEW doc \in DocumentType, NEW explicit \in BOOLEAN,
         InOrder(s, doc.revision)
  PROVE  Well(QueueCurrent(s, doc, explicit), doc)
<1>1. CASE s.target = NoPhoto \/ (~explicit /\ Covered(s, doc.revision))
  BY <1>1 DEF QueueCurrent, Well
<1>2. CASE ~(s.target = NoPhoto \/ (~explicit /\ Covered(s, doc.revision)))
  <2>1. doc.revision \in Nat
    BY DEF DocumentType
  <2>2. QueueCurrent(s, doc, explicit) = Enqueue(s, RequestFor(s, doc, explicit))
    BY <1>2 DEF QueueCurrent
  <2>3. QED
    BY <1>2, <2>1, <2>2, RequestForType, EnqueueWell DEF Well
<1>3. QED
  BY <1>1, <1>2

(* Marking a request explicit moves nothing. *)
LEMMA MarkExplicitWell ==
  ASSUME NEW s \in PersistenceType, NEW doc \in DocumentType,
         InOrder(s, doc.revision)
  PROVE  Well(MarkExplicit(s, doc.revision), doc)
<1> DEFINE t == MarkExplicit(s, doc.revision)
           marked == [i \in DOMAIN s.pending |->
                        IF s.pending[i].generation = s.generation
                             /\ s.pending[i].revision = doc.revision
                        THEN [s.pending[i] EXCEPT !.explicit = TRUE]
                        ELSE s.pending[i]]
<1>1. \A r \in Request : /\ [r EXCEPT !.explicit = TRUE] \in Request
                         /\ [r EXCEPT !.explicit = TRUE].generation = r.generation
                         /\ [r EXCEPT !.explicit = TRUE].revision = r.revision
  BY DEF Request
<1>2. \A i \in DOMAIN s.pending :
        /\ marked[i] \in Request
        /\ marked[i].generation = s.pending[i].generation
        /\ marked[i].revision = s.pending[i].revision
  BY <1>1, QueueType
<1>3. marked \in Seq(Request)
  <2>1. marked \in [1 .. Len(s.pending) -> Request]
    BY <1>2, QueueType
  <2> HIDE DEF marked
  <2>2. marked \in UNION {[1 .. n -> Request] : n \in Nat}
    BY <2>1, QueueType
  <2>3. QED
    BY <2>2, SeqDef, Zenon
<1>4. t = [s EXCEPT !.pending = marked]
  BY DEF MarkExplicit
<1>5. t \in PersistenceType
  <2> HIDE DEF marked
  <2>1. QED
    BY <1>3, <1>4 DEF PersistenceType
<1>6. /\ t.pending = marked /\ DOMAIN t.pending = DOMAIN s.pending
      /\ t.generation = s.generation /\ t.job = s.job /\ t.thread = s.thread
  BY <1>4 DEF PersistenceType
<1>7. InOrder(t, doc.revision)
  <2> HIDE DEF marked, t
  <2>1. QED
    BY <1>2, <1>6 DEF InOrder, OldestFirst, NoNewerThan, InFlight
<1>8. QED
  BY <1>5, <1>7 DEF Well

(* What a switch or a flush queues keeps the order. *)
LEMMA QueueNewestWell ==
  ASSUME NEW s \in PersistenceType, NEW doc \in DocumentType,
         InOrder(s, doc.revision)
  PROVE  Well(QueueNewest(s, doc), doc)
  BY MarkExplicitWell, QueueCurrentWell DEF QueueNewest, Well

-----------------------------------------------------------------------------
(* Starting and finishing a save. *)

(* A change that leaves the queue and the running save alone. *)
LEMMA SameQueue ==
  ASSUME NEW s, NEW t, NEW revision,
         t.pending = s.pending, t.generation = s.generation,
         t.job = s.job, t.thread = s.thread, InOrder(s, revision)
  PROVE  InOrder(t, revision)
  BY DEF InOrder, OldestFirst, InFlight

(* Reporting a failure leaves the queue alone. *)
LEMMA ReportFailureWell ==
  ASSUME NEW s \in PersistenceType, NEW doc,
         NEW revision \in OptRevision, NEW edits \in SUBSET Edit,
         InOrder(s, doc.revision)
  PROVE  Well(ReportFailure(s, revision, edits), doc)
<1> DEFINE t == ReportFailure(s, revision, edits)
<1>1. t \in PersistenceType
  BY DEF ReportFailure, PersistenceType
<1>2. /\ t.pending = s.pending /\ t.generation = s.generation
      /\ t.job = s.job /\ t.thread = s.thread
  BY DEF ReportFailure, PersistenceType
<1>3. QED
  BY <1>1, <1>2, SameQueue DEF Well

(* The revision a failure marks, or none. *)
LEMMA FailedRevisionType ==
  ASSUME NEW s, NEW request \in Request \cup {NoRequest}
  PROVE  FailedRevision(s, request) \in OptRevision
  BY DEF FailedRevision, OptRevision, Request, NoRequest

(* Taking the oldest request leaves newer ones behind. *)
LEMMA StartNextWell ==
  ASSUME NEW s \in PersistenceType, NEW doc, NEW spawns,
         InOrder(s, doc.revision)
  PROVE  Well(StartNext(s, doc, spawns), doc)
<1>1. CASE InFlight(s) \/ s.pending = <<>> \/ HeldBack(s, doc)
  BY <1>1 DEF StartNext, Well
<1>2. CASE ~(InFlight(s) \/ s.pending = <<>> \/ HeldBack(s, doc))
  <2> DEFINE request == Head(s.pending)
             popped == [s EXCEPT !.pending = Tail(s.pending)]
  <2>1. /\ request = s.pending[1] /\ request \in Request /\ Tail(s.pending) \in Seq(Request)
        /\ 1 \in DOMAIN s.pending
        /\ DOMAIN Tail(s.pending) = 1 .. Len(s.pending) - 1
        /\ \A i \in DOMAIN Tail(s.pending) :
             /\ i + 1 \in DOMAIN s.pending /\ 1 < i + 1
             /\ Tail(s.pending)[i] = s.pending[i + 1]
    BY <1>2, QueueType
  <2>2. popped \in PersistenceType
    BY <2>1 DEF PersistenceType
  <2>3. /\ popped.pending = Tail(s.pending) /\ popped.generation = s.generation
        /\ popped.job = s.job /\ popped.thread = s.thread
    BY DEF PersistenceType
  <2>4. \A i \in DOMAIN popped.pending :
          /\ NoNewerThan(popped.pending[i], s.generation, doc.revision)
          /\ request.generation < popped.pending[i].generation
    BY <2>1, <2>3 DEF InOrder, OldestFirst
  <2>5. OldestFirst(popped)
    <3> SUFFICES ASSUME NEW i \in DOMAIN Tail(s.pending), NEW j \in DOMAIN Tail(s.pending),
                        i < j
                 PROVE  Tail(s.pending)[i].generation < Tail(s.pending)[j].generation
      BY <2>3 DEF OldestFirst
    <3>1. i + 1 \in DOMAIN s.pending /\ j + 1 \in DOMAIN s.pending /\ i + 1 < j + 1
      BY <2>1
    <3>2. QED
      BY <2>1, <3>1 DEF InOrder, OldestFirst
  <2>6. CASE spawns
    <3> DEFINE t == StartNext(s, doc, spawns)
    <3>1. t = [popped EXCEPT !.job = request, !.thread = "writing"]
      BY <1>2, <2>6 DEF StartNext
    <3>2. t \in PersistenceType
      <4> HIDE DEF popped, request
      <4>1. QED
        BY <2>1, <2>2, <3>1 DEF PersistenceType, ThreadState
    <3>3. /\ t.pending = popped.pending /\ t.generation = s.generation /\ t.job = request
      <4> HIDE DEF popped, request
      <4>1. QED
        BY <2>2, <2>3, <3>1 DEF PersistenceType
    <3>4. InOrder(t, doc.revision)
      <4> HIDE DEF popped, request, t
      <4>1. OldestFirst(t)
        BY <2>5, <3>3 DEF OldestFirst
      <4>2. NoNewerThan(request, s.generation, doc.revision)
        BY <2>1 DEF InOrder
      <4>3. QED
        BY <2>4, <3>3, <4>1, <4>2 DEF InOrder, NoNewerThan
    <3>5. QED
      BY <3>2, <3>4 DEF Well
  <2>7. CASE ~spawns
    <3>1. InOrder(popped, doc.revision)
      <4> HIDE DEF popped, request
      <4>1. ~InFlight(popped)
        BY <1>2, <2>3 DEF InFlight
      <4>2. QED
        BY <2>3, <2>4, <2>5, <4>1 DEF InOrder
    <3>2. FailedRevision(s, request) \in OptRevision
      BY <2>1, FailedRevisionType
    <3>3. request.edits \in SUBSET Edit
      BY <2>1 DEF Request
    <3>4. StartNext(s, doc, spawns)
            = ReportFailure(popped, FailedRevision(s, request), request.edits)
      BY <1>2, <2>7 DEF StartNext
    <3>5. QED
      <4> HIDE DEF popped, request
      <4>1. QED
        BY <2>2, <3>1, <3>2, <3>3, <3>4, ReportFailureWell
  <2>8. QED
    BY <2>6, <2>7
<1>3. QED
  BY <1>1, <1>2

(* A queue in order stays so once nothing runs. *)
LEMMA IdleQueue ==
  ASSUME NEW s, NEW t, NEW revision,
         t.pending = s.pending, t.generation = s.generation, t.thread = "idle",
         InOrder(s, revision)
  PROVE  InOrder(t, revision)
  BY DEF InOrder, OldestFirst, InFlight

(* Receiving a result, or the end of the thread, frees the one save slot. *)
LEMMA FinishSaveWell ==
  ASSUME NEW s \in PersistenceType, NEW doc, InOrder(s, doc.revision)
  PROVE  Well(FinishSave(s), doc)
<1> DEFINE done == [s EXCEPT !.thread = "idle", !.job = NoRequest]
<1>1. /\ done \in PersistenceType
      /\ done.pending = s.pending /\ done.generation = s.generation /\ done.thread = "idle"
  BY DEF PersistenceType, ThreadState
<1>2. InOrder(done, doc.revision)
  BY <1>1, IdleQueue
<1> HIDE DEF done
<1>3. CASE s.thread = "ok" /\ s.job.generation = s.generation
  <2> DEFINE t == [done EXCEPT !.failed = None, !.saved = s.job.revision]
  <2>1. FinishSave(s) = t
    BY <1>3 DEF FinishSave, done
  <2>2. t \in PersistenceType
    BY <1>1, QueueType DEF PersistenceType, OptRevision
  <2>3. /\ t.pending = done.pending /\ t.generation = done.generation
        /\ t.job = done.job /\ t.thread = done.thread
    BY <1>1 DEF PersistenceType
  <2>4. QED
    BY <1>2, <2>1, <2>2, <2>3, SameQueue DEF Well
<1>4. CASE s.thread = "ok" /\ s.job.generation # s.generation
  BY <1>1, <1>2, <1>4 DEF FinishSave, done, Well
<1>5. CASE s.thread # "ok"
  <2> DEFINE reported == ReportFailure(done, FailedRevision(s, s.job), s.job.edits)
             t == [reported EXCEPT !.recovery =
                     IF s.thread = "unsupported" THEN s.job ELSE NoRequest]
  <2>1. FinishSave(s) = t
    BY <1>5 DEF FinishSave, done
  <2>2. s.job \in Request \cup {NoRequest}
    BY DEF PersistenceType
  <2>3. reported \in PersistenceType /\ InOrder(reported, doc.revision)
    BY <1>1, <1>2, <2>2, QueueType, FailedRevisionType, ReportFailureWell DEF Well
  <2> HIDE DEF reported
  <2>4. t \in PersistenceType
    BY <2>2, <2>3 DEF PersistenceType
  <2>5. /\ t.pending = reported.pending /\ t.generation = reported.generation
        /\ t.job = reported.job /\ t.thread = reported.thread
    BY <2>3 DEF PersistenceType
  <2>6. QED
    BY <2>1, <2>3, <2>4, <2>5, SameQueue DEF Well
<1>6. QED
  BY <1>3, <1>4, <1>5

(* A poll finishes the running save and starts the next. *)
LEMMA PollSaveWell ==
  ASSUME NEW s \in PersistenceType, NEW doc, NEW spawns, InOrder(s, doc.revision)
  PROVE  Well(PollSave(s, doc, spawns), doc)
  BY FinishSaveWell, StartNextWell DEF PollSave, Well

(* Fields no save of the queue reads. *)
LEMMA DeadlineWell ==
  ASSUME NEW s \in PersistenceType, NEW doc, NEW deadline \in {"off", "armed", "due"},
         InOrder(s, doc.revision)
  PROVE  Well([s EXCEPT !.deadline = deadline], doc)
<1> DEFINE t == [s EXCEPT !.deadline = deadline]
<1>1. /\ t \in PersistenceType
      /\ t.pending = s.pending /\ t.generation = s.generation
      /\ t.job = s.job /\ t.thread = s.thread
  BY DEF PersistenceType
<1>2. QED
  BY <1>1, SameQueue DEF Well

(* Every branch of the autosave keeps the queue in order. *)
LEMMA ScheduleAutosaveWell ==
  ASSUME NEW s \in PersistenceType, NEW doc \in DocumentType, NEW spawns,
         InOrder(s, doc.revision)
  PROVE  Well(ScheduleAutosave(s, doc, spawns), doc)
<1> DEFINE off == [s EXCEPT !.deadline = "off"]
<1>1. Well(off, doc)
  BY DeadlineWell
<1>2. Well([s EXCEPT !.deadline = "armed"], doc)
  BY DeadlineWell
<1>3. Well(s, doc)
  BY DEF Well
<1> HIDE DEF off
<1>4. Well(StartNext(off, doc, spawns), doc)
  BY <1>1, StartNextWell DEF Well
<1>5. Well(QueueCurrent(off, doc, FALSE), doc)
  BY <1>1, QueueCurrentWell DEF Well
<1>6. Well(StartNext(QueueCurrent(off, doc, FALSE), doc, spawns), doc)
  BY <1>5, StartNextWell DEF Well
<1>7. QED
  BY <1>1, <1>2, <1>3, <1>4, <1>6 DEF ScheduleAutosave, off

-----------------------------------------------------------------------------
(* Documents. *)

(* The requests of closed documents are older than the next one. *)
LEMMA ClosedWell ==
  ASSUME NEW s \in PersistenceType, NEW doc, NEW other, InOrder(s, doc.revision)
  PROVE  Well(Closed(s), other)
<1> DEFINE t == Closed(s)
<1>1. s.generation + 1 \in Nat
  BY QueueType
<1>2. t \in PersistenceType
  BY <1>1 DEF Closed, PersistenceType, Target, OptRevision
<1>3. /\ t.pending = s.pending /\ t.generation = s.generation + 1
      /\ t.job = s.job /\ t.thread = s.thread
  BY DEF Closed, PersistenceType
<1>4. InOrder(t, other.revision)
  <2> HIDE DEF t
  <2>1. QED
    BY <1>3, QueueType DEF InOrder, OldestFirst, NoNewerThan, InFlight
<1>5. QED
  BY <1>2, <1>4 DEF Well

(* A document switch queues the newest state and closes the document. *)
LEMMA BeginSidecarOpenWell ==
  ASSUME NEW s \in PersistenceType, NEW doc \in DocumentType, NEW spawns, NEW other,
         InOrder(s, doc.revision)
  PROVE  Well(BeginSidecarOpen(s, doc, spawns), other)
  BY QueueNewestWell, StartNextWell, ClosedWell DEF BeginSidecarOpen, Well

(* An installed document is saved at once when its sidecar must be rewritten. *)
LEMMA InstallSidecarTargetWell ==
  ASSUME NEW s \in PersistenceType, NEW doc \in DocumentType, NEW photo \in Target,
         NEW generation, NEW needsRewrite \in BOOLEAN, NEW spawns,
         InOrder(s, doc.revision)
  PROVE  Well(InstallSidecarTarget(s, doc, photo, generation, needsRewrite, spawns), doc)
<1> DEFINE installed == [s EXCEPT !.target = photo, !.failed = None,
                                  !.saved = IF needsRewrite THEN None ELSE doc.revision]
<1>1. /\ installed.pending = s.pending /\ installed.generation = s.generation
      /\ installed.job = s.job /\ installed.thread = s.thread
  BY DEF PersistenceType
<1>2. installed \in PersistenceType
  BY DEF PersistenceType, DocumentType, OptRevision
<1>3. Well(installed, doc) /\ Well(s, doc)
  BY <1>1, <1>2, SameQueue DEF Well
<1> HIDE DEF installed
<1>4. Well(StartNext(QueueCurrent(installed, doc, FALSE), doc, spawns), doc)
  BY <1>3, QueueCurrentWell, StartNextWell DEF Well
<1>5. QED
  BY <1>3, <1>4 DEF InstallSidecarTarget, installed

(* What is left without the open document's request is the rest of the queue in its order. *)
LEMMA DropCurrentIs ==
  ASSUME NEW s \in PersistenceType, NEW t, t = DropCurrent(s), t # s
  PROVE  /\ t \in PersistenceType
         /\ t.target = s.target /\ t.generation = s.generation /\ t.saved = s.saved
         /\ t.job = s.job /\ t.thread = s.thread /\ t.excused = s.excused
         /\ \E from \in [DOMAIN t.pending -> DOMAIN s.pending] :
              /\ \A i \in DOMAIN t.pending : t.pending[i] = s.pending[from[i]]
              /\ \A i, j \in DOMAIN t.pending : i < j => from[i] < from[j]
<1> DEFINE mine == {i \in DOMAIN s.pending : s.pending[i].generation = s.generation}
           at == CHOOSE i \in mine : TRUE
           front == SubSeq(s.pending, 1, at - 1)
           back == SubSeq(s.pending, at + 1, Len(s.pending))
           rest == front \o back
<1>1. mine # {}
  BY DEF DropCurrent
<1>2. at \in mine
  BY <1>1
<1>3. t = [s EXCEPT !.pending = rest]
  BY <1>1 DEF DropCurrent, RemoveAt
<1> HIDE DEF at
<1>4. at \in 1 .. Len(s.pending)
  BY <1>2, QueueType
<1>5. /\ rest \in Seq(Request)
      /\ Len(rest) = Len(s.pending) - 1
      /\ \A i \in 1 .. Len(rest) :
           rest[i] = s.pending[IF i < at THEN i ELSE i + 1]
  <2>1. /\ front \in Seq(Request) /\ Len(front) = at - 1
        /\ \A i \in 1 .. at - 1 : front[i] = s.pending[i]
    BY <1>4, QueueType, SubSeqProperties
  <2>2. /\ back \in Seq(Request) /\ Len(back) = Len(s.pending) - at
        /\ \A i \in 1 .. Len(s.pending) - at : back[i] = s.pending[at + i]
    BY <1>4, QueueType, SubSeqProperties
  <2> HIDE DEF front, back
  <2>3. /\ rest \in Seq(Request) /\ Len(rest) = Len(front) + Len(back)
        /\ \A i \in 1 .. Len(front) + Len(back) :
             rest[i] = IF i <= Len(front) THEN front[i] ELSE back[i - Len(front)]
    BY <2>1, <2>2, ConcatProperties
  <2> HIDE DEF rest
  <2>4. ASSUME NEW i \in 1 .. Len(rest)
        PROVE  rest[i] = s.pending[IF i < at THEN i ELSE i + 1]
    <3>1. CASE i < at
      BY <1>4, <2>1, <2>2, <2>3, <3>1, QueueType
    <3>2. CASE ~(i < at)
      <4>1. i - (at - 1) \in 1 .. Len(s.pending) - at /\ at + (i - (at - 1)) = i + 1
        BY <1>4, <2>1, <2>2, <2>3, <3>2, QueueType
      <4>2. rest[i] = back[i - (at - 1)]
        BY <1>4, <2>1, <2>2, <2>3, <3>2, QueueType
      <4>3. QED
        BY <2>2, <3>2, <4>1, <4>2
    <3>3. QED
      BY <3>1, <3>2
  <2>5. QED
    BY <1>4, <2>1, <2>2, <2>3, <2>4, QueueType
<1> HIDE DEF rest
<1>6. t \in PersistenceType
  BY <1>3, <1>5 DEF PersistenceType
<1>7. /\ t.pending = rest
      /\ t.target = s.target /\ t.generation = s.generation /\ t.saved = s.saved
      /\ t.job = s.job /\ t.thread = s.thread /\ t.excused = s.excused
  BY <1>3 DEF PersistenceType
<1> DEFINE from == [i \in DOMAIN rest |-> IF i < at THEN i ELSE i + 1]
<1>8. DOMAIN rest = 1 .. Len(s.pending) - 1 /\ DOMAIN s.pending = 1 .. Len(s.pending)
  BY <1>4, <1>5, QueueType
<1>9. from \in [DOMAIN rest -> DOMAIN s.pending]
  BY <1>4, <1>8, QueueType
<1>10. \A i, j \in DOMAIN rest : i < j => from[i] < from[j]
  BY <1>4, <1>8, QueueType
<1>11. \A i \in DOMAIN rest : rest[i] = s.pending[from[i]]
  BY <1>5, <1>8, QueueType
<1> HIDE DEF from
<1>12. QED
  BY <1>6, <1>7, <1>9, <1>10, <1>11

(* Dropping the open document's request keeps the others in order. *)
LEMMA DropCurrentWell ==
  ASSUME NEW s \in PersistenceType, NEW doc, InOrder(s, doc.revision)
  PROVE  Well(DropCurrent(s), doc)
<1> DEFINE t == DropCurrent(s)
<1> HIDE DEF t
<1>1. t = DropCurrent(s)
  BY DEF t
<1>2. CASE t = s
  BY <1>1, <1>2 DEF Well
<1>3. CASE t # s
  <2>1. /\ t \in PersistenceType
        /\ t.generation = s.generation /\ t.job = s.job /\ t.thread = s.thread
    BY <1>1, <1>3, DropCurrentIs
  <2>2. PICK from \in [DOMAIN t.pending -> DOMAIN s.pending] :
          /\ \A i \in DOMAIN t.pending : t.pending[i] = s.pending[from[i]]
          /\ \A i, j \in DOMAIN t.pending : i < j => from[i] < from[j]
    BY <1>1, <1>3, DropCurrentIs
  <2>3. OldestFirst(t)
    BY <2>2 DEF InOrder, OldestFirst
  <2>4. InOrder(t, doc.revision)
    BY <2>1, <2>2, <2>3 DEF InOrder, InFlight
  <2>5. QED
    BY <1>1, <2>1, <2>4 DEF Well
<1>4. QED
  BY <1>2, <1>3

(* A detached document leaves no request behind and closes. *)
LEMMA DetachWell ==
  ASSUME NEW s \in PersistenceType, NEW doc, NEW other, InOrder(s, doc.revision)
  PROVE  Well(Detach(s), other)
  BY DropCurrentWell, ClosedWell DEF Detach, Well

-----------------------------------------------------------------------------
(* What is on its way. *)

(* What queued and running saves carry are sets of edits. *)
LEMMA OnTheWayType ==
  ASSUME NEW s \in PersistenceType, NEW q
  PROVE  /\ OnTheWay(s, q) \in SUBSET Edit
         /\ UNION {r.edits : r \in OutstandingRequests(s)} \in SUBSET Edit
<1>1. \A r \in OutstandingRequests(s) : r \in Request \cup {NoRequest}
  BY QueueType DEF OutstandingRequests, PersistenceType
<1>2. \A r \in Request \cup {NoRequest} : r.edits \in SUBSET Edit
  BY DEF Request, NoRequest
<1>3. QED
  BY <1>1, <1>2 DEF OnTheWay

(* ... and so is what a load holds with them. *)
LEMMA HeldType ==
  ASSUME NEW s \in PersistenceType, NEW q, load \in LoadType
  PROVE  Held(s, q) \in SUBSET Edit
  BY OnTheWayType DEF Held, LoadType

(* A commit keeps the history of wanted edits well formed. *)
LEMMA WantedType ==
  ASSUME NEW doc \in DocumentType, wanted \in [Photo -> SUBSET Edit]
  PROVE  WantedWith(doc) \in [Photo -> SUBSET Edit]
  BY DEF WantedWith, DocumentType

(* A started load is well formed and of a photo. *)
LEMMA LoadOfType ==
  ASSUME NEW photo \in Target, NEW generation \in Nat, NEW kept \in BOOLEAN,
         NEW edits \in SUBSET Edit
  PROVE  /\ LoadOf(photo, generation, kept, edits) \in LoadType
         /\ LoadOf(photo, generation, kept, edits).photo = photo
  BY DEF LoadOf, LoadType

(* No load is a well-formed load. *)
LEMMA NoLoadType == NoLoad \in LoadType
  BY DEF NoLoad, LoadType, Target

(* The empty document shown while the next one loads is well formed. *)
LEMMA ClearedDocumentType ==
  ASSUME NEW doc \in DocumentType
  PROVE  ClearedDocument(doc) \in DocumentType
  BY DEF ClearedDocument, DocumentType

-----------------------------------------------------------------------------
(* The inductive invariant.  The queue's order is that of its generations and   *)
(* revisions as numbers, so it needs the types; what a load reads from disk has *)
(* a type because a running load, and the reload after a reset, are of a photo. *)
LoadsAPhoto == load.state # "none" => load.photo \in Photo
ResetsAPhoto == ui = "resetting" => p.target \in Photo

IndInv == TypeOK /\ SavesInOrder /\ LoadsAPhoto /\ ResetsAPhoto

(* The parts of TypeOK next to the persistence record. *)
OthersType ==
  /\ d \in DocumentType
  /\ load \in LoadType
  /\ ui \in {"running", "exiting", "resetting", "exited"}
  /\ disk \in [Photo -> SUBSET Edit]
  /\ unreadable \in SUBSET Photo
  /\ wanted \in [Photo -> SUBSET Edit]
  /\ raced \in SUBSET Edit
  /\ LoadsAPhoto
  /\ ResetsAPhoto

(* The invariant as the lemmas above use it ... *)
LEMMA IndInvParts == IndInv <=> Well(p, d) /\ OthersType
  BY DEF IndInv, TypeOK, SavesInOrder, Well, OthersType

(* ... and as they establish it for the next state. *)
LEMMA IndInvPrimed ==
  ASSUME Well(p', d'), OthersType'
  PROVE  IndInv'
<1>1. /\ p' \in PersistenceType
      /\ InOrder(p', d'.revision)
  BY DEF Well
<1>2. QED
  BY <1>1 DEF IndInv, TypeOK, SavesInOrder, OthersType

(* The queue follows the document a step leaves. *)
LEMMA WellFor ==
  ASSUME NEW s, NEW doc \in DocumentType, Well(s, d), d \in DocumentType,
         doc.revision >= d.revision
  PROVE  Well(s, doc)
<1>1. doc.revision \in Nat /\ d.revision \in Nat
  BY DEF DocumentType
<1>2. QED
  BY <1>1, OrderMonotone DEF Well

(* The editor starts with nothing open and an empty queue. *)
LEMMA InitInv == Init => IndInv
<1> SUFFICES ASSUME Init PROVE Well(p, d) /\ OthersType
  BY IndInvParts
<1>1. p \in PersistenceType
  BY DEF Init, PersistenceType, Target, OptRevision, ThreadState
<1>2. InOrder(p, d.revision)
  BY DEF Init, InOrder, OldestFirst, InFlight
<1>3. d \in DocumentType
  BY DEF Init, DocumentType, Gesture
<1>4. load \in LoadType
  BY NoLoadType DEF Init
<1>5. LoadsAPhoto /\ ResetsAPhoto
  BY DEF Init, NoLoad, LoadsAPhoto, ResetsAPhoto
<1>6. QED
  BY <1>1, <1>2, <1>3, <1>4, <1>5 DEF Init, Well, OthersType, Target

(* The edits a user makes touch the document alone. *)
LEMMA EditInv ==
  ASSUME IndInv, Change \/ ChangeGeometry \/ Release \/ ApplyRetouch
  PROVE  IndInv'
<1>1. Well(p, d) /\ OthersType
  BY IndInvParts
<1>2. p' = p /\ UNCHANGED <<load, ui, disk, unreadable, raced>>
  BY DEF Change, ChangeGeometry, Release, ApplyRetouch, files, history
<1>3. /\ d' \in DocumentType /\ d'.revision >= d.revision
      /\ wanted' \in [Photo -> SUBSET Edit]
  <2>0. d \in DocumentType /\ wanted \in [Photo -> SUBSET Edit] /\ d.revision \in Nat
    BY <1>1 DEF OthersType, DocumentType
  <2>1. CASE Change
    <3>1. PICK gesture \in Gesture : d' = [d EXCEPT !.dirty = TRUE, !.gesture = gesture]
      BY <2>1 DEF Change
    <3>2. d' \in DocumentType /\ d'.revision = d.revision
      BY <2>0, <3>1 DEF DocumentType
    <3>3. wanted' = wanted
      BY <2>1 DEF Change, history
    <3>4. QED
      BY <2>0, <3>2, <3>3
  <2>2. CASE ChangeGeometry
    <3>1. d' = [d EXCEPT !.dirty = TRUE, !.revision = d.revision + 1, !.gesture = "pointer"]
      BY <2>2 DEF ChangeGeometry
    <3>2. d.revision + 1 \in Nat /\ "pointer" \in Gesture
      BY <2>0 DEF Gesture
    <3>3. d' \in DocumentType
      BY <2>0, <3>1, <3>2 DEF DocumentType
    <3>4. d'.revision = d.revision + 1
      BY <2>0, <3>1 DEF DocumentType
    <3>5. wanted' = wanted
      BY <2>2 DEF ChangeGeometry, history
    <3>6. QED
      BY <2>0, <3>3, <3>4, <3>5
  <2>3. CASE Release
    <3>1. PICK dirty \in {d.dirty, FALSE} :
            d' = [d EXCEPT !.gesture = "none", !.dirty = dirty]
      BY <2>3 DEF Release
    <3>2. d' \in DocumentType /\ d'.revision = d.revision
      BY <2>0, <3>1 DEF DocumentType, Gesture
    <3>3. QED
      BY <2>0, <2>3, <3>2 DEF Release, history
  <2>4. CASE ApplyRetouch
    <3> DEFINE now == Commit(d)
               retouched == [now EXCEPT !.committed = now.committed \cup {now.revision + 1},
                                        !.revision = now.revision + 1]
    <3>1. now \in DocumentType /\ now.revision >= d.revision
      BY <2>0, CommitType
    <3>2. d' = retouched /\ wanted' = WantedWith(retouched)
      BY <2>4 DEF ApplyRetouch
    <3> HIDE DEF now
    <3>3. retouched \in DocumentType
      <4>1. /\ now.committed \cup {now.revision + 1} \in SUBSET Edit
            /\ now.revision + 1 \in Nat
        BY <3>1 DEF DocumentType, Edit
      <4>2. QED
        BY <3>1, <4>1 DEF DocumentType
    <3>4. retouched.revision = now.revision + 1 /\ now.revision \in Nat
      BY <3>1 DEF DocumentType
    <3>5. QED
      BY <2>0, <3>1, <3>2, <3>3, <3>4, WantedType
  <2>5. QED
    BY <2>1, <2>2, <2>3, <2>4
<1>4. Well(p', d')
  BY <1>1, <1>2, <1>3, WellFor DEF OthersType
<1>5. OthersType'
  BY <1>1, <1>2, <1>3 DEF OthersType, LoadsAPhoto, ResetsAPhoto
<1>6. QED
  BY <1>4, <1>5, IndInvPrimed

(* The frame and the buttons. *)
LEMMA SyncInv == ASSUME IndInv, SyncPersistence PROVE IndInv'
<1> DEFINE now == Observe(d)
<1>1. Well(p, d) /\ OthersType
  BY IndInvParts
<1>2. now \in DocumentType /\ now.revision >= d.revision
  BY <1>1, ObserveType DEF OthersType
<1>3. Well(p, now)
  BY <1>1, <1>2, WellFor DEF OthersType
<1>4. /\ d' = now /\ wanted' = WantedWith(now)
      /\ ui = "running" /\ UNCHANGED <<load, ui, disk, unreadable, raced>>
      /\ \E first, second \in Spawns :
           p' = PollSave(ScheduleAutosave(p, now, first), now, second)
  BY DEF SyncPersistence, files, Running
<1> HIDE DEF now
<1>5. Well(p', now)
  BY <1>2, <1>3, <1>4, ScheduleAutosaveWell, PollSaveWell DEF Well
<1>6. wanted' \in [Photo -> SUBSET Edit]
  BY <1>1, <1>2, <1>4, WantedType DEF OthersType
<1>7. OthersType'
  BY <1>1, <1>2, <1>4, <1>6 DEF OthersType, LoadsAPhoto, ResetsAPhoto
<1>8. QED
  BY <1>4, <1>5, <1>7, IndInvPrimed

(* An explicit save of the state `s`. *)
LEMMA SaveNowWell ==
  ASSUME NEW s \in PersistenceType, InOrder(s, d.revision), OthersType, Running, SaveNow(s)
  PROVE  Well(p', d') /\ OthersType'
<1> DEFINE now == Commit(d)
           cleared == [s EXCEPT !.failed = None]
<1>1. now \in DocumentType /\ now.revision >= d.revision
  BY CommitType DEF OthersType
<1>2. /\ cleared \in PersistenceType
      /\ cleared.pending = s.pending /\ cleared.generation = s.generation
      /\ cleared.job = s.job /\ cleared.thread = s.thread
  BY DEF PersistenceType, OptRevision
<1>3. Well(cleared, d)
  BY <1>2, SameQueue DEF Well
<1>4. /\ d' = now /\ wanted' = WantedWith(now)
      /\ ui = "running" /\ UNCHANGED <<load, ui, disk, unreadable, raced>>
      /\ \E spawns \in Spawns : p' = StartNext(QueueCurrent(cleared, now, TRUE), now, spawns)
  BY DEF SaveNow, files, Running
<1> HIDE DEF now, cleared
<1>5. Well(cleared, now)
  BY <1>1, <1>3, WellFor DEF OthersType
<1>6. Well(p', now)
  BY <1>1, <1>4, <1>5, QueueCurrentWell, StartNextWell DEF Well
<1>7. wanted' \in [Photo -> SUBSET Edit]
  BY <1>1, <1>4, WantedType DEF OthersType
<1>8. QED
  BY <1>1, <1>4, <1>6, <1>7 DEF OthersType, LoadsAPhoto, ResetsAPhoto

(* The save button and the dialog's retry. *)
LEMMA SaveInv == ASSUME IndInv, SaveEdits \/ Retry PROVE IndInv'
<1>1. Well(p, d) /\ OthersType
  BY IndInvParts
<1>2. CASE SaveEdits
  BY <1>1, <1>2, SaveNowWell, IndInvPrimed DEF SaveEdits, Well
<1>3. CASE Retry
  <2> DEFINE s == [p EXCEPT !.recovery = NoRequest]
  <2>1. /\ s \in PersistenceType
        /\ s.pending = p.pending /\ s.generation = p.generation
        /\ s.job = p.job /\ s.thread = p.thread
    BY <1>1 DEF Well, PersistenceType
  <2>2. InOrder(s, d.revision)
    BY <1>1, <2>1, SameQueue DEF Well
  <2>3. Running /\ SaveNow(s)
    BY <1>3 DEF Retry
  <2> HIDE DEF s
  <2>4. Well(p', d') /\ OthersType'
    BY <1>1, <2>1, <2>2, <2>3, SaveNowWell
  <2>5. QED
    BY <2>4, IndInvPrimed
<1>4. QED
  BY <1>2, <1>3

(* The deadline and the closed dialog touch no save. *)
LEMMA DialogInv ==
  ASSUME IndInv, DeadlinePasses \/ CloseFailureDialog
  PROVE  IndInv'
<1>1. Well(p, d) /\ OthersType
  BY IndInvParts
<1>2. ui = "running" /\ UNCHANGED <<d, load, ui, disk, unreadable, wanted, raced>>
  BY DEF DeadlinePasses, CloseFailureDialog, files, history, Running
<1>3. /\ p' \in PersistenceType
      /\ p'.pending = p.pending /\ p'.generation = p.generation
      /\ p'.job = p.job /\ p'.thread = p.thread
  BY <1>1 DEF Well, PersistenceType, DeadlinePasses, CloseFailureDialog
<1>4. InOrder(p', d.revision)
  BY <1>1, <1>3, SameQueue DEF Well
<1>5. Well(p', d') /\ OthersType'
  BY <1>1, <1>2, <1>3, <1>4 DEF Well, OthersType, LoadsAPhoto, ResetsAPhoto
<1>6. QED
  BY <1>5, IndInvPrimed

(* Replacing an unsupported sidecar bypasses the queue. *)
LEMMA RecoverInv == ASSUME IndInv, RecoverSidecar PROVE IndInv'
<1> DEFINE photo == p.recovery.target
           current == p.target = photo
           written == IF current THEN Captured(d) ELSE p.recovery.edits
           backedUp == [p EXCEPT !.recovery = NoRequest,
                                 !.excused = p.excused \cup (disk[photo] \ written)]
<1>1. Well(p, d) /\ OthersType
  BY IndInvParts
<1>2. p \in PersistenceType /\ d \in DocumentType
  BY <1>1 DEF Well, OthersType
<1>3. p.recovery \in Request
  BY <1>2 DEF RecoverSidecar, PersistenceType
<1>4. photo \in Photo /\ written \in SUBSET Edit
  BY <1>2, <1>3, CapturedType DEF Request
<1>5. /\ disk' = [disk EXCEPT ![photo] = written]
      /\ unreadable' = unreadable \ {photo}
      /\ p' = IF current
              THEN [backedUp EXCEPT !.failed = None, !.saved = d.revision]
              ELSE backedUp
      /\ raced' = raced \/ raced' = raced \cup Held(p, photo) \cup written
      /\ wanted' = [wanted EXCEPT ![photo] = wanted[photo] \cup written]
      /\ ui = "running" /\ UNCHANGED <<d, load, ui>>
  BY DEF RecoverSidecar, Running
<1>6. disk[photo] \in SUBSET Edit
  BY <1>1, <1>4 DEF OthersType
<1> HIDE DEF photo, current, written
<1>7. /\ backedUp \in PersistenceType
      /\ backedUp.pending = p.pending /\ backedUp.generation = p.generation
      /\ backedUp.job = p.job /\ backedUp.thread = p.thread
  BY <1>2, <1>6 DEF PersistenceType
<1> HIDE DEF backedUp
<1>8. d.revision \in OptRevision /\ None \in OptRevision
  BY <1>2 DEF DocumentType, OptRevision
<1>9. /\ p' \in PersistenceType
      /\ p'.pending = p.pending /\ p'.generation = p.generation
      /\ p'.job = p.job /\ p'.thread = p.thread
  BY <1>5, <1>7, <1>8 DEF PersistenceType
<1>10. Held(p, photo) \in SUBSET Edit
  BY <1>1, <1>2, HeldType DEF OthersType
<1>11. InOrder(p', d.revision)
  BY <1>1, <1>9, SameQueue DEF Well
<1>12. OthersType'
  BY <1>1, <1>4, <1>5, <1>10 DEF OthersType, LoadsAPhoto, ResetsAPhoto
<1>13. QED
  BY <1>5, <1>9, <1>11, <1>12, IndInvPrimed DEF Well

(* The save thread leaves the queue alone. *)
LEMMA SaveThreadInv == ASSUME IndInv, SaveThread PROVE IndInv'
<1>1. Well(p, d) /\ OthersType
  BY IndInvParts
<1>2. /\ p.thread = "writing"
      /\ \E thread \in {"ok", "failed", "unsupported", "dead"} :
           p' = [p EXCEPT !.thread = thread]
      /\ disk' = disk \/ disk' = [disk EXCEPT ![p.job.target] = p.job.edits]
      /\ UNCHANGED <<d, load, ui, unreadable, wanted, raced>>
  BY DEF SaveThread, WriteSidecar, WriteFails, SaveThreadDies, files, history
<1>3. /\ p' \in PersistenceType
      /\ p'.pending = p.pending /\ p'.generation = p.generation
      /\ p'.job = p.job /\ p'.thread # "idle" /\ p'.target = p.target
  BY <1>1, <1>2 DEF Well, PersistenceType, ThreadState
<1>4. InOrder(p', d.revision)
  BY <1>1, <1>2, <1>3 DEF Well, InOrder, OldestFirst, InFlight
<1>5. p.job.edits \in SUBSET Edit
  BY <1>1, QueueType DEF Well
<1>6. OthersType'
  BY <1>1, <1>2, <1>3, <1>5 DEF OthersType, LoadsAPhoto, ResetsAPhoto
<1>7. QED
  BY <1>2, <1>3, <1>4, <1>6, IndInvPrimed DEF Well

-----------------------------------------------------------------------------
(* Opening a photo. *)

(* start_document_load from any well-formed state its callers leave. *)
LEMMA StartLoadWell ==
  ASSUME NEW s \in PersistenceType, NEW doc \in DocumentType, NEW photo \in Photo,
         NEW kept \in BOOLEAN, InOrder(s, doc.revision),
         StartLoad(s, doc, photo, kept)
  PROVE  /\ Well(p', d')
         /\ d' \in DocumentType
         /\ load' \in LoadType /\ LoadsAPhoto'
<1> DEFINE now == Commit(doc)
<1>1. now \in DocumentType /\ now.revision >= doc.revision
  BY CommitType
<1>2. InOrder(s, now.revision)
  <2>1. doc.revision \in Nat /\ now.revision \in Nat
    BY <1>1 DEF DocumentType
  <2>2. QED
    BY <1>1, <2>1, OrderMonotone
<1>3. PICK spawns \in Spawns, loads \in Spawns :
        LET opened == BeginSidecarOpen(s, now, spawns)
        IN /\ p' = opened
           /\ d' = ClearedDocument(now)
           /\ load' = IF loads
                      THEN LoadOf(photo, opened.generation, kept,
                                  IF kept THEN Captured(doc) ELSE {})
                      ELSE NoLoad
  BY DEF StartLoad
<1> HIDE DEF now
<1>4. d' \in DocumentType
  BY <1>1, <1>3, ClearedDocumentType
<1>5. Well(p', d')
  BY <1>1, <1>2, <1>3, BeginSidecarOpenWell
<1>6. p'.generation \in Nat
  BY <1>5, QueueType DEF Well
<1>7. (IF kept THEN Captured(doc) ELSE {}) \in SUBSET Edit
  BY CapturedType
<1>8. load' \in LoadType /\ LoadsAPhoto'
  BY <1>3, <1>6, <1>7, LoadOfType, NoLoadType DEF LoadsAPhoto, NoLoad, Target
<1>9. QED
  BY <1>4, <1>5, <1>8

(* Opening a photo, refused while another one loads. *)
LEMMA OpenInv ==
  ASSUME IndInv, NEW q \in Photo, OpenPhoto(q)
  PROVE  IndInv'
<1>1. Well(p, d) /\ OthersType /\ q \in Target
  BY IndInvParts DEF Target
<1>2. ui = "running" /\ UNCHANGED <<ui, disk, unreadable, raced>>
  BY DEF OpenPhoto, files, Running
<1>3. CASE load # NoLoad
  <2>1. UNCHANGED <<p, d, load, wanted>>
    BY <1>3 DEF OpenPhoto
  <2>2. QED
    BY <1>1, <1>2, <2>1, IndInvPrimed DEF OthersType, LoadsAPhoto, ResetsAPhoto
<1>4. CASE load = NoLoad
  <2>1. StartLoad(p, d, q, FALSE) /\ wanted' = WantedWith(Commit(d))
    BY <1>4 DEF OpenPhoto
  <2>2. Well(p', d') /\ d' \in DocumentType /\ load' \in LoadType /\ LoadsAPhoto'
    BY <1>1, <2>1, StartLoadWell DEF Well, OthersType
  <2>3. wanted' \in [Photo -> SUBSET Edit]
    BY <1>1, <2>1, CommitType, WantedType DEF OthersType
  <2>4. QED
    BY <1>1, <1>2, <2>2, <2>3, IndInvPrimed DEF OthersType, ResetsAPhoto
<1>5. QED
  BY <1>3, <1>4

(* Another camera profile saves, then opens the photo again. *)
LEMMA ReopenInv == ASSUME IndInv, ReopenWithProfile PROVE IndInv'
<1> DEFINE now == Commit(d)
<1>1. Well(p, d) /\ OthersType /\ p.target \in Photo
  BY IndInvParts DEF ReopenWithProfile, Well, PersistenceType, Target
<1>2. now \in DocumentType /\ now.revision >= d.revision
  BY <1>1, CommitType DEF OthersType
<1>3. /\ wanted' = WantedWith(now) /\ ui = "running"
      /\ UNCHANGED <<ui, disk, unreadable, raced>>
  BY DEF ReopenWithProfile, files, Running
<1>4. PICK spawns \in Spawns :
        StartLoad(StartNext(QueueCurrent(p, now, TRUE), now, spawns), now, p.target, TRUE)
  BY DEF ReopenWithProfile
<1> HIDE DEF now
<1>5. Well(p, now)
  BY <1>1, <1>2, WellFor DEF OthersType
<1>6. Well(QueueCurrent(p, now, TRUE), now)
  BY <1>2, <1>5, QueueCurrentWell DEF Well
<1>7. Well(StartNext(QueueCurrent(p, now, TRUE), now, spawns), now)
  BY <1>6, StartNextWell DEF Well
<1>8. Well(p', d') /\ d' \in DocumentType /\ load' \in LoadType /\ LoadsAPhoto'
  BY <1>1, <1>2, <1>4, <1>7, StartLoadWell DEF Well
<1>9. wanted' \in [Photo -> SUBSET Edit]
  BY <1>1, <1>2, <1>3, WantedType DEF OthersType
<1>10. QED
  BY <1>1, <1>3, <1>8, <1>9, IndInvPrimed DEF OthersType, ResetsAPhoto, Target

(* The load thread. *)
LEMMA LoadThreadInv == ASSUME IndInv, LoadThread PROVE IndInv'
<1>1. Well(p, d) /\ OthersType
  BY IndInvParts
<1>2. CASE ReadSidecar
  <2> DEFINE found == IF load.kept THEN load.edits
                      ELSE IF load.photo \in unreadable THEN {}
                      ELSE disk[load.photo]
  <2>1. found \in SUBSET Edit
    BY <1>1, <1>2 DEF ReadSidecar, OthersType, LoadType, LoadsAPhoto
  <2>2. /\ load' = [load EXCEPT !.state = "loaded", !.edits = found]
        /\ raced' = raced \cup (OnTheWay(p, load.photo) \ found)
        /\ UNCHANGED <<p, d, ui, disk, unreadable, wanted>>
    BY <1>2 DEF ReadSidecar, files
  <2> HIDE DEF found
  <2>3. load' \in LoadType /\ load'.photo = load.photo /\ load.photo \in Photo
    BY <1>1, <1>2, <2>1, <2>2 DEF ReadSidecar, OthersType, LoadType, LoadsAPhoto
  <2>4. raced' \in SUBSET Edit
    BY <1>1, <2>2, OnTheWayType DEF OthersType, Well
  <2>5. QED
    BY <1>1, <2>2, <2>3, <2>4, IndInvPrimed DEF OthersType, LoadsAPhoto, ResetsAPhoto
<1>3. CASE LoadFails
  <2>1. load' \in LoadType /\ load'.photo = load.photo /\ load.photo \in Photo
    BY <1>1, <1>3 DEF LoadFails, OthersType, LoadType, LoadsAPhoto
  <2>2. UNCHANGED <<p, d, ui, disk, unreadable, wanted, raced>>
    BY <1>3 DEF LoadFails, files, history
  <2>3. QED
    BY <1>1, <2>1, <2>2, IndInvPrimed DEF OthersType, LoadsAPhoto, ResetsAPhoto
<1>4. QED
  BY <1>2, <1>3 DEF LoadThread

(* The finished load installs its document and its target. *)
LEMMA PollLoadInv == ASSUME IndInv, PollLoad PROVE IndInv'
<1>1. Well(p, d) /\ OthersType
  BY IndInvParts
<1>2. /\ load' = NoLoad /\ ui = "running"
      /\ UNCHANGED <<ui, disk, unreadable, wanted, raced>>
  BY DEF PollLoad, files, history, Running
<1>3. Well(p', d') /\ d' \in DocumentType
  <2>1. CASE load.state = "failed"
    BY <1>1, <2>1 DEF PollLoad, OthersType
  <2>2. CASE load.state # "failed"
    <3> DEFINE doc == [d EXCEPT !.loaded = TRUE, !.committed = load.edits, !.dirty = FALSE]
    <3>1. PICK needsRewrite \in BOOLEAN, spawns \in Spawns :
            /\ d' = doc
            /\ p' = InstallSidecarTarget(p, doc, load.photo, load.generation,
                                         needsRewrite, spawns)
      BY <2>2 DEF PollLoad
    <3>2. doc \in DocumentType /\ doc.revision = d.revision /\ load.photo \in Target
      BY <1>1 DEF OthersType, DocumentType, LoadType
    <3> HIDE DEF doc
    <3>3. QED
      BY <1>1, <3>1, <3>2, InstallSidecarTargetWell DEF Well
  <2>3. QED
    BY <2>1, <2>2
<1>4. OthersType'
  BY <1>1, <1>2, <1>3, NoLoadType DEF OthersType, LoadsAPhoto, ResetsAPhoto, NoLoad
<1>5. QED
  BY <1>3, <1>4, IndInvPrimed

-----------------------------------------------------------------------------
(* The flush.  It keeps its target, the photo a reset opens again. *)

(* Reporting a failure keeps the target. *)
LEMMA ReportFailureTarget ==
  ASSUME NEW s \in PersistenceType, NEW revision, NEW edits
  PROVE  ReportFailure(s, revision, edits).target = s.target
  BY DEF ReportFailure, PersistenceType

(* Starting a save keeps the target. *)
LEMMA StartNextTarget ==
  ASSUME NEW s \in PersistenceType, NEW doc, NEW spawns
  PROVE  StartNext(s, doc, spawns).target = s.target
<1>1. CASE InFlight(s) \/ s.pending = <<>> \/ HeldBack(s, doc)
  BY <1>1 DEF StartNext
<1>2. CASE ~(InFlight(s) \/ s.pending = <<>> \/ HeldBack(s, doc))
  <2> DEFINE popped == [s EXCEPT !.pending = Tail(s.pending)]
  <2>1. popped.target = s.target /\ popped \in PersistenceType
    <3>1. Tail(s.pending) \in Seq(Request)
      BY <1>2, QueueType
    <3>2. QED
      BY <3>1 DEF PersistenceType
  <2>2. \/ StartNext(s, doc, spawns)
              = [popped EXCEPT !.job = Head(s.pending), !.thread = "writing"]
        \/ StartNext(s, doc, spawns)
              = ReportFailure(popped, FailedRevision(s, Head(s.pending)), Head(s.pending).edits)
    BY <1>2 DEF StartNext
  <2> HIDE DEF popped
  <2>3. [popped EXCEPT !.job = Head(s.pending), !.thread = "writing"].target = popped.target
    BY <2>1 DEF PersistenceType
  <2>4. \A revision, edits : ReportFailure(popped, revision, edits).target = popped.target
    BY <2>1, ReportFailureTarget
  <2>5. QED
    BY <2>1, <2>2, <2>3, <2>4
<1>3. QED
  BY <1>1, <1>2

(* Finishing a save keeps the target. *)
LEMMA FinishSaveTarget ==
  ASSUME NEW s \in PersistenceType
  PROVE  FinishSave(s).target = s.target
<1> DEFINE done == [s EXCEPT !.thread = "idle", !.job = NoRequest]
           reported == ReportFailure(done, FailedRevision(s, s.job), s.job.edits)
<1>1. done \in PersistenceType /\ done.target = s.target
  BY DEF PersistenceType, ThreadState
<1>2. /\ FailedRevision(s, s.job) \in OptRevision
      /\ s.job.edits \in SUBSET Edit
  BY QueueType, FailedRevisionType DEF PersistenceType
<1> HIDE DEF done
<1>3. reported.target = s.target /\ reported \in PersistenceType
  BY <1>1, <1>2, ReportFailureTarget DEF ReportFailure, PersistenceType
<1> HIDE DEF reported
<1>4. [done EXCEPT !.failed = None, !.saved = s.job.revision].target = done.target
  BY <1>1 DEF PersistenceType
<1>5. \A r : [reported EXCEPT !.recovery = r].target = reported.target
  BY <1>3 DEF PersistenceType
<1>6. QED
  BY <1>1, <1>3, <1>4, <1>5 DEF FinishSave, done, reported

(* Queueing a request keeps the target. *)
LEMMA EnqueueTarget ==
  ASSUME NEW s \in PersistenceType, NEW request
  PROVE  Enqueue(s, request).target = s.target
  BY DEF Enqueue, PersistenceType

(* Queueing the newest state keeps the target. *)
LEMMA QueueNewestTarget ==
  ASSUME NEW s \in PersistenceType, NEW doc \in DocumentType,
         InOrder(s, doc.revision)
  PROVE  QueueNewest(s, doc).target = s.target
<1> DEFINE marked == MarkExplicit(s, doc.revision)
<1>1. marked.target = s.target
  BY DEF MarkExplicit, PersistenceType
<1>2. marked \in PersistenceType
  BY MarkExplicitWell DEF Well
<1> HIDE DEF marked
<1>3. QueueCurrent(marked, doc, TRUE).target = marked.target
  BY <1>2, EnqueueTarget DEF QueueCurrent
<1>4. QED
  BY <1>1, <1>3 DEF QueueNewest, marked

(* A flush begins by committing and queueing the newest state. *)
LEMMA StartFlushInv ==
  ASSUME IndInv, NEW next \in {"exiting", "resetting"}, StartFlush(next),
         next = "resetting" => p.target \in Photo
  PROVE  IndInv'
<1> DEFINE now == Commit(d)
<1>1. Well(p, d) /\ OthersType
  BY IndInvParts
<1>2. now \in DocumentType /\ now.revision >= d.revision
  BY <1>1, CommitType DEF OthersType
<1>3. /\ d' = now /\ wanted' = WantedWith(now) /\ p' = QueueNewest(p, now) /\ ui' = next
      /\ UNCHANGED <<load, disk, unreadable, raced>>
  BY DEF StartFlush, files
<1> HIDE DEF now
<1>4. Well(p, now)
  BY <1>1, <1>2, WellFor DEF OthersType
<1>5. Well(p', d') /\ p'.target = p.target
  BY <1>2, <1>3, <1>4, QueueNewestWell, QueueNewestTarget DEF Well
<1>6. wanted' \in [Photo -> SUBSET Edit]
  BY <1>1, <1>2, <1>3, WantedType DEF OthersType
<1>7. OthersType'
  BY <1>1, <1>2, <1>3, <1>5, <1>6 DEF OthersType, LoadsAPhoto, ResetsAPhoto
<1>8. QED
  BY <1>5, <1>7, IndInvPrimed

(* A round of the flush receives one result and starts one save. *)
LEMMA FlushRoundInv == ASSUME IndInv, FlushRound PROVE IndInv'
<1>1. Well(p, d) /\ OthersType
  BY IndInvParts
<1>2. PICK spawns \in Spawns : p' = PollSave(p, d, spawns)
  BY DEF FlushRound
<1>3. UNCHANGED <<d, load, ui, disk, unreadable, wanted, raced>>
  BY DEF FlushRound, files, history
<1>4. Well(p', d)
  BY <1>1, <1>2, PollSaveWell DEF Well
<1>5. p'.target = p.target
  BY <1>1, <1>2, FinishSaveTarget, FinishSaveWell, StartNextTarget DEF Well, PollSave
<1>6. OthersType'
  BY <1>1, <1>3, <1>5 DEF OthersType, LoadsAPhoto, ResetsAPhoto
<1>7. QED
  BY <1>3, <1>4, <1>6, IndInvPrimed

(* A cleared sidecar is a sidecar. *)
LEMMA ClearSidecarType ==
  ASSUME NEW s \in PersistenceType, NEW q, OthersType, ClearSidecar(s, q)
  PROVE  /\ disk' \in [Photo -> SUBSET Edit]
         /\ wanted' \in [Photo -> SUBSET Edit]
         /\ raced' \in SUBSET Edit
  BY HeldType DEF ClearSidecar, OthersType

(* The flush returns with what it could not save still queued. *)
LEMMA AfterFlushInv ==
  ASSUME IndInv, NEW s, Well(s, d), s.target = p.target, AfterFlush(s)
  PROVE  IndInv'
<1>1. OthersType
  BY IndInvParts
<1>2. CASE ui = "exiting"
  <2>1. /\ ui' = "exited" /\ p' = s
        /\ UNCHANGED <<d, load, disk, unreadable, wanted, raced>>
    BY <1>2 DEF AfterFlush, files, history
  <2>2. QED
    BY <1>1, <2>1, IndInvPrimed DEF OthersType, LoadsAPhoto, ResetsAPhoto
<1>3. CASE ui = "resetting"
  <2>1. /\ ui' = "running" /\ unreadable' = unreadable
        /\ StartLoad(Detach(s), d, p.target, FALSE)
        /\ ClearSidecar(Detach(s), p.target)
    BY <1>3 DEF AfterFlush
  <2>2. p.target \in Photo
    BY <1>1, <1>3 DEF OthersType, ResetsAPhoto
  <2>3. Well(Detach(s), d)
    BY DetachWell DEF Well
  <2>4. Well(p', d') /\ d' \in DocumentType /\ load' \in LoadType /\ LoadsAPhoto'
    BY <1>1, <2>1, <2>2, <2>3, StartLoadWell DEF Well, OthersType
  <2>5. /\ disk' \in [Photo -> SUBSET Edit]
        /\ wanted' \in [Photo -> SUBSET Edit]
        /\ raced' \in SUBSET Edit
    BY <1>1, <2>1, <2>3, ClearSidecarType DEF Well
  <2>6. OthersType'
    BY <1>1, <2>1, <2>2, <2>4, <2>5 DEF OthersType, ResetsAPhoto, Target
  <2>7. QED
    BY <2>4, <2>6, IndInvPrimed
<1>4. QED
  BY <1>2, <1>3 DEF AfterFlush

(* The flush, whether it finishes or runs out of time. *)
LEMMA FlushInv == ASSUME IndInv, Flush PROVE IndInv'
<1>1. Well(p, d)
  BY IndInvParts
<1>2. CASE FlushRound
  BY <1>2, FlushRoundInv
<1>3. CASE FlushEnds
  BY <1>1, <1>3, AfterFlushInv DEF FlushEnds
<1>4. CASE FlushTimesOut
  <2> DEFINE revision == IF InFlight(p) THEN FailedRevision(p, p.job) ELSE None
             edits == p.job.edits \cup UNION {r.edits : r \in OutstandingRequests(p)}
             s == ReportFailure(p, revision, edits)
  <2>1. p.job \in Request \cup {NoRequest}
    BY <1>1 DEF Well, PersistenceType
  <2>2. revision \in OptRevision
    BY <2>1, FailedRevisionType DEF OptRevision
  <2>3. edits \in SUBSET Edit
    BY <1>1, OnTheWayType, QueueType DEF Well
  <2>4. AfterFlush(s)
    BY <1>4 DEF FlushTimesOut
  <2> HIDE DEF revision, edits
  <2>5. Well(s, d) /\ s.target = p.target
    BY <1>1, <2>2, <2>3, ReportFailureWell, ReportFailureTarget DEF Well
  <2> HIDE DEF s
  <2>6. QED
    BY <2>4, <2>5, AfterFlushInv
<1>5. QED
  BY <1>2, <1>3, <1>4 DEF Flush

(* A reset flushes the open photo first and clears any other at once. *)
LEMMA ResetInv ==
  ASSUME IndInv, NEW q \in Photo, ResetAdjustments(q)
  PROVE  IndInv'
<1>1. CASE q = p.target
  BY <1>1, StartFlushInv DEF ResetAdjustments
<1>2. CASE q # p.target
  <2>1. Well(p, d) /\ OthersType
    BY IndInvParts
  <2>2. ClearSidecar(p, q) /\ ui = "running" /\ UNCHANGED <<p, d, load, ui, unreadable>>
    BY <1>2 DEF ResetAdjustments, Running
  <2>3. OthersType'
    BY <2>1, <2>2, ClearSidecarType DEF OthersType, Well, LoadsAPhoto, ResetsAPhoto
  <2>4. QED
    BY <2>1, <2>2, <2>3, IndInvPrimed
<1>3. QED
  BY <1>1, <1>2

-----------------------------------------------------------------------------
(* Nothing changes in a stuttering step. *)
LEMMA StutterInv == ASSUME IndInv, UNCHANGED vars PROVE IndInv'
<1>1. Well(p, d) /\ OthersType
  BY IndInvParts
<1>2. UNCHANGED <<p, d, load, ui, disk, unreadable, wanted, raced>>
  BY DEF vars
<1>3. OthersType'
  BY <1>1, <1>2 DEF OthersType, LoadsAPhoto, ResetsAPhoto
<1>4. QED
  BY <1>1, <1>2, <1>3, IndInvPrimed

(* No step of any thread breaks the invariant. *)
LEMMA NextInv == IndInv /\ [Next]_vars => IndInv'
<1> SUFFICES ASSUME IndInv, [Next]_vars PROVE IndInv'
  OBVIOUS
<1>1. CASE Change \/ ChangeGeometry \/ Release \/ ApplyRetouch
  BY <1>1, EditInv
<1>2. CASE SyncPersistence
  BY <1>2, SyncInv
<1>3. CASE SaveEdits \/ Retry
  BY <1>3, SaveInv
<1>4. CASE DeadlinePasses \/ CloseFailureDialog
  BY <1>4, DialogInv
<1>5. CASE RecoverSidecar
  BY <1>5, RecoverInv
<1>6. CASE ReopenWithProfile
  BY <1>6, ReopenInv
<1>7. CASE Exit
  BY <1>7, StartFlushInv DEF Exit
<1>8. CASE \E q \in Photo : OpenPhoto(q) \/ ResetAdjustments(q)
  BY <1>8, OpenInv, ResetInv
<1>9. CASE PollLoad
  BY <1>9, PollLoadInv
<1>10. CASE SaveThread
  BY <1>10, SaveThreadInv
<1>11. CASE LoadThread
  BY <1>11, LoadThreadInv
<1>12. CASE Flush
  BY <1>12, FlushInv
<1>13. CASE UNCHANGED vars
  BY <1>13, StutterInv
<1>14. QED
  BY <1>1, <1>2, <1>3, <1>4, <1>5, <1>6, <1>7, <1>8, <1>9, <1>10, <1>11, <1>12, <1>13
  DEF Next, User

(* The invariant holds in every behaviour. *)
THEOREM Invariance == Spec => []IndInv
  BY InitInv, NextInv, PTL DEF Spec

(* Every state of the editor, its threads and its files is well formed. *)
THEOREM TypeCorrect == Spec => []TypeOK
  BY Invariance, PTL DEF IndInv

(* Saves leave the queue in the order their edits were made, whatever the     *)
(* number of photos, the edits, the switches between them and the faults.     *)
THEOREM SavesStayInOrder == Spec => []SavesInOrder
  BY Invariance, PTL DEF IndInv

-----------------------------------------------------------------------------
(* What the saves carry.  `dk` are the sidecars and `rc` the raced edits of the state that *)
(* `s` and `doc` belong to.                                                                *)

(* A later save holds what an earlier one and the sidecar hold: saves of one photo run in the
   order of its edits, and each document starts from what is to be in its sidecar. *)
QueueFits(s, dk, rc) ==
  /\ InFlight(s) => s.job \in Request
  /\ \A i \in DOMAIN s.pending :
       dk[s.pending[i].target] \subseteq s.pending[i].edits \cup rc
  /\ \A i, j \in DOMAIN s.pending :
       i < j /\ s.pending[i].target = s.pending[j].target
         => s.pending[i].edits \subseteq s.pending[j].edits \cup rc
  /\ s.thread = "writing" =>
       /\ dk[s.job.target] \subseteq s.job.edits \cup rc
       /\ \A i \in DOMAIN s.pending :
            s.pending[i].target = s.job.target
              => s.job.edits \subseteq s.pending[i].edits \cup rc

(* A request of the open document is for its target, and for its edits at its revision. *)
OfDocument(request, s, doc) ==
  request.generation = s.generation =>
    /\ request.target = s.target
    /\ request.revision = doc.revision => request.edits = doc.committed

(* The open document holds what its sidecar and the saves on their way there hold, and just
   that once it counts as saved. *)
DocumentFits(s, doc, dk, rc) ==
  /\ s.target # NoPhoto =>
       /\ dk[s.target] \subseteq doc.committed \cup rc
       /\ \A i \in DOMAIN s.pending :
            s.pending[i].target = s.target => s.pending[i].edits \subseteq doc.committed \cup rc
       /\ s.thread = "writing" /\ s.job.target = s.target =>
            s.job.edits \subseteq doc.committed \cup rc
       /\ s.saved = doc.revision => dk[s.target] \ rc = doc.committed \ rc
  /\ \A i \in DOMAIN s.pending : OfDocument(s.pending[i], s, doc)
  /\ InFlight(s) => OfDocument(s.job, s, doc)
  /\ s.thread = "ok" /\ s.job.generation = s.generation =>
       dk[s.job.target] \ rc = s.job.edits \ rc
  /\ s.saved <= doc.revision

Fits(s, doc, dk, rc) == QueueFits(s, dk, rc) /\ DocumentFits(s, doc, dk, rc)

(* The edits of q that the saves, or the report of a failed one, answer for. *)
Owes(s, q) == OnTheWay(s, q) \cup s.excused \cup Unreported(s)

OpenEdits(s, doc, q) == IF s.target = q THEN doc.committed ELSE {}

(* From s to t a handler puts no edits on the way but the open document's, and loses none. *)
Carries(s, t, doc, rc) ==
  /\ t.target = s.target /\ t.generation = s.generation
  /\ \A q \in Photo :
       /\ OnTheWay(t, q) \subseteq OnTheWay(s, q) \cup OpenEdits(s, doc, q)
       /\ Owes(s, q) \subseteq Owes(t, q) \cup rc

(* What is on its way to q, edit by edit. *)
LEMMA OnTheWayIs ==
  ASSUME NEW s, NEW q
  PROVE  \A x : x \in OnTheWay(s, q) <=>
           \/ \E i \in DOMAIN s.pending : s.pending[i].target = q /\ x \in s.pending[i].edits
           \/ s.thread = "writing" /\ s.job.target = q /\ x \in s.job.edits
  BY DEF OnTheWay, OutstandingRequests

(* Handlers that carry the edits one after another carry them all the way. *)
LEMMA CarriesOn ==
  ASSUME NEW s, NEW u, NEW t, NEW doc, NEW rc,
         Carries(s, u, doc, rc), Carries(u, t, doc, rc)
  PROVE  Carries(s, t, doc, rc)
  BY DEF Carries, OpenEdits

(* Two queues with the same requests in the same order and the same running save. *)
SameSaves(s, t) ==
  /\ t.target = s.target /\ t.generation = s.generation /\ t.saved = s.saved
  /\ t.thread = s.thread /\ t.job = s.job /\ t.excused = s.excused
  /\ DOMAIN t.pending = DOMAIN s.pending
  /\ \A i \in DOMAIN s.pending :
       /\ t.pending[i].target = s.pending[i].target
       /\ t.pending[i].edits = s.pending[i].edits
       /\ t.pending[i].generation = s.pending[i].generation
       /\ t.pending[i].revision = s.pending[i].revision

LEMMA SameSavesFit ==
  ASSUME NEW s, NEW t, NEW doc, NEW dk, NEW rc, SameSaves(s, t), Fits(s, doc, dk, rc)
  PROVE  Fits(t, doc, dk, rc) /\ Carries(s, t, doc, rc)
<1>1. QueueFits(t, dk, rc)
  BY DEF SameSaves, Fits, QueueFits, InFlight
<1>2. DocumentFits(t, doc, dk, rc)
  BY DEF SameSaves, Fits, DocumentFits, OfDocument, InFlight
<1>3. \A q : OnTheWay(t, q) = OnTheWay(s, q)
  <2> SUFFICES ASSUME NEW q, NEW x PROVE x \in OnTheWay(t, q) <=> x \in OnTheWay(s, q)
    OBVIOUS
  <2>1. QED
    BY OnTheWayIs DEF SameSaves
<1>4. Unreported(t) = Unreported(s)
  BY DEF SameSaves, Unreported
<1>5. QED
  BY <1>1, <1>2, <1>3, <1>4 DEF Fits, Carries, Owes, SameSaves

-----------------------------------------------------------------------------
(* Queueing. *)

(* The open document's request is the last one: a new one takes its place or follows. *)
LEMMA EnqueueIs ==
  ASSUME NEW s \in PersistenceType, NEW request \in Request, NEW revision \in Nat,
         InOrder(s, revision),
         request.generation = s.generation, request.revision = revision,
         NEW t, t = Enqueue(s, request)
  PROVE  /\ t.target = s.target /\ t.generation = s.generation /\ t.saved = s.saved
         /\ t.thread = s.thread /\ t.job = s.job /\ t.excused = s.excused
         /\ \E k \in Nat \ {0} :
              /\ DOMAIN t.pending = 1 .. k
              /\ \/ DOMAIN s.pending = 1 .. k /\ s.pending[k].generation = s.generation
                 \/ DOMAIN s.pending = 1 .. k - 1
              /\ \A i \in 1 .. k - 1 : t.pending[i] = s.pending[i]
              /\ t.pending[k].target = request.target
              /\ t.pending[k].edits = request.edits
              /\ t.pending[k].generation = request.generation
              /\ t.pending[k].revision = request.revision
<1> DEFINE mine == {i \in DOMAIN s.pending : s.pending[i].generation = request.generation}
           first == CHOOSE i \in mine : \A j \in mine : i <= j
<1>0. /\ s.pending \in Seq(Request) /\ Len(s.pending) \in Nat
      /\ DOMAIN s.pending = 1 .. Len(s.pending)
  BY QueueType
<1>0a. /\ s.generation \in Nat
      /\ \A i \in DOMAIN s.pending :
           /\ s.pending[i].generation \in Nat
           /\ s.pending[i].generation <= s.generation
           /\ \A j \in DOMAIN s.pending :
                i < j => s.pending[i].generation < s.pending[j].generation
  BY QueueType DEF InOrder, NoNewerThan, OldestFirst
<1>1. CASE mine = {}
  <2>1. t = [s EXCEPT !.pending = Append(s.pending, request)]
    BY <1>1 DEF Enqueue
  <2>2. /\ t.pending = Append(s.pending, request)
        /\ t.target = s.target /\ t.generation = s.generation /\ t.saved = s.saved
        /\ t.thread = s.thread /\ t.job = s.job /\ t.excused = s.excused
    BY <2>1 DEF PersistenceType
  <2> DEFINE k == Len(s.pending) + 1
  <2>3. /\ k \in Nat \ {0} /\ DOMAIN t.pending = 1 .. k
        /\ DOMAIN s.pending = 1 .. k - 1
        /\ \A i \in 1 .. k - 1 : t.pending[i] = s.pending[i]
        /\ t.pending[k] = request
    BY <1>0, <2>2
  <2> HIDE DEF k
  <2>4. QED
    BY <2>2, <2>3
<1>2. CASE mine # {}
  <2> DEFINE replaced == [request EXCEPT !.explicit = @ \/ s.pending[first].explicit]
  <2>1. \A i, j \in mine : i = j
    <3>1. ASSUME NEW i \in mine, NEW j \in mine PROVE ~(i < j)
      BY <1>0a
    <3>2. mine \subseteq Nat
      BY <1>0
    <3> HIDE DEF mine
    <3>3. QED
      BY <3>1, <3>2
  <2>2. first \in mine
    <3>1. PICK i \in mine : TRUE
      BY <1>2
    <3>2. \A j \in mine : i <= j
      BY <1>0, <2>1, <3>1
    <3>3. QED
      BY <3>1, <3>2
  <2>3. t = [s EXCEPT !.pending = [s.pending EXCEPT ![first] = replaced]]
    BY <1>2 DEF Enqueue
  <2>4. /\ replaced.target = request.target /\ replaced.edits = request.edits
        /\ replaced.generation = request.generation /\ replaced.revision = request.revision
    BY DEF Request
  <2> HIDE DEF first, replaced
  <2>5. /\ t.pending = [s.pending EXCEPT ![first] = replaced]
        /\ t.target = s.target /\ t.generation = s.generation /\ t.saved = s.saved
        /\ t.thread = s.thread /\ t.job = s.job /\ t.excused = s.excused
    BY <2>3 DEF PersistenceType
  <2>6. first \in DOMAIN s.pending /\ s.pending[first].generation = s.generation
    BY <2>2
  <2>7. \A j \in DOMAIN s.pending : j <= first
    <3> SUFFICES ASSUME NEW j \in DOMAIN s.pending, first < j PROVE FALSE
      BY <1>0, <2>6
    <3>1. s.generation < s.pending[j].generation
      BY <1>0a, <2>6
    <3>2. QED
      BY <1>0a, <3>1
  <2>8. first = Len(s.pending)
    <3>1. first \in 1 .. Len(s.pending) /\ Len(s.pending) \in 1 .. Len(s.pending)
      BY <1>0, <2>6
    <3>2. Len(s.pending) <= first
      BY <1>0, <2>7, <3>1
    <3>3. QED
      BY <1>0, <3>1, <3>2
  <2>9. /\ first \in Nat \ {0} /\ DOMAIN s.pending = 1 .. first
        /\ DOMAIN t.pending = 1 .. first
        /\ \A i \in 1 .. first - 1 : t.pending[i] = s.pending[i]
        /\ t.pending[first] = replaced
    BY <1>0, <2>5, <2>6, <2>8
  <2>10. QED
    BY <2>4, <2>5, <2>6, <2>9
<1>3. QED
  BY <1>1, <1>2

(* The new request holds what every request of its photo and the sidecar hold. *)
LEMMA EnqueueFits ==
  ASSUME NEW s \in PersistenceType, NEW doc \in DocumentType, ~doc.dirty,
         InOrder(s, doc.revision), s.target # NoPhoto, NEW explicit \in BOOLEAN,
         NEW dk, NEW rc, Fits(s, doc, dk, rc),
         NEW t, t = Enqueue(s, RequestFor(s, doc, explicit))
  PROVE  /\ Fits(t, doc, dk, rc) /\ Carries(s, t, doc, rc)
         /\ PendingAt(t, doc.revision)
<1> DEFINE request == RequestFor(s, doc, explicit)
<1>1. /\ request \in Request
      /\ request.generation = s.generation /\ request.revision = doc.revision
      /\ doc.revision \in Nat
  BY RequestForType DEF DocumentType
<1>2. request.target = s.target /\ request.edits = doc.committed
  BY DEF RequestFor, Captured
<1>3. t = Enqueue(s, request)
  OBVIOUS
<1> HIDE DEF request
<1>4. /\ t.target = s.target /\ t.generation = s.generation /\ t.saved = s.saved
      /\ t.thread = s.thread /\ t.job = s.job /\ t.excused = s.excused
  BY <1>1, <1>3, EnqueueIs
<1>5. PICK k \in Nat \ {0} :
        /\ DOMAIN t.pending = 1 .. k
        /\ \/ DOMAIN s.pending = 1 .. k /\ s.pending[k].generation = s.generation
           \/ DOMAIN s.pending = 1 .. k - 1
        /\ \A i \in 1 .. k - 1 : t.pending[i] = s.pending[i]
        /\ t.pending[k].target = s.target
        /\ t.pending[k].edits = doc.committed
        /\ t.pending[k].generation = s.generation
        /\ t.pending[k].revision = doc.revision
  BY <1>1, <1>2, <1>3, EnqueueIs
<1>6. /\ k \in DOMAIN t.pending
      /\ \A i \in DOMAIN t.pending : i # k => i \in DOMAIN s.pending /\ t.pending[i] = s.pending[i]
      /\ \A i \in DOMAIN t.pending : ~(k < i)
      /\ \A i \in DOMAIN s.pending :
           \/ i \in DOMAIN t.pending /\ i # k /\ t.pending[i] = s.pending[i]
           \/ i = k /\ s.pending[i].generation = s.generation
  BY <1>5
<1>7. QueueFits(t, dk, rc)
  <2>1. \A i \in DOMAIN t.pending :
          dk[t.pending[i].target] \subseteq t.pending[i].edits \cup rc
    BY <1>5, <1>6 DEF Fits, QueueFits, DocumentFits
  <2>2. ASSUME NEW i \in DOMAIN t.pending, NEW j \in DOMAIN t.pending,
               i < j, t.pending[i].target = t.pending[j].target
        PROVE  t.pending[i].edits \subseteq t.pending[j].edits \cup rc
    <3>1. i # k /\ i \in DOMAIN s.pending /\ t.pending[i] = s.pending[i]
      BY <1>6, <2>2
    <3>2. CASE j = k
      BY <1>5, <2>2, <3>1, <3>2 DEF Fits, DocumentFits
    <3>3. CASE j # k
      BY <1>6, <2>2, <3>1, <3>3 DEF Fits, QueueFits
    <3>4. QED
      BY <3>2, <3>3
  <2>3. ASSUME t.thread = "writing", NEW i \in DOMAIN t.pending,
               t.pending[i].target = t.job.target
        PROVE  t.job.edits \subseteq t.pending[i].edits \cup rc
    <3>1. CASE i = k
      BY <1>4, <1>5, <2>3, <3>1 DEF Fits, DocumentFits
    <3>2. CASE i # k
      BY <1>4, <1>6, <2>3, <3>2 DEF Fits, QueueFits
    <3>3. QED
      BY <3>1, <3>2
  <2>4. /\ InFlight(t) => t.job \in Request
        /\ t.thread = "writing" => dk[t.job.target] \subseteq t.job.edits \cup rc
    BY <1>4 DEF Fits, QueueFits, InFlight
  <2>5. QED
    BY <2>1, <2>2, <2>3, <2>4 DEF QueueFits
<1>8. DocumentFits(t, doc, dk, rc)
  <2>1. \A i \in DOMAIN t.pending :
          t.pending[i].target = t.target => t.pending[i].edits \subseteq doc.committed \cup rc
    BY <1>4, <1>5, <1>6 DEF Fits, DocumentFits
  <2>2. \A i \in DOMAIN t.pending : OfDocument(t.pending[i], t, doc)
    BY <1>4, <1>5, <1>6 DEF Fits, DocumentFits, OfDocument
  <2>3. QED
    BY <1>4, <2>1, <2>2 DEF Fits, DocumentFits, OfDocument, InFlight
<1>9. ASSUME NEW q
      PROVE  /\ OnTheWay(t, q) \subseteq OnTheWay(s, q) \cup OpenEdits(s, doc, q)
             /\ OnTheWay(s, q) \subseteq OnTheWay(t, q) \cup rc
  <2>1. ASSUME NEW x \in OnTheWay(t, q)
        PROVE  x \in OnTheWay(s, q) \cup OpenEdits(s, doc, q)
    <3>1. \/ \E i \in DOMAIN t.pending : t.pending[i].target = q /\ x \in t.pending[i].edits
          \/ t.thread = "writing" /\ t.job.target = q /\ x \in t.job.edits
      BY OnTheWayIs
    <3>2. QED
      BY <1>4, <1>5, <1>6, <3>1, OnTheWayIs DEF OpenEdits
  <2>2. ASSUME NEW x \in OnTheWay(s, q)
        PROVE  x \in OnTheWay(t, q) \cup rc
    <3>1. \/ \E i \in DOMAIN s.pending : s.pending[i].target = q /\ x \in s.pending[i].edits
          \/ s.thread = "writing" /\ s.job.target = q /\ x \in s.job.edits
      BY OnTheWayIs
    <3>2. ASSUME NEW i \in DOMAIN s.pending, s.pending[i].target = q, x \in s.pending[i].edits
          PROVE  x \in OnTheWay(t, q) \cup rc
      <4>1. CASE i \in DOMAIN t.pending /\ t.pending[i] = s.pending[i]
        BY <3>2, <4>1, OnTheWayIs
      <4>2. CASE i = k /\ s.pending[i].generation = s.generation
        <5>1. q = s.target
          BY <3>2, <4>2 DEF Fits, DocumentFits, OfDocument
        <5>2. x \in doc.committed \cup rc
          BY <3>2, <5>1 DEF Fits, DocumentFits
        <5>3. QED
          BY <1>5, <1>6, <5>1, <5>2, OnTheWayIs
      <4>3. QED
        BY <1>6, <4>1, <4>2
    <3>3. QED
      BY <1>4, <3>1, <3>2, OnTheWayIs
  <2>3. QED
    BY <2>1, <2>2
<1>10. Unreported(t) = Unreported(s)
  BY <1>4 DEF Unreported
<1>11. Carries(s, t, doc, rc)
  BY <1>4, <1>9, <1>10 DEF Carries, Owes
<1>12. PendingAt(t, doc.revision)
  BY <1>4, <1>5, <1>6 DEF PendingAt
<1>13. QED
  BY <1>7, <1>8, <1>11, <1>12 DEF Fits

(* A handler that does nothing. *)
LEMMA CarriesNothing ==
  ASSUME NEW s, NEW doc, NEW rc
  PROVE  Carries(s, s, doc, rc)
  BY DEF Carries

(* An explicit save is queued; an autosave is, or what it would save is under way. *)
LEMMA QueueCurrentFits ==
  ASSUME NEW s \in PersistenceType, NEW doc \in DocumentType, ~doc.dirty,
         InOrder(s, doc.revision), NEW explicit \in BOOLEAN,
         NEW dk, NEW rc, Fits(s, doc, dk, rc),
         NEW t, t = QueueCurrent(s, doc, explicit)
  PROVE  /\ Fits(t, doc, dk, rc) /\ Carries(s, t, doc, rc)
         /\ explicit /\ s.target # NoPhoto => PendingAt(t, doc.revision)
<1>1. CASE s.target = NoPhoto \/ (~explicit /\ Covered(s, doc.revision))
  BY <1>1, CarriesNothing DEF QueueCurrent
<1>2. CASE ~(s.target = NoPhoto \/ (~explicit /\ Covered(s, doc.revision)))
  <2>1. t = Enqueue(s, RequestFor(s, doc, explicit))
    BY <1>2 DEF QueueCurrent
  <2>2. QED
    BY <1>2, <2>1, EnqueueFits
<1>3. QED
  BY <1>1, <1>2

(* A marked request is the same save. *)
LEMMA MarkExplicitSame ==
  ASSUME NEW s \in PersistenceType, NEW revision, NEW t, t = MarkExplicit(s, revision)
  PROVE  SameSaves(s, t)
<1> DEFINE marked == [i \in DOMAIN s.pending |->
                        IF s.pending[i].generation = s.generation
                             /\ s.pending[i].revision = revision
                        THEN [s.pending[i] EXCEPT !.explicit = TRUE]
                        ELSE s.pending[i]]
<1>1. t = [s EXCEPT !.pending = marked]
  BY DEF MarkExplicit
<1>2. \A r \in Request :
        /\ [r EXCEPT !.explicit = TRUE].target = r.target
        /\ [r EXCEPT !.explicit = TRUE].edits = r.edits
        /\ [r EXCEPT !.explicit = TRUE].generation = r.generation
        /\ [r EXCEPT !.explicit = TRUE].revision = r.revision
  BY DEF Request
<1>3. /\ DOMAIN marked = DOMAIN s.pending
      /\ \A i \in DOMAIN s.pending :
           /\ marked[i].target = s.pending[i].target
           /\ marked[i].edits = s.pending[i].edits
           /\ marked[i].generation = s.pending[i].generation
           /\ marked[i].revision = s.pending[i].revision
  BY <1>2, QueueType
<1> HIDE DEF marked
<1>4. /\ t.pending = marked
      /\ t.target = s.target /\ t.generation = s.generation /\ t.saved = s.saved
      /\ t.thread = s.thread /\ t.job = s.job /\ t.excused = s.excused
  BY <1>1 DEF PersistenceType
<1>5. QED
  BY <1>3, <1>4 DEF SameSaves

(* The open document is safe once its revision is saved or has a request. *)
LEMMA NewestIsSafe ==
  ASSUME NEW s \in PersistenceType, NEW doc \in DocumentType, NEW dk, NEW rc,
         Fits(s, doc, dk, rc), s.target # NoPhoto,
         s.saved = doc.revision \/ Queued(s, doc.revision)
  PROVE  doc.committed \subseteq Owes(s, s.target) \cup dk[s.target] \cup rc
<1>1. CASE s.saved = doc.revision
  BY <1>1 DEF Fits, DocumentFits
<1>2. CASE PendingAt(s, doc.revision)
  <2>1. PICK i \in DOMAIN s.pending :
          s.pending[i].generation = s.generation /\ s.pending[i].revision = doc.revision
    BY <1>2 DEF PendingAt
  <2>2. s.pending[i].target = s.target /\ s.pending[i].edits = doc.committed
    BY <2>1 DEF Fits, DocumentFits, OfDocument
  <2>3. QED
    BY <2>2, OnTheWayIs DEF Owes
<1>3. CASE InFlightAt(s, doc.revision)
  <2>1. s.job.target = s.target /\ s.job.edits = doc.committed
    BY <1>3 DEF InFlightAt, Fits, DocumentFits, OfDocument
  <2>2. CASE s.thread = "writing"
    BY <2>1, <2>2, OnTheWayIs DEF Owes
  <2>3. CASE s.thread = "ok"
    BY <1>3, <2>1, <2>3 DEF InFlightAt, Fits, DocumentFits
  <2>4. CASE s.thread \in {"failed", "unsupported", "dead"}
    BY <2>1, <2>4 DEF Owes, Unreported
  <2>5. QED
    BY <1>3, <2>2, <2>3, <2>4 DEF InFlightAt, InFlight, PersistenceType, ThreadState
<1>4. QED
  BY <1>1, <1>2, <1>3 DEF Queued

(* A switch and a flush leave the open document's edits to the saves. *)
LEMMA QueueNewestFits ==
  ASSUME NEW s \in PersistenceType, NEW doc \in DocumentType, ~doc.dirty,
         InOrder(s, doc.revision), NEW dk, NEW rc, Fits(s, doc, dk, rc),
         NEW t, t = QueueNewest(s, doc)
  PROVE  /\ Fits(t, doc, dk, rc) /\ Carries(s, t, doc, rc)
         /\ s.target # NoPhoto =>
              doc.committed \subseteq Owes(t, s.target) \cup dk[s.target] \cup rc
<1> DEFINE marked == MarkExplicit(s, doc.revision)
<1>1. /\ Fits(marked, doc, dk, rc) /\ Carries(s, marked, doc, rc)
      /\ marked \in PersistenceType /\ InOrder(marked, doc.revision)
  BY MarkExplicitSame, SameSavesFit, MarkExplicitWell DEF Well
<1>2. marked.target = s.target
  BY <1>1 DEF Carries
<1>3. s.target # NoPhoto => s.target \in Photo
  BY DEF PersistenceType, Target
<1>4. CASE s.saved = doc.revision \/ Queued(s, doc.revision)
  <2>1. t = marked
    BY <1>4 DEF QueueNewest
  <2> HIDE DEF marked
  <2>2. ASSUME s.target # NoPhoto
        PROVE  doc.committed \subseteq Owes(t, s.target) \cup dk[s.target] \cup rc
    <3>1. doc.committed \subseteq Owes(s, s.target) \cup dk[s.target] \cup rc
      BY <1>4, <2>2, NewestIsSafe
    <3>2. Owes(s, s.target) \subseteq Owes(t, s.target) \cup rc
      BY <1>1, <1>3, <2>1, <2>2 DEF Carries
    <3>3. QED
      BY <3>1, <3>2
  <2>3. QED
    BY <1>1, <2>1, <2>2
<1>5. CASE ~(s.saved = doc.revision \/ Queued(s, doc.revision))
  <2>1. t = QueueCurrent(marked, doc, TRUE)
    BY <1>5 DEF QueueNewest
  <2> HIDE DEF marked
  <2>2. /\ Fits(t, doc, dk, rc) /\ Carries(marked, t, doc, rc)
        /\ s.target # NoPhoto => PendingAt(t, doc.revision)
    BY <1>1, <1>2, <2>1, QueueCurrentFits
  <2>3. t \in PersistenceType /\ t.target = s.target
    BY <1>1, <1>2, <2>1, <2>2, QueueCurrentWell DEF Well, Carries
  <2>4. s.target # NoPhoto =>
          doc.committed \subseteq Owes(t, s.target) \cup dk[s.target] \cup rc
    BY <2>2, <2>3, NewestIsSafe DEF Queued
  <2>5. Carries(s, t, doc, rc)
    BY <1>1, <2>2, CarriesOn
  <2>6. QED
    BY <2>2, <2>4, <2>5
<1>6. QED
  BY <1>4, <1>5

-----------------------------------------------------------------------------
(* Starting and finishing a save. *)

(* The oldest request leaves the queue, to be written or to be reported. *)
LEMMA StartNextIs ==
  ASSUME NEW s \in PersistenceType, NEW doc, NEW spawns,
         NEW t, t = StartNext(s, doc, spawns), t # s
  PROVE  /\ s.thread = "idle" /\ 1 \in DOMAIN s.pending
         /\ t.target = s.target /\ t.generation = s.generation /\ t.saved = s.saved
         /\ \A i \in DOMAIN t.pending :
              /\ i + 1 \in DOMAIN s.pending /\ t.pending[i] = s.pending[i + 1]
              /\ 1 < i + 1 /\ \A j \in DOMAIN t.pending : i < j => i + 1 < j + 1
         /\ \A i \in DOMAIN s.pending :
              i = 1 \/ \E j \in DOMAIN t.pending : i = j + 1
         /\ \/ /\ t.thread = "writing" /\ t.job = s.pending[1] /\ t.excused = s.excused
            \/ /\ t.thread = "idle" /\ t.job = s.job
               /\ t.excused = s.excused \cup s.pending[1].edits
<1> DEFINE request == Head(s.pending)
           popped == [s EXCEPT !.pending = Tail(s.pending)]
<1>1. ~InFlight(s) /\ s.pending # <<>> /\ ~HeldBack(s, doc)
  BY DEF StartNext
<1>2. /\ s.thread = "idle"
      /\ request = s.pending[1] /\ Tail(s.pending) \in Seq(Request)
      /\ Len(s.pending) \in Nat /\ Len(s.pending) >= 1
      /\ DOMAIN s.pending = 1 .. Len(s.pending)
      /\ DOMAIN Tail(s.pending) = 1 .. Len(s.pending) - 1
      /\ \A i \in DOMAIN Tail(s.pending) : Tail(s.pending)[i] = s.pending[i + 1]
  BY <1>1, QueueType DEF InFlight
<1>3. /\ popped.pending = Tail(s.pending) /\ popped.generation = s.generation
      /\ popped.target = s.target /\ popped.saved = s.saved
      /\ popped.job = s.job /\ popped.thread = s.thread /\ popped.excused = s.excused
      /\ popped \in PersistenceType
  <2>1. popped \in PersistenceType
    BY <1>2 DEF PersistenceType
  <2>2. QED
    BY <2>1 DEF PersistenceType
<1>4. \/ t = [popped EXCEPT !.job = request, !.thread = "writing"]
      \/ t = ReportFailure(popped, FailedRevision(s, request), request.edits)
  BY <1>1 DEF StartNext
<1> HIDE DEF popped, request
<1>5. /\ t.pending = popped.pending
      /\ t.target = popped.target /\ t.generation = popped.generation
      /\ t.saved = popped.saved
      /\ \/ t.thread = "writing" /\ t.job = request /\ t.excused = popped.excused
         \/ /\ t.thread = popped.thread /\ t.job = popped.job
            /\ t.excused = popped.excused \cup request.edits
  <2>1. CASE t = [popped EXCEPT !.job = request, !.thread = "writing"]
    BY <1>3, <2>1 DEF PersistenceType
  <2>2. CASE t = ReportFailure(popped, FailedRevision(s, request), request.edits)
    BY <1>3, <2>2 DEF PersistenceType, ReportFailure
  <2>3. QED
    BY <1>4, <2>1, <2>2
<1>6. /\ 1 \in DOMAIN s.pending
      /\ \A i \in DOMAIN t.pending :
           /\ i + 1 \in DOMAIN s.pending /\ t.pending[i] = s.pending[i + 1]
           /\ 1 < i + 1 /\ \A j \in DOMAIN t.pending : i < j => i + 1 < j + 1
  BY <1>2, <1>3, <1>5
<1>7. ASSUME NEW i \in DOMAIN s.pending, i # 1
      PROVE  \E j \in DOMAIN t.pending : i = j + 1
  <2>1. i - 1 \in DOMAIN t.pending /\ i = (i - 1) + 1
    BY <1>2, <1>3, <1>5, <1>7
  <2>2. QED
    BY <2>1
<1>8. QED
  BY <1>2, <1>3, <1>5, <1>6, <1>7

LEMMA StartNextFits ==
  ASSUME NEW s \in PersistenceType, NEW doc, NEW spawns,
         NEW dk, NEW rc, Fits(s, doc, dk, rc),
         NEW t, t = StartNext(s, doc, spawns)
  PROVE  Fits(t, doc, dk, rc) /\ Carries(s, t, doc, rc)
<1>1. CASE t = s
  BY <1>1, CarriesNothing
<1>2. CASE t # s
  <2>1. /\ s.thread = "idle" /\ 1 \in DOMAIN s.pending
        /\ t.target = s.target /\ t.generation = s.generation /\ t.saved = s.saved
        /\ \A i \in DOMAIN t.pending :
             /\ i + 1 \in DOMAIN s.pending /\ t.pending[i] = s.pending[i + 1]
             /\ 1 < i + 1 /\ \A j \in DOMAIN t.pending : i < j => i + 1 < j + 1
        /\ \A i \in DOMAIN s.pending :
             i = 1 \/ \E j \in DOMAIN t.pending : i = j + 1
        /\ \/ /\ t.thread = "writing" /\ t.job = s.pending[1] /\ t.excused = s.excused
           \/ /\ t.thread = "idle" /\ t.job = s.job
              /\ t.excused = s.excused \cup s.pending[1].edits
    BY <1>2, StartNextIs
  <2>2. QueueFits(t, dk, rc)
    <3>1. \A i \in DOMAIN t.pending :
            dk[t.pending[i].target] \subseteq t.pending[i].edits \cup rc
      BY <2>1 DEF Fits, QueueFits
    <3>2. \A i, j \in DOMAIN t.pending :
            i < j /\ t.pending[i].target = t.pending[j].target
              => t.pending[i].edits \subseteq t.pending[j].edits \cup rc
      BY <2>1 DEF Fits, QueueFits
    <3>3. t.thread = "writing" =>
            /\ dk[t.job.target] \subseteq t.job.edits \cup rc
            /\ \A i \in DOMAIN t.pending :
                 t.pending[i].target = t.job.target
                   => t.job.edits \subseteq t.pending[i].edits \cup rc
      BY <2>1 DEF Fits, QueueFits
    <3>4. InFlight(t) => t.job \in Request
      BY <2>1, QueueType DEF InFlight
    <3>5. QED
      BY <3>1, <3>2, <3>3, <3>4 DEF QueueFits
  <2>3. DocumentFits(t, doc, dk, rc)
    <3>1. \A i \in DOMAIN t.pending : OfDocument(t.pending[i], t, doc)
      BY <2>1 DEF Fits, DocumentFits, OfDocument
    <3>2. InFlight(t) => OfDocument(t.job, t, doc)
      BY <2>1 DEF Fits, DocumentFits, OfDocument, InFlight
    <3>3. t.thread # "ok" /\ t.saved <= doc.revision
      BY <2>1 DEF Fits, DocumentFits
    <3>4. t.target # NoPhoto =>
            /\ dk[t.target] \subseteq doc.committed \cup rc
            /\ \A i \in DOMAIN t.pending :
                 t.pending[i].target = t.target => t.pending[i].edits \subseteq doc.committed \cup rc
            /\ t.thread = "writing" /\ t.job.target = t.target =>
                 t.job.edits \subseteq doc.committed \cup rc
            /\ t.saved = doc.revision => dk[t.target] \ rc = doc.committed \ rc
      BY <2>1 DEF Fits, DocumentFits
    <3>5. QED
      BY <3>1, <3>2, <3>3, <3>4 DEF DocumentFits
  <2>4. \A q : /\ OnTheWay(t, q) \subseteq OnTheWay(s, q)
               /\ OnTheWay(s, q) \subseteq OnTheWay(t, q) \cup t.excused
    <3> SUFFICES ASSUME NEW q, NEW x
                 PROVE  /\ x \in OnTheWay(t, q) => x \in OnTheWay(s, q)
                        /\ x \in OnTheWay(s, q) => x \in OnTheWay(t, q) \cup t.excused
      OBVIOUS
    <3>1. x \in OnTheWay(t, q) => x \in OnTheWay(s, q)
      BY <2>1, OnTheWayIs
    <3>2. x \in OnTheWay(s, q) => x \in OnTheWay(t, q) \cup t.excused
      BY <2>1, OnTheWayIs
    <3>3. QED
      BY <3>1, <3>2
  <2>5. Unreported(s) = {} /\ s.excused \subseteq t.excused
    BY <2>1 DEF Unreported
  <2>6. QED
    BY <2>1, <2>2, <2>3, <2>4, <2>5 DEF Fits, Carries, Owes
<1>3. QED
  BY <1>1, <1>2

(* A received result frees the slot: it marks its revision as saved, or its edits as
   reported. *)
LEMMA FinishSaveIs ==
  ASSUME NEW s \in PersistenceType, Ended(s), NEW t, t = FinishSave(s)
  PROVE  /\ t.target = s.target /\ t.generation = s.generation /\ t.pending = s.pending
         /\ t.thread = "idle"
         /\ s.thread = "ok" /\ s.job.generation = s.generation => t.saved = s.job.revision
         /\ ~(s.thread = "ok" /\ s.job.generation = s.generation) => t.saved = s.saved
         /\ s.thread = "ok" => t.excused = s.excused
         /\ s.thread # "ok" => t.excused = s.excused \cup s.job.edits
<1> DEFINE done == [s EXCEPT !.thread = "idle", !.job = NoRequest]
<1>1. /\ done \in PersistenceType
      /\ done.target = s.target /\ done.generation = s.generation
      /\ done.pending = s.pending /\ done.thread = "idle"
      /\ done.saved = s.saved /\ done.excused = s.excused
  BY DEF PersistenceType, ThreadState
<1> HIDE DEF done
<1>2. CASE s.thread = "ok" /\ s.job.generation = s.generation
  <2>1. t = [done EXCEPT !.failed = None, !.saved = s.job.revision]
    BY <1>2 DEF FinishSave, done
  <2>2. QED
    BY <1>1, <1>2, <2>1 DEF PersistenceType
<1>3. CASE s.thread = "ok" /\ s.job.generation # s.generation
  <2>1. t = done
    BY <1>3 DEF FinishSave, done
  <2>2. QED
    BY <1>1, <1>3, <2>1
<1>4. CASE s.thread # "ok"
  <2> DEFINE reported == ReportFailure(done, FailedRevision(s, s.job), s.job.edits)
             recovery == IF s.thread = "unsupported" THEN s.job ELSE NoRequest
  <2>1. t = [reported EXCEPT !.recovery = recovery]
    BY <1>4 DEF FinishSave, done
  <2>2. s.job \in Request \cup {NoRequest} /\ s.job.edits \in SUBSET Edit
    BY QueueType DEF PersistenceType
  <2>3. /\ reported \in PersistenceType
        /\ reported.target = done.target /\ reported.generation = done.generation
        /\ reported.pending = done.pending /\ reported.thread = done.thread
        /\ reported.saved = done.saved
        /\ reported.excused = done.excused \cup s.job.edits
    <3>1. FailedRevision(s, s.job) \in OptRevision
      BY <2>2, FailedRevisionType
    <3>2. QED
      BY <1>1, <2>2, <3>1 DEF ReportFailure, PersistenceType
  <2> HIDE DEF reported, recovery
  <2>4. /\ t.target = reported.target /\ t.generation = reported.generation
        /\ t.pending = reported.pending /\ t.thread = reported.thread
        /\ t.saved = reported.saved /\ t.excused = reported.excused
    BY <2>1, <2>3 DEF PersistenceType
  <2>5. QED
    BY <1>1, <1>4, <2>3, <2>4
<1>5. QED
  BY <1>2, <1>3, <1>4

LEMMA FinishSaveFits ==
  ASSUME NEW s \in PersistenceType, NEW doc \in DocumentType, Ended(s),
         InOrder(s, doc.revision),
         NEW dk, NEW rc, Fits(s, doc, dk, rc),
         NEW t, t = FinishSave(s)
  PROVE  Fits(t, doc, dk, rc) /\ Carries(s, t, doc, rc)
<1>1. /\ t.target = s.target /\ t.generation = s.generation /\ t.pending = s.pending
      /\ t.thread = "idle"
      /\ s.thread = "ok" /\ s.job.generation = s.generation => t.saved = s.job.revision
      /\ ~(s.thread = "ok" /\ s.job.generation = s.generation) => t.saved = s.saved
      /\ s.thread = "ok" => t.excused = s.excused
      /\ s.thread # "ok" => t.excused = s.excused \cup s.job.edits
  BY FinishSaveIs
<1>2. QueueFits(t, dk, rc)
  BY <1>1 DEF Fits, QueueFits, InFlight
<1>3. t.saved <= doc.revision
  <2>1. s.thread = "ok" /\ s.job.generation = s.generation => s.job.revision <= doc.revision
    BY QueueType DEF InOrder, InFlight, NoNewerThan
  <2>2. QED
    BY <1>1, <2>1 DEF Fits, DocumentFits
<1>4. t.target # NoPhoto /\ t.saved = doc.revision => dk[t.target] \ rc = doc.committed \ rc
  <2>1. CASE s.thread = "ok" /\ s.job.generation = s.generation
    <3>1. s.job.target = s.target
      BY <2>1 DEF Fits, DocumentFits, OfDocument, InFlight
    <3>2. s.job.revision = doc.revision => s.job.edits = doc.committed
      BY <2>1 DEF Fits, DocumentFits, OfDocument, InFlight
    <3>3. dk[s.job.target] \ rc = s.job.edits \ rc
      BY <2>1 DEF Fits, DocumentFits
    <3>4. QED
      BY <1>1, <2>1, <3>1, <3>2, <3>3
  <2>2. CASE ~(s.thread = "ok" /\ s.job.generation = s.generation)
    BY <1>1, <2>2 DEF Fits, DocumentFits
  <2>3. QED
    BY <2>1, <2>2
<1>5. DocumentFits(t, doc, dk, rc)
  BY <1>1, <1>3, <1>4 DEF Fits, DocumentFits, OfDocument, InFlight
<1>6. \A q : OnTheWay(t, q) = OnTheWay(s, q)
  <2> SUFFICES ASSUME NEW q, NEW x PROVE x \in OnTheWay(t, q) <=> x \in OnTheWay(s, q)
    OBVIOUS
  <2>1. QED
    BY <1>1, OnTheWayIs DEF Ended
<1>7. s.excused \cup Unreported(s) \subseteq t.excused
  BY <1>1 DEF Unreported
<1>8. QED
  BY <1>1, <1>2, <1>5, <1>6, <1>7 DEF Fits, Carries, Owes

(* A poll receives a result and starts a save. *)
LEMMA PollSaveFits ==
  ASSUME NEW s \in PersistenceType, NEW doc \in DocumentType, NEW spawns,
         InOrder(s, doc.revision),
         NEW dk, NEW rc, Fits(s, doc, dk, rc),
         NEW t, t = PollSave(s, doc, spawns)
  PROVE  Fits(t, doc, dk, rc) /\ Carries(s, t, doc, rc)
<1> DEFINE u == IF Ended(s) THEN FinishSave(s) ELSE s
<1>1. u \in PersistenceType /\ Fits(u, doc, dk, rc) /\ Carries(s, u, doc, rc)
  BY FinishSaveWell, FinishSaveFits, CarriesNothing DEF Well
<1>2. t = StartNext(u, doc, spawns)
  BY DEF PollSave
<1> HIDE DEF u
<1>3. Fits(t, doc, dk, rc) /\ Carries(u, t, doc, rc)
  BY <1>1, <1>2, StartNextFits
<1>4. QED
  BY <1>1, <1>3, CarriesOn

(* The autosave saves a document that is not being changed. *)
LEMMA ScheduleAutosaveFits ==
  ASSUME NEW s \in PersistenceType, NEW doc \in DocumentType, NEW spawns,
         doc.gesture = "none" => ~doc.dirty, InOrder(s, doc.revision),
         NEW dk, NEW rc, Fits(s, doc, dk, rc),
         NEW t, t = ScheduleAutosave(s, doc, spawns)
  PROVE  Fits(t, doc, dk, rc) /\ Carries(s, t, doc, rc)
<1> DEFINE off == [s EXCEPT !.deadline = "off"]
           armed == [s EXCEPT !.deadline = "armed"]
           queued == QueueCurrent(off, doc, FALSE)
<1>1. SameSaves(s, off) /\ SameSaves(s, armed)
  BY DEF SameSaves, PersistenceType
<1>2. off \in PersistenceType /\ InOrder(off, doc.revision)
  BY DeadlineWell DEF Well
<1>3. /\ Fits(off, doc, dk, rc) /\ Carries(s, off, doc, rc)
      /\ Fits(armed, doc, dk, rc) /\ Carries(s, armed, doc, rc)
  <2> HIDE DEF off, armed
  <2>1. QED
    BY <1>1, SameSavesFit
<1>4. \/ t = off \/ t = armed \/ t = s
      \/ t = StartNext(off, doc, spawns)
      \/ doc.gesture = "none" /\ t = StartNext(queued, doc, spawns)
  BY DEF ScheduleAutosave
<1> HIDE DEF off, armed
<1>5. ASSUME doc.gesture = "none"
      PROVE  /\ queued \in PersistenceType
             /\ Fits(queued, doc, dk, rc) /\ Carries(s, queued, doc, rc)
  <2>1. queued \in PersistenceType
    BY <1>2, QueueCurrentWell DEF Well
  <2>2. Fits(queued, doc, dk, rc) /\ Carries(off, queued, doc, rc)
    BY <1>2, <1>3, <1>5, QueueCurrentFits
  <2> HIDE DEF queued
  <2>3. QED
    BY <1>3, <2>1, <2>2, CarriesOn
<1> HIDE DEF queued
<1>6. CASE t = off \/ t = armed \/ t = s
  BY <1>3, <1>6, CarriesNothing
<1>7. CASE t = StartNext(off, doc, spawns)
  BY <1>2, <1>3, <1>7, StartNextFits, CarriesOn
<1>8. CASE doc.gesture = "none" /\ t = StartNext(queued, doc, spawns)
  BY <1>5, <1>8, StartNextFits, CarriesOn
<1>9. QED
  BY <1>4, <1>6, <1>7, <1>8

-----------------------------------------------------------------------------
(* Documents. *)

(* The document moves on: to a new revision, unless its edits stay. *)
MovesOn(old, new) ==
  /\ old.committed \subseteq new.committed
  /\ \/ new.revision > old.revision
     \/ new.revision = old.revision /\ new.committed = old.committed

LEMMA CommitMovesOn ==
  ASSUME NEW doc \in DocumentType
  PROVE  /\ MovesOn(doc, Commit(doc)) /\ ~Commit(doc).dirty
         /\ Commit(doc).gesture = doc.gesture
<1>1. CASE ~doc.dirty
  BY <1>1 DEF Commit, MovesOn
<1>2. CASE doc.dirty
  <2>1. Commit(doc) = [doc EXCEPT !.committed = doc.committed \cup {doc.revision + 1},
                                  !.revision = doc.revision + 1, !.dirty = FALSE]
    BY <1>2 DEF Commit
  <2>2. /\ Commit(doc).committed = doc.committed \cup {doc.revision + 1}
        /\ Commit(doc).revision = doc.revision + 1
        /\ Commit(doc).dirty = FALSE /\ Commit(doc).gesture = doc.gesture
    BY <2>1 DEF DocumentType
  <2>3. QED
    BY <2>2 DEF MovesOn, DocumentType
<1>3. QED
  BY <1>1, <1>2

(* A new revision has no request yet and does not count as saved. *)
LEMMA MovedFits ==
  ASSUME NEW s \in PersistenceType, NEW old \in DocumentType, NEW new \in DocumentType,
         MovesOn(old, new), InOrder(s, old.revision),
         NEW dk, NEW rc, Fits(s, old, dk, rc)
  PROVE  Fits(s, new, dk, rc)
<1>1. old.revision \in Nat /\ new.revision \in Nat /\ s.saved \in OptRevision
  BY DEF DocumentType, PersistenceType
<1>2. CASE new.revision = old.revision /\ new.committed = old.committed
  BY <1>2 DEF Fits, DocumentFits, OfDocument
<1>3. CASE new.revision > old.revision
  <2>1. ASSUME NEW i \in DOMAIN s.pending
        PROVE  OfDocument(s.pending[i], s, new)
    <3>1. s.pending[i].generation = s.generation => s.pending[i].revision # new.revision
      BY <1>1, <1>3, QueueType DEF InOrder, NoNewerThan
    <3>2. QED
      BY <3>1 DEF Fits, DocumentFits, OfDocument
  <2>2. ASSUME InFlight(s)
        PROVE  OfDocument(s.job, s, new)
    <3>1. s.job.generation = s.generation => s.job.revision # new.revision
      BY <1>1, <1>3, <2>2, QueueType DEF InOrder, NoNewerThan
    <3>2. QED
      BY <2>2, <3>1 DEF Fits, DocumentFits, OfDocument
  <2>3. s.saved <= new.revision /\ s.saved # new.revision
    BY <1>1, <1>3 DEF Fits, DocumentFits, OptRevision, None
  <2>4. QED
    BY <2>1, <2>2, <2>3 DEF Fits, DocumentFits, MovesOn
<1>4. QED
  BY <1>2, <1>3 DEF MovesOn

(* A closed document has no request, and nothing is open. *)
LEMMA ClosedFits ==
  ASSUME NEW s \in PersistenceType, NEW doc \in DocumentType, NEW other \in DocumentType,
         InOrder(s, doc.revision), NEW dk, NEW rc, Fits(s, doc, dk, rc),
         NEW t, t = Closed(s)
  PROVE  /\ Fits(t, other, dk, rc)
         /\ t.target = NoPhoto /\ t.generation = s.generation + 1
         /\ \A q : OnTheWay(t, q) = OnTheWay(s, q) /\ Owes(t, q) = Owes(s, q)
<1>1. /\ t.pending = s.pending /\ t.generation = s.generation + 1 /\ t.target = NoPhoto
      /\ t.saved = None /\ t.job = s.job /\ t.thread = s.thread /\ t.excused = s.excused
  BY DEF Closed, PersistenceType
<1>2. \A i \in DOMAIN t.pending : t.pending[i].generation # t.generation
  BY <1>1, QueueType DEF InOrder, NoNewerThan
<1>3. InFlight(t) => t.job.generation # t.generation
  BY <1>1, QueueType DEF InOrder, NoNewerThan, InFlight
<1>4. QueueFits(t, dk, rc)
  BY <1>1 DEF Fits, QueueFits, InFlight
<1>5. t.saved <= other.revision
  BY <1>1 DEF DocumentType, None
<1>6. DocumentFits(t, other, dk, rc)
  BY <1>1, <1>2, <1>3, <1>5 DEF DocumentFits, OfDocument, InFlight
<1>7. ASSUME NEW q PROVE OnTheWay(t, q) = OnTheWay(s, q) /\ Owes(t, q) = Owes(s, q)
  <2>1. \A x : x \in OnTheWay(t, q) <=> x \in OnTheWay(s, q)
    BY <1>1, OnTheWayIs
  <2>2. Unreported(t) = Unreported(s)
    BY <1>1 DEF Unreported
  <2>3. QED
    BY <1>1, <2>1, <2>2 DEF Owes
<1>8. QED
  BY <1>1, <1>4, <1>6, <1>7 DEF Fits

(* What a document switch leaves to the saves. *)
Leaves(s, t, doc, dk, rc) ==
  /\ t.target = NoPhoto
  /\ \A q \in Photo :
       /\ OnTheWay(t, q) \subseteq OnTheWay(s, q) \cup OpenEdits(s, doc, q)
       /\ Owes(s, q) \cup OpenEdits(s, doc, q) \subseteq Owes(t, q) \cup dk[q] \cup rc

LEMMA BeginSidecarOpenFits ==
  ASSUME NEW s \in PersistenceType, NEW doc \in DocumentType, ~doc.dirty,
         NEW other \in DocumentType, NEW spawns, InOrder(s, doc.revision),
         NEW dk, NEW rc, Fits(s, doc, dk, rc),
         NEW t, t = BeginSidecarOpen(s, doc, spawns)
  PROVE  Fits(t, other, dk, rc) /\ Leaves(s, t, doc, dk, rc)
<1> DEFINE u == QueueNewest(s, doc)
           v == StartNext(u, doc, spawns)
<1>1. /\ Fits(u, doc, dk, rc) /\ Carries(s, u, doc, rc)
      /\ s.target # NoPhoto =>
           doc.committed \subseteq Owes(u, s.target) \cup dk[s.target] \cup rc
  BY QueueNewestFits
<1>2. u \in PersistenceType /\ InOrder(u, doc.revision)
  BY QueueNewestWell DEF Well
<1>3. t = Closed(v)
  BY DEF BeginSidecarOpen
<1> HIDE DEF u
<1>4. /\ Fits(v, doc, dk, rc) /\ Carries(u, v, doc, rc)
      /\ v \in PersistenceType /\ InOrder(v, doc.revision)
  BY <1>1, <1>2, StartNextFits, StartNextWell DEF Well
<1> HIDE DEF v
<1>5. /\ Fits(t, other, dk, rc) /\ t.target = NoPhoto
      /\ \A q : OnTheWay(t, q) = OnTheWay(v, q) /\ Owes(t, q) = Owes(v, q)
  BY <1>3, <1>4, ClosedFits
<1>6. Carries(s, v, doc, rc)
  BY <1>1, <1>4, CarriesOn
<1>7. ASSUME NEW q \in Photo
      PROVE  OpenEdits(s, doc, q) \subseteq Owes(t, q) \cup dk[q] \cup rc
  <2>1. CASE s.target = q
    <3>1. doc.committed \subseteq Owes(u, q) \cup dk[q] \cup rc
      BY <1>1, <2>1, ConstantsAssumption
    <3>2. Owes(u, q) \subseteq Owes(t, q) \cup rc
      BY <1>4, <1>5 DEF Carries
    <3>3. QED
      BY <2>1, <3>1, <3>2 DEF OpenEdits
  <2>2. CASE s.target # q
    BY <2>2 DEF OpenEdits
  <2>3. QED
    BY <2>1, <2>2
<1>8. QED
  BY <1>5, <1>6, <1>7 DEF Leaves, Carries

(* What is left of the queue still fits, and what was reported stays reported. *)
LEMMA DetachFits ==
  ASSUME NEW s \in PersistenceType, NEW doc \in DocumentType, NEW other \in DocumentType,
         InOrder(s, doc.revision), NEW dk, NEW rc, Fits(s, doc, dk, rc),
         NEW t, t = Detach(s)
  PROVE  /\ Fits(t, other, dk, rc) /\ t.target = NoPhoto
         /\ \A q : OnTheWay(t, q) \subseteq OnTheWay(s, q) /\ s.excused \subseteq Owes(t, q)
<1> DEFINE u == DropCurrent(s)
<1>1. t = Closed(u)
  BY DEF Detach
<1>2. u \in PersistenceType /\ InOrder(u, doc.revision)
  BY DropCurrentWell DEF Well
<1>3. u = DropCurrent(s)
  OBVIOUS
<1> HIDE DEF u
<1>4. /\ Fits(u, doc, dk, rc) /\ u.excused = s.excused
      /\ \A q : OnTheWay(u, q) \subseteq OnTheWay(s, q)
  <2>1. CASE u = s
    BY <2>1
  <2>2. CASE u # s
    <3>1. /\ u.target = s.target /\ u.generation = s.generation /\ u.saved = s.saved
          /\ u.job = s.job /\ u.thread = s.thread /\ u.excused = s.excused
      BY <1>3, <2>2, DropCurrentIs
    <3>2. PICK from \in [DOMAIN u.pending -> DOMAIN s.pending] :
            /\ \A i \in DOMAIN u.pending : u.pending[i] = s.pending[from[i]]
            /\ \A i, j \in DOMAIN u.pending : i < j => from[i] < from[j]
      BY <1>3, <2>2, DropCurrentIs
    <3>3. QueueFits(u, dk, rc)
      BY <3>1, <3>2 DEF Fits, QueueFits, InFlight
    <3>4. DocumentFits(u, doc, dk, rc)
      BY <3>1, <3>2 DEF Fits, DocumentFits, OfDocument, InFlight
    <3>5. ASSUME NEW q, NEW x \in OnTheWay(u, q)
          PROVE  x \in OnTheWay(s, q)
      BY <3>1, <3>2, <3>5, OnTheWayIs
    <3>6. QED
      BY <3>1, <3>3, <3>4, <3>5 DEF Fits
  <2>3. QED
    BY <2>1, <2>2
<1>5. /\ Fits(t, other, dk, rc) /\ t.target = NoPhoto
      /\ \A q : OnTheWay(t, q) = OnTheWay(u, q) /\ Owes(t, q) = Owes(u, q)
  BY <1>1, <1>2, <1>4, ClosedFits
<1>6. QED
  BY <1>4, <1>5 DEF Owes

(* The document of a load that ends holds what the load read, which is what its sidecar and the
   saves on their way there hold. *)
LEMMA InstallFits ==
  ASSUME NEW s \in PersistenceType, NEW old \in DocumentType, NEW doc \in DocumentType,
         doc.revision = old.revision, ~doc.dirty, InOrder(s, old.revision),
         NEW dk, NEW rc, Fits(s, old, dk, rc), s.target = NoPhoto,
         NEW photo \in Photo, NEW needsRewrite \in BOOLEAN, NEW spawns,
         dk[photo] \cup OnTheWay(s, photo) \subseteq doc.committed \cup rc,
         ~needsRewrite => dk[photo] \ rc = doc.committed \ rc,
         NEW t, t = InstallSidecarTarget(s, doc, photo, s.generation, needsRewrite, spawns)
  PROVE  /\ Fits(t, doc, dk, rc) /\ t.target = photo /\ t.generation = s.generation
         /\ \A q \in Photo :
              /\ OnTheWay(t, q) \subseteq OnTheWay(s, q) \cup OpenEdits(t, doc, q)
              /\ Owes(s, q) \subseteq Owes(t, q) \cup rc
<1> DEFINE installed == [s EXCEPT !.target = photo, !.failed = None,
                                  !.saved = IF needsRewrite THEN None ELSE doc.revision]
           queued == QueueCurrent(installed, doc, FALSE)
<1>1. /\ installed.pending = s.pending /\ installed.generation = s.generation
      /\ installed.job = s.job /\ installed.thread = s.thread
      /\ installed.target = photo /\ installed.excused = s.excused
      /\ installed.saved = IF needsRewrite THEN None ELSE doc.revision
  BY DEF PersistenceType
<1>2. installed \in PersistenceType
  BY DEF PersistenceType, DocumentType, OptRevision, Target
<1>3. t = IF needsRewrite THEN StartNext(queued, doc, spawns) ELSE installed
  BY DEF InstallSidecarTarget
<1> HIDE DEF installed
<1>4. InOrder(installed, doc.revision)
  BY <1>1, SameQueue
<1>5. /\ \A i \in DOMAIN s.pending : s.pending[i].generation # s.generation
      /\ InFlight(s) => s.job.generation # s.generation
  <2>1. \A r \in Request : r.target # NoPhoto
    BY ConstantsAssumption DEF Request
  <2>2. QED
    BY <2>1, QueueType DEF Fits, QueueFits, DocumentFits, OfDocument
<1>6. QueueFits(installed, dk, rc)
  BY <1>1 DEF Fits, QueueFits, InFlight
<1>7. DocumentFits(installed, doc, dk, rc)
  <2>1. /\ \A i \in DOMAIN s.pending :
             s.pending[i].target = photo => s.pending[i].edits \subseteq doc.committed \cup rc
        /\ s.thread = "writing" /\ s.job.target = photo =>
             s.job.edits \subseteq doc.committed \cup rc
    BY OnTheWayIs
  <2>2. installed.saved <= doc.revision
    BY <1>1 DEF DocumentType, None
  <2>3. installed.saved = doc.revision => dk[photo] \ rc = doc.committed \ rc
    BY <1>1 DEF DocumentType, None
  <2>4. QED
    BY <1>1, <1>5, <2>1, <2>2, <2>3 DEF DocumentFits, OfDocument, InFlight
<1>8. ASSUME NEW q
      PROVE  OnTheWay(installed, q) = OnTheWay(s, q) /\ Owes(installed, q) = Owes(s, q)
  <2>1. \A x : x \in OnTheWay(installed, q) <=> x \in OnTheWay(s, q)
    BY <1>1, OnTheWayIs
  <2>2. Unreported(installed) = Unreported(s)
    BY <1>1 DEF Unreported
  <2>3. QED
    BY <1>1, <2>1, <2>2 DEF Owes
<1>9. /\ Fits(queued, doc, dk, rc) /\ Carries(installed, queued, doc, rc)
      /\ queued \in PersistenceType
  BY <1>2, <1>4, <1>6, <1>7, QueueCurrentFits, QueueCurrentWell DEF Fits, Well
<1> HIDE DEF queued
<1>10. Fits(t, doc, dk, rc) /\ Carries(installed, t, doc, rc)
  BY <1>3, <1>6, <1>7, <1>9, StartNextFits, CarriesOn, CarriesNothing DEF Fits
<1>11. QED
  BY <1>1, <1>8, <1>10 DEF Carries, OpenEdits

-----------------------------------------------------------------------------
(* The sidecars. *)

(* The edits that count as raced only grow. *)
LEMMA RacedFits ==
  ASSUME NEW s, NEW doc, NEW dk, NEW rc, NEW more, rc \subseteq more,
         Fits(s, doc, dk, rc)
  PROVE  Fits(s, doc, dk, more)
<1>1. QueueFits(s, dk, more)
  BY DEF Fits, QueueFits
<1>2. DocumentFits(s, doc, dk, more)
  BY DEF Fits, DocumentFits
<1>3. QED
  BY <1>1, <1>2 DEF Fits

(* Once its thread has ended the running save is no longer on its way. *)
LEMMA EndedOnTheWay ==
  ASSUME NEW s, NEW t, NEW q, t.pending = s.pending, t.job = s.job, t.thread # "writing"
  PROVE  /\ OnTheWay(t, q) \subseteq OnTheWay(s, q)
         /\ OnTheWay(s, q) \subseteq
              OnTheWay(t, q) \cup (IF s.job.target = q THEN s.job.edits ELSE {})
<1>1. ASSUME NEW x \in OnTheWay(t, q)
      PROVE  x \in OnTheWay(s, q)
  <2>1. \E i \in DOMAIN t.pending : t.pending[i].target = q /\ x \in t.pending[i].edits
    BY OnTheWayIs
  <2>2. QED
    BY <2>1, OnTheWayIs
<1>2. ASSUME NEW x \in OnTheWay(s, q)
      PROVE  x \in OnTheWay(t, q) \/ (s.job.target = q /\ x \in s.job.edits)
  <2>1. \/ \E i \in DOMAIN s.pending : s.pending[i].target = q /\ x \in s.pending[i].edits
        \/ s.thread = "writing" /\ s.job.target = q /\ x \in s.job.edits
    BY OnTheWayIs
  <2>2. QED
    BY <2>1, OnTheWayIs
<1>3. QED
  BY <1>1, <1>2

(* The thread writes its request: later saves and the document hold what it wrote. *)
LEMMA WriteFits ==
  ASSUME NEW s \in PersistenceType, NEW doc \in DocumentType, s.thread = "writing",
         NEW dk \in [Photo -> SUBSET Edit], NEW rc, Fits(s, doc, dk, rc),
         NEW t, NEW thread \in {"ok", "failed", "unsupported", "dead"},
         t = [s EXCEPT !.thread = thread],
         NEW dw, \/ dw = [dk EXCEPT ![s.job.target] = s.job.edits]
                 \/ dw = dk /\ thread # "ok"
  PROVE  /\ Fits(t, doc, dw, rc)
         /\ t.target = s.target /\ t.generation = s.generation
         /\ \A q \in Photo :
              /\ dk[q] \subseteq dw[q] \cup rc
              /\ dw[q] \subseteq dk[q] \cup OnTheWay(s, q)
              /\ OnTheWay(t, q) \subseteq OnTheWay(s, q)
              /\ Owes(s, q) \subseteq Owes(t, q) \cup dw[q]
<1>1. /\ t.pending = s.pending /\ t.generation = s.generation /\ t.target = s.target
      /\ t.saved = s.saved /\ t.job = s.job /\ t.excused = s.excused /\ t.thread = thread
  BY DEF PersistenceType
<1>2. s.job.target \in Photo /\ s.job \in Request
  BY DEF Fits, QueueFits, InFlight, Request
<1>3. /\ \A q \in Photo : q # s.job.target => dw[q] = dk[q]
      /\ \/ dw[s.job.target] = s.job.edits
         \/ dw[s.job.target] = dk[s.job.target] /\ thread # "ok"
      /\ dk[s.job.target] \subseteq s.job.edits \cup rc
  BY <1>2 DEF Fits, QueueFits
<1>4. \A i \in DOMAIN s.pending : s.pending[i].target \in Photo
  BY QueueType DEF Request
<1>5. QueueFits(t, dw, rc)
  <2>1. \A i \in DOMAIN s.pending :
          dw[s.pending[i].target] \subseteq s.pending[i].edits \cup rc
    BY <1>3, <1>4 DEF Fits, QueueFits
  <2>2. QED
    BY <1>1, <1>2, <2>1 DEF Fits, QueueFits
<1>6. DocumentFits(t, doc, dw, rc)
  <2>1. s.target # NoPhoto =>
          /\ s.target \in Photo
          /\ dw[s.target] \subseteq doc.committed \cup rc
          /\ s.saved = doc.revision => dw[s.target] \ rc = doc.committed \ rc
    <3>1. s.target # NoPhoto => s.target \in Photo
      BY DEF PersistenceType, Target
    <3>2. CASE s.target = s.job.target
      BY <1>3, <3>1, <3>2 DEF Fits, DocumentFits
    <3>3. CASE s.target # s.job.target
      BY <1>3, <3>1, <3>3 DEF Fits, DocumentFits
    <3>4. QED
      BY <3>2, <3>3
  <2>2. t.thread = "ok" => dw[t.job.target] = t.job.edits
    BY <1>1, <1>3
  <2>3. QED
    BY <1>1, <2>1, <2>2 DEF Fits, DocumentFits, OfDocument, InFlight
<1>7. ASSUME NEW q \in Photo
      PROVE  /\ dk[q] \subseteq dw[q] \cup rc
             /\ dw[q] \subseteq dk[q] \cup OnTheWay(s, q)
             /\ OnTheWay(t, q) \subseteq OnTheWay(s, q)
             /\ Owes(s, q) \subseteq Owes(t, q) \cup dw[q]
  <2>1. s.job.target = q => s.job.edits \subseteq OnTheWay(s, q)
    BY OnTheWayIs
  <2>2. OnTheWay(t, q) \subseteq OnTheWay(s, q)
    BY <1>1, EndedOnTheWay
  <2>3. OnTheWay(s, q) \subseteq OnTheWay(t, q) \cup (IF s.job.target = q THEN s.job.edits ELSE {})
    BY <1>1, EndedOnTheWay
  <2>4. \/ Unreported(t) = s.job.edits
        \/ dw[s.job.target] = s.job.edits
    BY <1>1, <1>3 DEF Unreported
  <2>5. Unreported(s) = {}
    BY DEF Unreported
  <2>6. QED
    BY <1>1, <1>3, <2>1, <2>2, <2>3, <2>4, <2>5 DEF Owes
<1>8. QED
  BY <1>1, <1>5, <1>6, <1>7 DEF Fits

-----------------------------------------------------------------------------
(* The inductive invariant of the edits, on top of IndInv. *)

(* A load holds what its photo's sidecar and the saves on their way there hold, once it has
   read it, or from the start when the edits in memory are kept. *)
LoadFits ==
  /\ load.photo = NoPhoto <=> load.state = "none"
  /\ load.photo # NoPhoto =>
       /\ p.target = NoPhoto /\ load.generation = p.generation
       /\ load.kept \/ load.state = "loaded" =>
            disk[load.photo] \cup OnTheWay(p, load.photo) \subseteq load.edits \cup raced
       /\ load.state = "loaded" /\ ~load.kept =>
            disk[load.photo] \ raced = load.edits \ raced

(* No document was ever read from an unreadable sidecar, so none is in it. *)
UnreadableFits == \A q \in unreadable : disk[q] = {}

(* No place has edits that are not wanted. *)
WantedFits ==
  /\ \A q \in Photo :
       disk[q] \cup OnTheWay(p, q) \cup OpenEdits(p, d, q) \subseteq wanted[q] \cup raced
  /\ load.photo # NoPhoto /\ (load.kept \/ load.state = "loaded") =>
       load.edits \subseteq wanted[load.photo] \cup raced

(* What needs no document any more. *)
Safe(q) == disk[q] \cup raced \cup Owes(p, q)

(* Every wanted edit is safe or in the open document, *)
AllHeld == \A q \in Photo : wanted[q] \subseteq Safe(q) \cup OpenEdits(p, d, q)

(* and all are safe before the flush's caller drops the document. *)
FlushHolds == Flushing => \A q \in Photo : OpenEdits(p, d, q) \subseteq Safe(q)

DataInv ==
  /\ Fits(p, d, disk, raced)
  /\ LoadFits /\ UnreadableFits /\ WantedFits
  /\ AllHeld /\ FlushHolds /\ ExitSavesEverything

LEMMA InitData == ASSUME Init, IndInv PROVE DataInv
<1>1. /\ p.target = NoPhoto /\ p.generation = 0 /\ p.saved = None /\ p.pending = <<>>
      /\ p.thread = "idle" /\ p.excused = {}
      /\ d.committed = {} /\ d.revision = 0
      /\ load.photo = NoPhoto /\ load.state = "none" /\ ui = "running"
      /\ \A q \in Photo : disk[q] = {} /\ wanted[q] = {}
      /\ unreadable \subseteq Photo /\ raced = {}
  BY DEF Init, NoLoad
<1>2. QueueFits(p, disk, raced)
  BY <1>1 DEF QueueFits, InFlight
<1>3. DocumentFits(p, d, disk, raced)
  BY <1>1 DEF DocumentFits, InFlight, None
<1>4. \A q : OnTheWay(p, q) = {}
  <2> SUFFICES ASSUME NEW q, NEW x PROVE x \notin OnTheWay(p, q)
    OBVIOUS
  <2>1. QED
    BY <1>1, OnTheWayIs
<1>5. \A q : OpenEdits(p, d, q) = {}
  BY <1>1 DEF OpenEdits
<1>6. LoadFits /\ UnreadableFits /\ WantedFits
  BY <1>1, <1>4, <1>5 DEF LoadFits, UnreadableFits, WantedFits
<1>7. AllHeld /\ FlushHolds /\ ExitSavesEverything
  BY <1>1 DEF AllHeld, FlushHolds, Flushing, ExitSavesEverything
<1>8. QED
  BY <1>2, <1>3, <1>6, <1>7 DEF DataInv, Fits

(* What the queued edits are wanted of. *)
LEMMA WantedGrows ==
  ASSUME NEW now \in DocumentType, OthersType, p.target \in Target,
         NEW q \in Photo
  PROVE  /\ wanted[q] \subseteq WantedWith(now)[q]
         /\ WantedWith(now)[q] \subseteq wanted[q] \cup OpenEdits(p, now, q)
         /\ OpenEdits(p, now, q) \subseteq OpenEdits(p, d, q) \cup WantedWith(now)[q]
<1>1. wanted \in [Photo -> SUBSET Edit]
  BY DEF OthersType
<1>2. CASE p.target = NoPhoto
  BY <1>2, ConstantsAssumption DEF WantedWith, OpenEdits
<1>3. CASE p.target # NoPhoto
  <2>1. WantedWith(now) =
          [wanted EXCEPT ![p.target] = wanted[p.target] \cup (now.committed \ d.committed)]
    BY <1>3 DEF WantedWith
  <2>2. CASE q = p.target
    <3>1. WantedWith(now)[q] = wanted[q] \cup (now.committed \ d.committed)
      BY <1>1, <2>1, <2>2
    <3>2. QED
      BY <2>2, <3>1 DEF OpenEdits
  <2>3. CASE q # p.target
    <3>1. WantedWith(now)[q] = wanted[q]
      BY <1>1, <2>1, <2>3
    <3>2. QED
      BY <2>3, <3>1 DEF OpenEdits
  <2>4. QED
    BY <2>2, <2>3
<1>4. QED
  BY <1>2, <1>3

(* A step of the frame, a button or the flush that runs handlers on the queue. *)
LEMMA HandlerKeeps ==
  ASSUME IndInv, DataInv, NEW now \in DocumentType, MovesOn(d, now),
         d' = now, wanted' = WantedWith(now), UNCHANGED <<load, disk, unreadable, raced>>,
         Fits(p', now, disk, raced), Carries(p, p', now, raced),
         ui # "exited",
         \/ ui' = ui /\ (ui = "running" \/ now = d)
         \/ /\ ui' \in {"exiting", "resetting"}
            /\ \A q \in Photo : OpenEdits(p, now, q) \subseteq Owes(p', q) \cup disk[q] \cup raced
  PROVE  DataInv'
<1>1. OthersType /\ p.target \in Target
  BY IndInvParts DEF Well, PersistenceType
<1>2. /\ p'.target = p.target /\ p'.generation = p.generation
      /\ \A q \in Photo :
           /\ OnTheWay(p', q) \subseteq OnTheWay(p, q) \cup OpenEdits(p, now, q)
           /\ Owes(p, q) \subseteq Owes(p', q) \cup raced
           /\ OpenEdits(p', now, q) = OpenEdits(p, now, q)
           /\ OpenEdits(p, d, q) \subseteq OpenEdits(p, now, q)
  BY DEF Carries, OpenEdits, MovesOn
<1>3. Fits(p, d, disk, raced)' 
  OBVIOUS
<1>4. LoadFits'
  <2>1. load.photo # NoPhoto =>
          /\ load.photo \in Photo /\ p.target = NoPhoto
          /\ OnTheWay(p', load.photo) \subseteq OnTheWay(p, load.photo)
    <3>1. load.photo # NoPhoto => load.photo \in Photo /\ p.target = NoPhoto
      BY <1>1 DEF DataInv, LoadFits, OthersType, LoadType, Target
    <3>2. QED
      BY <1>2, <3>1, ConstantsAssumption DEF OpenEdits
  <2>2. QED
    BY <1>2, <2>1 DEF DataInv, LoadFits
<1>5. UnreadableFits'
  BY DEF DataInv, UnreadableFits
<1>6. WantedFits'
  <2>1. ASSUME NEW q \in Photo
        PROVE  /\ disk[q] \cup OnTheWay(p', q) \cup OpenEdits(p', d', q) \subseteq wanted'[q] \cup raced
               /\ wanted[q] \subseteq wanted'[q]
    <3>1. disk[q] \cup OnTheWay(p, q) \cup OpenEdits(p, d, q) \subseteq wanted[q] \cup raced
      BY DEF DataInv, WantedFits
    <3>2. /\ wanted[q] \subseteq wanted'[q]
          /\ OpenEdits(p, now, q) \subseteq OpenEdits(p, d, q) \cup wanted'[q]
      BY <1>1, WantedGrows
    <3>3. QED
      BY <1>2, <3>1, <3>2
  <2>2. load.photo # NoPhoto => load.photo \in Photo
    BY <1>1 DEF OthersType, LoadType, Target
  <2>3. load.photo # NoPhoto /\ (load.kept \/ load.state = "loaded") =>
          load.edits \subseteq wanted'[load.photo] \cup raced
    BY <2>1, <2>2 DEF DataInv, WantedFits
  <2>4. QED
    BY <2>1, <2>3 DEF WantedFits
<1>7. ASSUME NEW q \in Photo
      PROVE  /\ Safe(q) \subseteq Safe(q)'
             /\ Safe(q)' = disk[q] \cup raced \cup Owes(p', q)
  BY <1>2 DEF Safe
<1>8. AllHeld'
  <2> SUFFICES ASSUME NEW q \in Photo
               PROVE  wanted'[q] \subseteq Safe(q)' \cup OpenEdits(p', d', q)
    BY DEF AllHeld
  <2>1. wanted[q] \subseteq Safe(q) \cup OpenEdits(p, d, q)
    BY DEF DataInv, AllHeld
  <2>2. wanted'[q] \subseteq wanted[q] \cup OpenEdits(p, now, q)
    BY <1>1, WantedGrows
  <2>3. QED
    BY <1>2, <1>7, <2>1, <2>2
<1>9. FlushHolds'
  <2> SUFFICES ASSUME Flushing', NEW q \in Photo
               PROVE  OpenEdits(p', d', q) \subseteq Safe(q)'
    BY DEF FlushHolds
  <2>1. CASE \A r \in Photo : OpenEdits(p, now, r) \subseteq Owes(p', r) \cup disk[r] \cup raced
    BY <1>2, <1>7, <2>1
  <2>2. CASE ui' = ui /\ (ui = "running" \/ now = d)
    <3>1. Flushing /\ now = d
      BY <2>2 DEF Flushing
    <3>2. OpenEdits(p, d, q) \subseteq Safe(q)
      BY <3>1 DEF DataInv, FlushHolds
    <3>3. QED
      BY <1>2, <1>7, <3>1, <3>2
  <2>3. QED
    BY <2>1, <2>2
<1>10. ExitSavesEverything'
  BY DEF ExitSavesEverything
<1>11. QED
  BY <1>3, <1>4, <1>5, <1>6, <1>8, <1>9, <1>10 DEF DataInv

(* Without new edits there is nothing new to want. *)
LEMMA WantedStays ==
  ASSUME OthersType, NEW now, now.committed = d.committed
  PROVE  WantedWith(now) = wanted
  BY DEF WantedWith, OthersType

(* The user's edits reach no save before the next frame. *)
LEMMA EditData ==
  ASSUME IndInv, DataInv, Change \/ ChangeGeometry \/ Release \/ ApplyRetouch
  PROVE  DataInv'
<1>1. Well(p, d) /\ OthersType /\ d' \in DocumentType /\ d \in DocumentType
  <2>1. Well(p, d) /\ OthersType /\ d \in DocumentType
    BY IndInvParts DEF OthersType
  <2>2. d' \in DocumentType
    BY EditInv DEF IndInv, TypeOK
  <2>3. QED
    BY <2>1, <2>2
<1>2. p' = p /\ ui = "running" /\ UNCHANGED <<load, ui, disk, unreadable, raced>>
  <2>1. p' = p /\ UNCHANGED <<load, ui, disk, unreadable, raced>>
    BY DEF Change, ChangeGeometry, Release, ApplyRetouch, files, history
  <2>2. ui = "running"
    BY Zenon DEF Change, ChangeGeometry, Release, ApplyRetouch, Running
  <2>3. QED
    BY <2>1, <2>2
<1>3. MovesOn(d, d') /\ wanted' = WantedWith(d')
  <2>1. CASE Change
    <3>1. PICK gesture \in Gesture : d' = [d EXCEPT !.dirty = TRUE, !.gesture = gesture]
      BY <2>1 DEF Change
    <3>2. d'.committed = d.committed /\ d'.revision = d.revision
      BY <1>1, <3>1 DEF DocumentType
    <3>3. wanted' = wanted
      BY <2>1 DEF Change, history
    <3>4. QED
      BY <1>1, <3>2, <3>3, WantedStays DEF MovesOn
  <2>2. CASE ChangeGeometry
    <3>1. d'.committed = d.committed /\ d'.revision = d.revision + 1 /\ wanted' = wanted
      BY <1>1, <2>2 DEF ChangeGeometry, history, DocumentType
    <3>2. QED
      BY <1>1, <3>1, WantedStays DEF MovesOn, DocumentType
  <2>3. CASE Release
    <3>1. d'.committed = d.committed /\ d'.revision = d.revision /\ wanted' = wanted
      BY <1>1, <2>3 DEF Release, history, DocumentType
    <3>2. QED
      BY <1>1, <3>1, WantedStays DEF MovesOn
  <2>4. CASE ApplyRetouch
    <3> DEFINE now == Commit(d)
               retouched == [now EXCEPT !.committed = now.committed \cup {now.revision + 1},
                                        !.revision = now.revision + 1]
    <3>1. now \in DocumentType /\ MovesOn(d, now)
      BY <1>1, CommitType, CommitMovesOn
    <3>2. d' = retouched /\ wanted' = WantedWith(retouched)
      BY <2>4 DEF ApplyRetouch
    <3> HIDE DEF now
    <3>3. /\ retouched.committed = now.committed \cup {now.revision + 1}
          /\ retouched.revision = now.revision + 1
      BY <3>1 DEF DocumentType
    <3>4. d.revision \in Nat /\ now.revision \in Nat
      BY <1>1, <3>1 DEF DocumentType
    <3> HIDE DEF retouched
    <3>5. QED
      BY <3>1, <3>2, <3>3, <3>4 DEF MovesOn
  <2>5. QED
    BY <2>1, <2>2, <2>3, <2>4
<1>4. Fits(p, d', disk, raced)
  BY <1>1, <1>3, MovedFits DEF DataInv, Well
<1>5. QED
  BY <1>1, <1>2, <1>3, <1>4, CarriesNothing, HandlerKeeps

(* A frame saves what it has committed. *)
LEMMA SyncData ==
  ASSUME IndInv, DataInv, SyncPersistence
  PROVE  DataInv'
<1> DEFINE now == Observe(d)
<1>1. Well(p, d) /\ d \in DocumentType
  BY IndInvParts DEF OthersType
<1>2. /\ now \in DocumentType /\ MovesOn(d, now)
      /\ now.gesture = "none" => ~now.dirty
  <2>1. CASE d.gesture = "pointer"
    BY <1>1, <2>1 DEF Observe, MovesOn
  <2>2. CASE d.gesture # "pointer"
    BY <1>1, <2>2, CommitType, CommitMovesOn DEF Observe
  <2>3. QED
    BY <2>1, <2>2
<1>3. /\ d' = now /\ wanted' = WantedWith(now)
      /\ ui = "running" /\ UNCHANGED <<load, ui, disk, unreadable, raced>>
  BY DEF SyncPersistence, files, Running
<1>4. PICK first \in Spawns, second \in Spawns :
        p' = PollSave(ScheduleAutosave(p, now, first), now, second)
  BY DEF SyncPersistence
<1> HIDE DEF now
<1>5. /\ p \in PersistenceType /\ InOrder(p, now.revision)
      /\ Fits(p, now, disk, raced)
  <2>1. now.revision >= d.revision
    BY <1>1, <1>2 DEF MovesOn, DocumentType
  <2>2. QED
    BY <1>1, <1>2, <2>1, WellFor, MovedFits DEF Well, DataInv
<1> DEFINE u == ScheduleAutosave(p, now, first)
<1>6. /\ Fits(u, now, disk, raced) /\ Carries(p, u, now, raced)
      /\ u \in PersistenceType /\ InOrder(u, now.revision)
  BY <1>2, <1>5, ScheduleAutosaveFits, ScheduleAutosaveWell DEF Well
<1> HIDE DEF u
<1>7. p' = PollSave(u, now, second)
  BY <1>4 DEF u
<1>8. Fits(p', now, disk, raced) /\ Carries(u, p', now, raced)
  BY <1>2, <1>6, <1>7, PollSaveFits
<1>9. Carries(p, p', now, raced)
  BY <1>6, <1>8, CarriesOn
<1>10. QED
  BY <1>2, <1>3, <1>8, <1>9, HandlerKeeps

(* An explicit save queues what it has committed. *)
LEMMA SaveNowData ==
  ASSUME IndInv, DataInv, Running, NEW s \in PersistenceType, SameSaves(p, s), SaveNow(s)
  PROVE  DataInv'
<1> DEFINE now == Commit(d)
           cleared == [s EXCEPT !.failed = None]
<1>1. Well(p, d) /\ d \in DocumentType
  BY IndInvParts DEF OthersType
<1>2. now \in DocumentType /\ MovesOn(d, now) /\ ~now.dirty /\ now.revision >= d.revision
  BY <1>1, CommitType, CommitMovesOn
<1>3. /\ d' = now /\ wanted' = WantedWith(now)
      /\ ui = "running" /\ UNCHANGED <<load, ui, disk, unreadable, raced>>
  BY DEF SaveNow, files, Running
<1>4. PICK spawns \in Spawns :
        p' = StartNext(QueueCurrent(cleared, now, TRUE), now, spawns)
  BY DEF SaveNow
<1> HIDE DEF now
<1>5. p \in PersistenceType /\ InOrder(p, now.revision) /\ Fits(p, now, disk, raced)
  BY <1>1, <1>2, WellFor, MovedFits DEF Well, DataInv
<1>6. SameSaves(p, cleared) /\ cleared \in PersistenceType
  BY DEF SameSaves, PersistenceType, OptRevision
<1> HIDE DEF cleared
<1>7. /\ Fits(cleared, now, disk, raced) /\ Carries(p, cleared, now, raced)
      /\ InOrder(cleared, now.revision)
  <2>1. InOrder(cleared, now.revision)
    BY <1>5, <1>6 DEF SameSaves, InOrder, OldestFirst, NoNewerThan, InFlight
  <2>2. QED
    BY <1>5, <1>6, <2>1, SameSavesFit
<1> DEFINE u == QueueCurrent(cleared, now, TRUE)
<1>8. /\ Fits(u, now, disk, raced) /\ Carries(cleared, u, now, raced)
      /\ u \in PersistenceType
  BY <1>2, <1>6, <1>7, QueueCurrentFits, QueueCurrentWell DEF Well
<1> HIDE DEF u
<1>9. p' = StartNext(u, now, spawns)
  BY <1>4 DEF u
<1>10. Fits(p', now, disk, raced) /\ Carries(u, p', now, raced)
  BY <1>8, <1>9, StartNextFits
<1>11. Carries(p, p', now, raced)
  <2>1. Carries(p, u, now, raced)
    BY <1>7, <1>8, CarriesOn
  <2>2. QED
    BY <1>10, <2>1, CarriesOn
<1>12. QED
  BY <1>2, <1>3, <1>10, <1>11, HandlerKeeps

LEMMA SaveData ==
  ASSUME IndInv, DataInv, SaveEdits \/ Retry
  PROVE  DataInv'
<1>1. p \in PersistenceType
  BY IndInvParts DEF Well
<1>2. CASE SaveEdits
  BY <1>1, <1>2, SaveNowData DEF SaveEdits, SameSaves
<1>3. CASE Retry
  <2> DEFINE s == [p EXCEPT !.recovery = NoRequest]
  <2>1. s \in PersistenceType /\ SameSaves(p, s)
    BY <1>1 DEF PersistenceType, SameSaves
  <2>2. Running /\ SaveNow(s)
    BY <1>3 DEF Retry
  <2> HIDE DEF s
  <2>3. QED
    BY <2>1, <2>2, SaveNowData
<1>4. QED
  BY <1>2, <1>3

(* The deadline and the dialog move no save. *)
LEMMA DialogData ==
  ASSUME IndInv, DataInv, DeadlinePasses \/ CloseFailureDialog
  PROVE  DataInv'
<1>1. p \in PersistenceType /\ d \in DocumentType /\ OthersType
  BY IndInvParts DEF Well, OthersType
<1>2. ui = "running" /\ UNCHANGED <<d, load, ui, disk, unreadable, wanted, raced>>
  BY DEF DeadlinePasses, CloseFailureDialog, files, history, Running
<1>3. SameSaves(p, p')
  BY <1>1 DEF DeadlinePasses, CloseFailureDialog, SameSaves, PersistenceType
<1>4. Fits(p', d, disk, raced) /\ Carries(p, p', d, raced)
  BY <1>3, SameSavesFit DEF DataInv
<1>5. MovesOn(d, d) /\ WantedWith(d) = wanted
  BY <1>1, WantedStays DEF MovesOn
<1>6. QED
  BY <1>1, <1>2, <1>4, <1>5, HandlerKeeps

(* A flush leaves its newest state to the saves before it waits for them, *)
LEMMA StartFlushData ==
  ASSUME IndInv, DataInv, NEW next \in {"exiting", "resetting"}, StartFlush(next)
  PROVE  DataInv'
<1> DEFINE now == Commit(d)
<1>1. Well(p, d) /\ d \in DocumentType
  BY IndInvParts DEF OthersType
<1>2. now \in DocumentType /\ MovesOn(d, now) /\ ~now.dirty /\ now.revision >= d.revision
  BY <1>1, CommitType, CommitMovesOn
<1>3. /\ d' = now /\ wanted' = WantedWith(now) /\ p' = QueueNewest(p, now)
      /\ ui = "running" /\ ui' = next /\ UNCHANGED <<load, disk, unreadable, raced>>
  BY DEF StartFlush, files, Running
<1> HIDE DEF now
<1>4. p \in PersistenceType /\ InOrder(p, now.revision) /\ Fits(p, now, disk, raced)
  BY <1>1, <1>2, WellFor, MovedFits DEF Well, DataInv
<1>5. /\ Fits(p', now, disk, raced) /\ Carries(p, p', now, raced)
      /\ p.target # NoPhoto =>
           now.committed \subseteq Owes(p', p.target) \cup disk[p.target] \cup raced
  BY <1>2, <1>3, <1>4, QueueNewestFits
<1>6. \A q \in Photo : OpenEdits(p, now, q) \subseteq Owes(p', q) \cup disk[q] \cup raced
  BY <1>5, ConstantsAssumption DEF OpenEdits
<1>7. QED
  BY <1>2, <1>3, <1>5, <1>6, HandlerKeeps

(* and keeps them so round by round. *)
LEMMA FlushRoundData ==
  ASSUME IndInv, DataInv, FlushRound
  PROVE  DataInv'
<1>1. p \in PersistenceType /\ InOrder(p, d.revision) /\ d \in DocumentType /\ OthersType
  BY IndInvParts DEF Well, OthersType
<1>2. PICK spawns \in Spawns : p' = PollSave(p, d, spawns)
  BY DEF FlushRound
<1>3. ui # "exited" /\ UNCHANGED <<d, load, ui, disk, unreadable, wanted, raced>>
  BY DEF FlushRound, Flushing, files, history
<1>4. Fits(p', d, disk, raced) /\ Carries(p, p', d, raced)
  BY <1>1, <1>2, PollSaveFits DEF DataInv
<1>5. MovesOn(d, d) /\ WantedWith(d) = wanted
  BY <1>1, WantedStays DEF MovesOn
<1>6. QED
  BY <1>1, <1>3, <1>4, <1>5, HandlerKeeps

(* The save thread takes an edit off the way only by writing it, or with a failure to report. *)
LEMMA SaveThreadData ==
  ASSUME IndInv, DataInv, SaveThread
  PROVE  DataInv'
<1>1. p \in PersistenceType /\ d \in DocumentType /\ OthersType
  BY IndInvParts DEF Well, OthersType
<1>2. p.thread = "writing" /\ UNCHANGED <<d, load, ui, unreadable, wanted, raced>>
  BY DEF SaveThread, WriteSidecar, WriteFails, SaveThreadDies, files, history
<1>3. PICK thread \in {"ok", "failed", "unsupported", "dead"} :
        /\ p' = [p EXCEPT !.thread = thread]
        /\ \/ /\ disk' = [disk EXCEPT ![p.job.target] = p.job.edits]
              /\ p.job.target \notin unreadable
           \/ disk' = disk /\ thread # "ok"
  <2>1. CASE WriteSidecar
    BY <2>1 DEF WriteSidecar
  <2>2. CASE WriteFails
    BY <2>2 DEF WriteFails, files
  <2>3. CASE SaveThreadDies
    BY <2>3 DEF SaveThreadDies
  <2>4. QED
    BY <2>1, <2>2, <2>3 DEF SaveThread
<1>4. disk \in [Photo -> SUBSET Edit]
  BY <1>1 DEF OthersType
<1>5. /\ Fits(p', d, disk', raced)
      /\ p'.target = p.target /\ p'.generation = p.generation
      /\ \A q \in Photo :
           /\ disk[q] \subseteq disk'[q] \cup raced
           /\ disk'[q] \subseteq disk[q] \cup OnTheWay(p, q)
           /\ OnTheWay(p', q) \subseteq OnTheWay(p, q)
           /\ Owes(p, q) \subseteq Owes(p', q) \cup disk'[q]
  BY <1>1, <1>2, <1>3, <1>4, WriteFits DEF DataInv
<1>6. p'.excused = p.excused
  BY <1>1, <1>3 DEF PersistenceType
<1>7. \A q \in unreadable : disk'[q] = disk[q]
  BY <1>1, <1>3, <1>4 DEF OthersType
<1>8. Fits(p, d, disk, raced)'
  BY <1>2, <1>5
<1>9. load.photo # NoPhoto => load.photo \in Photo
  BY <1>1 DEF OthersType, LoadType, Target
<1>10. LoadFits'
  <2>1. load.photo # NoPhoto =>
          /\ disk[load.photo] \subseteq disk'[load.photo] \cup raced
          /\ disk'[load.photo] \subseteq disk[load.photo] \cup OnTheWay(p, load.photo)
          /\ OnTheWay(p', load.photo) \subseteq OnTheWay(p, load.photo)
    BY <1>5, <1>9
  <2>2. QED
    BY <1>2, <1>5, <2>1 DEF DataInv, LoadFits
<1>11. UnreadableFits'
  BY <1>2, <1>7 DEF DataInv, UnreadableFits
<1>12. WantedFits'
  <2>1. \A q \in Photo :
          disk'[q] \cup OnTheWay(p', q) \cup OpenEdits(p', d', q) \subseteq wanted[q] \cup raced
    BY <1>2, <1>5 DEF DataInv, WantedFits, OpenEdits
  <2>2. QED
    BY <1>2, <2>1 DEF DataInv, WantedFits
<1>13. \A q \in Photo : Safe(q) \subseteq Safe(q)' /\ OpenEdits(p', d', q) = OpenEdits(p, d, q)
  BY <1>2, <1>5 DEF Safe, OpenEdits
<1>14. AllHeld'
  BY <1>2, <1>13 DEF DataInv, AllHeld
<1>15. FlushHolds'
  BY <1>2, <1>13 DEF DataInv, FlushHolds, Flushing
<1>16. ExitSavesEverything'
  BY <1>2, <1>5, <1>6 DEF DataInv, ExitSavesEverything
<1>17. QED
  BY <1>8, <1>10, <1>11, <1>12, <1>14, <1>15, <1>16 DEF DataInv

-----------------------------------------------------------------------------
(* Loads. *)

(* What is on the way while the load thread reads is what it may miss. *)
LEMMA LoadThreadData ==
  ASSUME IndInv, DataInv, LoadThread
  PROVE  DataInv'
<1>1. OthersType /\ load \in LoadType
  BY IndInvParts DEF OthersType
<1>2. load.state = "reading" /\ load.photo \in Photo
  <2>1. load.state = "reading"
    BY DEF LoadThread, ReadSidecar, LoadFails
  <2>2. load.photo # NoPhoto
    BY <2>1 DEF DataInv, LoadFits
  <2>3. QED
    BY <1>1, <2>1, <2>2 DEF LoadType, Target
<1>3. p' = p /\ d' = d /\ ui' = ui /\ disk' = disk /\ unreadable' = unreadable /\ wanted' = wanted
  BY DEF LoadThread, ReadSidecar, LoadFails, files, history
<1>4. /\ load'.photo = load.photo /\ load'.generation = load.generation
      /\ load'.kept = load.kept /\ load'.state \in {"loaded", "failed"}
      /\ raced \subseteq raced'
      /\ load'.kept \/ load'.state = "loaded" =>
           disk[load.photo] \cup OnTheWay(p, load.photo) \subseteq load'.edits \cup raced'
      /\ load'.state = "loaded" /\ ~load'.kept => load'.edits = disk[load.photo]
      /\ load'.kept => load'.edits = load.edits
  <2>1. CASE ReadSidecar
    <3> DEFINE found == IF load.kept THEN load.edits
                        ELSE IF load.photo \in unreadable THEN {}
                        ELSE disk[load.photo]
    <3>1. /\ load' = [load EXCEPT !.state = "loaded", !.edits = found]
          /\ raced' = raced \cup (OnTheWay(p, load.photo) \ found)
      BY <2>1 DEF ReadSidecar
    <3>2. /\ load.kept => found = load.edits
          /\ ~load.kept => found = disk[load.photo]
      BY DEF DataInv, UnreadableFits
    <3> HIDE DEF found
    <3>3. /\ load'.photo = load.photo /\ load'.generation = load.generation
          /\ load'.kept = load.kept /\ load'.state = "loaded" /\ load'.edits = found
      BY <1>1, <3>1 DEF LoadType
    <3>4. disk[load.photo] \subseteq found \cup raced
      <4>1. load.kept => disk[load.photo] \subseteq load.edits \cup raced
        BY <1>2, ConstantsAssumption DEF DataInv, LoadFits
      <4>2. QED
        BY <3>2, <4>1
    <3>5. QED
      BY <3>1, <3>2, <3>3, <3>4
  <2>2. CASE LoadFails
    <3>1. load' = [load EXCEPT !.state = "failed"] /\ raced' = raced
      BY <2>2 DEF LoadFails, history
    <3>2. /\ load'.photo = load.photo /\ load'.generation = load.generation
          /\ load'.kept = load.kept /\ load'.state = "failed" /\ load'.edits = load.edits
      BY <1>1, <3>1 DEF LoadType
    <3>3. load.kept =>
            disk[load.photo] \cup OnTheWay(p, load.photo) \subseteq load.edits \cup raced
      BY <1>2, ConstantsAssumption DEF DataInv, LoadFits
    <3>4. QED
      BY <3>1, <3>2, <3>3
  <2>3. QED
    BY <2>1, <2>2 DEF LoadThread
<1>5. Fits(p, d, disk, raced)'
  BY <1>3, <1>4, RacedFits DEF DataInv
<1>6. LoadFits'
  BY <1>2, <1>3, <1>4, ConstantsAssumption DEF DataInv, LoadFits
<1>7. UnreadableFits'
  BY <1>3 DEF DataInv, UnreadableFits
<1>8. WantedFits'
  <2>1. disk[load.photo] \subseteq wanted[load.photo] \cup raced
    BY <1>2 DEF DataInv, WantedFits
  <2>2. load.kept => load.edits \subseteq wanted[load.photo] \cup raced
    BY <1>2, ConstantsAssumption DEF DataInv, WantedFits
  <2>3. \A q \in Photo :
          disk[q] \cup OnTheWay(p, q) \cup OpenEdits(p, d, q) \subseteq wanted[q] \cup raced'
    BY <1>4 DEF DataInv, WantedFits
  <2>4. load'.kept \/ load'.state = "loaded" => load'.edits \subseteq wanted[load.photo] \cup raced'
    BY <1>4, <2>1, <2>2
  <2>5. QED
    BY <1>3, <1>4, <2>3, <2>4 DEF WantedFits
<1>9. \A q \in Photo : Safe(q) \subseteq Safe(q)' /\ OpenEdits(p', d', q) = OpenEdits(p, d, q)
  BY <1>3, <1>4 DEF Safe
<1>10. AllHeld'
  BY <1>3, <1>9 DEF DataInv, AllHeld
<1>11. FlushHolds'
  BY <1>3, <1>9 DEF DataInv, FlushHolds, Flushing
<1>12. ExitSavesEverything'
  BY <1>3, <1>4 DEF DataInv, ExitSavesEverything
<1>13. QED
  BY <1>5, <1>6, <1>7, <1>8, <1>10, <1>11, <1>12 DEF DataInv

(* The installed document holds what was wanted of its photo. *)
LEMMA PollLoadData ==
  ASSUME IndInv, DataInv, PollLoad
  PROVE  DataInv'
<1>1. Well(p, d) /\ OthersType /\ d \in DocumentType /\ load \in LoadType
  BY IndInvParts DEF OthersType
<1>2. /\ load' = NoLoad /\ ui = "running"
      /\ UNCHANGED <<ui, disk, unreadable, wanted, raced>>
      /\ load.state \in {"loaded", "failed"}
  BY DEF PollLoad, files, history, Running
<1>3. /\ load.photo \in Photo /\ p.target = NoPhoto /\ load.generation = p.generation
      /\ load.state = "loaded" =>
           disk[load.photo] \cup OnTheWay(p, load.photo) \subseteq load.edits \cup raced
      /\ load.state = "loaded" /\ ~load.kept => disk[load.photo] \ raced = load.edits \ raced
      /\ load.state = "loaded" => load.edits \subseteq wanted[load.photo] \cup raced
  <2>1. load.photo # NoPhoto
    BY <1>2 DEF DataInv, LoadFits
  <2>2. load.photo \in Photo
    BY <1>1, <2>1 DEF LoadType, Target
  <2>3. QED
    BY <2>1, <2>2 DEF DataInv, LoadFits, WantedFits
<1>4. /\ Fits(p', d', disk, raced)
      /\ \A q \in Photo :
           /\ OnTheWay(p', q) \subseteq OnTheWay(p, q) \cup OpenEdits(p', d', q)
           /\ Owes(p, q) \subseteq Owes(p', q) \cup raced
           /\ OpenEdits(p', d', q) \subseteq wanted[q] \cup raced
           /\ OpenEdits(p, d, q) = {}
  <2>1. \A q \in Photo : OpenEdits(p, d, q) = {}
    BY <1>3, ConstantsAssumption DEF OpenEdits
  <2>2. CASE load.state = "failed"
    <3>1. p' = p /\ d' = d
      BY <2>2 DEF PollLoad
    <3>2. QED
      BY <2>1, <3>1 DEF DataInv
  <2>3. CASE load.state = "loaded"
    <3> DEFINE doc == [d EXCEPT !.loaded = TRUE, !.committed = load.edits, !.dirty = FALSE]
    <3>1. PICK needsRewrite \in (IF load.kept THEN {TRUE} ELSE BOOLEAN), spawns \in Spawns :
            /\ d' = doc
            /\ p' = InstallSidecarTarget(p, doc, load.photo, load.generation,
                                         needsRewrite, spawns)
      BY <2>3 DEF PollLoad
    <3>2. /\ doc \in DocumentType /\ doc.revision = d.revision /\ ~doc.dirty
          /\ doc.committed = load.edits
      BY <1>1 DEF DocumentType, LoadType
    <3> HIDE DEF doc
    <3>3. p' = InstallSidecarTarget(p, doc, load.photo, p.generation, needsRewrite, spawns)
      BY <1>3, <3>1
    <3>4. needsRewrite \in BOOLEAN
      BY <3>1
    <3>5. ~needsRewrite => disk[load.photo] \ raced = doc.committed \ raced
      BY <1>3, <2>3, <3>1, <3>2
    <3>6. /\ Fits(p', doc, disk, raced) /\ p'.target = load.photo
          /\ \A q \in Photo :
               /\ OnTheWay(p', q) \subseteq OnTheWay(p, q) \cup OpenEdits(p', doc, q)
               /\ Owes(p, q) \subseteq Owes(p', q) \cup raced
      <4>1. p \in PersistenceType /\ InOrder(p, d.revision) /\ Fits(p, d, disk, raced)
        BY <1>1 DEF DataInv, Well
      <4>2. disk[load.photo] \cup OnTheWay(p, load.photo) \subseteq doc.committed \cup raced
        BY <1>3, <2>3, <3>2
      <4>3. d \in DocumentType /\ load.photo \in Photo /\ p.target = NoPhoto
        BY <1>1, <1>3
      <4>4. QED
        BY <3>2, <3>3, <3>4, <3>5, <4>1, <4>2, <4>3, InstallFits
    <3>7. \A q \in Photo : OpenEdits(p', doc, q) \subseteq wanted[q] \cup raced
      BY <1>3, <2>3, <3>2, <3>6 DEF OpenEdits
    <3>8. QED
      BY <2>1, <3>1, <3>6, <3>7
  <2>4. QED
    BY <1>2, <2>2, <2>3
<1>5. Fits(p, d, disk, raced)'
  BY <1>2, <1>4
<1>6. LoadFits'
  BY <1>2 DEF LoadFits, NoLoad
<1>7. UnreadableFits'
  BY <1>2 DEF DataInv, UnreadableFits
<1>8. WantedFits'
  <2>1. \A q \in Photo :
          disk[q] \cup OnTheWay(p', q) \cup OpenEdits(p', d', q) \subseteq wanted[q] \cup raced
    BY <1>4 DEF DataInv, WantedFits
  <2>2. QED
    BY <1>2, <2>1 DEF WantedFits, NoLoad
<1>9. AllHeld'
  BY <1>2, <1>4 DEF DataInv, AllHeld, Safe
<1>10. FlushHolds' /\ ExitSavesEverything'
  BY <1>2 DEF FlushHolds, Flushing, ExitSavesEverything
<1>11. QED
  BY <1>5, <1>6, <1>7, <1>8, <1>9, <1>10 DEF DataInv

(* What a commit leaves is what a save captures. *)
LEMMA CommitCaptures ==
  ASSUME NEW doc \in DocumentType
  PROVE  Commit(doc).committed = Captured(doc) /\ ~Commit(doc).dirty
  BY DEF Commit, Captured, DocumentType

(* start_document_load leaves the closing document to the saves and begins to read. *)
LEMMA StartLoadData ==
  ASSUME NEW s \in PersistenceType, NEW doc \in DocumentType, InOrder(s, doc.revision),
         NEW dk, NEW rc, Fits(s, doc, dk, rc),
         NEW photo \in Photo, NEW kept \in BOOLEAN, StartLoad(s, doc, photo, kept)
  PROVE  /\ Fits(p', d', dk, rc) /\ Leaves(s, p', Commit(doc), dk, rc)
         /\ load'.photo = NoPhoto <=> load'.state = "none"
         /\ load'.state \in {"none", "reading"}
         /\ load'.photo # NoPhoto =>
              /\ load'.photo = photo /\ load'.generation = p'.generation
              /\ load'.kept = kept
              /\ kept => load'.edits = Commit(doc).committed
<1> DEFINE now == Commit(doc)
<1>1. /\ now \in DocumentType /\ now.revision >= doc.revision /\ MovesOn(doc, now)
      /\ ~now.dirty /\ now.committed = Captured(doc)
  BY CommitType, CommitMovesOn, CommitCaptures
<1>2. PICK spawns \in Spawns, loads \in Spawns :
        /\ p' = BeginSidecarOpen(s, now, spawns)
        /\ d' = ClearedDocument(now)
        /\ load' = IF loads
                   THEN LoadOf(photo, p'.generation, kept, IF kept THEN Captured(doc) ELSE {})
                   ELSE NoLoad
  BY DEF StartLoad
<1> HIDE DEF now
<1>3. InOrder(s, now.revision) /\ Fits(s, now, dk, rc)
  <2>1. doc.revision \in Nat /\ now.revision \in Nat
    BY <1>1 DEF DocumentType
  <2>2. QED
    BY <1>1, <2>1, OrderMonotone, MovedFits
<1>4. d' \in DocumentType
  BY <1>1, <1>2, ClearedDocumentType
<1>5. Fits(p', d', dk, rc) /\ Leaves(s, p', now, dk, rc)
  BY <1>1, <1>2, <1>3, <1>4, BeginSidecarOpenFits
<1>6. \/ load' = NoLoad
      \/ load' = LoadOf(photo, p'.generation, kept, IF kept THEN now.committed ELSE {})
  BY <1>1, <1>2
<1>7. CASE load' = NoLoad
  BY <1>5, <1>7 DEF NoLoad, now
<1>8. CASE load' = LoadOf(photo, p'.generation, kept, IF kept THEN now.committed ELSE {})
  <2>1. /\ load'.photo = photo /\ load'.generation = p'.generation
        /\ load'.state = "reading" /\ load'.kept = kept
        /\ kept => load'.edits = now.committed
    BY <1>8 DEF LoadOf
  <2>2. photo # NoPhoto
    BY ConstantsAssumption
  <2>3. QED
    BY <1>5, <2>1, <2>2 DEF now
<1>9. QED
  BY <1>6, <1>7, <1>8

(* A switch from the open document, which `now` is the last state of. *)
LEMMA SwitchKeeps ==
  ASSUME IndInv, DataInv, NEW now \in DocumentType, MovesOn(d, now),
         wanted' = WantedWith(now), UNCHANGED <<disk, unreadable, raced, ui>>, ui = "running",
         Fits(p', d', disk, raced), Leaves(p, p', now, disk, raced),
         load'.photo = NoPhoto <=> load'.state = "none", load'.state # "loaded",
         load'.photo # NoPhoto => load'.generation = p'.generation,
         load'.photo # NoPhoto /\ load'.kept =>
           load'.photo = p.target /\ load'.edits = now.committed
  PROVE  DataInv'
<1>1. OthersType /\ p.target \in Target /\ Well(p, d) /\ d \in DocumentType
  BY IndInvParts DEF Well, PersistenceType, OthersType
<1>2. /\ p'.target = NoPhoto
      /\ \A q \in Photo :
           /\ OnTheWay(p', q) \subseteq OnTheWay(p, q) \cup OpenEdits(p, now, q)
           /\ Owes(p, q) \cup OpenEdits(p, now, q) \subseteq Owes(p', q) \cup disk[q] \cup raced
           /\ OpenEdits(p', d', q) = {}
           /\ OpenEdits(p, d, q) \subseteq OpenEdits(p, now, q)
  BY ConstantsAssumption DEF Leaves, OpenEdits, MovesOn
<1>3. Fits(p, d, disk, raced)'
  OBVIOUS
<1>4. LoadFits'
  <2>1. ASSUME load'.photo # NoPhoto, load'.kept
        PROVE  disk[p.target] \cup OnTheWay(p', p.target) \subseteq now.committed \cup raced
    <3>1. p.target \in Photo
      BY <1>1, <2>1 DEF Target
    <3>2. Fits(p, now, disk, raced)
      BY <1>1, MovedFits DEF DataInv, Well
    <3>3. OnTheWay(p, p.target) \subseteq now.committed \cup raced
      <4>1. ASSUME NEW x \in OnTheWay(p, p.target) PROVE x \in now.committed \cup raced
        BY <2>1, <3>2, <4>1, OnTheWayIs DEF Fits, DocumentFits
      <4>2. QED
        BY <4>1
    <3>4. disk[p.target] \subseteq now.committed \cup raced
      BY <2>1, <3>2 DEF Fits, DocumentFits
    <3>5. OnTheWay(p', p.target) \subseteq OnTheWay(p, p.target) \cup now.committed
      BY <1>2, <3>1 DEF OpenEdits
    <3>6. QED
      BY <3>3, <3>4, <3>5
  <2>2. QED
    BY <1>2, <2>1 DEF LoadFits
<1>5. UnreadableFits'
  BY DEF DataInv, UnreadableFits
<1>6. WantedFits'
  <2>1. ASSUME NEW q \in Photo
        PROVE  /\ disk[q] \cup OnTheWay(p', q) \cup OpenEdits(p', d', q) \subseteq wanted'[q] \cup raced
               /\ OpenEdits(p, now, q) \subseteq wanted'[q] \cup raced
    <3>1. disk[q] \cup OnTheWay(p, q) \cup OpenEdits(p, d, q) \subseteq wanted[q] \cup raced
      BY DEF DataInv, WantedFits
    <3>2. /\ wanted[q] \subseteq wanted'[q]
          /\ OpenEdits(p, now, q) \subseteq OpenEdits(p, d, q) \cup wanted'[q]
      BY <1>1, WantedGrows
    <3>3. QED
      BY <1>2, <3>1, <3>2
  <2>2. load'.photo # NoPhoto /\ load'.kept => load'.edits \subseteq wanted'[load'.photo] \cup raced
    <3>1. load'.photo # NoPhoto /\ load'.kept => p.target \in Photo
      BY <1>1 DEF Target
    <3>2. p.target \in Photo => now.committed \subseteq wanted'[p.target] \cup raced
      BY <2>1 DEF OpenEdits
    <3>3. QED
      BY <3>1, <3>2
  <2>3. QED
    BY <2>1, <2>2 DEF WantedFits
<1>7. AllHeld'
  <2> SUFFICES ASSUME NEW q \in Photo
               PROVE  wanted'[q] \subseteq disk[q] \cup raced \cup Owes(p', q)
    BY DEF AllHeld, Safe
  <2>1. wanted[q] \subseteq disk[q] \cup raced \cup Owes(p, q) \cup OpenEdits(p, d, q)
    BY DEF DataInv, AllHeld, Safe
  <2>2. wanted'[q] \subseteq wanted[q] \cup OpenEdits(p, now, q)
    BY <1>1, WantedGrows
  <2>3. QED
    BY <1>2, <2>1, <2>2
<1>8. FlushHolds' /\ ExitSavesEverything'
  BY DEF FlushHolds, Flushing, ExitSavesEverything
<1>9. QED
  BY <1>3, <1>4, <1>5, <1>6, <1>7, <1>8 DEF DataInv

(* Nothing changes in a stuttering step. *)
LEMMA StutterData ==
  ASSUME DataInv, UNCHANGED <<p, d, load, ui, disk, unreadable, wanted, raced>>
  PROVE  DataInv'
<1>1. Fits(p, d, disk, raced)' /\ LoadFits'
  BY DEF DataInv, LoadFits
<1>2. UnreadableFits' /\ WantedFits'
  BY DEF DataInv, UnreadableFits, WantedFits
<1>3. AllHeld' /\ FlushHolds' /\ ExitSavesEverything'
  BY DEF DataInv, AllHeld, Safe, FlushHolds, Flushing, ExitSavesEverything
<1>4. QED
  BY <1>1, <1>2, <1>3 DEF DataInv

(* Opening another photo leaves the open one to its saves. *)
LEMMA OpenData ==
  ASSUME IndInv, DataInv, NEW q \in Photo, OpenPhoto(q)
  PROVE  DataInv'
<1>1. Well(p, d) /\ d \in DocumentType
  BY IndInvParts DEF OthersType
<1>2. ui = "running" /\ UNCHANGED <<ui, disk, unreadable, raced>>
  BY DEF OpenPhoto, files, Running
<1>3. CASE load # NoLoad
  <2>1. UNCHANGED <<p, d, load, wanted>>
    BY <1>3 DEF OpenPhoto
  <2>2. QED
    BY <1>2, <2>1, StutterData
<1>4. CASE load = NoLoad
  <2>1. StartLoad(p, d, q, FALSE) /\ wanted' = WantedWith(Commit(d))
    BY <1>4 DEF OpenPhoto
  <2>2. /\ Fits(p', d', disk, raced) /\ Leaves(p, p', Commit(d), disk, raced)
        /\ load'.photo = NoPhoto <=> load'.state = "none"
        /\ load'.state \in {"none", "reading"}
        /\ load'.photo # NoPhoto => load'.generation = p'.generation /\ load'.kept = FALSE
    BY <1>1, <2>1, StartLoadData DEF DataInv, Well
  <2>3. Commit(d) \in DocumentType /\ MovesOn(d, Commit(d))
    BY <1>1, CommitType, CommitMovesOn
  <2>4. QED
    BY <1>2, <2>1, <2>2, <2>3, SwitchKeeps
<1>5. QED
  BY <1>3, <1>4

(* Reopening a photo keeps its edits in memory for the load to install. *)
LEMMA ReopenData ==
  ASSUME IndInv, DataInv, ReopenWithProfile
  PROVE  DataInv'
<1> DEFINE now == Commit(d)
<1>1. Well(p, d) /\ d \in DocumentType /\ p.target \in Photo
  BY IndInvParts DEF ReopenWithProfile, Well, PersistenceType, Target, OthersType
<1>2. now \in DocumentType /\ MovesOn(d, now) /\ ~now.dirty /\ now.revision >= d.revision
  BY <1>1, CommitType, CommitMovesOn
<1>3. /\ wanted' = WantedWith(now) /\ ui = "running"
      /\ UNCHANGED <<ui, disk, unreadable, raced>>
  BY DEF ReopenWithProfile, files, Running
<1>4. PICK spawns \in Spawns :
        StartLoad(StartNext(QueueCurrent(p, now, TRUE), now, spawns), now, p.target, TRUE)
  BY DEF ReopenWithProfile
<1> HIDE DEF now
<1> DEFINE u == QueueCurrent(p, now, TRUE)
           s == StartNext(u, now, spawns)
<1>5. p \in PersistenceType /\ InOrder(p, now.revision) /\ Fits(p, now, disk, raced)
  BY <1>1, <1>2, WellFor, MovedFits DEF Well, DataInv
<1>6. /\ Fits(u, now, disk, raced) /\ Carries(p, u, now, raced)
      /\ u \in PersistenceType /\ InOrder(u, now.revision)
  BY <1>2, <1>5, QueueCurrentFits, QueueCurrentWell DEF Well
<1> HIDE DEF u
<1>7. /\ Fits(s, now, disk, raced) /\ Carries(u, s, now, raced)
      /\ s \in PersistenceType /\ InOrder(s, now.revision)
  BY <1>6, StartNextFits, StartNextWell DEF Well
<1>8. StartLoad(s, now, p.target, TRUE)
  BY <1>4 DEF u
<1> HIDE DEF s
<1>9. Commit(now) = now
  BY <1>2 DEF Commit
<1>10. /\ Fits(p', d', disk, raced) /\ Leaves(s, p', now, disk, raced)
       /\ load'.photo = NoPhoto <=> load'.state = "none"
       /\ load'.state \in {"none", "reading"}
       /\ load'.photo # NoPhoto =>
            /\ load'.photo = p.target /\ load'.generation = p'.generation
            /\ load'.edits = now.committed
  <2>1. /\ Fits(p', d', disk, raced) /\ Leaves(s, p', Commit(now), disk, raced)
        /\ load'.photo = NoPhoto <=> load'.state = "none"
        /\ load'.state \in {"none", "reading"}
        /\ load'.photo # NoPhoto =>
             /\ load'.photo = p.target /\ load'.generation = p'.generation
             /\ load'.kept = TRUE
             /\ TRUE => load'.edits = Commit(now).committed
    BY <1>1, <1>2, <1>7, <1>8, StartLoadData
  <2>2. QED
    BY <1>9, <2>1
<1>11. Leaves(p, p', now, disk, raced)
  BY <1>6, <1>7, <1>10, CarriesOn DEF Leaves, Carries, OpenEdits
<1>12. QED
  BY <1>2, <1>3, <1>10, <1>11, SwitchKeeps

-----------------------------------------------------------------------------
(* What bypasses the queue: the flush's caller, a reset and a replaced sidecar. *)

(* The same saves, whatever else changes. *)
LEMMA SameOnTheWay ==
  ASSUME NEW s, NEW t, t.pending = s.pending, t.job = s.job, t.thread = s.thread
  PROVE  Unreported(t) = Unreported(s) /\ \A q : OnTheWay(t, q) = OnTheWay(s, q)
  BY DEF Unreported, OnTheWay, OutstandingRequests

(* A photo that is not open is cleared. *)
LEMMA ClearedFits ==
  ASSUME NEW s \in PersistenceType, NEW doc, NEW q \in Photo, s.target # q,
         NEW dk \in [Photo -> SUBSET Edit], NEW rc, Fits(s, doc, dk, rc),
         NEW dw, dw = [dk EXCEPT ![q] = {}]
  PROVE  Fits(s, doc, dw, rc)
<1>1. /\ dw[q] = {}
      /\ \A r \in Photo : r # q => dw[r] = dk[r]
      /\ \A r \in Photo : dw[r] \subseteq dk[r]
  OBVIOUS
<1>2. \A i \in DOMAIN s.pending : s.pending[i].target \in Photo
  BY QueueType DEF Request
<1>3. InFlight(s) => s.job.target \in Photo
  BY DEF Fits, QueueFits, Request
<1>4. QueueFits(s, dw, rc)
  BY <1>1, <1>2, <1>3 DEF Fits, QueueFits, InFlight
<1>5. s.target # NoPhoto => s.target \in Photo
  BY DEF PersistenceType, Target
<1>6. s.thread = "ok" /\ s.job.generation = s.generation => s.job.target = s.target
  BY DEF Fits, DocumentFits, OfDocument, InFlight
<1>7. s.thread = "ok" /\ s.job.generation = s.generation => dw[s.job.target] \ rc = s.job.edits \ rc
  BY <1>1, <1>3, <1>6 DEF Fits, DocumentFits, InFlight
<1>8. s.target # NoPhoto => dw[s.target] = dk[s.target]
  BY <1>1, <1>5
<1>9. DocumentFits(s, doc, dw, rc)
  BY <1>7, <1>8 DEF Fits, DocumentFits
<1>10. QED
  BY <1>4, <1>9 DEF Fits

(* What is not written when the flush returns is reported, so the document can go. *)
LEMMA AfterFlushData ==
  ASSUME IndInv, DataInv, NEW s \in PersistenceType, InOrder(s, d.revision),
         Fits(s, d, disk, raced), s.target = p.target, s.generation = p.generation,
         \A q \in Photo : OnTheWay(s, q) \subseteq OnTheWay(p, q) /\ Owes(p, q) \subseteq s.excused,
         AfterFlush(s)
  PROVE  DataInv'
<1>1. OthersType /\ d \in DocumentType /\ p.target \in Target /\ disk \in [Photo -> SUBSET Edit]
  BY IndInvParts DEF OthersType, Well, PersistenceType
<1>2. ASSUME NEW q \in Photo, Flushing
      PROVE  wanted[q] \subseteq disk[q] \cup raced \cup s.excused
  <2>1. wanted[q] \subseteq Safe(q) \cup OpenEdits(p, d, q)
    BY DEF DataInv, AllHeld
  <2>2. OpenEdits(p, d, q) \subseteq Safe(q)
    BY <1>2 DEF DataInv, FlushHolds
  <2>3. QED
    BY <2>1, <2>2 DEF Safe
<1>3. CASE ui = "exiting"
  <2>1. /\ ui' = "exited" /\ p' = s
        /\ UNCHANGED <<d, load, disk, unreadable, wanted, raced>>
    BY <1>3 DEF AfterFlush, files, history
  <2>2. \A q \in Photo : wanted[q] \subseteq disk[q] \cup raced \cup s.excused
    BY <1>2, <1>3 DEF Flushing
  <2>3. Fits(p, d, disk, raced)'
    BY <2>1
  <2>4. LoadFits'
    <3>1. load.photo # NoPhoto => load.photo \in Photo
      BY <1>1 DEF OthersType, LoadType, Target
    <3>2. QED
      BY <2>1, <3>1 DEF DataInv, LoadFits
  <2>5. UnreadableFits'
    BY <2>1 DEF DataInv, UnreadableFits
  <2>6. WantedFits'
    <3>1. \A q \in Photo : OpenEdits(p', d', q) = OpenEdits(p, d, q)
      BY <2>1 DEF OpenEdits
    <3>2. \A q \in Photo :
            disk[q] \cup OnTheWay(p', q) \cup OpenEdits(p', d', q) \subseteq wanted[q] \cup raced
      BY <2>1, <3>1 DEF DataInv, WantedFits
    <3>3. QED
      BY <2>1, <3>2 DEF DataInv, WantedFits
  <2>7. AllHeld'
    BY <2>1, <2>2 DEF AllHeld, Safe, Owes
  <2>8. FlushHolds' /\ ExitSavesEverything'
    BY <2>1, <2>2 DEF FlushHolds, Flushing, ExitSavesEverything
  <2>9. QED
    BY <2>3, <2>4, <2>5, <2>6, <2>7, <2>8 DEF DataInv
<1>4. CASE ui = "resetting"
  <2> DEFINE t == Detach(s)
             photo == p.target
  <2>1. /\ ui' = "running" /\ unreadable' = unreadable
        /\ StartLoad(t, d, photo, FALSE)
        /\ ClearSidecar(t, photo)
    BY <1>4 DEF AfterFlush
  <2>2. photo \in Photo
    BY <1>1, <1>4 DEF OthersType, ResetsAPhoto
  <2>3. /\ t \in PersistenceType /\ InOrder(t, d.revision)
        /\ Fits(t, d, disk, raced) /\ t.target = NoPhoto
        /\ \A q : OnTheWay(t, q) \subseteq OnTheWay(s, q) /\ s.excused \subseteq Owes(t, q)
    BY <1>1, DetachFits, DetachWell DEF Well
  <2> HIDE DEF t, photo
  <2>4. /\ Fits(p', d', disk, raced) /\ Leaves(t, p', Commit(d), disk, raced)
        /\ load'.photo = NoPhoto <=> load'.state = "none"
        /\ load'.state \in {"none", "reading"}
        /\ load'.photo # NoPhoto => load'.generation = p'.generation /\ load'.kept = FALSE
    BY <1>1, <2>1, <2>2, <2>3, StartLoadData
  <2>5. p' \in PersistenceType /\ p'.target = NoPhoto
    <3>1. p' \in PersistenceType
      BY <1>1, <2>1, <2>2, <2>3, StartLoadWell DEF Well
    <3>2. QED
      BY <2>4, <3>1 DEF Leaves
  <2>6. ASSUME NEW q \in Photo
        PROVE  /\ OnTheWay(p', q) \subseteq OnTheWay(t, q) /\ OnTheWay(t, q) \subseteq OnTheWay(p, q)
               /\ OpenEdits(p', d', q) = {}
               /\ wanted[q] \subseteq disk[q] \cup raced \cup Owes(p', q)
    <3>1. OpenEdits(t, Commit(d), q) = {} /\ OpenEdits(p', d', q) = {}
      BY <2>3, <2>5, ConstantsAssumption DEF OpenEdits
    <3>2. OnTheWay(p', q) \subseteq OnTheWay(t, q) /\ Owes(t, q) \subseteq Owes(p', q) \cup disk[q] \cup raced
      BY <2>4, <3>1 DEF Leaves
    <3>3. wanted[q] \subseteq disk[q] \cup raced \cup s.excused
      BY <1>2, <1>4 DEF Flushing
    <3>4. QED
      BY <2>3, <3>1, <3>2, <3>3
  <2>7. /\ raced \subseteq raced'
        /\ \/ disk' = disk /\ wanted' = wanted
           \/ /\ disk' = [disk EXCEPT ![photo] = {}]
              /\ wanted' = [wanted EXCEPT ![photo] = {}]
              /\ OnTheWay(t, photo) \subseteq raced'
    BY <2>1 DEF ClearSidecar, Held
  <2>8. \A q \in Photo :
          /\ disk'[q] \subseteq disk[q]
          /\ \/ disk'[q] = disk[q] /\ wanted'[q] = wanted[q]
             \/ disk'[q] = {} /\ wanted'[q] = {} /\ OnTheWay(t, q) \subseteq raced'
    <3>1. wanted \in [Photo -> SUBSET Edit]
      BY <1>1 DEF OthersType
    <3>2. QED
      BY <1>1, <2>2, <2>7, <3>1
  <2>9. Fits(p, d, disk, raced)'
    <3>1. p'.target # photo
      BY <2>2, <2>5, ConstantsAssumption
    <3>2. Fits(p', d', disk', raced)
      BY <1>1, <2>2, <2>4, <2>5, <2>7, <3>1, ClearedFits
    <3>3. QED
      BY <2>7, <3>2, RacedFits
  <2>10. LoadFits'
    BY <2>4, <2>5 DEF LoadFits
  <2>11. UnreadableFits'
    <3>1. unreadable \subseteq Photo
      BY <1>1 DEF OthersType
    <3>2. QED
      BY <2>1, <2>8, <3>1 DEF DataInv, UnreadableFits
  <2>12. WantedFits'
    <3>1. ASSUME NEW q \in Photo
          PROVE  disk'[q] \cup OnTheWay(p', q) \cup OpenEdits(p', d', q) \subseteq wanted'[q] \cup raced'
      <4>1. disk[q] \cup OnTheWay(p, q) \subseteq wanted[q] \cup raced
        BY DEF DataInv, WantedFits
      <4>2. QED
        BY <2>6, <2>7, <2>8, <4>1
    <3>2. load'.photo # NoPhoto => ~load'.kept /\ load'.state # "loaded"
      BY <2>4
    <3>3. QED
      BY <3>1, <3>2 DEF WantedFits
  <2>13. AllHeld'
    BY <2>6, <2>7, <2>8 DEF AllHeld, Safe
  <2>14. FlushHolds' /\ ExitSavesEverything'
    BY <2>1 DEF FlushHolds, Flushing, ExitSavesEverything
  <2>15. QED
    BY <2>9, <2>10, <2>11, <2>12, <2>13, <2>14 DEF DataInv
<1>5. QED
  BY <1>3, <1>4 DEF AfterFlush

(* A flush ends with an empty queue, or reports what is left of it. *)
LEMMA FlushData ==
  ASSUME IndInv, DataInv, Flush
  PROVE  DataInv'
<1>1. p \in PersistenceType /\ InOrder(p, d.revision) /\ Fits(p, d, disk, raced)
  BY IndInvParts DEF Well, DataInv
<1>2. CASE FlushRound
  BY <1>2, FlushRoundData
<1>3. CASE FlushEnds
  <2>1. p.thread = "idle" /\ p.pending = <<>> /\ AfterFlush(p)
    BY <1>3 DEF FlushEnds, Flushed, InFlight
  <2>2. \A q \in Photo : OnTheWay(p, q) = {} /\ Unreported(p) = {}
    <3>1. DOMAIN p.pending = {}
      BY <2>1
    <3>2. \A q, x : x \notin OnTheWay(p, q)
      BY <2>1, <3>1, OnTheWayIs
    <3>3. QED
      BY <2>1, <3>2 DEF Unreported
  <2>3. \A q \in Photo : Owes(p, q) \subseteq p.excused
    BY <2>2 DEF Owes
  <2>4. QED
    BY <1>1, <2>1, <2>3, AfterFlushData
<1>4. CASE FlushTimesOut
  <2> DEFINE revision == IF InFlight(p) THEN FailedRevision(p, p.job) ELSE None
             edits == p.job.edits \cup UNION {r.edits : r \in OutstandingRequests(p)}
             s == ReportFailure(p, revision, edits)
  <2>1. p.job \in Request \cup {NoRequest}
    BY <1>1 DEF PersistenceType
  <2>2. revision \in OptRevision
    BY <2>1, FailedRevisionType DEF OptRevision
  <2>3. edits \in SUBSET Edit
    BY <1>1, OnTheWayType, QueueType
  <2>4. AfterFlush(s)
    BY <1>4 DEF FlushTimesOut
  <2>5. \A q \in Photo : OnTheWay(p, q) \subseteq edits /\ Unreported(p) \subseteq edits
    BY DEF OnTheWay, Unreported
  <2> HIDE DEF revision, edits
  <2>6. /\ s.target = p.target /\ s.generation = p.generation /\ s.saved = p.saved
        /\ s.pending = p.pending /\ s.job = p.job /\ s.thread = p.thread
        /\ s.excused = p.excused \cup edits
    BY <1>1 DEF ReportFailure, PersistenceType
  <2>7. s \in PersistenceType /\ InOrder(s, d.revision)
    BY <1>1, <2>2, <2>3, ReportFailureWell DEF Well
  <2> HIDE DEF s
  <2>8. Fits(s, d, disk, raced)
    <3>1. QueueFits(s, disk, raced)
      BY <1>1, <2>6 DEF Fits, QueueFits, InFlight
    <3>2. DocumentFits(s, d, disk, raced)
      BY <1>1, <2>6 DEF Fits, DocumentFits, OfDocument, InFlight
    <3>3. QED
      BY <3>1, <3>2 DEF Fits
  <2>9. \A q \in Photo : OnTheWay(s, q) = OnTheWay(p, q)
    BY <2>6, SameOnTheWay
  <2>10. \A q \in Photo : Owes(p, q) \subseteq s.excused
    BY <2>5, <2>6 DEF Owes
  <2>11. QED
    BY <2>4, <2>6, <2>7, <2>8, <2>9, <2>10, AfterFlushData
<1>5. QED
  BY <1>2, <1>3, <1>4 DEF Flush

(* A reset of the open photo flushes it first, of any other it clears the sidecar at once. *)
LEMMA ResetData ==
  ASSUME IndInv, DataInv, NEW q \in Photo, ResetAdjustments(q)
  PROVE  DataInv'
<1>1. CASE q = p.target
  BY <1>1, StartFlushData DEF ResetAdjustments
<1>2. CASE q # p.target
  <2>1. p \in PersistenceType /\ OthersType /\ disk \in [Photo -> SUBSET Edit]
    BY IndInvParts DEF Well, OthersType
  <2>2. ClearSidecar(p, q) /\ ui = "running" /\ UNCHANGED <<p, d, load, ui, unreadable>>
    BY <1>2 DEF ResetAdjustments, Running
  <2>3. CASE q \in unreadable
    BY <2>2, <2>3, StutterData DEF ClearSidecar
  <2>4. CASE q \notin unreadable
    <3>1. /\ disk' = [disk EXCEPT ![q] = {}] /\ wanted' = [wanted EXCEPT ![q] = {}]
          /\ raced' = raced \cup Held(p, q)
      BY <2>2, <2>4 DEF ClearSidecar
    <3>2. /\ disk'[q] = {} /\ wanted'[q] = {}
          /\ \A r \in Photo : r # q => disk'[r] = disk[r] /\ wanted'[r] = wanted[r]
      BY <2>1, <3>1 DEF OthersType
    <3>3. /\ raced \subseteq raced' /\ OnTheWay(p, q) \subseteq raced'
          /\ load.photo = q => load.edits \subseteq raced'
      BY <3>1 DEF Held
    <3>4. Fits(p, d, disk, raced)'
      <4>1. Fits(p, d, disk', raced)
        BY <1>2, <2>1, <3>1, ClearedFits DEF DataInv
      <4>2. QED
        BY <2>2, <3>3, <4>1, RacedFits
    <3>5. load.photo # NoPhoto => load.photo \in Photo
      BY <2>1 DEF OthersType, LoadType, Target
    <3>6. LoadFits'
      BY <2>2, <3>2, <3>3, <3>5 DEF DataInv, LoadFits
    <3>7. UnreadableFits'
      <4>1. unreadable \subseteq Photo
        BY <2>1 DEF OthersType
      <4>2. QED
        BY <2>2, <3>2, <4>1 DEF DataInv, UnreadableFits
    <3>8. WantedFits'
      <4>1. OpenEdits(p, d, q) = {}
        BY <1>2 DEF OpenEdits
      <4>2. \A r \in Photo :
              disk'[r] \cup OnTheWay(p, r) \cup OpenEdits(p, d, r) \subseteq wanted'[r] \cup raced'
        BY <3>2, <3>3, <4>1 DEF DataInv, WantedFits
      <4>3. load.photo # NoPhoto /\ (load.kept \/ load.state = "loaded") =>
              load.edits \subseteq wanted'[load.photo] \cup raced'
        BY <3>2, <3>3, <3>5 DEF DataInv, WantedFits
      <4>4. QED
        BY <2>2, <4>2, <4>3 DEF WantedFits
    <3>9. AllHeld'
      BY <2>2, <3>2, <3>3 DEF DataInv, AllHeld, Safe
    <3>10. FlushHolds' /\ ExitSavesEverything'
      BY <2>2 DEF FlushHolds, Flushing, ExitSavesEverything
    <3>11. QED
      BY <3>4, <3>6, <3>7, <3>8, <3>9, <3>10 DEF DataInv
  <2>5. QED
    BY <2>3, <2>4
<1>3. QED
  BY <1>1, <1>2

(* A replaced sidecar holds the request's or the open document's edits, its backup the others;
   what a save or a load of the photo has read meanwhile counts as raced. *)
LEMMA RecoverData ==
  ASSUME IndInv, DataInv, RecoverSidecar
  PROVE  DataInv'
<1> DEFINE photo == p.recovery.target
           current == p.target = photo
           written == IF current THEN Captured(d) ELSE p.recovery.edits
           contended == \/ \E request \in OutstandingRequests(p) : request.target = photo
                        \/ load.photo = photo /\ (load.kept \/ load.state = "loaded")
           backedUp == [p EXCEPT !.recovery = NoRequest,
                                 !.excused = p.excused \cup (disk[photo] \ written)]
<1>1. /\ p \in PersistenceType /\ d \in DocumentType /\ OthersType /\ load \in LoadType
      /\ disk \in [Photo -> SUBSET Edit] /\ wanted \in [Photo -> SUBSET Edit]
      /\ unreadable \subseteq Photo
  BY IndInvParts DEF Well, OthersType
<1>2. photo \in Photo
  <2>1. p.recovery \in Request
    BY <1>1 DEF RecoverSidecar, PersistenceType
  <2>2. QED
    BY <2>1 DEF Request
<1>3. current => written = d.committed
  BY DEF RecoverSidecar, Captured
<1>4. /\ disk' = [disk EXCEPT ![photo] = written]
      /\ unreadable' = unreadable \ {photo}
      /\ p' = IF current
              THEN [backedUp EXCEPT !.failed = None, !.saved = d.revision]
              ELSE backedUp
      /\ wanted' = [wanted EXCEPT ![photo] = wanted[photo] \cup written]
      /\ raced' = IF contended THEN raced \cup Held(p, photo) \cup written ELSE raced
      /\ ui = "running" /\ ~SaveInProgress /\ UNCHANGED <<d, load, ui>>
  BY DEF RecoverSidecar, Running
<1>5. current => p.target = photo
  OBVIOUS
<1>6. /\ raced \subseteq raced'
      /\ (\E request \in OutstandingRequests(p) : request.target = photo)
         \/ (load.photo = photo /\ (load.kept \/ load.state = "loaded"))
           => Held(p, photo) \cup written \subseteq raced'
  BY <1>4
<1>7. ~current => p.target # photo
  OBVIOUS
<1> HIDE DEF photo, current, written, contended
<1>8. /\ disk'[photo] = written /\ wanted'[photo] = wanted[photo] \cup written
      /\ \A q \in Photo : q # photo => disk'[q] = disk[q] /\ wanted'[q] = wanted[q]
  BY <1>1, <1>2, <1>4
<1>9. /\ p'.target = p.target /\ p'.generation = p.generation /\ p'.pending = p.pending
      /\ p'.job = p.job /\ p'.thread = p.thread
      /\ p'.excused = p.excused \cup (disk[photo] \ written)
      /\ current => p'.saved = d.revision
      /\ ~current => p'.saved = p.saved
  <2>1. /\ backedUp.target = p.target /\ backedUp.generation = p.generation
        /\ backedUp.pending = p.pending /\ backedUp.saved = p.saved
        /\ backedUp.job = p.job /\ backedUp.thread = p.thread
        /\ backedUp.excused = p.excused \cup (disk[photo] \ written)
        /\ DOMAIN backedUp = DOMAIN p
    BY <1>1 DEF PersistenceType
  <2>2. DOMAIN p = {"target", "generation", "saved", "failed", "pending", "job", "thread",
                    "recovery", "deadline", "excused"}
    BY <1>1 DEF PersistenceType
  <2> HIDE DEF backedUp
  <2>3. CASE current
    <3>1. p' = [backedUp EXCEPT !.failed = None, !.saved = d.revision]
      BY <1>4, <2>3
    <3>2. QED
      BY <2>1, <2>2, <2>3, <3>1
  <2>4. CASE ~current
    BY <1>4, <2>1, <2>4
  <2>5. QED
    BY <2>3, <2>4
<1>10. \A request \in OutstandingRequests(p) :
         request.target = photo => written \subseteq raced'
  BY <1>6
<1>11. Fits(p, d, disk, raced)
  BY DEF DataInv
<1>12. /\ \A i \in DOMAIN p.pending :
            /\ p.pending[i].target \in Photo
            /\ p.pending[i].target = photo => written \subseteq raced'
            /\ p.pending[i].generation # p.generation
       /\ InFlight(p) => p.job.target \in Photo /\ p.job.generation # p.generation
       /\ p.thread = "writing" /\ p.job.target = photo => written \subseteq raced'
  <2>1. ASSUME NEW i \in DOMAIN p.pending
        PROVE  /\ p.pending[i].target \in Photo
               /\ p.pending[i].target = photo => written \subseteq raced'
               /\ p.pending[i].generation # p.generation
    <3>1. p.pending[i] \in Request
      BY <1>1, QueueType
    <3>2. p.pending[i] \in OutstandingRequests(p)
      BY DEF OutstandingRequests
    <3>3. p.pending[i].generation # p.generation
      BY <1>4 DEF SaveInProgress
    <3>4. QED
      BY <1>10, <3>1, <3>2, <3>3 DEF Request
  <2>2. InFlight(p) => p.job.target \in Photo /\ p.job.generation # p.generation
    BY <1>4, <1>11 DEF SaveInProgress, Fits, QueueFits, Request
  <2>3. p.thread = "writing" => p.job \in OutstandingRequests(p)
    BY DEF OutstandingRequests
  <2>4. QED
    BY <1>10, <2>1, <2>2, <2>3
<1>13. QueueFits(p', disk', raced')
  <2>1. \A i \in DOMAIN p.pending :
          disk'[p.pending[i].target] \subseteq p.pending[i].edits \cup raced'
    BY <1>6, <1>8, <1>11, <1>12 DEF Fits, QueueFits
  <2>2. p.thread = "writing" => disk'[p.job.target] \subseteq p.job.edits \cup raced'
    BY <1>6, <1>8, <1>11, <1>12 DEF Fits, QueueFits, InFlight
  <2>3. QED
    BY <1>6, <1>9, <1>11, <2>1, <2>2 DEF Fits, QueueFits, InFlight
<1>14. DocumentFits(p', d, disk', raced')
  <2>1. p.target # NoPhoto =>
          /\ disk'[p.target] \subseteq d.committed \cup raced'
          /\ p'.saved = d.revision => disk'[p.target] \ raced' = d.committed \ raced'
    <3>1. CASE current
      BY <1>3, <1>5, <1>8, <3>1
    <3>2. CASE ~current
      <4>1. p.target # NoPhoto => p.target \in Photo
        BY <1>1 DEF PersistenceType, Target
      <4>2. p.target # NoPhoto => disk'[p.target] = disk[p.target]
        BY <1>7, <1>8, <3>2, <4>1
      <4>3. QED
        BY <1>6, <1>9, <1>11, <3>2, <4>2 DEF Fits, DocumentFits
    <3>3. QED
      BY <3>1, <3>2
  <2>2. p'.saved <= d.revision
    BY <1>1, <1>9, <1>11 DEF Fits, DocumentFits, DocumentType
  <2>3. InFlight(p) => p.job.generation # p.generation
    BY <1>12
  <2>4. \A i \in DOMAIN p.pending :
          p.pending[i].target = p.target /\ p.target # NoPhoto
            => p.pending[i].edits \subseteq d.committed \cup raced'
    BY <1>6, <1>11 DEF Fits, DocumentFits
  <2>5. p.thread = "writing" /\ p.job.target = p.target /\ p.target # NoPhoto
          => p.job.edits \subseteq d.committed \cup raced'
    BY <1>6, <1>11 DEF Fits, DocumentFits
  <2>6. QED
    BY <1>9, <1>12, <2>1, <2>2, <2>3, <2>4, <2>5 DEF DocumentFits, OfDocument, InFlight
<1>15. Fits(p, d, disk, raced)'
  BY <1>4, <1>13, <1>14 DEF Fits
<1>16. /\ Unreported(p') = Unreported(p)
       /\ \A q : OnTheWay(p', q) = OnTheWay(p, q)
  BY <1>9, SameOnTheWay
<1>17. \A q \in Photo : OpenEdits(p', d', q) = OpenEdits(p, d, q)
  BY <1>4, <1>9 DEF OpenEdits
<1>18. LoadFits'
  <2>1. load.photo # NoPhoto => load.photo \in Photo
    BY <1>1 DEF LoadType, Target
  <2>2. CASE load.photo = photo /\ (load.kept \/ load.state = "loaded")
    <3>1. Held(p, photo) \cup written \subseteq raced'
      BY <1>6, <2>2
    <3>2. OnTheWay(p, photo) \cup load.edits \cup written \subseteq raced'
      BY <2>2, <3>1 DEF Held
    <3>3. QED
      BY <1>4, <1>8, <1>9, <1>16, <2>2, <3>2 DEF DataInv, LoadFits
  <2>3. CASE load.photo = photo /\ ~(load.kept \/ load.state = "loaded")
    BY <1>4, <1>9, <2>3 DEF DataInv, LoadFits
  <2>4. CASE load.photo # photo
    <3>1. load.photo # NoPhoto => disk'[load.photo] = disk[load.photo]
      BY <1>8, <2>1, <2>4
    <3>2. QED
      BY <1>4, <1>6, <1>9, <1>16, <3>1 DEF DataInv, LoadFits
  <2>5. QED
    BY <2>2, <2>3, <2>4
<1>19. UnreadableFits'
  BY <1>1, <1>4, <1>8 DEF DataInv, UnreadableFits
<1>20. WantedFits'
  <2>1. ASSUME NEW q \in Photo
        PROVE  /\ disk'[q] \cup OnTheWay(p', q) \cup OpenEdits(p', d', q) \subseteq wanted'[q] \cup raced'
               /\ wanted[q] \subseteq wanted'[q]
    <3>1. disk[q] \cup OnTheWay(p, q) \cup OpenEdits(p, d, q) \subseteq wanted[q] \cup raced
      BY DEF DataInv, WantedFits
    <3>2. wanted[q] \subseteq wanted'[q] /\ disk'[q] \subseteq disk[q] \cup wanted'[q]
      BY <1>8
    <3>3. QED
      BY <1>6, <1>16, <1>17, <3>1, <3>2
  <2>2. load.photo # NoPhoto => load.photo \in Photo
    BY <1>1 DEF LoadType, Target
  <2>3. load.photo # NoPhoto /\ (load.kept \/ load.state = "loaded") =>
          load.edits \subseteq wanted'[load.photo] \cup raced'
    BY <1>6, <2>1, <2>2 DEF DataInv, WantedFits
  <2>4. QED
    BY <1>4, <2>1, <2>3 DEF WantedFits
<1>21. AllHeld'
  <2> SUFFICES ASSUME NEW q \in Photo
               PROVE  wanted'[q] \subseteq disk'[q] \cup raced' \cup Owes(p', q) \cup OpenEdits(p', d', q)
    BY DEF AllHeld, Safe
  <2>1. wanted[q] \subseteq disk[q] \cup raced \cup Owes(p, q) \cup OpenEdits(p, d, q)
    BY DEF DataInv, AllHeld, Safe
  <2>2. Owes(p, q) \subseteq Owes(p', q) /\ p'.excused \subseteq Owes(p', q)
    BY <1>9, <1>16 DEF Owes
  <2>3. disk[q] \subseteq disk'[q] \cup p'.excused
    BY <1>8, <1>9
  <2>4. wanted'[q] \subseteq wanted[q] \cup disk'[q]
    BY <1>8
  <2>5. QED
    BY <1>6, <1>17, <2>1, <2>2, <2>3, <2>4
<1>22. FlushHolds' /\ ExitSavesEverything'
  BY <1>4 DEF FlushHolds, Flushing, ExitSavesEverything
<1>23. QED
  BY <1>15, <1>18, <1>19, <1>20, <1>21, <1>22 DEF DataInv

-----------------------------------------------------------------------------
(* No step of any thread breaks what the edits are held by. *)
LEMMA NextData == IndInv /\ DataInv /\ [Next]_vars => DataInv'
<1> SUFFICES ASSUME IndInv, DataInv, [Next]_vars PROVE DataInv'
  OBVIOUS
<1>1. CASE Change \/ ChangeGeometry \/ Release \/ ApplyRetouch
  BY <1>1, EditData
<1>2. CASE SyncPersistence
  BY <1>2, SyncData
<1>3. CASE SaveEdits \/ Retry
  BY <1>3, SaveData
<1>4. CASE DeadlinePasses \/ CloseFailureDialog
  BY <1>4, DialogData
<1>5. CASE RecoverSidecar
  BY <1>5, RecoverData
<1>6. CASE ReopenWithProfile
  BY <1>6, ReopenData
<1>7. CASE Exit
  BY <1>7, StartFlushData DEF Exit
<1>8. CASE \E q \in Photo : OpenPhoto(q) \/ ResetAdjustments(q)
  BY <1>8, OpenData, ResetData
<1>9. CASE PollLoad
  BY <1>9, PollLoadData
<1>10. CASE SaveThread
  BY <1>10, SaveThreadData
<1>11. CASE LoadThread
  BY <1>11, LoadThreadData
<1>12. CASE Flush
  BY <1>12, FlushData
<1>13. CASE UNCHANGED vars
  BY <1>13, StutterData DEF vars
<1>14. QED
  BY <1>1, <1>2, <1>3, <1>4, <1>5, <1>6, <1>7, <1>8, <1>9, <1>10, <1>11, <1>12, <1>13
  DEF Next, User

(* In every behaviour each wanted edit is in its sidecar, on its way, in a reported failure, *)
(* in a race or in the open document.                                                        *)
THEOREM DataInvariance == Spec => []DataInv
<1>1. Init => DataInv
  BY InitInv, InitData
<1>2. IndInv /\ DataInv /\ [Next]_vars => DataInv'
  BY NextData
<1>3. QED
  BY <1>1, <1>2, Invariance, PTL DEF Spec

(* A document counts as saved only while its sidecar holds its edits: for any photos, edits,   *)
(* switches, resets and faults, except for edits a reopened or reset photo's saves raced with. *)
THEOREM SavedStaysOnDisk == Spec => []SavedMeansOnDisk
<1>1. DataInv => SavedMeansOnDisk
  BY DEF DataInv, Fits, DocumentFits, SavedMeansOnDisk
<1>2. QED
  BY <1>1, DataInvariance, PTL

(* No edit is lost without a report, by any order of saves, loads, switches, resets, failures  *)
(* and the exit's flush.                                                                       *)
THEOREM EditsAreKept == Spec => []NoEditLost
<1>1. DataInv => NoEditLost
  <2> SUFFICES ASSUME DataInv PROVE EveryEditIsHeld
    BY DEF DataInv, NoEditLost
  <2> SUFFICES ASSUME NEW q \in Photo
               PROVE  wanted[q] \subseteq disk[q] \cup OnTheWay(p, q) \cup raced
                        \cup p.excused \cup Unreported(p)
                        \cup (IF p.target = q /\ p.saved # d.revision THEN d.committed ELSE {})
    BY DEF EveryEditIsHeld
  <2>1. wanted[q] \subseteq disk[q] \cup raced \cup OnTheWay(p, q) \cup p.excused
                              \cup Unreported(p) \cup OpenEdits(p, d, q)
    BY DEF DataInv, AllHeld, Safe, Owes
  <2>2. p.target = q /\ p.saved = d.revision => d.committed \subseteq disk[q] \cup raced
    BY ConstantsAssumption DEF DataInv, Fits, DocumentFits
  <2>3. QED
    BY <2>1, <2>2 DEF OpenEdits
<1>2. QED
  BY <1>1, DataInvariance, PTL

(* Reset edits stay away from their sidecar, unless a save or load that the reset raced with,  *)
(* or the user, brings them back.                                                              *)
THEOREM ResetsHold == Spec => []ResetEditsStayReset
<1>1. DataInv => ResetEditsStayReset
  BY DEF DataInv, WantedFits, ResetEditsStayReset
<1>2. QED
  BY <1>1, DataInvariance, PTL

=============================================================================
