------------------------ MODULE ThumbnailPoolProofs ------------------------
(***************************************************************************)
(* Proofs about ThumbnailPool for every value of its constants.            *)
(*                                                                         *)
(* That a photo is loaded once needs that every load has its photo in      *)
(* in_flight; that a cleared cache stays clear, that no pool is left while *)
(* the clear waits for the older loads.  That edits stay on screen needs   *)
(* the types of the entries and of the events only.                        *)
(***************************************************************************)
EXTENDS ThumbnailPool, FiniteSetTheorems, SequenceTheorems, TLAPS

\* A worker that has taken a request holds one.
WorkersHaveWork == \A w \in Worker : At(w) \notin {"none", "idle"} => thread[w].work \in Work

\* A photo that is loaded is in flight.
LoadsAreInFlight == \A w \in Worker : Holds(w) => thread[w].work.photo \in pool.inFlight

\* The clear of the cache has ended the pool.
ClearingHasNoPool ==
  scan.ui = "clearing" => ~scan.starting /\ \A w \in Worker : At(w) = "none"

\* A clear is followed by a scan.
ClearsAreOver == disk.cleared < scan.generation

IInv ==
  /\ TypeOK /\ WorkersHaveWork
  /\ LoadsAreInFlight /\ OneLoadPerPhoto
  /\ ClearingHasNoPool /\ ClearsAreOver /\ ClearedCacheStaysClear

-----------------------------------------------------------------------------
(* Types. *)

PoolOK(p) ==
  p \in PoolStates /\ Len(p.requests) <= MaxRequests /\ Len(p.results) <= MaxResults
Base == TypeOK /\ WorkersHaveWork
ThreadsOK == thread \in [Worker -> ThreadStates] /\ WorkersHaveWork

\* The state of a thread that has a request when it needs one.
ThreadOK(t) == t \in ThreadStates /\ (t.at \notin {"none", "idle"} => t.work \in Work)

\* The parts of the type invariant.
LEMMA BaseParts ==
  /\ Base <=> /\ scan \in ScanStates /\ entry \in [Photo -> Entry] /\ PoolOK(pool)
              /\ ThreadsOK /\ late \in [1..MaxGeneration -> [waiting : Nat, loading : Nat]]
              /\ paused \in BOOLEAN /\ disk \in [edited : SUBSET Photo, cleared : 0..MaxGeneration]
  /\ Base' <=> /\ scan' \in ScanStates /\ entry' \in [Photo -> Entry] /\ PoolOK(pool')
               /\ ThreadsOK' /\ late' \in [1..MaxGeneration -> [waiting : Nat, loading : Nat]]
               /\ paused' \in BOOLEAN
               /\ disk' \in [edited : SUBSET Photo, cleared : 0..MaxGeneration]
  BY DEF Base, TypeOK, PoolOK, ThreadsOK

\* One thread changes.
LEMMA ThreadChanges ==
  ASSUME ThreadsOK, NEW w \in Worker, NEW t, ThreadOK(t), thread' = [thread EXCEPT ![w] = t]
  PROVE  /\ ThreadsOK'
         /\ thread'[w] = t /\ \A v \in Worker : v # w => thread'[v] = thread[v]
<1>1. t \in ThreadStates /\ thread \in [Worker -> ThreadStates]
  BY DEF ThreadsOK, ThreadOK
<1> HIDE DEF ThreadsOK
<1>2. thread' \in [Worker -> ThreadStates]
  BY <1>1
<1>3. thread'[w] = t /\ \A v \in Worker : v # w => thread'[v] = thread[v]
  BY <1>1
<1>4. \A v \in Worker : ThreadOK(thread[v])
  BY DEF ThreadsOK, WorkersHaveWork, ThreadOK, At
<1>5. \A v \in Worker : ThreadOK(thread'[v])
  BY <1>3, <1>4
<1> QED
  BY <1>2, <1>3, <1>5 DEF ThreadsOK, WorkersHaveWork, ThreadOK, At

\* The state a thread has when it starts over.
LEMMA IdleIsOK == ThreadOK(Idle) /\ Idle.at = "idle" /\ ThreadOK(NoThread) /\ NoThread.at = "none"
<1>1. Idle = [at |-> "idle", work |-> NoWork, loaded |-> "preview"]
  BY DEF Idle, NoThread
<1>2. "preview" \in Loaded /\ NoWork \in Work \cup {NoWork}
  BY DEF Loaded
<1> QED
  BY <1>1, <1>2 DEF ThreadOK, NoThread, ThreadStates

\* The background of a scan is a sequence of requests.
LEMMA BackgroundIsWork == Background \in Seq(Work)
<1> DEFINE asWork == [q \in Photo |-> [photo |-> q, display |-> FALSE, stage |-> "raw"]]
           S == {[photo |-> q, display |-> FALSE, stage |-> "raw"] : q \in Photo}
<1>1. IsFiniteSet(S)
  <2>1. asWork \in Surjection(Photo, S)
    BY DEF Surjection
  <2> QED
    BY <2>1, FS_Surjection, ThumbnailAssumption
<1>2. ASSUME NEW r \in S PROVE r \in Work
  <2>1. PICK q \in Photo : r = [photo |-> q, display |-> FALSE, stage |-> "raw"]
    OBVIOUS
  <2>2. FALSE \in BOOLEAN /\ "raw" \in {"raw", "developed"}
    OBVIOUS
  <2> QED
    BY <2>1, <2>2 DEF Work
<1> HIDE DEF S
<1>3. Cardinality(S) \in Nat /\ \E f \in [1..Cardinality(S) -> S] : IsInjective(f)
  BY <1>1, FS_CardinalityType DEF ExistsBijection, Bijection, Injection, IsInjective
<1>4. SetToSeq(S) \in [1..Cardinality(S) -> S]
  BY <1>3 DEF SetToSeq
<1>5. SetToSeq(S) \in Seq(S)
  BY <1>3, <1>4
<1>6. SetToSeq(S) \in Seq(Work)
  BY <1>2, <1>5, SeqMonotonic
<1> QED
  BY <1>6 DEF Background, S

\* A field of a pool changes.
LEMMA FieldChanges ==
  ASSUME NEW p \in PoolStates
  PROVE  /\ \A s \in Seq(Work) : [p EXCEPT !.requests = s] \in PoolStates
         /\ \A s \in Seq(Work) : [p EXCEPT !.background = s] \in PoolStates
         /\ \A s \in Seq(Event) : [p EXCEPT !.results = s] \in PoolStates
         /\ \A s \in SUBSET Photo : [p EXCEPT !.inFlight = s] \in PoolStates
  BY DEF PoolStates

LEMMA TailIsSeq ==
  ASSUME NEW S, NEW s \in Seq(S), s # <<>>
  PROVE  Tail(s) \in Seq(S) /\ Head(s) \in S /\ Len(Tail(s)) <= Len(s)
  BY HeadTailProperties, LenProperties

LEMMA LongerIsSeq ==
  ASSUME NEW S, NEW s \in Seq(S), NEW x \in S, NEW n \in Nat, Len(s) < n
  PROVE  Append(s, x) \in Seq(S) /\ Len(Append(s, x)) <= n
  BY LenProperties, AppendProperties

\* What the steps do to a pool.
LEMMA PoolChanges ==
  ASSUME NEW p, PoolOK(p)
  PROVE  /\ p.requests # <<>> =>
              PoolOK([p EXCEPT !.requests = Tail(@)]) /\ Head(p.requests) \in Work
         /\ p.background # <<>> =>
              PoolOK([p EXCEPT !.background = Tail(@)]) /\ Head(p.background) \in Work
         /\ \A q \in Photo : PoolOK([p EXCEPT !.inFlight = @ \cup {q}])
         /\ Len(p.results) < MaxResults =>
              \A e \in Event : PoolOK([p EXCEPT !.results = Append(@, e)])
         /\ p.results # <<>> =>
              PoolOK([p EXCEPT !.results = Tail(@)]) /\ Head(p.results) \in Event
         /\ Len(p.requests) < MaxRequests =>
              \A r \in Work : PoolOK([p EXCEPT !.requests = Append(@, r)])
<1>1. /\ p \in PoolStates /\ Len(p.requests) <= MaxRequests /\ Len(p.results) <= MaxResults
      /\ p.requests \in Seq(Work) /\ p.background \in Seq(Work) /\ p.results \in Seq(Event)
      /\ p.inFlight \subseteq Photo
  BY DEF PoolOK, PoolStates
<1>2. MaxRequests \in Nat /\ MaxResults \in Nat
  BY ThumbnailAssumption
<1>3. Len(p.requests) \in Nat /\ Len(p.results) \in Nat
  BY <1>1, LenProperties
<1>4. \A s \in Seq(Work) : [p EXCEPT !.requests = s] \in PoolStates
                           /\ [p EXCEPT !.requests = s].requests = s
                           /\ [p EXCEPT !.requests = s].results = p.results
  BY <1>1, FieldChanges DEF PoolStates
<1>5. \A s \in Seq(Work) : [p EXCEPT !.background = s] \in PoolStates
                           /\ [p EXCEPT !.background = s].requests = p.requests
                           /\ [p EXCEPT !.background = s].results = p.results
  BY <1>1, FieldChanges DEF PoolStates
<1>6. \A s \in Seq(Event) : [p EXCEPT !.results = s] \in PoolStates
                            /\ [p EXCEPT !.results = s].requests = p.requests
                            /\ [p EXCEPT !.results = s].results = s
  BY <1>1, FieldChanges DEF PoolStates
<1>7. ASSUME p.requests # <<>>
      PROVE  PoolOK([p EXCEPT !.requests = Tail(@)]) /\ Head(p.requests) \in Work
  <2>1. Tail(p.requests) \in Seq(Work) /\ Head(p.requests) \in Work
        /\ Len(Tail(p.requests)) <= Len(p.requests)
    BY <1>1, <1>7, TailIsSeq
  <2>2. Len(Tail(p.requests)) <= MaxRequests
    BY <2>1, <1>1, <1>2, <1>3, LenProperties
  <2> QED
    BY <2>1, <2>2, <1>1, <1>4 DEF PoolOK
<1>8. ASSUME p.background # <<>>
      PROVE  PoolOK([p EXCEPT !.background = Tail(@)]) /\ Head(p.background) \in Work
  <2>1. Tail(p.background) \in Seq(Work) /\ Head(p.background) \in Work
    BY <1>1, <1>8, TailIsSeq
  <2> QED
    BY <2>1, <1>1, <1>5 DEF PoolOK
<1>9. ASSUME NEW q \in Photo
      PROVE  PoolOK([p EXCEPT !.inFlight = @ \cup {q}])
  <2>1. p.inFlight \cup {q} \in SUBSET Photo
    BY <1>1
  <2> QED
    BY <2>1, <1>1, FieldChanges DEF PoolOK, PoolStates
<1>10. ASSUME Len(p.results) < MaxResults, NEW e \in Event
       PROVE  PoolOK([p EXCEPT !.results = Append(@, e)])
  <2>1. Append(p.results, e) \in Seq(Event) /\ Len(Append(p.results, e)) <= MaxResults
    BY <1>1, <1>2, <1>10, LongerIsSeq
  <2> QED
    BY <2>1, <1>1, <1>6 DEF PoolOK
<1>11. ASSUME p.results # <<>>
       PROVE  PoolOK([p EXCEPT !.results = Tail(@)]) /\ Head(p.results) \in Event
  <2>1. Tail(p.results) \in Seq(Event) /\ Head(p.results) \in Event
        /\ Len(Tail(p.results)) <= Len(p.results)
    BY <1>1, <1>11, TailIsSeq
  <2>2. Len(Tail(p.results)) <= MaxResults
    BY <2>1, <1>1, <1>2, <1>3, LenProperties
  <2> QED
    BY <2>1, <2>2, <1>1, <1>6 DEF PoolOK
<1>12. ASSUME Len(p.requests) < MaxRequests, NEW r \in Work
       PROVE  PoolOK([p EXCEPT !.requests = Append(@, r)])
  <2>1. Append(p.requests, r) \in Seq(Work) /\ Len(Append(p.requests, r)) <= MaxRequests
    BY <1>1, <1>2, <1>12, LongerIsSeq
  <2> QED
    BY <2>1, <1>1, <1>4 DEF PoolOK
<1> QED
  BY <1>7, <1>8, <1>9, <1>10, <1>11, <1>12

-----------------------------------------------------------------------------
(* The steps of the workers. *)

\* The threads at the gate or in a load have their photo in flight, each another one.
Safe == LoadsAreInFlight /\ OneLoadPerPhoto

\* A worker's step keeps the loads apart if its photo, when it holds one, is in flight
\* and no other's, and those of the others stay in flight.
LEMMA LoadsStayApart ==
  ASSUME Safe, NEW w \in Worker, NEW t, thread'[w] = t,
         \A v \in Worker : v # w => thread'[v] = thread[v],
         t.at \in {"waiting", "loading"} =>
           /\ t.work.photo \in pool'.inFlight
           /\ \A v \in Worker : v # w /\ Holds(v) => thread[v].work.photo # t.work.photo,
         \A v \in Worker :
           v # w /\ Holds(v) => thread[v].work.photo \in pool'.inFlight
  PROVE  Safe'
<1>1. \A v \in Worker : v # w => (Holds(v)' <=> Holds(v))
  BY DEF Holds, At
<1>2. Holds(w)' <=> t.at \in {"waiting", "loading"}
  BY DEF Holds, At
<1>3. LoadsAreInFlight'
  BY <1>1, <1>2 DEF LoadsAreInFlight, Safe
<1>4. ASSUME NEW u \in Worker, NEW v \in Worker, u # v, Holds(u)', Holds(v)'
      PROVE  thread'[u].work.photo # thread'[v].work.photo
  <2>1. CASE u = w
    BY <1>1, <1>2, <1>4, <2>1
  <2>2. CASE v = w
    BY <1>1, <1>2, <1>4, <2>2
  <2>3. CASE u # w /\ v # w
    BY <1>1, <1>4, <2>3 DEF Safe, OneLoadPerPhoto
  <2> QED
    BY <2>1, <2>2, <2>3
<1> QED
  BY <1>3, <1>4 DEF Safe, OneLoadPerPhoto

\* A worker of a pool that is running.
Works(w) == At(w) # "none"
\* What a worker's step leaves alone.
OthersStay == UNCHANGED <<scan, entry, late, paused, disk>>

LEMMA TakeIsSafe ==
  ASSUME Base, Safe, NEW w \in Worker, Take(w)
  PROVE  Base' /\ Safe' /\ Works(w) /\ OthersStay
<1>1. PoolOK(pool) /\ ThreadsOK
  BY BaseParts
<1>2. /\ At(w) = "idle" /\ OthersStay
      /\ \/ /\ pool.requests # <<>>
            /\ thread' = [thread EXCEPT ![w].at = "claiming", ![w].work = Head(pool.requests)]
            /\ pool' = [pool EXCEPT !.requests = Tail(@)]
         \/ /\ pool.background # <<>>
            /\ thread' = [thread EXCEPT ![w].at = "claiming", ![w].work = Head(pool.background)]
            /\ pool' = [pool EXCEPT !.background = Tail(@)]
  BY DEF Take, OthersStay
<1>3. PoolOK(pool') /\ pool'.inFlight = pool.inFlight
  BY <1>1, <1>2, PoolChanges DEF PoolOK, PoolStates
<1>4. PICK work \in Work :
        thread' = [thread EXCEPT ![w].at = "claiming", ![w].work = work]
  BY <1>1, <1>2, PoolChanges
<1> DEFINE t == [thread[w] EXCEPT !.at = "claiming", !.work = work]
<1>5. thread[w] \in ThreadStates
  BY <1>1 DEF ThreadsOK
<1>6. thread' = [thread EXCEPT ![w] = t]
  BY <1>4
<1>7. ThreadOK(t) /\ t.at = "claiming"
  BY <1>5 DEF ThreadOK, ThreadStates
<1> HIDE DEF t
<1>8. /\ ThreadsOK'
      /\ thread'[w] = t /\ \A v \in Worker : v # w => thread'[v] = thread[v]
  BY <1>1, <1>6, <1>7, ThreadChanges
<1>9. Safe'
  BY <1>3, <1>7, <1>8, LoadsStayApart DEF Safe, LoadsAreInFlight
<1> QED
  BY <1>2, <1>3, <1>8, <1>9, BaseParts DEF OthersStay, PoolOK, Works

LEMMA ClaimIsSafe ==
  ASSUME Base, Safe, NEW w \in Worker, Claim(w)
  PROVE  Base' /\ Safe' /\ Works(w) /\ OthersStay
<1> DEFINE work == thread[w].work
<1>1. PoolOK(pool) /\ ThreadsOK
  BY BaseParts
<1>2. /\ At(w) = "claiming" /\ OthersStay
      /\ \/ /\ work.photo \notin pool.inFlight
            /\ pool' = [pool EXCEPT !.inFlight = @ \cup {work.photo}]
            /\ thread' = [thread EXCEPT ![w].at = "waiting"]
         \/ thread' = [thread EXCEPT ![w] = Idle] /\ pool' = pool
  BY DEF Claim, Claims, Step, OthersStay
<1>3. thread[w] \in ThreadStates /\ work \in Work /\ work.photo \in Photo
  BY <1>1, <1>2 DEF ThreadsOK, WorkersHaveWork, Work
<1>4. CASE /\ work.photo \notin pool.inFlight
           /\ pool' = [pool EXCEPT !.inFlight = @ \cup {work.photo}]
           /\ thread' = [thread EXCEPT ![w].at = "waiting"]
  <2> DEFINE t == [thread[w] EXCEPT !.at = "waiting"]
  <2>1. PoolOK(pool') /\ pool'.inFlight = pool.inFlight \cup {work.photo}
    BY <1>1, <1>3, <1>4, PoolChanges DEF PoolOK, PoolStates
  <2>2. thread' = [thread EXCEPT ![w] = t]
    BY <1>4
  <2>3. ThreadOK(t) /\ t.at = "waiting" /\ t.work.photo = work.photo
    BY <1>3 DEF ThreadOK, ThreadStates
  <2> HIDE DEF t, work
  <2>4. /\ ThreadsOK'
        /\ thread'[w] = t /\ \A v \in Worker : v # w => thread'[v] = thread[v]
    BY <1>1, <2>2, <2>3, ThreadChanges
  <2>5. Safe'
    BY <1>4, <2>1, <2>3, <2>4, LoadsStayApart DEF Safe, LoadsAreInFlight
  <2> QED
    BY <1>2, <2>1, <2>4, <2>5, BaseParts DEF OthersStay, PoolOK, Works
<1>5. CASE thread' = [thread EXCEPT ![w] = Idle] /\ pool' = pool
  <2>1. /\ ThreadsOK'
        /\ thread'[w] = Idle /\ \A v \in Worker : v # w => thread'[v] = thread[v]
    BY <1>1, <1>5, IdleIsOK, ThreadChanges
  <2>2. Safe'
    BY <1>5, <2>1, IdleIsOK, LoadsStayApart DEF Safe, LoadsAreInFlight
  <2> QED
    BY <1>1, <1>2, <1>5, <2>1, <2>2, BaseParts DEF OthersStay, PoolOK, Works
<1> QED
  BY <1>2, <1>4, <1>5

LEMMA BeginIsSafe ==
  ASSUME Base, Safe, NEW w \in Worker, Begin(w)
  PROVE  Base' /\ Safe' /\ Works(w) /\ OthersStay
<1>1. PoolOK(pool) /\ ThreadsOK
  BY BaseParts
<1>2. At(w) = "waiting" /\ pool' = pool /\ OthersStay
  BY DEF Begin, OthersStay
<1>3. PICK loaded \in Loaded :
        thread' = [thread EXCEPT ![w].at = "loading", ![w].loaded = loaded]
  BY DEF Begin, Answers, Loaded
<1> DEFINE t == [thread[w] EXCEPT !.at = "loading", !.loaded = loaded]
<1>4. thread[w] \in ThreadStates /\ thread[w].work \in Work
  BY <1>1, <1>2 DEF ThreadsOK, WorkersHaveWork
<1>5. thread' = [thread EXCEPT ![w] = t]
  BY <1>3
<1>6. ThreadOK(t) /\ t.at = "loading" /\ t.work = thread[w].work
  BY <1>4 DEF ThreadOK, ThreadStates
<1> HIDE DEF t
<1>7. /\ ThreadsOK'
      /\ thread'[w] = t /\ \A v \in Worker : v # w => thread'[v] = thread[v]
  BY <1>1, <1>5, <1>6, ThreadChanges
<1>8. Holds(w)
  BY <1>2 DEF Holds
<1>9. Safe'
  BY <1>2, <1>6, <1>7, <1>8, LoadsStayApart DEF Safe, LoadsAreInFlight, OneLoadPerPhoto
<1> QED
  BY <1>1, <1>2, <1>7, <1>9, BaseParts DEF OthersStay, PoolOK, Works

LEMMA EndLoadIsSafe ==
  ASSUME Base, Safe, NEW w \in Worker, EndLoad(w)
  PROVE  Base' /\ Safe' /\ Works(w) /\ OthersStay
<1> DEFINE work == thread[w].work
           t == [thread[w] EXCEPT !.at = "sending"]
<1>1. PoolOK(pool) /\ ThreadsOK
  BY BaseParts
<1>2. At(w) = "loading" /\ pool' = Finished(work) /\ OthersStay
  BY DEF EndLoad, OthersStay
<1>3. thread' = [thread EXCEPT ![w] = t]
  BY DEF EndLoad, Step
<1>4. thread[w] \in ThreadStates /\ work \in Work /\ work.photo \in Photo
  BY <1>1, <1>2 DEF ThreadsOK, WorkersHaveWork, Work
<1>5. PoolOK(pool') /\ pool'.inFlight = pool.inFlight \ {work.photo}
  BY <1>1, <1>2, <1>4 DEF Finished, PoolOK, PoolStates
<1>6. ThreadOK(t) /\ t.at = "sending"
  BY <1>4 DEF ThreadOK, ThreadStates
<1> HIDE DEF t
<1>7. /\ ThreadsOK'
      /\ thread'[w] = t /\ \A v \in Worker : v # w => thread'[v] = thread[v]
  BY <1>1, <1>3, <1>6, ThreadChanges
<1>8. Holds(w)
  BY <1>2 DEF Holds
<1>9. \A v \in Worker : v # w /\ Holds(v) => thread[v].work.photo \in pool'.inFlight
  BY <1>5, <1>8 DEF Safe, LoadsAreInFlight, OneLoadPerPhoto
<1>10. Safe'
  BY <1>6, <1>7, <1>9, LoadsStayApart
<1> QED
  BY <1>2, <1>5, <1>7, <1>10, BaseParts DEF OthersStay, PoolOK, Works

LEMMA SendIsSafe ==
  ASSUME Base, Safe, NEW w \in Worker, Send(w)
  PROVE  Base' /\ Safe' /\ Works(w) /\ OthersStay
<1> DEFINE load == thread[w]
           event == [photo |-> load.work.photo, loaded |-> load.loaded]
<1>1. PoolOK(pool) /\ ThreadsOK
  BY BaseParts
<1>2. /\ At(w) = "sending" /\ Len(pool.results) < MaxResults /\ OthersStay
      /\ pool' = [pool EXCEPT !.results = Append(@, event)]
  BY DEF Send, OthersStay
<1>3. load \in ThreadStates /\ load.work \in Work /\ load.work.photo \in Photo
  BY <1>1, <1>2 DEF ThreadsOK, WorkersHaveWork, Work
<1>4. event \in Event
  BY <1>3 DEF Event, ThreadStates
<1>5. PoolOK(pool') /\ pool'.inFlight = pool.inFlight
  <2> HIDE DEF event
  <2> QED
    BY <1>1, <1>2, <1>4, PoolChanges DEF PoolOK, PoolStates
<1>6. PICK t : /\ ThreadOK(t) /\ t.at \in {"scheduling", "idle"}
               /\ thread' = [thread EXCEPT ![w] = t]
  <2>1. \/ thread' = [thread EXCEPT ![w] = [load EXCEPT !.at = "scheduling"]]
        \/ thread' = [thread EXCEPT ![w] = Idle]
    BY DEF Send
  <2>2. ThreadOK([load EXCEPT !.at = "scheduling"])
        /\ [load EXCEPT !.at = "scheduling"].at = "scheduling"
    BY <1>3 DEF ThreadOK, ThreadStates
  <2> QED
    BY <2>1, <2>2, IdleIsOK
<1>7. /\ ThreadsOK'
      /\ thread'[w] = t /\ \A v \in Worker : v # w => thread'[v] = thread[v]
  BY <1>1, <1>6, ThreadChanges
<1>8. Safe'
  BY <1>5, <1>6, <1>7, LoadsStayApart DEF Safe, LoadsAreInFlight
<1> QED
  BY <1>2, <1>5, <1>7, <1>8, BaseParts DEF OthersStay, PoolOK, Works

LEMMA ScheduleIsSafe ==
  ASSUME Base, Safe, NEW w \in Worker, ScheduleDeveloped(w)
  PROVE  Base' /\ Safe' /\ Works(w) /\ OthersStay
<1> DEFINE q == thread[w].work.photo
           work == [photo |-> q, display |-> FALSE, stage |-> "developed"]
<1>1. PoolOK(pool) /\ ThreadsOK
  BY BaseParts
<1>2. /\ At(w) = "scheduling" /\ pool' = WithDeveloped(q) /\ OthersStay
      /\ thread' = [thread EXCEPT ![w] = Idle]
  BY DEF ScheduleDeveloped, OthersStay
<1>3. q \in Photo /\ work \in Work
  BY <1>1, <1>2 DEF ThreadsOK, WorkersHaveWork, Work
<1>4. Append(pool.background, work) \in Seq(Work)
  BY <1>1, <1>3, AppendProperties DEF PoolOK, PoolStates
<1>5. PoolOK(pool') /\ pool'.inFlight = pool.inFlight
  <2> HIDE DEF q, work
  <2>1. \/ pool' = pool
        \/ pool' = [pool EXCEPT !.developedQueued = @ \cup {q},
                                !.background = Append(pool.background, work)]
    BY <1>2 DEF WithDeveloped, work
  <2> QED
    BY <1>1, <1>3, <1>4, <2>1 DEF PoolOK, PoolStates
<1>6. /\ ThreadsOK'
      /\ thread'[w] = Idle /\ \A v \in Worker : v # w => thread'[v] = thread[v]
  BY <1>1, <1>2, IdleIsOK, ThreadChanges
<1>7. Safe'
  BY <1>5, <1>6, IdleIsOK, LoadsStayApart DEF Safe, LoadsAreInFlight
<1> QED
  BY <1>2, <1>5, <1>6, <1>7, BaseParts DEF OthersStay, PoolOK, Works

-----------------------------------------------------------------------------
(* The clear of the cache. *)

LateStates == [1..MaxGeneration -> [waiting : Nat, loading : Nat]]
Cleared == ClearingHasNoPool /\ ClearsAreOver /\ ClearedCacheStaysClear

LEMMA CountsAreNat == \A at : Cardinality(Workers(at)) \in Nat
<1> SUFFICES ASSUME NEW at PROVE Cardinality(Workers(at)) \in Nat
  OBVIOUS
<1>1. Workers(at) \subseteq Worker
  BY DEF Workers
<1> QED
  BY <1>1, FS_Subset, FS_CardinalityType, ThumbnailAssumption

\* An empty pool and no threads.
LEMMA NothingIsSafe ==
  ASSUME thread' = [w \in Worker |-> NoThread], pool' = EmptyPool
  PROVE  ThreadsOK' /\ PoolOK(pool') /\ Safe' /\ \A w \in Worker : At(w)' = "none"
<1>1. \A w \in Worker : thread'[w] = NoThread
  OBVIOUS
<1>2. ThreadsOK'
  BY <1>1, IdleIsOK DEF ThreadsOK, WorkersHaveWork, ThreadOK, At
<1>3. \A w \in Worker : At(w)' = "none"
  BY <1>1, IdleIsOK DEF At
<1>4. Safe'
  BY <1>3 DEF Safe, LoadsAreInFlight, OneLoadPerPhoto, Holds
<1>5. PoolOK(pool')
  <2>1. <<>> \in Seq(Work) /\ <<>> \in Seq(Event) /\ Len(<<>>) = 0
    BY EmptySeq
  <2> QED
    BY <2>1, ThumbnailAssumption DEF PoolOK, PoolStates, EmptyPool
<1> QED
  BY <1>2, <1>3, <1>4, <1>5

\* The counts of the pool are added to those of its generation.
LEMMA PoolIsLeft ==
  ASSUME Base, LeavePool
  PROVE  /\ ThreadsOK' /\ PoolOK(pool') /\ Safe' /\ \A w \in Worker : At(w)' = "none"
         /\ late' \in LateStates
         /\ \A g \in 1..MaxGeneration : g # scan.generation => late'[g] = late[g]
         /\ (\A w \in Worker : At(w) = "none")
              => \A g \in 1..MaxGeneration : late'[g].loading = late[g].loading
<1> DEFINE g0 == scan.generation
           c == [waiting |-> late[g0].waiting + Cardinality(Workers("waiting")),
                 loading |-> late[g0].loading + Cardinality(Workers("loading"))]
<1>1. late \in LateStates /\ g0 \in 1..MaxGeneration
  BY BaseParts DEF LateStates, ScanStates
<1>2. late' = [late EXCEPT ![g0] = c]
  BY DEF LeavePool
<1>3. Cardinality(Workers("waiting")) \in Nat /\ Cardinality(Workers("loading")) \in Nat
  BY CountsAreNat
<1>4. late[g0].waiting \in Nat /\ late[g0].loading \in Nat
  BY <1>1 DEF LateStates
<1>5. c \in [waiting : Nat, loading : Nat]
  BY <1>3, <1>4
<1>6. ASSUME \A w \in Worker : At(w) = "none" PROVE c.loading = late[g0].loading
  <2>1. Workers("loading") = {}
    BY <1>6 DEF Workers
  <2> QED
    BY <2>1, <1>4, FS_EmptySet
<1> HIDE DEF c, g0
<1>7. late' \in LateStates /\ late'[g0] = c
  BY <1>1, <1>2, <1>5 DEF LateStates
<1>8. \A g \in 1..MaxGeneration : g # g0 => late'[g] = late[g]
  BY <1>1, <1>2 DEF LateStates
<1>9. ThreadsOK' /\ PoolOK(pool') /\ Safe' /\ \A w \in Worker : At(w)' = "none"
  BY NothingIsSafe DEF LeavePool
<1> QED
  BY <1>6, <1>7, <1>8, <1>9 DEF g0

\* A step that raises the generation, or leaves it, with the clears as they are.
LEMMA StillCleared ==
  ASSUME Base, Cleared, UNCHANGED <<disk, late>>, scan'.generation = scan.generation,
         ClearingHasNoPool'
  PROVE  Cleared'
<1>1. disk' = disk /\ late' = late /\ disk.cleared < scan'.generation
  BY DEF Cleared, ClearsAreOver
<1> QED
  BY <1>1 DEF Cleared, ClearsAreOver, ClearedCacheStaysClear

\* A worker's step is not the clear's.
LEMMA WorkersStayCleared ==
  ASSUME Base, Cleared, NEW w \in Worker, Works(w), OthersStay
  PROVE  Cleared'
<1>1. ClearingHasNoPool'
  BY DEF Cleared, ClearingHasNoPool, Works, OthersStay
<1> QED
  BY <1>1, StillCleared DEF OthersStay

\* A new scan, with the disk as it is.
LEMMA NewScanIsSafe ==
  ASSUME Base, Cleared, NEW e \in [Photo -> Entry], NewScan(e), paused' \in BOOLEAN,
         disk' \in [edited : SUBSET Photo, cleared : 0..MaxGeneration],
         disk'.cleared < scan'.generation,
         \A g \in 1..disk'.cleared : late'[g].loading = 0
  PROVE  Base' /\ Safe' /\ Cleared'
<1>1. scan \in ScanStates /\ scan.generation < MaxGeneration /\ LeavePool
  BY BaseParts DEF NewScan
<1>2. scan' \in ScanStates /\ scan'.ui = "scanning"
  <2> DEFINE n == scan.generation + 1
  <2>1. scan' = [generation |-> n, open |-> TRUE, starting |-> TRUE, listed |-> scan.listed,
                 ui |-> "scanning"]
    BY <1>1 DEF NewScan, ScanStates
  <2>2. n \in 1..MaxGeneration
    <3>1. scan.generation \in 1..MaxGeneration
      BY <1>1 DEF ScanStates
    <3>2. scan.generation < MaxGeneration /\ MaxGeneration \in Nat
      BY <1>1, ThumbnailAssumption
    <3> QED
      BY <3>1, <3>2
  <2>3. scan.listed \in BOOLEAN /\ TRUE \in BOOLEAN
    BY <1>1 DEF ScanStates
  <2> HIDE DEF n
  <2> QED
    BY <2>1, <2>2, <2>3 DEF ScanStates
<1>3. entry' \in [Photo -> Entry]
  <2>1. \A q \in Photo : [e[q] EXCEPT !.queued = FALSE] \in Entry
    BY DEF Entry
  <2> QED
    BY <2>1 DEF NewScan
<1>4. /\ ThreadsOK' /\ PoolOK(pool') /\ Safe'
      /\ late' \in LateStates
  BY <1>1, PoolIsLeft
<1>5. Cleared'
  BY <1>2 DEF Cleared, ClearingHasNoPool, ClearsAreOver, ClearedCacheStaysClear
<1> QED
  BY <1>2, <1>3, <1>4, <1>5, BaseParts DEF LateStates, PoolOK

-----------------------------------------------------------------------------
(* The steps of the UI thread and of the scan's own thread. *)

\* A step that leaves the threads and what is in flight alone.
LEMMA SameThreads ==
  ASSUME Safe, ThreadsOK, thread' = thread, pool'.inFlight = pool.inFlight
  PROVE  Safe' /\ ThreadsOK'
<1>1. \A w \in Worker : (Holds(w)' <=> Holds(w)) /\ At(w)' = At(w)
  BY DEF Holds, At
<1> QED
  BY <1>1 DEF Safe, LoadsAreInFlight, OneLoadPerPhoto, ThreadsOK, WorkersHaveWork

\* The fields of the scan that steps change without a new generation.
LEMMA ScanFields ==
  ASSUME Base
  PROVE  /\ scan \in ScanStates
         /\ [scan EXCEPT !.starting = FALSE] \in ScanStates
         /\ [scan EXCEPT !.listed = TRUE] \in ScanStates
         /\ [scan EXCEPT !.open = FALSE] \in ScanStates
         /\ [scan EXCEPT !.ui = "not cleared"] \in ScanStates
         /\ [scan EXCEPT !.open = FALSE, !.starting = FALSE, !.ui = "clearing"] \in ScanStates
  BY BaseParts DEF ScanStates

LEMMA EventsAreEvents == Catalog \in Event /\ ScanFailed \in Event
  BY DEF Event

LEMMA StartPoolIsSafe ==
  ASSUME Base, Safe, Cleared, StartPool
  PROVE  Base' /\ Safe' /\ Cleared'
<1>1. /\ scan.starting /\ Len(pool.results) < MaxResults
      /\ pool' = [pool EXCEPT !.background = Background, !.results = Append(@, Catalog)]
      /\ scan' = [scan EXCEPT !.starting = FALSE]
      /\ thread' = [w \in Worker |-> Idle]
      /\ entry' = entry /\ late' = late /\ paused' = paused /\ disk' = disk
  BY DEF StartPool
<1>2. scan' \in ScanStates /\ scan'.ui = scan.ui /\ scan'.generation = scan.generation
  BY <1>1, ScanFields DEF ScanStates
<1>3. PoolOK(pool')
  <2>1. PoolOK(pool) /\ PoolOK([pool EXCEPT !.results = Append(@, Catalog)])
    BY <1>1, BaseParts, EventsAreEvents, PoolChanges
  <2> QED
    BY <1>1, <2>1, BackgroundIsWork DEF PoolOK, PoolStates
<1>4. \A w \in Worker : thread'[w] = Idle /\ At(w)' = "idle"
  BY <1>1, IdleIsOK DEF At
<1>5. ThreadsOK' /\ Safe'
  BY <1>1, <1>4, IdleIsOK DEF ThreadsOK, WorkersHaveWork, ThreadOK, Safe, LoadsAreInFlight,
     OneLoadPerPhoto, Holds
<1>6. ClearingHasNoPool'
  BY <1>1, <1>2 DEF Cleared, ClearingHasNoPool
<1>7. Cleared'
  BY <1>1, <1>2, <1>6, StillCleared
<1> QED
  BY <1>1, <1>2, <1>3, <1>5, <1>7, BaseParts DEF PoolOK

LEMMA ScanFailsIsSafe ==
  ASSUME Base, Safe, Cleared, ScanFails
  PROVE  Base' /\ Safe' /\ Cleared'
<1>1. /\ scan.starting /\ Len(pool.results) < MaxResults
      /\ pool' = [pool EXCEPT !.results = Append(@, ScanFailed)]
      /\ scan' = [scan EXCEPT !.starting = FALSE]
      /\ entry' = entry /\ thread' = thread /\ late' = late /\ paused' = paused /\ disk' = disk
  BY DEF ScanFails
<1>2. scan' \in ScanStates /\ scan'.ui = scan.ui /\ scan'.generation = scan.generation
  BY <1>1, ScanFields DEF ScanStates
<1>3. PoolOK(pool) /\ PoolOK(pool') /\ pool'.inFlight = pool.inFlight
  BY <1>1, BaseParts, EventsAreEvents, PoolChanges DEF PoolOK, PoolStates
<1>4. ThreadsOK' /\ Safe'
  BY <1>1, <1>3, BaseParts, SameThreads
<1>5. Cleared'
  BY <1>1, <1>2, StillCleared DEF Cleared, ClearingHasNoPool
<1> QED
  BY <1>1, <1>2, <1>3, <1>4, <1>5, BaseParts DEF PoolOK

\* What an entry becomes is an entry.
LEMMA EntriesAreEntries ==
  ASSUME Base
  PROVE  /\ entry \in [Photo -> Entry] /\ Listed \in [Photo -> Entry]
         /\ [q \in Photo |-> NewEntry] \in [Photo -> Entry]
         /\ \A q \in Photo : Invalidated(q) \in [Photo -> Entry]
         /\ \A q \in Photo : \A b \in BOOLEAN :
              [entry EXCEPT ![q].queued = b] \in [Photo -> Entry]
         /\ \A q \in Photo : \A loaded \in Loaded :
              [entry EXCEPT ![q] = Shown(@, loaded)] \in [Photo -> Entry]
         /\ \A q \in Photo :
              [entry EXCEPT ![q] = [NewEntry EXCEPT !.shown = TRUE, !.developed = TRUE]]
                \in [Photo -> Entry]
<1>1. entry \in [Photo -> Entry]
  BY BaseParts
<1>2. NewEntry \in Entry
  BY DEF NewEntry, Entry
<1>3. \A e \in Entry : \A b \in BOOLEAN : [e EXCEPT !.queued = b] \in Entry
  BY DEF Entry
<1>4. \A e \in Entry : \A loaded \in Loaded : Shown(e, loaded) \in Entry
  BY DEF Entry, Shown
<1>5. [NewEntry EXCEPT !.shown = TRUE, !.developed = TRUE] \in Entry
  BY DEF NewEntry, Entry
<1> QED
  BY <1>1, <1>2, <1>3, <1>4, <1>5 DEF Listed, Invalidated

LEMMA TouchIsSafe ==
  ASSUME Base, Safe, Cleared, NEW q \in Photo, Touch(q)
  PROVE  Base' /\ Safe' /\ Cleared'
<1> DEFINE sends == scan.open /\ PoolListens /\ Len(pool.requests) < MaxRequests
           work == [photo |-> q, display |-> TRUE, stage |-> "raw"]
<1>1. /\ entry' = [entry EXCEPT ![q].queued = sends]
      /\ pool' = IF sends THEN [pool EXCEPT !.requests = Append(@, work)] ELSE pool
      /\ scan' = scan /\ thread' = thread /\ late' = late /\ paused' = paused /\ disk' = disk
  BY DEF Touch
<1>2. sends \in BOOLEAN /\ work \in Work
  BY DEF Work
<1>3. sends => Len(pool.requests) < MaxRequests
  OBVIOUS
<1> HIDE DEF sends, work
<1>4. entry' \in [Photo -> Entry]
  BY <1>1, <1>2, EntriesAreEntries
<1>5. PoolOK(pool) /\ PoolOK(pool') /\ pool'.inFlight = pool.inFlight
  BY <1>1, <1>2, <1>3, BaseParts, PoolChanges DEF PoolOK, PoolStates
<1>6. ThreadsOK' /\ Safe'
  BY <1>1, <1>5, BaseParts, SameThreads
<1>7. Cleared'
  BY <1>1, StillCleared DEF Cleared, ClearingHasNoPool, At
<1> QED
  BY <1>1, <1>4, <1>5, <1>6, <1>7, BaseParts DEF PoolOK

LEMMA PollIsSafe ==
  ASSUME Base, Safe, Cleared, Poll
  PROVE  Base' /\ Safe' /\ Cleared'
<1> DEFINE event == Head(pool.results)
<1>1. /\ pool.results # <<>> /\ pool' = [pool EXCEPT !.results = Tail(@)]
      /\ thread' = thread /\ late' = late /\ paused' = paused /\ disk' = disk
      /\ \/ entry' = Listed /\ scan' = [scan EXCEPT !.listed = TRUE]
         \/ entry' = entry /\ scan' = [scan EXCEPT !.open = FALSE]
         \/ /\ event.photo # NoPhoto
            /\ entry' = [entry EXCEPT ![event.photo] = Shown(@, event.loaded)]
            /\ scan' = scan
  BY DEF Poll
<1>2. PoolOK(pool) /\ PoolOK(pool') /\ event \in Event
  BY <1>1, BaseParts, PoolChanges
<1>3. pool'.inFlight = pool.inFlight
  BY <1>1, <1>2 DEF PoolOK, PoolStates
<1> HIDE DEF event
<1>4. event.photo # NoPhoto => event.photo \in Photo /\ event.loaded \in Loaded
  <2>1. Catalog.photo = NoPhoto /\ ScanFailed.photo = NoPhoto
    BY DEF Catalog, ScanFailed
  <2>2. event \in [photo : Photo, loaded : Loaded] \/ event = Catalog \/ event = ScanFailed
    BY <1>2 DEF Event
  <2> QED
    BY <2>1, <2>2
<1>5. entry' \in [Photo -> Entry]
  BY <1>1, <1>4, EntriesAreEntries
<1>6. /\ scan' \in ScanStates /\ scan'.ui = scan.ui /\ scan'.generation = scan.generation
      /\ scan'.starting = scan.starting
  BY <1>1, ScanFields DEF ScanStates
<1>7. ThreadsOK' /\ Safe'
  BY <1>1, <1>2, <1>3, BaseParts, SameThreads
<1>8. ClearingHasNoPool'
  BY <1>1, <1>6 DEF Cleared, ClearingHasNoPool, At
<1>9. Cleared'
  BY <1>1, <1>6, <1>8, StillCleared
<1> QED
  BY <1>1, <1>2, <1>5, <1>6, <1>7, <1>9, BaseParts DEF PoolOK

LEMMA DiskChanges ==
  ASSUME Base
  PROVE  /\ \A E \in SUBSET Photo : [disk EXCEPT !.edited = E]
                                      \in [edited : SUBSET Photo, cleared : 0..MaxGeneration]
         /\ \A E \in SUBSET Photo : [disk EXCEPT !.edited = E].cleared = disk.cleared
         /\ [disk EXCEPT !.cleared = scan.generation]
              \in [edited : SUBSET Photo, cleared : 0..MaxGeneration]
         /\ [disk EXCEPT !.cleared = scan.generation].cleared = scan.generation
         /\ disk.edited \subseteq Photo /\ disk.cleared \in 0..MaxGeneration
         /\ scan.generation \in 1..MaxGeneration /\ MaxGeneration \in Nat
<1>1. /\ disk \in [edited : SUBSET Photo, cleared : 0..MaxGeneration]
      /\ scan.generation \in 1..MaxGeneration /\ MaxGeneration \in Nat
  BY BaseParts, ThumbnailAssumption DEF ScanStates
<1>2. scan.generation \in 0..MaxGeneration
  BY <1>1
<1> QED
  BY <1>1, <1>2

LEMMA InstallIsSafe ==
  ASSUME Base, Safe, Cleared, NEW q \in Photo, InstallDeveloped(q)
  PROVE  Base' /\ Safe' /\ Cleared'
<1>1. /\ scan' = scan /\ pool' = pool /\ thread' = thread /\ late' = late /\ paused' = paused
      /\ entry' = [entry EXCEPT ![q] = [NewEntry EXCEPT !.shown = TRUE, !.developed = TRUE]]
      /\ disk' = [disk EXCEPT !.edited = disk.edited \cup {q}]
  BY DEF InstallDeveloped
<1>2. /\ disk' \in [edited : SUBSET Photo, cleared : 0..MaxGeneration]
      /\ disk'.cleared = disk.cleared
  BY <1>1, DiskChanges
<1>3. entry' \in [Photo -> Entry]
  BY <1>1, EntriesAreEntries
<1>4. ThreadsOK' /\ Safe'
  BY <1>1, BaseParts, SameThreads
<1>5. Cleared'
  BY <1>1, <1>2 DEF Cleared, ClearingHasNoPool, ClearsAreOver, ClearedCacheStaysClear, At
<1> QED
  BY <1>1, <1>2, <1>3, <1>4, <1>5, BaseParts DEF PoolOK

LEMMA ShowTabIsSafe ==
  ASSUME Base, Safe, Cleared, ShowTab
  PROVE  Base' /\ Safe' /\ Cleared'
<1>1. /\ paused' \in BOOLEAN
      /\ UNCHANGED <<scan, entry, pool, thread, late, disk>>
  BY DEF ShowTab
<1>2. ThreadsOK' /\ Safe'
  BY <1>1, BaseParts, SameThreads
<1>3. Cleared'
  BY <1>1, StillCleared DEF Cleared, ClearingHasNoPool, At
<1> QED
  BY <1>1, <1>2, <1>3, BaseParts DEF PoolOK

\* A pool that is left has not been cleared.
LEMMA LeftIsNotCleared ==
  ASSUME Base, Cleared, LeavePool
  PROVE  \A g \in 1..disk.cleared : late'[g].loading = 0
<1>1. \A g \in 1..disk.cleared : g \in 1..MaxGeneration /\ g # scan.generation
  BY DiskChanges DEF Cleared, ClearsAreOver
<1>2. \A g \in 1..disk.cleared : late'[g] = late[g]
  BY <1>1, PoolIsLeft
<1> QED
  BY <1>2 DEF Cleared, ClearedCacheStaysClear

LEMMA RescansAreSafe ==
  ASSUME Base, Cleared, NEW e \in [Photo -> Entry], NewScan(e), paused' = paused,
         disk' \in [edited : SUBSET Photo, cleared : 0..MaxGeneration],
         disk'.cleared = disk.cleared
  PROVE  Base' /\ Safe' /\ Cleared'
<1>1. LeavePool /\ scan'.generation = scan.generation + 1
  BY ScanFields DEF NewScan, ScanStates
<1>2. disk'.cleared < scan'.generation
  BY <1>1, DiskChanges DEF Cleared, ClearsAreOver
<1>3. paused' \in BOOLEAN
  BY BaseParts
<1> QED
  BY <1>1, <1>2, <1>3, LeftIsNotCleared, NewScanIsSafe

LEMMA RefreshIsSafe ==
  ASSUME Base, Cleared, Refresh
  PROVE  Base' /\ Safe' /\ Cleared'
<1>1. NewScan(entry) /\ paused' = paused /\ disk' = disk
  BY DEF Refresh
<1> QED
  BY <1>1, BaseParts, RescansAreSafe

LEMMA ResetIsSafe ==
  ASSUME Base, Cleared, NEW q \in Photo, ResetAdjustments(q)
  PROVE  Base' /\ Safe' /\ Cleared'
<1>1. /\ NewScan(Invalidated(q)) /\ paused' = paused
      /\ disk' = [disk EXCEPT !.edited = disk.edited \ {q}]
  BY DEF ResetAdjustments
<1>2. /\ disk' \in [edited : SUBSET Photo, cleared : 0..MaxGeneration]
      /\ disk'.cleared = disk.cleared
  BY <1>1, DiskChanges
<1>3. Invalidated(q) \in [Photo -> Entry]
  BY EntriesAreEntries
<1> QED
  BY <1>1, <1>2, <1>3, RescansAreSafe

LEMMA ClearCacheIsSafe ==
  ASSUME Base, Cleared, ClearCache
  PROVE  Base' /\ Safe' /\ Cleared'
<1>1. /\ scan' = [scan EXCEPT !.open = FALSE, !.starting = FALSE, !.ui = "clearing"]
      /\ entry' = [q \in Photo |-> NewEntry]
      /\ LeavePool /\ paused' = paused /\ disk' = disk
  BY DEF ClearCache
<1>2. /\ scan' \in ScanStates /\ scan'.generation = scan.generation
      /\ scan'.starting = FALSE
  BY <1>1, ScanFields DEF ScanStates
<1>3. /\ ThreadsOK' /\ PoolOK(pool') /\ Safe' /\ \A w \in Worker : At(w)' = "none"
      /\ late' \in LateStates
  BY <1>1, PoolIsLeft
<1>4. ClearingHasNoPool'
  BY <1>2, <1>3 DEF ClearingHasNoPool
<1>5. Cleared'
  BY <1>1, <1>2, <1>4, LeftIsNotCleared DEF Cleared, ClearsAreOver, ClearedCacheStaysClear
<1> QED
  BY <1>1, <1>2, <1>3, <1>5, EntriesAreEntries, BaseParts DEF PoolOK, LateStates

LEMMA CacheClearedIsSafe ==
  ASSUME Base, Cleared, CacheCleared
  PROVE  Base' /\ Safe' /\ Cleared'
<1>1. /\ scan.ui = "clearing" /\ \A g \in DOMAIN late : late[g].loading = 0
      /\ disk' = [disk EXCEPT !.cleared = scan.generation]
      /\ NewScan(entry) /\ paused' = paused
  BY DEF CacheCleared
<1>2. LeavePool /\ scan'.generation = scan.generation + 1
  BY <1>1, ScanFields DEF NewScan, ScanStates
<1>3. /\ disk' \in [edited : SUBSET Photo, cleared : 0..MaxGeneration]
      /\ disk'.cleared = scan.generation
      /\ scan.generation \in 1..MaxGeneration /\ MaxGeneration \in Nat
  BY <1>1, DiskChanges
<1>4. disk'.cleared < scan'.generation
  BY <1>2, <1>3
<1>5. \A w \in Worker : At(w) = "none"
  BY <1>1 DEF Cleared, ClearingHasNoPool
<1>6. \A g \in 1..MaxGeneration : late'[g].loading = late[g].loading
  BY <1>2, <1>5, PoolIsLeft
<1>7. \A g \in 1..MaxGeneration : late[g].loading = 0
  BY <1>1, BaseParts
<1>8. \A g \in 1..disk'.cleared : late'[g].loading = 0
  BY <1>3, <1>6, <1>7
<1>9. entry \in [Photo -> Entry] /\ paused' \in BOOLEAN
  BY <1>1, BaseParts
<1> QED
  BY <1>1, <1>3, <1>4, <1>8, <1>9, NewScanIsSafe

LEMMA ClearFailsIsSafe ==
  ASSUME Base, Safe, Cleared, ClearFails
  PROVE  Base' /\ Safe' /\ Cleared'
<1>1. /\ scan' = [scan EXCEPT !.ui = "not cleared"]
      /\ UNCHANGED <<entry, pool, thread, late, paused, disk>>
  BY DEF ClearFails
<1>2. /\ scan' \in ScanStates /\ scan'.ui = "not cleared" /\ scan'.generation = scan.generation
  BY <1>1, ScanFields DEF ScanStates
<1>3. ThreadsOK' /\ Safe'
  BY <1>1, BaseParts, SameThreads
<1>4. ClearingHasNoPool'
  BY <1>2 DEF ClearingHasNoPool
<1>5. Cleared'
  BY <1>1, <1>2, <1>4, StillCleared
<1> QED
  BY <1>1, <1>2, <1>3, <1>5, BaseParts DEF PoolOK

\* The threads of older pools only stop.
LEMMA LateIsSafe ==
  ASSUME Base, Safe, Cleared, NEW g \in 1..MaxGeneration, LateStops(g) \/ LateEnds(g)
  PROVE  Base' /\ Safe' /\ Cleared'
<1>1. /\ UNCHANGED <<scan, entry, pool, thread, paused, disk>>
      /\ \/ late[g].waiting > 0 /\ late' = [late EXCEPT ![g].waiting = @ - 1]
         \/ late[g].loading > 0 /\ late' = [late EXCEPT ![g].loading = @ - 1]
  BY DEF LateStops, LateEnds
<1>2. late \in LateStates
  BY BaseParts DEF LateStates
<1>3. /\ late' \in LateStates
      /\ \A h \in 1..MaxGeneration : late[h].loading = 0 => late'[h].loading = 0
  <2>1. late[g] \in [waiting : Nat, loading : Nat]
    BY <1>2 DEF LateStates
  <2>2. PICK c \in [waiting : Nat, loading : Nat] :
          late' = [late EXCEPT ![g] = c] /\ c.loading <= late[g].loading
    <3>1. CASE late[g].waiting > 0 /\ late' = [late EXCEPT ![g].waiting = @ - 1]
      <4> DEFINE c == [late[g] EXCEPT !.waiting = @ - 1]
      <4>1. late[g].waiting - 1 \in Nat
        BY <2>1, <3>1
      <4>2. c \in [waiting : Nat, loading : Nat] /\ c.loading <= late[g].loading
        BY <2>1, <4>1
      <4>3. late' = [late EXCEPT ![g] = c]
        BY <3>1
      <4> QED
        BY <4>2, <4>3
    <3>2. CASE late[g].loading > 0 /\ late' = [late EXCEPT ![g].loading = @ - 1]
      <4> DEFINE c == [late[g] EXCEPT !.loading = @ - 1]
      <4>1. late[g].loading - 1 \in Nat
        BY <2>1, <3>2
      <4>2. c \in [waiting : Nat, loading : Nat] /\ c.loading <= late[g].loading
        BY <2>1, <4>1
      <4>3. late' = [late EXCEPT ![g] = c]
        BY <3>2
      <4> QED
        BY <4>2, <4>3
    <3> QED
      BY <1>1, <3>1, <3>2
  <2> QED
    BY <1>2, <2>2 DEF LateStates
<1>4. ThreadsOK' /\ Safe'
  BY <1>1, BaseParts, SameThreads
<1>5. \A h \in 1..disk.cleared : h \in 1..MaxGeneration
  BY DiskChanges
<1>6. ClearedCacheStaysClear'
  BY <1>1, <1>3, <1>5 DEF Cleared, ClearedCacheStaysClear
<1>7. Cleared'
  BY <1>1, <1>6 DEF Cleared, ClearingHasNoPool, ClearsAreOver, At
<1> QED
  BY <1>1, <1>3, <1>4, <1>7, BaseParts DEF PoolOK, LateStates

-----------------------------------------------------------------------------
(* Theorems. *)

LEMMA IInvParts == IInv <=> Base /\ Safe /\ Cleared
  BY DEF IInv, Base, Safe, Cleared

LEMMA InitIsSafe == Init => IInv
<1> SUFFICES ASSUME Init PROVE IInv
  OBVIOUS
<1>1. \A w \in Worker : thread[w] = NoThread /\ At(w) = "none"
  BY IdleIsOK DEF Init, At
<1>2. ThreadsOK
  BY <1>1, IdleIsOK DEF Init, ThreadsOK, WorkersHaveWork, ThreadOK
<1>3. Safe
  BY <1>1 DEF Safe, LoadsAreInFlight, OneLoadPerPhoto, Holds
<1>4. PoolOK(pool)
  <2>1. <<>> \in Seq(Work) /\ <<>> \in Seq(Event) /\ Len(<<>>) = 0
    BY EmptySeq
  <2> QED
    BY <2>1, ThumbnailAssumption DEF Init, PoolOK, PoolStates, EmptyPool
<1>5. MaxGeneration \in Nat \ {0} /\ Edited \subseteq Photo
  BY ThumbnailAssumption
<1>6. scan \in ScanStates /\ scan.generation = 1 /\ scan.ui = "scanning"
  BY <1>5 DEF Init, ScanStates
<1>7. entry \in [Photo -> Entry]
  BY DEF Init, NewEntry, Entry
<1>8. disk \in [edited : SUBSET Photo, cleared : 0..MaxGeneration] /\ disk.cleared = 0
  BY <1>5 DEF Init
<1>9. /\ late \in [1..MaxGeneration -> [waiting : Nat, loading : Nat]]
      /\ paused \in BOOLEAN
  BY DEF Init
<1>10. Base
  BY <1>2, <1>4, <1>6, <1>7, <1>8, <1>9, BaseParts
<1>11. Cleared
  BY <1>6, <1>8 DEF Cleared, ClearingHasNoPool, ClearsAreOver, ClearedCacheStaysClear
<1> QED
  BY <1>3, <1>10, <1>11, IInvParts

LEMMA WorkersAreSafe ==
  ASSUME Base, Safe, Cleared, NEW w \in Worker, WorkerStep(w)
  PROVE  Base' /\ Safe' /\ Cleared'
<1>1. Base' /\ Safe' /\ Works(w) /\ OthersStay
  BY TakeIsSafe, ClaimIsSafe, BeginIsSafe, EndLoadIsSafe, SendIsSafe, ScheduleIsSafe
     DEF WorkerStep
<1> QED
  BY <1>1, WorkersStayCleared

LEMMA StepsAreSafe == IInv /\ [Next]_vars => IInv'
<1> SUFFICES ASSUME Base, Safe, Cleared, [Next]_vars PROVE Base' /\ Safe' /\ Cleared'
  BY IInvParts DEF IInv, Base, Safe, Cleared
<1>1. CASE StartPool
  BY <1>1, StartPoolIsSafe
<1>2. CASE ScanFails
  BY <1>2, ScanFailsIsSafe
<1>3. CASE Poll
  BY <1>3, PollIsSafe
<1>4. CASE CacheCleared
  BY <1>4, CacheClearedIsSafe
<1>5. CASE ClearFails
  BY <1>5, ClearFailsIsSafe
<1>6. CASE User
  BY <1>6, RefreshIsSafe, ShowTabIsSafe, ClearCacheIsSafe, TouchIsSafe, InstallIsSafe,
     ResetIsSafe DEF User
<1>7. CASE \E w \in Worker : WorkerStep(w)
  BY <1>7, WorkersAreSafe
<1>8. CASE \E g \in 1..MaxGeneration : LateStops(g) \/ LateEnds(g)
  BY <1>8, LateIsSafe
<1>9. CASE UNCHANGED vars
  <2>1. UNCHANGED <<scan, entry, pool, thread, late, paused, disk>>
    BY <1>9 DEF vars
  <2>2. ThreadsOK' /\ Safe'
    BY <2>1, BaseParts, SameThreads
  <2>3. Cleared'
    BY <2>1, StillCleared DEF Cleared, ClearingHasNoPool, At
  <2> QED
    BY <2>1, <2>2, <2>3, BaseParts DEF PoolOK
<1> QED
  BY <1>1, <1>2, <1>3, <1>4, <1>5, <1>6, <1>7, <1>8, <1>9 DEF Next

\* IInv holds in every state of the pool.
THEOREM Invariance == Spec => []IInv
  BY InitIsSafe, StepsAreSafe, PTL DEF Spec

\* Every variable keeps its type, and neither channel holds more than its limit.
THEOREM TypeCorrect == Spec => []TypeOK
<1>1. IInv => TypeOK
  BY DEF IInv
<1> QED
  BY <1>1, Invariance, PTL

\* However many workers there are, in_flight keeps every two of a scan from loading
\* the same photo at once.
THEOREM PhotosAreLoadedOnce == Spec => []OneLoadPerPhoto
<1>1. IInv => OneLoadPerPhoto
  BY DEF IInv
<1> QED
  BY <1>1, Invariance, PTL

\* However scans and clears follow each other, no worker of an older scan loads once
\* the cache was cleared.
THEOREM ClearedCachesStayClear == Spec => []ClearedCacheStaysClear
<1>1. IInv => ClearedCacheStaysClear
  BY DEF IInv
<1> QED
  BY <1>1, Invariance, PTL

\* The picture of a photo that shows its edits goes on showing them, or waits for
\* their picture, or disappears.
KeepsEdits(e, f) == e.developed /\ f.shown => f.developed \/ f.queued

LEMMA EntriesKeepEdits ==
  /\ \A e \in Entry : KeepsEdits(e, e) /\ KeepsEdits(e, NewEntry)
                      /\ KeepsEdits(e, [NewEntry EXCEPT !.shown = TRUE, !.developed = TRUE])
  /\ \A e \in Entry, b \in BOOLEAN : KeepsEdits(e, [e EXCEPT !.queued = b])
  /\ \A e \in Entry, loaded \in Loaded : KeepsEdits(e, Shown(e, loaded))
<1>1. \A e \in Entry : KeepsEdits(e, e) /\ KeepsEdits(e, NewEntry)
                      /\ KeepsEdits(e, [NewEntry EXCEPT !.shown = TRUE, !.developed = TRUE])
  BY DEF KeepsEdits, NewEntry
<1>2. \A e \in Entry, b \in BOOLEAN : KeepsEdits(e, [e EXCEPT !.queued = b])
  BY DEF KeepsEdits, Entry
<1>3. \A e \in Entry, loaded \in Loaded : KeepsEdits(e, Shown(e, loaded))
  BY DEF KeepsEdits, Entry, Shown, Loaded
<1> QED
  BY <1>1, <1>2, <1>3

LEMMA StepsKeepEdits ==
  ASSUME Base, [Next]_vars
  PROVE  \A q \in Photo : KeepsEdits(entry[q], entry'[q])
<1>1. entry \in [Photo -> Entry] /\ \A q \in Photo : entry[q] \in Entry
  BY BaseParts
<1>2. CASE entry' = entry
  BY <1>1, <1>2, EntriesKeepEdits
<1>3. CASE entry' = [q \in Photo |-> NewEntry]
  BY <1>1, <1>3, EntriesKeepEdits
<1>4. CASE \E q \in Photo :
             \/ entry' = [q0 \in Photo |-> [Invalidated(q)[q0] EXCEPT !.queued = FALSE]]
             \/ entry' = [entry EXCEPT ![q] =
                            [NewEntry EXCEPT !.shown = TRUE, !.developed = TRUE]]
             \/ \E b \in BOOLEAN : entry' = [entry EXCEPT ![q].queued = b]
             \/ \E loaded \in Loaded : entry' = [entry EXCEPT ![q] = Shown(@, loaded)]
  <2> SUFFICES ASSUME NEW r \in Photo PROVE KeepsEdits(entry[r], entry'[r])
    OBVIOUS
  <2>1. PICK q \in Photo :
             \/ entry' = [q0 \in Photo |-> [Invalidated(q)[q0] EXCEPT !.queued = FALSE]]
             \/ entry' = [entry EXCEPT ![q] =
                            [NewEntry EXCEPT !.shown = TRUE, !.developed = TRUE]]
             \/ \E b \in BOOLEAN : entry' = [entry EXCEPT ![q].queued = b]
             \/ \E loaded \in Loaded : entry' = [entry EXCEPT ![q] = Shown(@, loaded)]
    BY <1>4
  <2>2. CASE entry' = [q0 \in Photo |-> [Invalidated(q)[q0] EXCEPT !.queued = FALSE]]
    <3>1. Invalidated(q)[r] = entry[r] \/ Invalidated(q)[r] = NewEntry
      BY <1>1 DEF Invalidated
    <3>2. \/ entry'[r] = [entry[r] EXCEPT !.queued = FALSE]
          \/ entry'[r] = [NewEntry EXCEPT !.queued = FALSE]
      BY <2>2, <3>1
    <3>3. KeepsEdits(entry[r], [NewEntry EXCEPT !.queued = FALSE])
      BY DEF KeepsEdits, NewEntry
    <3> QED
      BY <1>1, <3>2, <3>3, EntriesKeepEdits
  <2>3. CASE entry' = [entry EXCEPT ![q] =
                         [NewEntry EXCEPT !.shown = TRUE, !.developed = TRUE]]
    <3>1. \/ entry'[r] = entry[r]
          \/ entry'[r] = [NewEntry EXCEPT !.shown = TRUE, !.developed = TRUE]
      BY <1>1, <2>3
    <3> QED
      BY <1>1, <3>1, EntriesKeepEdits
  <2>4. ASSUME NEW b \in BOOLEAN, entry' = [entry EXCEPT ![q].queued = b]
        PROVE  KeepsEdits(entry[r], entry'[r])
    <3> DEFINE e == [entry[q] EXCEPT !.queued = b]
    <3>1. entry' = [entry EXCEPT ![q] = e]
      BY <2>4
    <3>2. (r = q /\ entry'[r] = e) \/ entry'[r] = entry[r]
      <4> HIDE DEF e
      <4> QED
        BY <1>1, <3>1
    <3> QED
      BY <1>1, <3>2, EntriesKeepEdits
  <2>5. ASSUME NEW loaded \in Loaded, entry' = [entry EXCEPT ![q] = Shown(@, loaded)]
        PROVE  KeepsEdits(entry[r], entry'[r])
    <3>1. entry'[r] = entry[r] \/ entry'[r] = Shown(entry[r], loaded)
      BY <1>1, <2>5
    <3> QED
      BY <1>1, <3>1, EntriesKeepEdits
  <2> QED
    BY <2>1, <2>2, <2>3, <2>4, <2>5
<1>5. CASE entry' = [q \in Photo |-> [entry[q] EXCEPT !.queued = FALSE]]
  BY <1>1, <1>5, EntriesKeepEdits
<1>6. ASSUME NEW q \in Photo, Touch(q)
      PROVE  \E b \in BOOLEAN : entry' = [entry EXCEPT ![q].queued = b]
  <2> DEFINE sends == scan.open /\ PoolListens /\ Len(pool.requests) < MaxRequests
  <2>1. sends \in BOOLEAN /\ entry' = [entry EXCEPT ![q].queued = sends]
    BY <1>6 DEF Touch
  <2> QED
    BY <2>1
<1>7. ASSUME Poll
      PROVE  \/ entry' = entry \/ entry' = Listed
             \/ \E q \in Photo, loaded \in Loaded : entry' = [entry EXCEPT ![q] = Shown(@, loaded)]
  <2> DEFINE event == Head(pool.results)
  <2>1. event \in Event
    BY <1>7, BaseParts, PoolChanges DEF Poll
  <2>2. \/ entry' = entry \/ entry' = Listed
        \/ event.photo # NoPhoto /\ entry' = [entry EXCEPT ![event.photo] = Shown(@, event.loaded)]
    BY <1>7 DEF Poll
  <2> HIDE DEF event
  <2>3. Catalog.photo = NoPhoto /\ ScanFailed.photo = NoPhoto
    BY DEF Catalog, ScanFailed
  <2>4. event \in [photo : Photo, loaded : Loaded] \/ event = Catalog \/ event = ScanFailed
    BY <2>1 DEF Event
  <2> QED
    BY <2>2, <2>3, <2>4
<1>8. CASE Poll
  BY <1>2, <1>4, <1>5, <1>7, <1>8 DEF Listed
<1>9. CASE User
  <2>1. CASE Refresh
    BY <1>5, <2>1 DEF Refresh, NewScan
  <2>2. CASE ShowTab
    BY <1>2, <2>2 DEF ShowTab
  <2>3. CASE ClearCache
    BY <1>3, <2>3 DEF ClearCache
  <2>4. ASSUME NEW q \in Photo, Touch(q) \/ InstallDeveloped(q) \/ ResetAdjustments(q)
        PROVE  \A r \in Photo : KeepsEdits(entry[r], entry'[r])
    <3>1. CASE Touch(q)
      BY <1>4, <1>6, <3>1
    <3>2. CASE InstallDeveloped(q)
      BY <1>4, <3>2 DEF InstallDeveloped
    <3>3. CASE ResetAdjustments(q)
      BY <1>4, <3>3 DEF ResetAdjustments, NewScan
    <3> QED
      BY <2>4, <3>1, <3>2, <3>3
  <2> QED
    BY <1>9, <2>1, <2>2, <2>3, <2>4 DEF User
<1>10. CASE \E w \in Worker : WorkerStep(w)
  BY <1>2, <1>10 DEF WorkerStep, Take, Claim, Begin, EndLoad, Send, ScheduleDeveloped
<1>11. CASE \E g \in 1..MaxGeneration : LateStops(g) \/ LateEnds(g)
  BY <1>2, <1>11 DEF LateStops, LateEnds
<1>12. CASE StartPool \/ ScanFails \/ ClearFails
  BY <1>2, <1>12 DEF StartPool, ScanFails, ClearFails
<1>13. CASE CacheCleared
  BY <1>5, <1>13 DEF CacheCleared, NewScan
<1>14. CASE UNCHANGED vars
  BY <1>2, <1>14 DEF vars
<1> QED
  BY <1>8, <1>9, <1>10, <1>11, <1>12, <1>13, <1>14 DEF Next

\* Whatever order edits, scans, clears and the results of loads come in, a preview
\* that was read before an edit does not replace the picture of the edits.
THEOREM EditsStay == Spec => EditsStayOnScreen
<1>1. IInv /\ [Next]_vars
        => [\A q \in Photo :
              entry[q].developed /\ entry'[q].shown /\ q \in disk'.edited
                => entry'[q].developed \/ entry'[q].queued]_vars
  BY StepsKeepEdits, IInvParts DEF KeepsEdits
<1> QED
  BY <1>1, Invariance, PTL DEF Spec, EditsStayOnScreen
=============================================================================
