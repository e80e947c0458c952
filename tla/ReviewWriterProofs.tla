------------------------- MODULE ReviewWriterProofs -------------------------
(***************************************************************************)
(* The newest rating shows and reaches the sidecar, documents open with    *)
(* it, and a folder's edits are never older after a save: for any photos,  *)
(* faults and numbers of changes, edits, opens and scans.                  *)
(***************************************************************************)
EXTENDS ReviewWriter, FiniteSetTheorems, SequenceTheorems, WellFoundedInduction, TLAPS

-----------------------------------------------------------------------------
(* The inductive invariant. *)

WorkerType == [at : {"none", "idle", "read", "dead"}, request : ReviewSave \cup {NoSave},
               held : Sidecar]
DocType == [photo : Photo \cup {NoPhoto}, edits : Nat, review : Review]
EditSave == [photo : Photo, edits : Nat, review : Review]
LoadType == [photo : Photo \cup {NoPhoto}, read : BOOLEAN, edits : Nat, review : Review,
             before : SUBSET Nat]
CountType == [changes : Nat, edits : Nat, opens : Nat, scans : Nat]

WriterTypes ==
  /\ worker \in WorkerType /\ requests \in Seq(ReviewSave) /\ results \in Seq(ReviewSaved)
  /\ worker.at = "none" => requests = <<>> /\ results = <<>>
  /\ worker.at \in {"none", "idle"} => worker.request = NoSave
  /\ worker.at = "read" => worker.request # NoSave

KnownTypes ==
  /\ grid \in [Photo -> Review] /\ pending \in [Photo -> Nat]
  /\ reported \subseteq Nat /\ outdated \subseteq Photo

DocumentTypes ==
  /\ media \in BOOLEAN /\ media \in Media /\ sidecar \in [Photo -> Sidecar]
  /\ doc \in DocType /\ saves \in Seq(EditSave) /\ load \in LoadType
  /\ load.read => load.photo # NoPhoto
  /\ scanned \in [Photo -> Review] /\ ui \in Photo \cup {"running"}
  /\ made \in [Photo -> Review] /\ count \in CountType

(* While a photo has a save waiting, the grid shows the user's last change to it. *)
ShowsInv ==
  \A q \in Photo :
    (media \/ q \notin outdated) /\ pending[q] > 0 =>
      grid[q] # <<>> /\ made[q] # <<>> /\ Last(grid[q]) = Last(made[q])

(* Changes that are sent one after another are newer than what any sidecar of a folder holds. *)
OrderInv ==
  ~media =>
    /\ \A q \in Photo : \A c \in Changes(sidecar[q].review) :
         /\ c <= count.changes
         /\ worker.at = "read" => c < worker.request.change
         /\ \A i \in DOMAIN requests : c < requests[i].change
    /\ worker.at = "read" =>
         /\ worker.request.change <= count.changes
         /\ \A i \in DOMAIN requests : worker.request.change < requests[i].change
         /\ worker.held.review = sidecar[worker.request.photo].review
    /\ \A i \in DOMAIN requests : requests[i].change <= count.changes
    /\ \A i, j \in DOMAIN requests : i < j => requests[i].change < requests[j].change
    /\ \A q \in Photo : InOrder(sidecar[q].review)

(* Change c of q is to be saved. *)
ToSave(q, c) ==
  \/ \E i \in DOMAIN requests : requests[i].photo = q /\ requests[i].change = c
  \/ worker.request = [photo |-> q, change |-> c]

(* Its save has failed, which is to be reported. *)
ToReport(q, c) ==
  \E i \in DOMAIN results : results[i].photo = q /\ results[i].change = c /\ ~results[i].ok

(* Every change of a folder's photo is in its sidecar, on its way there or reported. *)
SavedInv ==
  ~media =>
    \A q \in Photo : \A c \in Changes(made[q]) :
      c \in Changes(sidecar[q].review) \/ ToSave(q, c) \/ ToReport(q, c) \/ c \in reported

(* What a load waited for is in the sidecar it reads, or has read. *)
LoadInv ==
  ~media /\ load.photo # NoPhoto =>
    load.before \subseteq Changes(IF load.read THEN load.review ELSE sidecar[load.photo].review)
                            \cup reported

(* A folder's edit saves run from the oldest edit to the newest. *)
EditsInv ==
  ~media =>
    /\ \A i \in DOMAIN saves : saves[i].edits <= count.edits
    /\ \A i, j \in DOMAIN saves : i < j => saves[i].edits < saves[j].edits
    /\ \A q \in Photo : /\ sidecar[q].edits <= count.edits
                        /\ \A i \in DOMAIN saves : sidecar[q].edits < saves[i].edits

WriterInv == ShowsInv /\ OrderInv /\ SavedInv /\ LoadInv /\ EditsInv

IInv == WriterTypes /\ KnownTypes /\ DocumentTypes /\ PendingIsExact /\ WriterInv

-----------------------------------------------------------------------------
(* Induction, by the least counterexample, and the positions of a sequence. *)

Below == {pair \in Nat \X Nat : pair[1] < pair[2]}

LEMMA LeastNatural ==
  ASSUME NEW T \in SUBSET Nat, T # {}
  PROVE  \E m \in T : \A k \in T : m <= k
  <1>1. IsWellFoundedOn(Below, Nat)
    <2>1. Below = OpToRel(<, Nat)
      BY DEF Below, OpToRel
    <2>. QED  BY <2>1, NatLessThanWellFounded
  <1>2. PICK m \in T : \A k \in T : <<k, m>> \notin Below
    BY <1>1, WFMin
  <1>3. \A k, n \in Nat : k < n => <<k, n>> \in Below
    BY DEF Below
  <1>4. \A k \in T : ~(k < m)
    BY <1>2, <1>3
  <1>5. \A k \in T : m <= k
    BY <1>4
  <1>. QED  BY <1>5

LEMMA MaxIs ==
  ASSUME NEW s, NEW n \in Nat, NEW m \in s, s \in SUBSET (1 .. n), \A k \in s : k <= m
  PROVE  Max(s) = m
  <1>1. \A k \in s : m >= k
    OBVIOUS
  <1>2. \A x \in s : x >= m => x = m
    OBVIOUS
  <1>. QED  BY <1>1, <1>2 DEF Max

(* The positions of q in a channel. *)
Of(s, q) == {i \in DOMAIN s : s[i].photo = q}

LEMMA PositionsAreFinite ==
  ASSUME NEW S, NEW s \in Seq(S), NEW T \in SUBSET DOMAIN s
  PROVE  IsFiniteSet(T) /\ Cardinality(T) \in Nat
  <1>1. DOMAIN s = 1..Len(s) /\ Len(s) \in Nat
    OBVIOUS
  <1>2. IsFiniteSet(1..Len(s))
    BY <1>1, FS_Interval
  <1>3. IsFiniteSet(T)
    BY <1>1, <1>2, FS_Subset
  <1>. QED  BY <1>3, FS_CardinalityType

LEMMA CountIsNat ==
  ASSUME NEW S, NEW s \in Seq(S), NEW q
  PROVE  /\ IsFiniteSet(Of(s, q)) /\ Cardinality(Of(s, q)) \in Nat
         /\ Cardinality(Of(s, q)) = 0 => \A i \in DOMAIN s : s[i].photo # q
  <1>1. Of(s, q) \in SUBSET DOMAIN s
    BY DEF Of
  <1>2. IsFiniteSet(Of(s, q)) /\ Cardinality(Of(s, q)) \in Nat
    BY <1>1, PositionsAreFinite
  <1>3. Cardinality(Of(s, q)) = 0 => Of(s, q) = {}
    BY <1>2, FS_EmptySet
  <1>. QED  BY <1>2, <1>3 DEF Of

LEMMA CountOfEmpty ==
  ASSUME NEW q
  PROVE  Cardinality(Of(<<>>, q)) = 0
  <1>1. Of(<<>>, q) = {}
    BY DEF Of
  <1>. QED  BY <1>1, FS_EmptySet

LEMMA CountOfAppended ==
  ASSUME NEW S, NEW s \in Seq(S), NEW e \in S, NEW q
  PROVE  Cardinality(Of(Append(s, e), q)) = Cardinality(Of(s, q)) + (IF e.photo = q THEN 1 ELSE 0)
  <1>. DEFINE n == Len(s) + 1
  <1>1. /\ n \notin Of(s, q)
        /\ Of(Append(s, e), q) = Of(s, q) \cup (IF e.photo = q THEN {n} ELSE {})
    BY DEF Of
  <1>2. IsFiniteSet(Of(s, q)) /\ Cardinality(Of(s, q)) \in Nat
    BY CountIsNat
  <1>. HIDE DEF n
  <1>3. CASE e.photo = q
    <2>1. Of(Append(s, e), q) = Of(s, q) \cup {n}
      BY <1>1, <1>3
    <2>2. Cardinality(Of(s, q) \cup {n}) = Cardinality(Of(s, q)) + 1
      BY <1>1, <1>2, FS_AddElement
    <2>. QED  BY <1>3, <2>1, <2>2
  <1>4. CASE e.photo # q
    <2>1. Of(Append(s, e), q) = Of(s, q)
      BY <1>1, <1>4
    <2>. QED  BY <1>2, <1>4, <2>1
  <1>. QED  BY <1>3, <1>4

LEMMA CountOfTail ==
  ASSUME NEW S, NEW s \in Seq(S), s # <<>>, NEW q
  PROVE  Cardinality(Of(s, q)) = Cardinality(Of(Tail(s), q)) + (IF Head(s).photo = q THEN 1 ELSE 0)
  <1>. DEFINE rest == Of(s, q) \ {1}
              f == [i \in Of(Tail(s), q) |-> i + 1]
  <1>1. /\ Tail(s) \in Seq(S) /\ Len(s) \in Nat /\ Len(s) >= 1
        /\ DOMAIN s = 1..Len(s) /\ DOMAIN Tail(s) = 1..(Len(s) - 1)
        /\ \A i \in 1..(Len(s) - 1) : Tail(s)[i] = s[i + 1]
    OBVIOUS
  <1>2. f \in Bijection(Of(Tail(s), q), rest)
    <2>1. \A i \in Of(Tail(s), q) : i \in Nat /\ f[i] = i + 1 /\ i + 1 \in rest
      BY <1>1 DEF Of
    <2>2. f \in [Of(Tail(s), q) -> rest]
      BY <2>1
    <2>3. \A i, j \in Of(Tail(s), q) : f[i] = f[j] => i = j
      BY <2>1
    <2>4. \A k \in rest : \E i \in Of(Tail(s), q) : f[i] = k
      <3>. SUFFICES ASSUME NEW k \in rest PROVE \E i \in Of(Tail(s), q) : f[i] = k
        OBVIOUS
      <3>1. k \in 2..Len(s) /\ s[k].photo = q
        BY <1>1 DEF Of
      <3>2. k - 1 \in 1..(Len(s) - 1) /\ (k - 1) + 1 = k
        BY <1>1, <3>1
      <3>3. k - 1 \in Of(Tail(s), q)
        BY <1>1, <3>1, <3>2 DEF Of
      <3>. QED  BY <2>1, <3>2, <3>3
    <2>. HIDE DEF f, rest
    <2>5. f \in Injection(Of(Tail(s), q), rest)
      BY <2>2, <2>3 DEF Injection, IsInjective
    <2>6. f \in Surjection(Of(Tail(s), q), rest)
      BY <2>2, <2>4 DEF Surjection
    <2>. QED  BY <2>5, <2>6 DEF Bijection
  <1>3. IsFiniteSet(Of(s, q)) /\ IsFiniteSet(Of(Tail(s), q)) /\ IsFiniteSet(rest)
    BY <1>1, CountIsNat, FS_Subset
  <1>4. ExistsBijection(Of(Tail(s), q), rest)
    BY <1>2 DEF ExistsBijection
  <1>5. Cardinality(rest) = Cardinality(Of(Tail(s), q)) /\ Cardinality(rest) \in Nat
    BY <1>3, <1>4, FS_Bijection, FS_CardinalityType
  <1>6. Head(s) = s[1] /\ (1 \in Of(s, q) <=> s[1].photo = q)
    BY <1>1 DEF Of
  <1>7. CASE Head(s).photo = q
    <2>1. Of(s, q) = rest \cup {1} /\ 1 \notin rest
      BY <1>6, <1>7
    <2>2. Cardinality(rest \cup {1}) = Cardinality(rest) + 1
      BY <1>3, <2>1, FS_AddElement
    <2>. HIDE DEF rest
    <2>. QED  BY <1>5, <1>7, <2>1, <2>2
  <1>8. CASE Head(s).photo # q
    <2>1. Of(s, q) = rest
      BY <1>6, <1>8
    <2>. HIDE DEF rest
    <2>. QED  BY <1>5, <1>8, <2>1
  <1>. QED  BY <1>7, <1>8

-----------------------------------------------------------------------------
(* Receiving the results. *)

KnownType == [grid : [Photo -> Review], pending : [Photo -> Nat], reported : SUBSET Nat,
              outdated : SUBSET Photo]

(* The failures that some results tell. *)
Failures(s, n) == {s[i].change : i \in {j \in 1..n : ~s[j].ok}}

(* One result is counted and its failure reported; what shows of a photo changes only with its
   last result. *)
LEMMA OneSettles ==
  ASSUME NEW known \in KnownType, NEW saved \in ReviewSaved, known.pending[saved.photo] >= 1
  PROVE  LET after == SettleReviewSave(known, saved)
         IN /\ after \in KnownType
            /\ after.reported = known.reported \cup (IF saved.ok THEN {} ELSE {saved.change})
            /\ \A q \in Photo :
                 /\ after.pending[q] = known.pending[q] - (IF saved.photo = q THEN 1 ELSE 0)
                 /\ after.pending[q] > 0 => /\ after.grid[q] = known.grid[q]
                                            /\ q \in after.outdated <=> q \in known.outdated
  <1>. DEFINE after == SettleReviewSave(known, saved)
              p == saved.photo
              last == known.pending[p] <= 1
              shows == last /\ saved.review # Unknown
  <1>1. /\ p \in Photo /\ saved.change \in Nat /\ saved.review \in Review
        /\ known.grid \in [Photo -> Review] /\ known.pending \in [Photo -> Nat]
        /\ known.reported \subseteq Nat /\ known.outdated \subseteq Photo
    BY DEF KnownType, ReviewSaved, Change
  <1>2. /\ after.grid = IF shows THEN [known.grid EXCEPT ![p] = saved.review] ELSE known.grid
        /\ after.pending = [known.pending EXCEPT ![p] = IF last THEN 0 ELSE @ - 1]
        /\ after.reported = known.reported \cup (IF saved.ok THEN {} ELSE {saved.change})
        /\ after.outdated = IF shows THEN known.outdated \ {p} ELSE known.outdated
        /\ after = [grid |-> after.grid, pending |-> after.pending, reported |-> after.reported,
                    outdated |-> after.outdated]
    BY DEF SettleReviewSave
  <1>. HIDE DEF after
  <1>3. /\ after.pending \in [Photo -> Nat]
        /\ \A q \in Photo : after.pending[q] = known.pending[q] - (IF p = q THEN 1 ELSE 0)
        /\ last => after.pending[p] = 0
    BY <1>1, <1>2
  <1>. HIDE DEF last
  <1>4. after.grid \in [Photo -> Review] /\ after.outdated \subseteq Photo
    BY <1>1, <1>2
  <1>5. after.reported \subseteq Nat
    BY <1>1, <1>2
  <1>6. after \in KnownType
    BY <1>2, <1>3, <1>4, <1>5 DEF KnownType
  <1>7. ASSUME NEW q \in Photo, after.pending[q] > 0
        PROVE  after.grid[q] = known.grid[q] /\ (q \in after.outdated <=> q \in known.outdated)
    <2>1. ~shows \/ q # p
      BY <1>3, <1>7
    <2>. QED  BY <1>1, <1>2, <2>1
  <1>. QED  BY <1>2, <1>3, <1>6, <1>7 DEF after

(* How the community module defines the fold of poll_review_saves. *)
ReceivedOf(d, g) ==
  g = [s \in SUBSET d |-> IF s = {} THEN Known ELSE SettleReviewSave(g[s \ {Max(s)}], results[Max(s)])]

LEMMA ReceivedExists ==
  ASSUME NEW m \in Nat
  PROVE  \E g : ReceivedOf(1..m, g)
  <1>. DEFINE bad == {k \in Nat : ~ \E g : ReceivedOf(1..k, g)}
  <1>. SUFFICES ASSUME bad # {} PROVE FALSE
    OBVIOUS
  <1>1. PICK k \in bad : \A j \in bad : k <= j
    BY LeastNatural
  <1>2. k # 0
    <2>. DEFINE g == [s \in SUBSET (1..0) |-> Known]
    <2>1. \A s \in SUBSET (1..0) : s = {}
      OBVIOUS
    <2>2. ReceivedOf(1..0, g)
      BY <2>1 DEF ReceivedOf
    <2>. QED  BY <2>2
  <1>3. k - 1 \in Nat /\ k - 1 \notin bad
    BY <1>1, <1>2
  <1>4. PICK g : ReceivedOf(1..(k - 1), g)
    BY <1>3
  <1>. DEFINE h == [s \in SUBSET (1..k) |->
                      IF k \in s THEN SettleReviewSave(g[s \ {k}], results[k]) ELSE g[s]]
  <1>5. ASSUME NEW s \in SUBSET (1..k)
        PROVE  h[s] = IF s = {} THEN Known ELSE SettleReviewSave(h[s \ {Max(s)}], results[Max(s)])
    <2>1. CASE k \in s
      <3>1. Max(s) = k
        <4>1. \A j \in s : j <= k
          OBVIOUS
        <4>. QED  BY <2>1, <4>1, MaxIs
      <3>2. s \ {k} \in SUBSET (1..(k - 1)) /\ s \ {k} \in SUBSET (1..k) /\ k \notin s \ {k}
        OBVIOUS
      <3>3. h[s \ {k}] = g[s \ {k}]
        BY <3>2
      <3>. QED  BY <2>1, <3>1, <3>3
    <2>2. CASE k \notin s
      <3>1. s \in SUBSET (1..(k - 1))
        BY <2>2
      <3>2. g[s] = IF s = {} THEN Known ELSE SettleReviewSave(g[s \ {Max(s)}], results[Max(s)])
        BY <3>1, <1>4 DEF ReceivedOf
      <3>3. h[s] = g[s] /\ h[s \ {Max(s)}] = g[s \ {Max(s)}]
        <4>1. s \ {Max(s)} \in SUBSET (1..k) /\ k \notin s \ {Max(s)}
          BY <2>2
        <4>. QED  BY <4>1, <2>2
      <3>. QED  BY <3>2, <3>3
    <2>. QED  BY <2>1, <2>2
  <1>6. ReceivedOf(1..k, h)
    BY <1>5 DEF ReceivedOf
  <1>. QED  BY <1>6

(* poll_review_saves, result by result. *)
LEMMA ReceivedTurns ==
  ASSUME results \in Seq(ReviewSaved)
  PROVE  \E turn : /\ turn[0] = Known
                   /\ \A k \in 1..Len(results) : turn[k] = SettleReviewSave(turn[k - 1], results[k])
                   /\ Received = turn[Len(results)]
  <1>. DEFINE d == 1..Len(results)
              g == CHOOSE g : ReceivedOf(d, g)
  <1>1. DOMAIN results = d /\ Len(results) \in Nat
    OBVIOUS
  <1>2. ReceivedOf(d, g)
    BY <1>1, ReceivedExists
  <1>3. Received = g[d]
    <2>1. Received = (CHOOSE h : h = [s \in SUBSET DOMAIN results |->
              IF s = {} THEN Known ELSE SettleReviewSave(h[s \ {Max(s)}], results[Max(s)])])[DOMAIN results]
      BY DEF Received, FoldLeft, MapThenFoldSet
    <2>. QED  BY <1>1, <2>1 DEF ReceivedOf
  <1>. HIDE DEF g
  <1>. DEFINE turn == [k \in 0..Len(results) |-> g[1..k]]
  <1>4. turn[0] = Known
    <2>1. 1..0 = {}
      OBVIOUS
    <2>2. g[{}] = Known
      BY <1>2 DEF ReceivedOf
    <2>. QED  BY <1>1, <2>1, <2>2
  <1>5. ASSUME NEW k \in 1..Len(results)
        PROVE  turn[k] = SettleReviewSave(turn[k - 1], results[k])
    <2>1. 1..k \in SUBSET d /\ 1..k # {} /\ (1..k) \ {k} = 1..(k - 1)
      <3>1. 1..k \in SUBSET d
        BY <1>1
      <3>2. k \in 1..k
        BY <1>1
      <3>3. (1..k) \ {k} = 1..(k - 1)
        BY <1>1
      <3>. QED  BY <3>1, <3>2, <3>3
    <2>2. Max(1..k) = k
      <3>1. k \in 1..k /\ 1..k \in SUBSET d /\ \A j \in 1..k : j <= k
        BY <1>1
      <3>. QED  BY <3>1, <1>1, MaxIs
    <2>3. g[1..k] = SettleReviewSave(g[(1..k) \ {Max(1..k)}], results[Max(1..k)])
      BY <1>2, <2>1 DEF ReceivedOf
    <2>4. g[1..k] = SettleReviewSave(g[1..(k - 1)], results[k])
      BY <2>1, <2>2, <2>3
    <2>5. k \in 0..Len(results) /\ k - 1 \in 0..Len(results)
      BY <1>1
    <2>. QED  BY <2>4, <2>5
  <1>6. turn[Len(results)] = g[d]
    BY <1>1
  <1>. HIDE DEF turn
  <1>. QED  BY <1>3, <1>4, <1>5, <1>6

(* How many of the first n results are of q. *)
Among(n, q) == Cardinality({i \in 1..n : results[i].photo = q})

(* What is known after the first n results. *)
Settles(known, n) ==
  /\ known \in KnownType
  /\ known.reported = reported \cup Failures(results, n)
  /\ \A q \in Photo :
       /\ known.pending[q] = pending[q] - Among(n, q)
       /\ known.pending[q] > 0 => /\ known.grid[q] = grid[q]
                                  /\ q \in known.outdated <=> q \in outdated

LEMMA FirstResults ==
  ASSUME results \in Seq(ReviewSaved), NEW n \in 0..Len(results), NEW q
  PROVE  /\ Among(n, q) \in Nat
         /\ n < Len(results) =>
              Among(n + 1, q)
                = Among(n, q)
                    + (IF results[n + 1].photo = q THEN 1 ELSE 0)
         /\ Among(n, q) <= Cardinality(Of(results, q))
  <1>. DEFINE T(k) == {i \in 1..k : results[i].photo = q}
  <1>1. T(n) \in SUBSET DOMAIN results /\ T(n) \subseteq Of(results, q)
    BY DEF Of
  <1>2. IsFiniteSet(T(n)) /\ Cardinality(T(n)) \in Nat
    BY <1>1, PositionsAreFinite
  <1>3. Cardinality(T(n)) <= Cardinality(Of(results, q))
    BY <1>1, CountIsNat, FS_Subset
  <1>4. ASSUME n < Len(results)
        PROVE  Cardinality(T(n + 1)) = Cardinality(T(n)) + (IF results[n + 1].photo = q THEN 1 ELSE 0)
    <2>1. n + 1 \notin T(n)
          /\ T(n + 1) = T(n) \cup (IF results[n + 1].photo = q THEN {n + 1} ELSE {})
      OBVIOUS
    <2>. HIDE DEF T
    <2>2. CASE results[n + 1].photo = q
      <3>1. T(n + 1) = T(n) \cup {n + 1}
        BY <2>1, <2>2
      <3>2. Cardinality(T(n) \cup {n + 1}) = Cardinality(T(n)) + 1
        BY <1>2, <2>1, FS_AddElement
      <3>. QED  BY <2>2, <3>1, <3>2
    <2>3. CASE results[n + 1].photo # q
      <3>1. T(n + 1) = T(n)
        BY <2>1, <2>3
      <3>. QED  BY <1>2, <2>3, <3>1
    <2>. QED  BY <2>2, <2>3
  <1>. HIDE DEF T
  <1>5. /\ Cardinality(T(n)) \in Nat
        /\ n < Len(results) => Cardinality(T(n + 1)) = Cardinality(T(n)) + (IF results[n + 1].photo = q THEN 1 ELSE 0)
        /\ Cardinality(T(n)) <= Cardinality(Of(results, q))
    BY <1>2, <1>3, <1>4
  <1>. QED  BY <1>5 DEF T, Among

LEMMA KnownIsTyped ==
  ASSUME KnownTypes
  PROVE  Known \in KnownType
  BY DEF KnownTypes, Known, KnownType

(* All results are settled in one frame. *)
LEMMA ResultsSettle ==
  ASSUME KnownTypes, results \in Seq(ReviewSaved), \A q \in Photo : pending[q] >= Finished(q)
  PROVE  Settles(Received, Len(results))
  <1>. PICK turn : /\ turn[0] = Known
                   /\ \A k \in 1..Len(results) : turn[k] = SettleReviewSave(turn[k - 1], results[k])
                   /\ Received = turn[Len(results)]
    BY ReceivedTurns
  <1>. DEFINE bad == {k \in 0..Len(results) : ~Settles(turn[k], k)}
  <1>0. Len(results) \in Nat /\ \A q : Finished(q) = Cardinality(Of(results, q))
    BY DEF Finished, Of
  <1>. SUFFICES ASSUME bad # {} PROVE FALSE
    BY <1>0
  <1>1. PICK n \in bad : \A k \in bad : n <= k
    <2>1. bad \in SUBSET Nat
      OBVIOUS
    <2>. HIDE DEF bad
    <2>. QED  BY <2>1, LeastNatural
  <1>2. CASE n = 0
    <2>1. Settles(Known, 0)
      <3>1. Failures(results, 0) = {}
        BY DEF Failures
      <3>2. \A q \in Photo : Among(0, q) = 0
        <4>1. \A q \in Photo : {i \in 1..0 : results[i].photo = q} = {}
          OBVIOUS
        <4>. QED  BY <4>1, FS_EmptySet DEF Among
      <3>3. \A q \in Photo : pending[q] \in Nat
        BY DEF KnownTypes
      <3>4. \A q \in Photo : Known.pending[q] = pending[q] - Among(0, q)
        BY <3>2, <3>3 DEF Known
      <3>. QED  BY <3>1, <3>4, KnownIsTyped DEF Settles, Known
    <2>. QED  BY <1>2, <2>1
  <1>3. CASE n # 0
    <2>. DEFINE m == n - 1
    <2>1. m \in 0..Len(results) /\ m + 1 = n /\ n \in 1..Len(results) /\ m < Len(results)
      BY <1>0, <1>3
    <2>2. Settles(turn[m], m)
      BY <1>1, <2>1
    <2>3. turn[n] = SettleReviewSave(turn[m], results[n]) /\ results[n] \in ReviewSaved
      BY <2>1
    <2>. HIDE DEF m, bad
    <2>. DEFINE known == turn[m]
                saved == results[n]
                p == saved.photo
    <2>4. p \in Photo /\ saved.change \in Nat
      BY <2>3 DEF ReviewSaved, Change
    <2>5. \A q \in Photo :
            /\ Among(m, q) \in Nat
            /\ Among(n, q)
                 = Among(m, q) + (IF p = q THEN 1 ELSE 0)
            /\ Among(n, q) <= Finished(q)
      <3>. SUFFICES ASSUME NEW q \in Photo
                    PROVE  /\ Among(m, q) \in Nat
                           /\ Among(n, q) = Among(m, q) + (IF p = q THEN 1 ELSE 0)
                           /\ Among(n, q) <= Finished(q)
        OBVIOUS
      <3>1. Among(m, q) \in Nat /\ Among(m + 1, q) = Among(m, q) + (IF results[m + 1].photo = q THEN 1 ELSE 0)
        BY <2>1, FirstResults
      <3>2. n \in 0..Len(results)
        BY <2>1
      <3>3. Among(n, q) <= Cardinality(Of(results, q))
        BY <3>2, FirstResults
      <3>. QED  BY <1>0, <2>1, <3>1, <3>3
    <2>6. \A q \in Photo : pending[q] \in Nat /\ pending[q] >= Finished(q) /\ Finished(q) \in Nat
      BY <1>0, CountIsNat DEF KnownTypes
    <2>7. known.pending[p] >= 1
      <3>1. known.pending[p] = pending[p] - Among(m, p)
        BY <2>2, <2>4 DEF Settles
      <3>. QED  BY <2>4, <2>5, <2>6, <3>1
    <2>8. LET after == SettleReviewSave(known, saved)
          IN /\ after \in KnownType
             /\ after.reported = known.reported \cup (IF saved.ok THEN {} ELSE {saved.change})
             /\ \A q \in Photo :
                  /\ after.pending[q] = known.pending[q] - (IF saved.photo = q THEN 1 ELSE 0)
                  /\ after.pending[q] > 0 => /\ after.grid[q] = known.grid[q]
                                             /\ q \in after.outdated <=> q \in known.outdated
      BY <2>2, <2>3, <2>7, OneSettles DEF Settles
    <2>. DEFINE after == turn[n]
    <2>9. /\ after \in KnownType
          /\ after.reported = known.reported \cup (IF saved.ok THEN {} ELSE {saved.change})
          /\ \A q \in Photo :
               /\ after.pending[q] = known.pending[q] - (IF p = q THEN 1 ELSE 0)
               /\ after.pending[q] > 0 => /\ after.grid[q] = known.grid[q]
                                          /\ q \in after.outdated <=> q \in known.outdated
      BY <2>3, <2>8
    <2>10. Settles(after, n)
      <3>1. after.reported = reported \cup Failures(results, n)
        <4>1. known.reported = reported \cup Failures(results, m)
          BY <2>2 DEF Settles
        <4>2. Failures(results, n) = Failures(results, m) \cup (IF saved.ok THEN {} ELSE {saved.change})
          BY <2>1 DEF Failures
        <4>. QED  BY <2>9, <4>1, <4>2
      <3>2. ASSUME NEW q \in Photo
            PROVE  /\ after.pending[q] = pending[q] - Among(n, q)
                   /\ after.pending[q] > 0 => /\ after.grid[q] = grid[q]
                                              /\ q \in after.outdated <=> q \in outdated
        <4>1. /\ known.pending[q] = pending[q] - Among(m, q)
              /\ known.pending[q] > 0 => /\ known.grid[q] = grid[q]
                                         /\ q \in known.outdated <=> q \in outdated
          BY <2>2 DEF Settles
        <4>2. known.pending[q] \in Nat
          BY <2>2 DEF Settles, KnownType
        <4>3. after.pending[q] = known.pending[q] - (IF p = q THEN 1 ELSE 0)
          BY <2>9
        <4>4. after.pending[q] > 0 => known.pending[q] > 0
          BY <4>2, <4>3
        <4>5. after.pending[q] = pending[q] - Among(n, q)
          BY <2>5, <2>6, <4>1, <4>3
        <4>6. after.pending[q] > 0 => /\ after.grid[q] = known.grid[q]
                                      /\ q \in after.outdated <=> q \in known.outdated
          BY <2>9
        <4>. HIDE DEF after, known
        <4>. QED  BY <4>1, <4>4, <4>5, <4>6
      <3>. QED  BY <2>9, <3>1, <3>2 DEF Settles
    <2>. QED  BY <1>1, <2>10 DEF bad
  <1>. QED  BY <1>2, <1>3

-----------------------------------------------------------------------------
(* Sequences of changes, and what keeps the parts of the invariant. *)

LEMMA AppendIs ==
  ASSUME NEW S, NEW s \in Seq(S), NEW e \in S
  PROVE  /\ Append(s, e) \in Seq(S) /\ Append(s, e) # <<>> /\ Last(Append(s, e)) = e
         /\ DOMAIN Append(s, e) = (DOMAIN s) \cup {Len(s) + 1} /\ Len(s) + 1 \notin DOMAIN s
         /\ \A i \in DOMAIN s : i < Len(s) + 1 /\ i \in Nat /\ Append(s, e)[i] = s[i]
         /\ Append(s, e)[Len(s) + 1] = e
  <1>1. Append(s, e) \in Seq(S) /\ Len(Append(s, e)) = Len(s) + 1 /\ Len(s) \in Nat
    OBVIOUS
  <1>2. Last(Append(s, e)) = e
    BY <1>1 DEF Last
  <1>. QED  BY <1>1, <1>2

LEMMA ChangesOfAppended ==
  ASSUME NEW review \in Review, NEW c \in Nat
  PROVE  Changes(Append(review, c)) = Changes(review) \cup {c}
  <1>. review \in Seq(Nat)
    BY DEF Review, Change
  <1>1. /\ DOMAIN Append(review, c) = (DOMAIN review) \cup {Len(review) + 1}
        /\ \A i \in DOMAIN review : Append(review, c)[i] = review[i]
        /\ Append(review, c)[Len(review) + 1] = c
    BY AppendIs
  <1>. QED  BY <1>1, Zenon DEF Changes, ToSet

LEMMA ChangesAreNat ==
  ASSUME NEW review \in Review
  PROVE  Changes(review) \subseteq Nat
  BY DEF Review, Change, Changes, ToSet

LEMMA OrderedAppend ==
  ASSUME NEW review \in Review, InOrder(review), NEW c \in Nat, \A d \in Changes(review) : d < c
  PROVE  InOrder(Append(review, c))
  <1>. review \in Seq(Nat)
    BY DEF Review, Change
  <1>1. /\ DOMAIN Append(review, c) = (DOMAIN review) \cup {Len(review) + 1}
        /\ \A i \in DOMAIN review : i < Len(review) + 1 /\ i \in Nat /\ Append(review, c)[i] = review[i]
        /\ Append(review, c)[Len(review) + 1] = c
    BY AppendIs
  <1>2. \A i \in DOMAIN review : review[i] < c
    BY DEF Changes, ToSet
  <1>3. SUFFICES ASSUME NEW i \in DOMAIN Append(review, c), NEW j \in DOMAIN Append(review, c), i < j
                 PROVE  Append(review, c)[i] < Append(review, c)[j]
    BY DEF InOrder
  <1>4. i \in DOMAIN review
    BY <1>1, <1>3
  <1>5. CASE j \in DOMAIN review
    BY <1>1, <1>3, <1>4, <1>5 DEF InOrder
  <1>6. CASE j = Len(review) + 1
    BY <1>1, <1>2, <1>4, <1>6
  <1>. QED  BY <1>1, <1>5, <1>6

LEMMA TailIs ==
  ASSUME NEW S, NEW s \in Seq(S), s # <<>>
  PROVE  /\ Tail(s) \in Seq(S) /\ Head(s) \in S /\ 1 \in DOMAIN s /\ Head(s) = s[1]
         /\ \A i \in DOMAIN Tail(s) : i \in Nat /\ i >= 1 /\ i + 1 \in DOMAIN s /\ Tail(s)[i] = s[i + 1]
         /\ \A i \in DOMAIN s : i \in Nat /\ i >= 1 /\ (i # 1 => i - 1 \in DOMAIN Tail(s) /\ Tail(s)[i - 1] = s[i])
  <1>1. /\ Tail(s) \in Seq(S) /\ Len(s) \in Nat /\ Len(s) >= 1
        /\ DOMAIN s = 1..Len(s) /\ DOMAIN Tail(s) = 1..(Len(s) - 1)
        /\ \A i \in 1..(Len(s) - 1) : Tail(s)[i] = s[i + 1]
    OBVIOUS
  <1>2. Head(s) \in S /\ Head(s) = s[1]
    OBVIOUS
  <1>3. ASSUME NEW i \in DOMAIN s, i # 1
        PROVE  i - 1 \in DOMAIN Tail(s) /\ Tail(s)[i - 1] = s[i]
    <2>1. i - 1 \in 1..(Len(s) - 1) /\ (i - 1) + 1 = i
      BY <1>1, <1>3
    <2>. QED  BY <1>1, <2>1
  <1>4. \A i \in DOMAIN Tail(s) : i \in Nat /\ i >= 1 /\ i + 1 \in DOMAIN s /\ Tail(s)[i] = s[i + 1]
    BY <1>1
  <1>. QED  BY <1>1, <1>2, <1>3, <1>4

(* A queued save of the document comes last, where it may replace the one before. *)
LEMMA QueuedSave ==
  ASSUME saves \in Seq(EditSave), NEW document \in DocType, document.photo \in Photo
  PROVE  LET after == QueueSave(document)
         IN /\ after \in Seq(EditSave)
            /\ \A i \in DOMAIN after :
                 \/ i \in DOMAIN saves /\ i < Len(after) /\ after[i] = saves[i]
                 \/ i = Len(after) /\ after[i].edits = document.edits
  <1>. DEFINE save == [photo |-> document.photo, edits |-> document.edits, review |-> document.review]
              last == Len(saves)
              after == QueueSave(document)
  <1>1. save \in EditSave /\ save.edits = document.edits
    BY DEF DocType, EditSave
  <1>2. \/ last > 1 /\ after = [saves EXCEPT ![last] = save]
        \/ after = Append(saves, save)
    BY DEF QueueSave
  <1>. SUFFICES /\ after \in Seq(EditSave)
                /\ \A i \in DOMAIN after :
                     \/ i \in DOMAIN saves /\ i < Len(after) /\ after[i] = saves[i]
                     \/ i = Len(after) /\ after[i].edits = document.edits
    OBVIOUS
  <1>. HIDE DEF save, after
  <1>3. CASE last > 1 /\ after = [saves EXCEPT ![last] = save]
    <2>1. last \in Nat /\ last \in 1..last /\ DOMAIN saves = 1..last
      BY <1>3
    <2>2. after \in Seq(EditSave) /\ Len(after) = last
          /\ \A i \in 1..last : after[i] = IF i = last THEN save ELSE saves[i]
      BY <1>1, <1>3, <2>1, ExceptSeq
    <2>3. DOMAIN after = 1..last
      BY <2>2
    <2>. HIDE DEF last
    <2>4. \A i \in 1..last : i = last \/ i < last
      BY <2>1
    <2>. QED  BY <1>1, <2>1, <2>2, <2>3, <2>4
  <1>4. CASE after = Append(saves, save)
    <2>1. after \in Seq(EditSave) /\ Len(after) = last + 1 /\ last \in Nat /\ DOMAIN saves = 1..last
      BY <1>1, <1>4
    <2>2. DOMAIN after = 1..(last + 1)
      BY <2>1
    <2>3. \A i \in 1..last : after[i] = saves[i]
      BY <1>1, <1>4
    <2>4. after[last + 1] = save
      BY <1>1, <1>4
    <2>. QED  BY <1>1, <2>1, <2>2, <2>3, <2>4
  <1>. QED  BY <1>2, <1>3, <1>4

LEMMA CountsAre ==
  /\ \A q : Queued(q) = Cardinality(Of(requests, q))
  /\ \A q : Finished(q) = Cardinality(Of(results, q))
  /\ \A q : Writing(q) \in {0, 1}
  BY DEF Queued, Finished, Writing, Of

LEMMA CountsAreNat ==
  ASSUME WriterTypes
  PROVE  \A q : Queued(q) \in Nat /\ Finished(q) \in Nat /\ Writing(q) \in Nat
  BY CountsAre, CountIsNat DEF WriterTypes

(* A photo without a save waiting has none on its way. *)
LEMMA NoneWaits ==
  ASSUME WriterTypes, PendingIsExact, NEW q \in Photo, pending[q] = 0
  PROVE  \A c : ~ToSave(q, c) /\ ~ToReport(q, c)
  <1>1. Queued(q) = 0 /\ Writing(q) = 0 /\ Finished(q) = 0
    BY CountsAreNat DEF PendingIsExact
  <1>2. \A i \in DOMAIN requests : requests[i].photo # q
    BY <1>1, CountsAre, CountIsNat DEF WriterTypes
  <1>3. \A i \in DOMAIN results : results[i].photo # q
    BY <1>1, CountsAre, CountIsNat DEF WriterTypes
  <1>4. worker.request.photo # q
    BY <1>1 DEF Writing
  <1>. QED  BY <1>2, <1>3, <1>4 DEF ToSave, ToReport

LEMMA CountBump ==
  ASSUME count \in CountType, NEW what \in {"changes", "edits", "opens", "scans"}, Counted(what)
  PROVE  /\ count' \in CountType /\ count'[what] = count[what] + 1
         /\ \A other \in {"changes", "edits", "opens", "scans"} \ {what} : count'[other] = count[other]
  BY DEF Counted, CountType

-----------------------------------------------------------------------------
(* The steps. *)

LEMMA SameWaiting ==
  ASSUME PendingIsExact, UNCHANGED <<pending, writer>>
  PROVE  PendingIsExact'
  BY DEF PendingIsExact, Queued, Writing, Finished, writer

(* A change to the open document of a media library. *)
LEMMA ReviewDocumentKeeps ==
  ASSUME IInv, NEW q \in Photo, ReviewDocument(q)
  PROVE  IInv'
  <1>. DEFINE c == count.changes + 1
              document == [doc EXCEPT !.review = Append(@, c)]
  <1>1. /\ media /\ media' = media /\ doc.photo = q /\ doc' = document
        /\ grid' = [grid EXCEPT ![q] = document.review]
        /\ made' = [made EXCEPT ![q] = Append(@, c)]
        /\ saves' = QueueSave(document) /\ Counted("changes")
        /\ UNCHANGED <<pending, writer, sidecar, load, scanned, ui, reported, outdated>>
    BY DEF ReviewDocument, Made
  <1>2. WriterTypes /\ KnownTypes /\ DocumentTypes /\ PendingIsExact /\ WriterInv
    BY DEF IInv
  <1>3. c \in Nat
    BY <1>2 DEF DocumentTypes, CountType
  <1>4. /\ doc.review \in Seq(Nat) /\ made[q] \in Seq(Nat)
        /\ Append(doc.review, c) \in Review /\ Append(made[q], c) \in Review
        /\ document \in DocType /\ document.photo = q /\ document.review = Append(doc.review, c)
    <2>1. doc \in DocType /\ made[q] \in Seq(Nat)
      BY <1>2 DEF DocumentTypes, Review, Change
    <2>2. doc.review \in Seq(Nat)
      BY <2>1 DEF DocType, Review, Change
    <2>3. Append(doc.review, c) \in Review /\ Append(made[q], c) \in Review
      BY <1>3, <2>1, <2>2 DEF Review, Change
    <2>. HIDE DEF c
    <2>4. document \in DocType /\ document.photo = doc.photo /\ document.review = Append(doc.review, c)
      BY <2>1, <2>3 DEF DocType
    <2>. QED  BY <1>1, <2>1, <2>2, <2>3, <2>4
  <1>5. QueueSave(document) \in Seq(EditSave)
    BY <1>2, <1>4, QueuedSave DEF DocumentTypes
  <1>6. count' \in CountType
    BY <1>1, <1>2, CountBump DEF DocumentTypes
  <1>. HIDE DEF document, c
  <1>7. WriterTypes'
    BY <1>1, <1>2 DEF WriterTypes, writer
  <1>8. KnownTypes'
    BY <1>1, <1>2, <1>4 DEF KnownTypes
  <1>9. DocumentTypes'
    BY <1>1, <1>2, <1>4, <1>5, <1>6 DEF DocumentTypes
  <1>10. PendingIsExact'
    BY <1>1, <1>2, SameWaiting
  <1>11. ShowsInv'
    <2>. SUFFICES ASSUME NEW r \in Photo, (media \/ r \notin outdated)', pending'[r] > 0
                  PROVE  grid'[r] # <<>> /\ made'[r] # <<>> /\ Last(grid'[r]) = Last(made'[r])
      BY DEF ShowsInv
    <2>1. CASE r = q
      <3>1. grid'[q] = Append(doc.review, c) /\ made'[q] = Append(made[q], c)
        BY <1>1, <1>2, <1>4 DEF KnownTypes, DocumentTypes
      <3>2. Append(doc.review, c) # <<>> /\ Last(Append(doc.review, c)) = c
        BY <1>3, <1>4, AppendIs
      <3>3. Append(made[q], c) # <<>> /\ Last(Append(made[q], c)) = c
        BY <1>3, <1>4, AppendIs
      <3>. QED  BY <2>1, <3>1, <3>2, <3>3
    <2>2. CASE r # q
      BY <1>1, <1>2, <2>2 DEF WriterInv, ShowsInv, KnownTypes, DocumentTypes
    <2>. QED  BY <2>1, <2>2
  <1>12. OrderInv' /\ SavedInv' /\ LoadInv' /\ EditsInv'
    BY <1>1 DEF OrderInv, SavedInv, LoadInv, EditsInv
  <1>. QED  BY <1>7, <1>8, <1>9, <1>10, <1>11, <1>12 DEF IInv, WriterInv

(* A change that is saved by the writer, or whose failure is reported at once. *)
LEMMA ReviewPhotoKeeps ==
  ASSUME IInv, NEW q \in Photo, ReviewPhoto(q)
  PROVE  IInv'
  <1>. DEFINE c == count.changes + 1
              request == [photo |-> q, change |-> c]
              Sent == /\ worker.at # "dead"
                      /\ worker' = IF worker.at = "none" THEN Idle ELSE worker
                      /\ results' = IF worker.at = "none" THEN <<>> ELSE results
                      /\ requests' = Append(requests, request)
                      /\ pending' = [pending EXCEPT ![q] = @ + 1]
                      /\ reported' = reported
              NotSent == /\ reported' = reported \cup {c}
                         /\ UNCHANGED <<worker, requests, results, pending>>
  <1>1. /\ ~(media /\ doc.photo = q)
        /\ doc' = IF doc.photo = q THEN [doc EXCEPT !.review = Append(@, c)] ELSE doc
        /\ grid' = [grid EXCEPT ![q] = Append(@, c)]
        /\ made' = [made EXCEPT ![q] = Append(@, c)]
        /\ Counted("changes") /\ Running
        /\ UNCHANGED <<media, sidecar, saves, load, scanned, ui, outdated>>
    BY DEF ReviewPhoto, Made
  <1>2. Sent \/ NotSent
    BY DEF ReviewPhoto
  <1>3. WriterTypes /\ KnownTypes /\ DocumentTypes /\ PendingIsExact /\ WriterInv
    BY DEF IInv
  <1>4. /\ c \in Nat /\ count' \in CountType /\ count'.changes = c /\ count'.edits = count.edits
        /\ count.changes \in Nat /\ c > count.changes
    <2>1. count \in CountType /\ count.changes \in Nat
      BY <1>3 DEF DocumentTypes, CountType
    <2>. QED  BY <1>1, <2>1, CountBump
  <1>5. request \in ReviewSave /\ request.photo = q /\ request.change = c
    BY <1>4 DEF ReviewSave, Change
  <1>6. grid[q] \in Seq(Nat) /\ made[q] \in Seq(Nat) /\ doc \in DocType /\ doc.review \in Seq(Nat)
    BY <1>3 DEF KnownTypes, DocumentTypes, DocType, Review, Change
  <1>7. Append(grid[q], c) \in Review /\ Append(made[q], c) \in Review /\ Append(doc.review, c) \in Review
    BY <1>4, <1>6 DEF Review, Change
  <1>. HIDE DEF c, request
  <1>8. Changes(Append(made[q], c)) = Changes(made[q]) \cup {c}
    BY <1>4, <1>6, ChangesOfAppended DEF Review, Change
  <1>9. /\ grid'[q] = Append(grid[q], c) /\ made'[q] = Append(made[q], c)
        /\ \A r \in Photo \ {q} : grid'[r] = grid[r] /\ made'[r] = made[r]
    BY <1>1, <1>3 DEF KnownTypes, DocumentTypes
  <1>10. worker \in WorkerType /\ requests \in Seq(ReviewSave) /\ results \in Seq(ReviewSaved)
    BY <1>3 DEF WriterTypes
  <1>11. ASSUME Sent
         PROVE  /\ worker' \in WorkerType /\ worker'.request = worker.request
                /\ worker'.at = "read" <=> worker.at = "read"
                /\ worker'.at # "none"
                /\ worker.at = "read" => worker' = worker
                /\ results' = results
                /\ requests' \in Seq(ReviewSave)
                /\ worker'.at \in {"none", "idle"} => worker'.request = NoSave
    <2>1. CASE worker.at = "none"
      <3>1. worker' = [at |-> "idle", request |-> NoSave, held |-> Unedited]
        BY <1>11, <2>1 DEF Idle
      <3>2. Unedited \in Sidecar
        BY DEF Unedited, Sidecar, Review
      <3>3. worker.request = NoSave /\ results = <<>>
        BY <1>3, <2>1 DEF WriterTypes
      <3>. QED  BY <1>5, <1>10, <1>11, <2>1, <3>1, <3>2, <3>3 DEF WorkerType
    <2>2. CASE worker.at # "none"
      <3>1. worker' = worker /\ results' = results
        BY <1>11, <2>2
      <3>2. worker.at \in {"none", "idle"} => worker.request = NoSave
        BY <1>3 DEF WriterTypes
      <3>. QED  BY <1>5, <1>10, <1>11, <2>2, <3>1, <3>2 DEF WorkerType
    <2>. QED  BY <2>1, <2>2
  <1>12. /\ DOMAIN Append(requests, request) = (DOMAIN requests) \cup {Len(requests) + 1}
         /\ \A i \in DOMAIN requests : i < Len(requests) + 1 /\ i \in Nat /\ Append(requests, request)[i] = requests[i]
         /\ Append(requests, request)[Len(requests) + 1] = request
    BY <1>5, <1>10, AppendIs
  <1>13. WriterTypes'
    <2>1. CASE Sent
      <3>1. worker.at = "read" => worker.request # NoSave
        BY <1>3 DEF WriterTypes
      <3>. QED  BY <1>10, <1>11, <2>1, <3>1 DEF WriterTypes
    <2>2. CASE NotSent
      BY <1>3, <2>2 DEF WriterTypes
    <2>. QED  BY <1>2, <2>1, <2>2
  <1>14. KnownTypes'
    BY <1>1, <1>2, <1>3, <1>4, <1>7 DEF KnownTypes
  <1>15. DocumentTypes'
    <2>1. doc' \in DocType
      BY <1>1, <1>6, <1>7 DEF DocType
    <2>2. made' \in [Photo -> Review]
      BY <1>1, <1>3, <1>7 DEF DocumentTypes
    <2>. QED  BY <1>1, <1>3, <1>4, <2>1, <2>2 DEF DocumentTypes
  <1>16. PendingIsExact'
    <2>1. CASE Sent
      <3>. SUFFICES ASSUME NEW r \in Photo PROVE (pending[r] = Queued(r) + Writing(r) + Finished(r))'
        BY DEF PendingIsExact
      <3>1. Queued(r)' = Cardinality(Of(requests', r)) /\ Queued(r) = Cardinality(Of(requests, r))
        BY DEF Queued, Of
      <3>2. Queued(r)' = Queued(r) + (IF r = q THEN 1 ELSE 0)
        BY <1>5, <1>10, <2>1, <3>1, CountOfAppended
      <3>3. Writing(r)' = Writing(r) /\ Finished(r)' = Finished(r)
        BY <1>11, <2>1 DEF Writing, Finished
      <3>4. pending'[r] = pending[r] + (IF r = q THEN 1 ELSE 0)
        BY <1>3, <2>1 DEF KnownTypes
      <3>5. pending[r] = Queued(r) + Writing(r) + Finished(r)
        BY <1>3 DEF PendingIsExact
      <3>6. Queued(r) \in Nat /\ Writing(r) \in Nat /\ Finished(r) \in Nat
        BY <1>3, CountsAreNat
      <3>. QED  BY <3>2, <3>3, <3>4, <3>5, <3>6
    <2>2. CASE NotSent
      BY <1>3, <2>2, SameWaiting DEF writer
    <2>. QED  BY <1>2, <2>1, <2>2
  <1>17. ShowsInv'
    <2>. SUFFICES ASSUME NEW r \in Photo, (media \/ r \notin outdated)', pending'[r] > 0
                  PROVE  grid'[r] # <<>> /\ made'[r] # <<>> /\ Last(grid'[r]) = Last(made'[r])
      BY DEF ShowsInv
    <2>1. CASE r = q
      <3>1. Append(grid[q], c) # <<>> /\ Last(Append(grid[q], c)) = c
        BY <1>4, <1>6, AppendIs
      <3>2. Append(made[q], c) # <<>> /\ Last(Append(made[q], c)) = c
        BY <1>4, <1>6, AppendIs
      <3>. QED  BY <1>9, <2>1, <3>1, <3>2
    <2>2. CASE r # q
      <3>1. pending'[r] = pending[r]
        BY <1>2, <1>3, <2>2 DEF KnownTypes
      <3>. QED  BY <1>1, <1>3, <1>9, <2>2, <3>1 DEF WriterInv, ShowsInv
    <2>. QED  BY <2>1, <2>2
  <1>18. OrderInv'
    <2>. SUFFICES ASSUME ~media PROVE OrderInv'
      BY <1>1 DEF OrderInv
    <2>0. OrderInv
      BY <1>3 DEF WriterInv
    <2>1. ASSUME NEW r \in Photo
          PROVE  /\ Changes(sidecar[r].review) \subseteq Nat
                 /\ sidecar'[r] = sidecar[r]
                 /\ InOrder(sidecar[r].review)
      <3>1. sidecar[r].review \in Review
        BY <1>3 DEF DocumentTypes, Sidecar
      <3>. QED  BY <1>1, <2>0, <3>1, ChangesAreNat DEF OrderInv
    <2>2. worker.request.change \in Nat /\ \A i \in DOMAIN requests : requests[i].change \in Nat
      <3>1. worker.request \in ReviewSave \cup {NoSave} /\ \A i \in DOMAIN requests : requests[i] \in ReviewSave
        BY <1>10 DEF WorkerType
      <3>. QED  BY <3>1 DEF ReviewSave, NoSave, Change
    <2>3. ASSUME NEW r \in Photo, NEW d \in Changes(sidecar[r].review)
          PROVE  /\ d <= c /\ d < c
                 /\ worker.at = "read" => d < worker.request.change
                 /\ \A i \in DOMAIN requests : d < requests[i].change
      <3>1. d \in Nat
        BY <2>1, <2>3
      <3>2. d <= count.changes
        BY <2>0, <2>3 DEF OrderInv
      <3>. QED  BY <1>4, <2>0, <2>3, <3>1, <3>2 DEF OrderInv
    <2>4. \A i \in DOMAIN requests : requests[i].change <= c /\ requests[i].change < c
      <3>1. \A i \in DOMAIN requests : requests[i].change <= count.changes
        BY <2>0 DEF OrderInv
      <3>. QED  BY <1>4, <2>2, <3>1
    <2>5. worker.at = "read" => /\ worker.request.change <= c /\ worker.request.change < c
                                /\ \A i \in DOMAIN requests : worker.request.change < requests[i].change
                                /\ worker.held.review = sidecar[worker.request.photo].review
      <3>1. worker.at = "read" => worker.request.change <= count.changes
        BY <2>0 DEF OrderInv
      <3>. QED  BY <1>4, <2>0, <2>2, <3>1 DEF OrderInv
    <2>6. \A i, j \in DOMAIN requests : i < j => requests[i].change < requests[j].change
      BY <2>0 DEF OrderInv
    <2>7. CASE NotSent
      BY <1>1, <1>4, <2>1, <2>3, <2>4, <2>5, <2>6, <2>7 DEF OrderInv
    <2>8. CASE Sent
      <3>1. /\ requests' = Append(requests, request)
            /\ worker'.at = "read" => worker.at = "read" /\ worker' = worker
        BY <1>11, <2>8
      <3>2. \A i \in DOMAIN requests' : \/ i \in DOMAIN requests /\ requests'[i] = requests[i]
                                        \/ i = Len(requests) + 1 /\ requests'[i].change = c
        BY <1>5, <1>12, <3>1
      <3>3. \A i, j \in DOMAIN requests' : i < j => requests'[i].change < requests'[j].change
        <4>. SUFFICES ASSUME NEW i \in DOMAIN requests', NEW j \in DOMAIN requests', i < j
                      PROVE  requests'[i].change < requests'[j].change
          OBVIOUS
        <4>1. i \in DOMAIN requests /\ requests'[i] = requests[i]
          BY <1>12, <3>1, <3>2
        <4>2. CASE j \in DOMAIN requests /\ requests'[j] = requests[j]
          BY <2>6, <4>1, <4>2
        <4>3. CASE requests'[j].change = c
          BY <2>4, <4>1, <4>3
        <4>. QED  BY <3>2, <4>2, <4>3
      <3>4. \A i \in DOMAIN requests' : requests'[i].change <= c
        BY <1>4, <2>4, <3>2
      <3>5. \A r \in Photo : \A d \in Changes(sidecar'[r].review) :
              /\ d <= c
              /\ worker'.at = "read" => d < worker'.request.change
              /\ \A i \in DOMAIN requests' : d < requests'[i].change
        BY <2>1, <2>3, <3>1, <3>2
      <3>6. worker'.at = "read" =>
              /\ worker'.request.change <= c
              /\ \A i \in DOMAIN requests' : worker'.request.change < requests'[i].change
              /\ worker'.held.review = sidecar'[worker'.request.photo].review
        BY <1>1, <2>5, <3>1, <3>2
      <3>7. \A r \in Photo : InOrder(sidecar'[r].review)
        BY <2>1
      <3>. QED  BY <1>4, <3>3, <3>4, <3>5, <3>6, <3>7 DEF OrderInv
    <2>. QED  BY <1>2, <2>7, <2>8
  <1>19. SavedInv'
    <2>. SUFFICES ASSUME ~media, NEW r \in Photo, NEW d \in Changes(made'[r])
                  PROVE  d \in Changes(sidecar'[r].review) \/ ToSave(r, d)' \/ ToReport(r, d)' \/ d \in reported'
      BY <1>1 DEF SavedInv
    <2>0. (r = q /\ d = c) \/ d \in Changes(made[r])
      <3>1. CASE r = q
        BY <1>8, <1>9, <3>1
      <3>2. CASE r # q
        BY <1>9, <3>2
      <3>. QED  BY <3>1, <3>2
    <2>1. CASE Sent
      <3>1. /\ worker'.request = worker.request /\ results' = results /\ reported' = reported
            /\ requests' = Append(requests, request)
        BY <1>11, <2>1
      <3>2. CASE r = q /\ d = c
        <4>1. Len(requests) + 1 \in DOMAIN requests' /\ requests'[Len(requests) + 1] = request
          BY <1>12, <3>1
        <4>. QED  BY <1>5, <3>2, <4>1 DEF ToSave
      <3>3. CASE d \in Changes(made[r])
        <4>1. d \in Changes(sidecar[r].review) \/ ToSave(r, d) \/ ToReport(r, d) \/ d \in reported
          BY <1>3, <3>3 DEF WriterInv, SavedInv
        <4>2. ToSave(r, d) => ToSave(r, d)'
          BY <1>12, <3>1 DEF ToSave
        <4>3. ToReport(r, d) => ToReport(r, d)'
          BY <3>1 DEF ToReport
        <4>. QED  BY <1>1, <3>1, <4>1, <4>2, <4>3
      <3>. QED  BY <2>0, <3>2, <3>3
    <2>2. CASE NotSent
      <3>1. CASE r = q /\ d = c
        BY <2>2, <3>1
      <3>2. CASE d \in Changes(made[r])
        <4>1. d \in Changes(sidecar[r].review) \/ ToSave(r, d) \/ ToReport(r, d) \/ d \in reported
          BY <1>3, <3>2 DEF WriterInv, SavedInv
        <4>. QED  BY <1>1, <2>2, <4>1 DEF ToSave, ToReport
      <3>. QED  BY <2>0, <3>1, <3>2
    <2>. QED  BY <1>2, <2>1, <2>2
  <1>20. LoadInv'
    BY <1>1, <1>2, <1>3 DEF WriterInv, LoadInv
  <1>21. EditsInv'
    BY <1>1, <1>3, <1>4 DEF WriterInv, EditsInv
  <1>. QED  BY <1>13, <1>14, <1>15, <1>16, <1>17, <1>18, <1>19, <1>20, <1>21 DEF IInv, WriterInv

(* What no document, load, scan or edit changes. *)
LEMMA SameReviews ==
  ASSUME IInv, UNCHANGED <<media, sidecar, worker, requests, results, made, reported>>,
         count'.changes = count.changes
  PROVE  OrderInv' /\ SavedInv'
  <1>1. OrderInv /\ SavedInv
    BY DEF IInv, WriterInv
  <1>2. OrderInv'
    BY <1>1 DEF OrderInv
  <1>3. SavedInv'
    <2>. SUFFICES ASSUME ~media, NEW q \in Photo, NEW c \in Changes(made[q])
                  PROVE  c \in Changes(sidecar[q].review) \/ ToSave(q, c)' \/ ToReport(q, c)' \/ c \in reported
      BY DEF SavedInv
    <2>1. (ToSave(q, c)' <=> ToSave(q, c)) /\ (ToReport(q, c)' <=> ToReport(q, c))
      BY DEF ToSave, ToReport
    <2>. QED  BY <1>1, <2>1 DEF SavedInv
  <1>. QED  BY <1>2, <1>3

LEMMA SameShows ==
  ASSUME IInv, UNCHANGED <<media, grid, pending, made, outdated>>
  PROVE  ShowsInv'
  BY DEF IInv, WriterInv, ShowsInv

LEMMA SameEdits ==
  ASSUME IInv, UNCHANGED <<media, saves, sidecar>>, count'.edits = count.edits
  PROVE  EditsInv'
  BY DEF IInv, WriterInv, EditsInv

LEMMA StartLoadKeeps ==
  ASSUME IInv, NEW q \in Photo, StartLoad(q), UNCHANGED <<media, sidecar, reported>>
  PROVE  doc' \in DocType /\ load' \in LoadType /\ ~load'.read /\ LoadInv'
  <1>1. WriterTypes /\ DocumentTypes /\ PendingIsExact /\ SavedInv
    BY DEF IInv, WriterInv
  <1>2. /\ doc' = [photo |-> NoPhoto, edits |-> 0, review |-> <<>>]
        /\ load' = [photo |-> q, read |-> FALSE, edits |-> 0, review |-> <<>>,
                    before |-> IF Settled THEN Changes(made[q]) ELSE {}]
    BY DEF StartLoad, NoDoc, NoLoad
  <1>3. Changes(made[q]) \subseteq Nat
    BY <1>1, ChangesAreNat DEF DocumentTypes
  <1>4. <<>> \in Review
    BY DEF Review
  <1>5. doc' \in DocType /\ load' \in LoadType /\ ~load'.read
    BY <1>2, <1>3, <1>4 DEF DocType, LoadType
  <1>6. ~media /\ Settled => Changes(made[q]) \subseteq Changes(sidecar[q].review) \cup reported
    BY <1>1, NoneWaits DEF SavedInv, Settled
  <1>7. LoadInv'
    BY <1>2, <1>6 DEF LoadInv
  <1>. QED  BY <1>5, <1>7

(* Opening a photo starts its load, or the wait for queued ratings. *)
LEMMA OpenPhotoKeeps ==
  ASSUME IInv, NEW q \in Photo, OpenPhoto(q)
  PROVE  IInv'
  <1>1. /\ Counted("opens") /\ Running
        /\ \/ StartLoad(q) /\ UNCHANGED ui
           \/ ui' = q /\ UNCHANGED <<doc, load>>
        /\ UNCHANGED <<media, grid, pending, worker, requests, results, sidecar, saves, scanned, made,
                       reported, outdated>>
    BY DEF OpenPhoto, writer
  <1>2. WriterTypes /\ KnownTypes /\ DocumentTypes /\ PendingIsExact /\ WriterInv
    BY DEF IInv
  <1>3. count' \in CountType /\ count'.changes = count.changes /\ count'.edits = count.edits
    BY <1>1, <1>2, CountBump DEF DocumentTypes
  <1>4. doc' \in DocType /\ load' \in LoadType /\ (load'.read => load'.photo # NoPhoto) /\ LoadInv'
    <2>1. CASE StartLoad(q)
      BY <1>1, <2>1, StartLoadKeeps
    <2>2. CASE UNCHANGED <<doc, load>>
      BY <1>1, <1>2, <2>2 DEF WriterInv, LoadInv, DocumentTypes
    <2>. QED  BY <1>1, <2>1, <2>2
  <1>5. WriterTypes' /\ KnownTypes'
    BY <1>1, <1>2 DEF WriterTypes, KnownTypes
  <1>6. DocumentTypes'
    BY <1>1, <1>2, <1>3, <1>4 DEF DocumentTypes
  <1>. QED  BY <1>1, <1>2, <1>3, <1>4, <1>5, <1>6, SameWaiting, SameReviews, SameShows, SameEdits
            DEF IInv, WriterInv, writer

(* The wait ends. *)
LEMMA SettleEndsKeeps ==
  ASSUME IInv, SettleEnds
  PROVE  IInv'
  <1>1. /\ ui # "running" /\ StartLoad(ui) /\ ui' = "running"
        /\ UNCHANGED <<media, grid, pending, worker, requests, results, sidecar, saves, scanned, made,
                       reported, outdated, count>>
    BY DEF SettleEnds, Running, writer
  <1>2. WriterTypes /\ KnownTypes /\ DocumentTypes /\ PendingIsExact /\ WriterInv
    BY DEF IInv
  <1>3. ui \in Photo
    BY <1>1, <1>2 DEF DocumentTypes
  <1>4. doc' \in DocType /\ load' \in LoadType /\ ~load'.read /\ LoadInv'
    BY <1>1, <1>3, StartLoadKeeps
  <1>5. WriterTypes' /\ KnownTypes'
    BY <1>1, <1>2 DEF WriterTypes, KnownTypes
  <1>6. DocumentTypes'
    BY <1>1, <1>2, <1>4 DEF DocumentTypes
  <1>. QED  BY <1>1, <1>2, <1>4, <1>5, <1>6, SameWaiting, SameReviews, SameShows, SameEdits
            DEF IInv, WriterInv, writer

(* The load reads a sidecar that holds what was waited for. *)
LEMMA ReadDocumentKeeps ==
  ASSUME IInv, ReadDocument
  PROVE  IInv'
  <1>. DEFINE read == [load EXCEPT !.read = TRUE]
              edited == [read EXCEPT !.edits = sidecar[load.photo].edits]
              loaded == [edited EXCEPT !.review = sidecar[load.photo].review]
  <1>1. /\ load.photo # NoPhoto /\ ~load.read
        /\ load' = [load EXCEPT !.read = TRUE, !.edits = sidecar[load.photo].edits,
                                !.review = sidecar[load.photo].review]
        /\ UNCHANGED <<media, grid, pending, worker, requests, results, sidecar, doc, saves, scanned, ui,
                       made, reported, outdated, count>>
    BY DEF ReadDocument, writer
  <1>2. WriterTypes /\ KnownTypes /\ DocumentTypes /\ PendingIsExact /\ WriterInv
    BY DEF IInv
  <1>3. load \in LoadType /\ load.photo \in Photo
    BY <1>1, <1>2 DEF DocumentTypes, LoadType
  <1>4. sidecar[load.photo].edits \in Nat /\ sidecar[load.photo].review \in Review
    BY <1>2, <1>3 DEF DocumentTypes, Sidecar
  <1>5. load' = loaded
    BY <1>1, <1>3, Zenon DEF LoadType
  <1>6. loaded \in LoadType /\ loaded.photo = load.photo /\ loaded.read /\ loaded.before = load.before
        /\ loaded.review = sidecar[load.photo].review
    <2>1. read \in LoadType /\ read.photo = load.photo /\ read.read /\ read.before = load.before
      BY <1>3 DEF LoadType
    <2>. HIDE DEF read
    <2>2. edited \in LoadType /\ edited.photo = load.photo /\ edited.read /\ edited.before = load.before
      BY <1>4, <2>1 DEF LoadType
    <2>. HIDE DEF edited
    <2>. QED  BY <1>4, <2>2 DEF LoadType
  <1>. HIDE DEF loaded
  <1>7. LoadInv'
    BY <1>1, <1>2, <1>5, <1>6 DEF WriterInv, LoadInv
  <1>8. WriterTypes' /\ KnownTypes'
    BY <1>1, <1>2 DEF WriterTypes, KnownTypes
  <1>9. DocumentTypes'
    BY <1>1, <1>2, <1>5, <1>6 DEF DocumentTypes
  <1>. QED  BY <1>1, <1>2, <1>7, <1>8, <1>9, SameWaiting, SameReviews, SameShows, SameEdits
            DEF IInv, WriterInv, writer

LEMMA InstallDocumentKeeps ==
  ASSUME IInv, InstallDocument
  PROVE  IInv'
  <1>1. /\ load.read
        /\ doc' = [photo |-> load.photo, edits |-> load.edits, review |-> load.review]
        /\ load' = NoLoad
        /\ UNCHANGED <<media, grid, pending, worker, requests, results, sidecar, saves, scanned, ui, made,
                       reported, outdated, count>>
    BY DEF InstallDocument, writer
  <1>2. WriterTypes /\ KnownTypes /\ DocumentTypes /\ PendingIsExact /\ WriterInv
    BY DEF IInv
  <1>3. doc' \in DocType
    BY <1>1, <1>2 DEF DocumentTypes, LoadType, DocType
  <1>4. load' \in LoadType /\ ~load'.read /\ load'.photo = NoPhoto
    <2>1. <<>> \in Review
      BY DEF Review
    <2>. QED  BY <1>1, <2>1 DEF LoadType, NoLoad
  <1>5. LoadInv'
    BY <1>4 DEF LoadInv
  <1>6. WriterTypes' /\ KnownTypes'
    BY <1>1, <1>2 DEF WriterTypes, KnownTypes
  <1>7. DocumentTypes'
    BY <1>1, <1>2, <1>3, <1>4 DEF DocumentTypes
  <1>. QED  BY <1>1, <1>2, <1>5, <1>6, <1>7, SameWaiting, SameReviews, SameShows, SameEdits
            DEF IInv, WriterInv, writer

(* An edit is newer than every other, so its save comes last. *)
LEMMA EditDocumentKeeps ==
  ASSUME IInv, EditDocument
  PROVE  IInv'
  <1>. DEFINE e == count.edits + 1
              document == [doc EXCEPT !.edits = e]
  <1>1. /\ doc.photo # NoPhoto /\ Counted("edits") /\ doc' = document /\ saves' = QueueSave(document)
        /\ UNCHANGED <<media, grid, pending, worker, requests, results, sidecar, load, scanned, ui, made,
                       reported, outdated>>
    BY DEF EditDocument, writer
  <1>2. WriterTypes /\ KnownTypes /\ DocumentTypes /\ PendingIsExact /\ WriterInv
    BY DEF IInv
  <1>3. count' \in CountType /\ count'.changes = count.changes /\ count'.edits = e
        /\ count.edits \in Nat /\ e \in Nat /\ e > count.edits
    <2>1. count \in CountType /\ count.edits \in Nat
      BY <1>2 DEF DocumentTypes, CountType
    <2>. QED  BY <1>1, <2>1, CountBump
  <1>. HIDE DEF e
  <1>4. document \in DocType /\ document.photo \in Photo /\ document.edits = e
    BY <1>1, <1>2, <1>3 DEF DocumentTypes, DocType
  <1>. HIDE DEF document
  <1>5. saves \in Seq(EditSave)
    BY <1>2 DEF DocumentTypes
  <1>6. /\ saves' \in Seq(EditSave)
        /\ \A i \in DOMAIN saves' :
             \/ i \in DOMAIN saves /\ i < Len(saves') /\ saves'[i] = saves[i]
             \/ i = Len(saves') /\ saves'[i].edits = e
    BY <1>1, <1>4, <1>5, QueuedSave
  <1>7. WriterTypes' /\ KnownTypes'
    BY <1>1, <1>2 DEF WriterTypes, KnownTypes
  <1>8. DocumentTypes'
    BY <1>1, <1>2, <1>3, <1>4, <1>6 DEF DocumentTypes
  <1>9. EditsInv'
    <2>. SUFFICES ASSUME ~media PROVE EditsInv'
      BY <1>1 DEF EditsInv
    <2>1. /\ \A i \in DOMAIN saves : saves[i].edits <= count.edits /\ saves[i].edits \in Nat
          /\ \A i, j \in DOMAIN saves : i < j => saves[i].edits < saves[j].edits
          /\ \A q \in Photo : /\ sidecar[q].edits <= count.edits /\ sidecar[q].edits \in Nat
                              /\ \A i \in DOMAIN saves : sidecar[q].edits < saves[i].edits
      <3>1. \A i \in DOMAIN saves : saves[i].edits \in Nat
        <4>1. \A i \in DOMAIN saves : saves[i] \in EditSave
          BY <1>5
        <4>. QED  BY <4>1 DEF EditSave
      <3>2. \A q \in Photo : sidecar[q].edits \in Nat
        BY <1>2 DEF DocumentTypes, Sidecar
      <3>. QED  BY <1>2, <3>1, <3>2 DEF WriterInv, EditsInv
    <2>2. \A i \in DOMAIN saves : saves[i].edits < e /\ saves[i].edits <= e
      BY <1>3, <2>1
    <2>3. \A q \in Photo : sidecar[q].edits < e /\ sidecar[q].edits <= e
      BY <1>3, <2>1
    <2>4. \A i \in DOMAIN saves' : saves'[i].edits <= e
      BY <1>3, <1>6, <2>2
    <2>5. ASSUME NEW i \in DOMAIN saves', NEW j \in DOMAIN saves', i < j
          PROVE  saves'[i].edits < saves'[j].edits
      <3>1. j <= Len(saves') /\ i \in Nat /\ j \in Nat /\ Len(saves') \in Nat
        BY <1>6
      <3>2. i # Len(saves')
        BY <2>5, <3>1
      <3>3. i \in DOMAIN saves /\ saves'[i] = saves[i]
        BY <1>6, <3>2
      <3>4. CASE j \in DOMAIN saves /\ saves'[j] = saves[j]
        BY <2>1, <2>5, <3>3, <3>4
      <3>5. CASE saves'[j].edits = e
        BY <2>2, <3>3, <3>5
      <3>. QED  BY <1>6, <3>4, <3>5
    <2>6. \A q \in Photo : \A i \in DOMAIN saves' : sidecar[q].edits < saves'[i].edits
      BY <1>6, <2>1, <2>3
    <2>. QED  BY <1>1, <1>3, <2>3, <2>4, <2>5, <2>6 DEF EditsInv
  <1>10. LoadInv'
    BY <1>1, <1>2 DEF WriterInv, LoadInv
  <1>. QED  BY <1>1, <1>2, <1>3, <1>7, <1>8, <1>9, <1>10, SameWaiting, SameReviews, SameShows
            DEF IInv, WriterInv, writer

(* An edit save leaves the review of a folder's sidecar alone. *)
LEMMA SaveEditsKeeps ==
  ASSUME IInv, SaveEdits
  PROVE  IInv'
  <1>. DEFINE save == Head(saves)
              p == save.photo
              after == SavedEdits(sidecar[p], save)
  <1>1. /\ saves # <<>> /\ saves' = Tail(saves)
        /\ sidecar' = [sidecar EXCEPT ![p] = after]
        /\ UNCHANGED <<media, grid, pending, worker, requests, results, doc, load, scanned, ui, made,
                       reported, outdated, count>>
    BY DEF SaveEdits, writer
  <1>2. WriterTypes /\ KnownTypes /\ DocumentTypes /\ PendingIsExact /\ WriterInv
    BY DEF IInv
  <1>3. saves \in Seq(EditSave)
    BY <1>2 DEF DocumentTypes
  <1>4. /\ saves' \in Seq(EditSave) /\ save \in EditSave /\ 1 \in DOMAIN saves /\ save = saves[1]
        /\ \A i \in DOMAIN saves' : i \in Nat /\ i >= 1 /\ i + 1 \in DOMAIN saves /\ saves'[i] = saves[i + 1]
    BY <1>1, <1>3, TailIs
  <1>. HIDE DEF save
  <1>5. p \in Photo /\ sidecar[p] \in Sidecar
    BY <1>2, <1>4 DEF EditSave, DocumentTypes
  <1>6. after \in Sidecar /\ after.edits = save.edits /\ (~media => after.review = sidecar[p].review)
    BY <1>4, <1>5 DEF SavedEdits, Sidecar, EditSave
  <1>. HIDE DEF after, p
  <1>7. /\ sidecar' \in [Photo -> Sidecar] /\ sidecar'[p] = after
        /\ \A q \in Photo \ {p} : sidecar'[q] = sidecar[q]
    BY <1>1, <1>2, <1>5, <1>6 DEF DocumentTypes
  <1>8. ~media => \A q \in Photo : sidecar'[q].review = sidecar[q].review
    BY <1>6, <1>7
  <1>9. WriterTypes' /\ KnownTypes'
    BY <1>1, <1>2 DEF WriterTypes, KnownTypes
  <1>10. DocumentTypes'
    BY <1>1, <1>2, <1>4, <1>7 DEF DocumentTypes
  <1>11. OrderInv'
    <2>. SUFFICES ASSUME ~media PROVE OrderInv'
      BY <1>1 DEF OrderInv
    <2>1. worker.at = "read" => worker.request.photo \in Photo
      <3>1. worker.at = "read" => worker.request \in ReviewSave
        BY <1>2 DEF WriterTypes, WorkerType
      <3>. QED  BY <3>1 DEF ReviewSave
    <2>. QED  BY <1>1, <1>2, <1>8, <2>1 DEF WriterInv, OrderInv
  <1>12. SavedInv'
    <2>. SUFFICES ASSUME ~media, NEW q \in Photo, NEW c \in Changes(made[q])
                  PROVE  c \in Changes(sidecar'[q].review) \/ ToSave(q, c)' \/ ToReport(q, c)' \/ c \in reported
      BY <1>1 DEF SavedInv
    <2>1. (ToSave(q, c)' <=> ToSave(q, c)) /\ (ToReport(q, c)' <=> ToReport(q, c))
      BY <1>1 DEF ToSave, ToReport
    <2>. QED  BY <1>2, <1>8, <2>1 DEF WriterInv, SavedInv
  <1>13. LoadInv'
    <2>1. load.photo # NoPhoto => load.photo \in Photo
      BY <1>2 DEF DocumentTypes, LoadType
    <2>. QED  BY <1>1, <1>2, <1>8, <2>1 DEF WriterInv, LoadInv
  <1>14. EditsInv'
    <2>. SUFFICES ASSUME ~media PROVE EditsInv'
      BY <1>1 DEF EditsInv
    <2>1. /\ \A i \in DOMAIN saves : saves[i].edits <= count.edits
          /\ \A i, j \in DOMAIN saves : i < j => saves[i].edits < saves[j].edits
          /\ \A q \in Photo : /\ sidecar[q].edits <= count.edits
                              /\ \A i \in DOMAIN saves : sidecar[q].edits < saves[i].edits
      BY <1>2 DEF WriterInv, EditsInv
    <2>2. \A i \in DOMAIN saves' : saves'[i].edits <= count.edits
      BY <1>4, <2>1
    <2>3. \A i, j \in DOMAIN saves' : i < j => saves'[i].edits < saves'[j].edits
      <3>1. \A i, j \in DOMAIN saves' : i < j => i + 1 < j + 1
        BY <1>4
      <3>. QED  BY <1>4, <2>1, <3>1
    <2>4. \A q \in Photo : sidecar'[q].edits <= count.edits
      BY <1>4, <1>6, <1>7, <2>1
    <2>5. \A q \in Photo : \A i \in DOMAIN saves' : sidecar'[q].edits < saves'[i].edits
      <3>1. \A i \in DOMAIN saves' : 1 < i + 1
        BY <1>4
      <3>2. \A i \in DOMAIN saves' : save.edits < saves'[i].edits
        BY <1>4, <2>1, <3>1
      <3>. QED  BY <1>4, <1>6, <1>7, <2>1, <3>2
    <2>. QED  BY <1>1, <2>2, <2>3, <2>4, <2>5 DEF EditsInv
  <1>. QED  BY <1>1, <1>2, <1>9, <1>10, <1>11, <1>12, <1>13, <1>14, SameWaiting, SameShows
            DEF IInv, WriterInv, writer

LEMMA ScanReadsKeeps ==
  ASSUME IInv, NEW q \in Photo, ScanReads(q)
  PROVE  IInv'
  <1>1. /\ Counted("scans") /\ scanned' = [scanned EXCEPT ![q] = sidecar[q].review]
        /\ UNCHANGED <<media, grid, pending, worker, requests, results, sidecar, doc, saves, load, ui, made,
                       reported, outdated>>
    BY DEF ScanReads, writer, documents
  <1>2. WriterTypes /\ KnownTypes /\ DocumentTypes /\ PendingIsExact /\ WriterInv
    BY DEF IInv
  <1>3. count' \in CountType /\ count'.changes = count.changes /\ count'.edits = count.edits
    BY <1>1, <1>2, CountBump DEF DocumentTypes
  <1>4. scanned' \in [Photo -> Review]
    BY <1>1, <1>2 DEF DocumentTypes, Sidecar
  <1>5. WriterTypes' /\ KnownTypes'
    BY <1>1, <1>2 DEF WriterTypes, KnownTypes
  <1>6. DocumentTypes'
    BY <1>1, <1>2, <1>3, <1>4 DEF DocumentTypes
  <1>7. LoadInv'
    BY <1>1, <1>2 DEF WriterInv, LoadInv
  <1>. QED  BY <1>1, <1>2, <1>3, <1>5, <1>6, <1>7, SameWaiting, SameReviews, SameShows, SameEdits
            DEF IInv, WriterInv, writer

(* A read that was delivered late may replace what shows: the photo is outdated, or its
   thumbnail waits for the saves. *)
LEMMA ScanShowsKeeps ==
  ASSUME IInv, NEW q \in Photo, ScanShows(q)
  PROVE  IInv'
  <1>1. /\ scanned' = [scanned EXCEPT ![q] = Unknown]
        /\ \/ /\ Shows(q) /\ grid' = [grid EXCEPT ![q] = scanned[q]]
              /\ outdated' = IF scanned[q] = grid[q] THEN outdated ELSE outdated \cup {q}
           \/ UNCHANGED <<grid, outdated>>
        /\ UNCHANGED <<media, pending, worker, requests, results, sidecar, doc, saves, load, ui, made,
                       reported, count>>
    BY DEF ScanShows, writer, documents
  <1>2. WriterTypes /\ KnownTypes /\ DocumentTypes /\ PendingIsExact /\ WriterInv
    BY DEF IInv
  <1>3. scanned' \in [Photo -> Review] /\ scanned[q] \in Review
    <2>1. Unknown \in Review
      BY DEF Unknown, Review, Change
    <2>. QED  BY <1>1, <1>2, <2>1 DEF DocumentTypes
  <1>4. grid' \in [Photo -> Review] /\ outdated' \subseteq Photo
    BY <1>1, <1>2, <1>3 DEF KnownTypes
  <1>5. WriterTypes' /\ KnownTypes'
    BY <1>1, <1>2, <1>4 DEF WriterTypes, KnownTypes
  <1>6. DocumentTypes'
    BY <1>1, <1>2, <1>3 DEF DocumentTypes
  <1>7. ShowsInv'
    <2>. SUFFICES ASSUME NEW r \in Photo, (media \/ r \notin outdated)', pending[r] > 0
                  PROVE  grid'[r] # <<>> /\ made[r] # <<>> /\ Last(grid'[r]) = Last(made[r])
      BY <1>1 DEF ShowsInv
    <2>1. media \/ r \notin outdated
      BY <1>1
    <2>2. grid'[r] = grid[r]
      <3>1. CASE UNCHANGED grid
        BY <3>1
      <3>2. CASE Shows(q) /\ grid' = [grid EXCEPT ![q] = scanned[q]]
                 /\ outdated' = IF scanned[q] = grid[q] THEN outdated ELSE outdated \cup {q}
        <4>1. r = q => scanned[q] = grid[q]
          BY <1>1, <3>2 DEF Shows
        <4>. QED  BY <1>2, <3>2, <4>1 DEF KnownTypes
      <3>. QED  BY <1>1, <3>1, <3>2
    <2>. QED  BY <1>2, <2>1, <2>2 DEF WriterInv, ShowsInv
  <1>8. LoadInv'
    BY <1>1, <1>2 DEF WriterInv, LoadInv
  <1>. QED  BY <1>1, <1>2, <1>5, <1>6, <1>7, <1>8, SameWaiting, SameReviews, SameEdits
            DEF IInv, WriterInv, writer

(* The writer takes the oldest request, whose change is newer than every saved one. *)
LEMMA ReadForReviewKeeps ==
  ASSUME IInv, ReadForReview
  PROVE  IInv'
  <1>. DEFINE request == Head(requests)
              p == request.photo
  <1>1. /\ worker.at = "idle" /\ requests # <<>>
        /\ worker' = [at |-> "read", request |-> request, held |-> sidecar[p]]
        /\ requests' = Tail(requests)
        /\ UNCHANGED <<media, grid, pending, results, sidecar, doc, saves, load, ui, scanned, made,
                       reported, outdated, count>>
    BY DEF ReadForReview, documents
  <1>2. WriterTypes /\ KnownTypes /\ DocumentTypes /\ PendingIsExact /\ WriterInv
    BY DEF IInv
  <1>3. /\ requests \in Seq(ReviewSave) /\ results \in Seq(ReviewSaved)
        /\ worker.request = NoSave
    BY <1>1, <1>2 DEF WriterTypes
  <1>4. /\ requests' \in Seq(ReviewSave) /\ request \in ReviewSave /\ 1 \in DOMAIN requests
        /\ request = requests[1]
        /\ \A i \in DOMAIN requests' :
             i \in Nat /\ i >= 1 /\ i + 1 \in DOMAIN requests /\ requests'[i] = requests[i + 1]
        /\ \A i \in DOMAIN requests :
             i \in Nat /\ i >= 1 /\ (i # 1 => i - 1 \in DOMAIN requests' /\ requests'[i - 1] = requests[i])
    BY <1>1, <1>3, TailIs
  <1>. HIDE DEF request
  <1>5. p \in Photo /\ request.change \in Nat /\ request = [photo |-> p, change |-> request.change]
        /\ request # NoSave
    BY <1>4, ReviewAssumption DEF ReviewSave, Change, NoSave
  <1>6. WriterTypes'
    <2>1. worker' \in WorkerType
      BY <1>1, <1>2, <1>4, <1>5 DEF WorkerType, DocumentTypes
    <2>. QED  BY <1>1, <1>3, <1>4, <1>5, <2>1 DEF WriterTypes
  <1>7. KnownTypes' /\ DocumentTypes'
    BY <1>1, <1>2 DEF KnownTypes, DocumentTypes
  <1>8. PendingIsExact'
    <2>. SUFFICES ASSUME NEW r \in Photo PROVE (pending[r] = Queued(r) + Writing(r) + Finished(r))'
      BY DEF PendingIsExact
    <2>1. Queued(r)' = Cardinality(Of(requests', r)) /\ Queued(r) = Cardinality(Of(requests, r))
      BY DEF Queued, Of
    <2>2. Queued(r) = Queued(r)' + (IF p = r THEN 1 ELSE 0)
      BY <1>1, <1>3, <2>1, CountOfTail DEF request
    <2>3. Writing(r) = 0
      BY <1>3, ReviewAssumption DEF Writing, NoSave
    <2>4. Writing(r)' = IF p = r THEN 1 ELSE 0
      BY <1>1 DEF Writing
    <2>5. Finished(r)' = Finished(r)
      BY <1>1 DEF Finished
    <2>6. pending[r] = Queued(r) + Writing(r) + Finished(r)
      BY <1>2 DEF PendingIsExact
    <2>7. Queued(r)' \in Nat /\ Finished(r) \in Nat
      BY <1>2, <1>4, <2>1, CountsAreNat, CountIsNat
    <2>. QED  BY <1>1, <2>2, <2>3, <2>4, <2>5, <2>6, <2>7
  <1>9. OrderInv'
    <2>. SUFFICES ASSUME ~media PROVE OrderInv'
      BY <1>1 DEF OrderInv
    <2>0. OrderInv
      BY <1>2 DEF WriterInv
    <2>1. \A i \in DOMAIN requests' : requests'[i].change <= count.changes
      BY <1>4, <2>0 DEF OrderInv
    <2>2. \A i, j \in DOMAIN requests' : i < j => requests'[i].change < requests'[j].change
      <3>1. \A i, j \in DOMAIN requests' : i < j => i + 1 < j + 1
        BY <1>4
      <3>. QED  BY <1>4, <2>0, <3>1 DEF OrderInv
    <2>3. \A i \in DOMAIN requests' : request.change < requests'[i].change
      <3>1. \A i \in DOMAIN requests' : 1 < i + 1
        BY <1>4
      <3>. QED  BY <1>4, <2>0, <3>1 DEF OrderInv
    <2>4. \A q \in Photo : \A c \in Changes(sidecar[q].review) :
            /\ c <= count.changes /\ c < request.change
            /\ \A i \in DOMAIN requests' : c < requests'[i].change
      BY <1>4, <2>0 DEF OrderInv
    <2>5. request.change <= count.changes
      BY <1>4, <2>0 DEF OrderInv
    <2>6. \A q \in Photo : InOrder(sidecar[q].review)
      BY <2>0 DEF OrderInv
    <2>. QED  BY <1>1, <2>1, <2>2, <2>3, <2>4, <2>5, <2>6 DEF OrderInv
  <1>10. SavedInv'
    <2>. SUFFICES ASSUME ~media, NEW q \in Photo, NEW c \in Changes(made[q])
                  PROVE  c \in Changes(sidecar[q].review) \/ ToSave(q, c)' \/ ToReport(q, c)' \/ c \in reported
      BY <1>1 DEF SavedInv
    <2>1. ToReport(q, c)' <=> ToReport(q, c)
      BY <1>1 DEF ToReport
    <2>2. ToSave(q, c) => ToSave(q, c)'
      <3>. SUFFICES ASSUME ToSave(q, c) PROVE ToSave(q, c)'
        OBVIOUS
      <3>1. PICK i \in DOMAIN requests : requests[i].photo = q /\ requests[i].change = c
        <4>1. worker.request.photo # q
          BY <1>3, ReviewAssumption DEF NoSave
        <4>. QED  BY <4>1 DEF ToSave
      <3>2. CASE i = 1
        <4>1. worker'.request = [photo |-> q, change |-> c]
          BY <1>1, <1>4, <1>5, <3>1, <3>2
        <4>. QED  BY <4>1 DEF ToSave
      <3>3. CASE i # 1
        BY <1>4, <3>1, <3>3 DEF ToSave
      <3>. QED  BY <3>2, <3>3
    <2>. QED  BY <1>2, <2>1, <2>2 DEF WriterInv, SavedInv
  <1>11. LoadInv'
    BY <1>1, <1>2 DEF WriterInv, LoadInv
  <1>. QED  BY <1>1, <1>2, <1>6, <1>7, <1>8, <1>9, <1>10, <1>11, SameShows, SameEdits DEF IInv, WriterInv

LEMMA WriterDiesKeeps ==
  ASSUME IInv, WriterDies
  PROVE  IInv'
  <1>1. /\ worker.at \in {"idle", "read"} /\ worker' = [worker EXCEPT !.at = "dead"]
        /\ UNCHANGED <<media, grid, pending, requests, results, sidecar, doc, saves, load, ui, scanned, made,
                       reported, outdated, count>>
    BY DEF WriterDies, documents
  <1>2. WriterTypes /\ KnownTypes /\ DocumentTypes /\ PendingIsExact /\ WriterInv
    BY DEF IInv
  <1>3. worker' \in WorkerType /\ worker'.at = "dead" /\ worker'.request = worker.request
    BY <1>1, <1>2 DEF WriterTypes, WorkerType
  <1>4. WriterTypes'
    BY <1>1, <1>2, <1>3 DEF WriterTypes
  <1>5. KnownTypes' /\ DocumentTypes'
    BY <1>1, <1>2 DEF KnownTypes, DocumentTypes
  <1>6. PendingIsExact'
    <2>. SUFFICES ASSUME NEW r \in Photo PROVE (pending[r] = Queued(r) + Writing(r) + Finished(r))'
      BY DEF PendingIsExact
    <2>1. Queued(r)' = Queued(r) /\ Writing(r)' = Writing(r) /\ Finished(r)' = Finished(r)
      BY <1>1, <1>3 DEF Queued, Writing, Finished
    <2>. QED  BY <1>1, <1>2, <2>1 DEF PendingIsExact
  <1>7. OrderInv'
    BY <1>1, <1>2, <1>3 DEF WriterInv, OrderInv
  <1>8. SavedInv'
    <2>. SUFFICES ASSUME ~media, NEW q \in Photo, NEW c \in Changes(made[q])
                  PROVE  c \in Changes(sidecar[q].review) \/ ToSave(q, c)' \/ ToReport(q, c)' \/ c \in reported
      BY <1>1 DEF SavedInv
    <2>1. (ToSave(q, c)' <=> ToSave(q, c)) /\ (ToReport(q, c)' <=> ToReport(q, c))
      BY <1>1, <1>3 DEF ToSave, ToReport
    <2>. QED  BY <1>2, <2>1 DEF WriterInv, SavedInv
  <1>9. LoadInv'
    BY <1>1, <1>2 DEF WriterInv, LoadInv
  <1>. QED  BY <1>1, <1>2, <1>4, <1>5, <1>6, <1>7, <1>8, <1>9, SameShows, SameEdits DEF IInv, WriterInv

(* A save ends: its request is one among the results. *)
LEMMA ReportKeeps ==
  ASSUME IInv, worker.at = "read", NEW review \in Review, NEW ok \in BOOLEAN, Report(review, ok),
         UNCHANGED <<pending, requests>>
  PROVE  /\ WriterTypes' /\ PendingIsExact'
         /\ worker' = Idle /\ worker.request \in ReviewSave
         /\ \A q, c : ToReport(q, c) => ToReport(q, c)'
         /\ \A q \in Photo, c \in Nat : ToSave(q, c) =>
              ToSave(q, c)' \/ (q = worker.request.photo /\ c = worker.request.change)
         /\ ~ok => \A q, c : q = worker.request.photo /\ c = worker.request.change => ToReport(q, c)'
  <1>. DEFINE e == [photo |-> worker.request.photo, change |-> worker.request.change,
                    review |-> review, ok |-> ok]
  <1>1. worker' = Idle /\ results' = Append(results, e)
    BY DEF Report
  <1>2. /\ WriterTypes /\ PendingIsExact
        /\ results \in Seq(ReviewSaved) /\ requests \in Seq(ReviewSave) /\ worker.request \in ReviewSave
    BY DEF IInv, WriterTypes, WorkerType
  <1>3. /\ e \in ReviewSaved /\ e.photo = worker.request.photo /\ e.change = worker.request.change
        /\ e.ok = ok
    BY <1>2 DEF ReviewSaved, ReviewSave
  <1>. HIDE DEF e
  <1>4. /\ results' \in Seq(ReviewSaved)
        /\ DOMAIN results' = (DOMAIN results) \cup {Len(results) + 1}
        /\ \A i \in DOMAIN results : results'[i] = results[i]
        /\ results'[Len(results) + 1] = e
    BY <1>1, <1>2, <1>3, AppendIs
  <1>5. worker'.at = "idle" /\ worker'.request = NoSave /\ worker' \in WorkerType
    <2>1. Unedited \in Sidecar
      BY DEF Unedited, Sidecar, Review
    <2>. QED  BY <1>1, <2>1 DEF Idle, WorkerType
  <1>6. WriterTypes'
    BY <1>2, <1>4, <1>5 DEF WriterTypes
  <1>7. PendingIsExact'
    <2>. SUFFICES ASSUME NEW r \in Photo PROVE (pending[r] = Queued(r) + Writing(r) + Finished(r))'
      BY DEF PendingIsExact
    <2>1. Queued(r)' = Queued(r)
      BY DEF Queued
    <2>2. Writing(r)' = 0
      BY <1>5, ReviewAssumption DEF Writing, NoSave
    <2>3. Writing(r) = IF worker.request.photo = r THEN 1 ELSE 0
      BY DEF Writing
    <2>4. Finished(r)' = Cardinality(Of(results', r)) /\ Finished(r) = Cardinality(Of(results, r))
      BY DEF Finished, Of
    <2>5. Finished(r)' = Finished(r) + (IF worker.request.photo = r THEN 1 ELSE 0)
      BY <1>1, <1>2, <1>3, <2>4, CountOfAppended
    <2>6. pending[r] = Queued(r) + Writing(r) + Finished(r)
      BY <1>2 DEF PendingIsExact
    <2>7. Queued(r) \in Nat /\ Finished(r) \in Nat
      BY <1>2, CountsAreNat
    <2>. QED  BY <2>1, <2>2, <2>3, <2>5, <2>6, <2>7
  <1>8. \A q, c : ToReport(q, c) => ToReport(q, c)'
    BY <1>4 DEF ToReport
  <1>9. ASSUME NEW q \in Photo, NEW c \in Nat, ToSave(q, c)
        PROVE  ToSave(q, c)' \/ (q = worker.request.photo /\ c = worker.request.change)
    BY <1>9 DEF ToSave
  <1>10. ~ok => \A q, c : q = worker.request.photo /\ c = worker.request.change => ToReport(q, c)'
    BY <1>3, <1>4 DEF ToReport
  <1>. QED  BY <1>1, <1>2, <1>6, <1>7, <1>8, <1>9, <1>10

(* The rating is written after every older one, and nothing else changes in a folder. *)
LEMMA WriteReviewKeeps ==
  ASSUME IInv, WriteReview
  PROVE  IInv'
  <1>. DEFINE p == worker.request.photo
              c == worker.request.change
              after == Written(sidecar[p], worker.held, c)
  <1>1. /\ worker.at = "read" /\ sidecar' = [sidecar EXCEPT ![p] = after] /\ Report(after.review, TRUE)
        /\ UNCHANGED <<media, grid, pending, requests, doc, saves, load, ui, scanned, made,
                       reported, outdated, count>>
    BY DEF WriteReview, documents
  <1>2. WriterTypes /\ KnownTypes /\ DocumentTypes /\ PendingIsExact /\ WriterInv
    BY DEF IInv
  <1>3. worker \in WorkerType /\ worker.request \in ReviewSave /\ worker.held \in Sidecar
    BY <1>1, <1>2 DEF WriterTypes, WorkerType
  <1>4. p \in Photo /\ c \in Nat
    BY <1>3 DEF ReviewSave, Change
  <1>. HIDE DEF p, c
  <1>5. sidecar[p] \in Sidecar /\ worker.held.review \in Seq(Nat)
    BY <1>2, <1>3, <1>4 DEF DocumentTypes, Sidecar, Review, Change
  <1>6. Append(worker.held.review, c) \in Review
    BY <1>4, <1>5 DEF Review, Change
  <1>7. /\ after \in Sidecar /\ after.review = Append(worker.held.review, c)
        /\ ~media => after.edits = sidecar[p].edits
    BY <1>3, <1>5, <1>6 DEF Written, Sidecar
  <1>. HIDE DEF after
  <1>8. after.review \in Review
    BY <1>6, <1>7
  <1>9. /\ sidecar' \in [Photo -> Sidecar] /\ sidecar'[p] = after
        /\ \A q \in Photo \ {p} : sidecar'[q] = sidecar[q]
    BY <1>1, <1>2, <1>4, <1>7 DEF DocumentTypes
  <1>10. /\ WriterTypes' /\ PendingIsExact' /\ worker' = Idle
         /\ \A q, d : ToReport(q, d) => ToReport(q, d)'
         /\ \A q \in Photo, d \in Nat : ToSave(q, d) => ToSave(q, d)' \/ (q = p /\ d = c)
    BY <1>1, <1>8, ReportKeeps DEF p, c
  <1>11. KnownTypes' /\ DocumentTypes'
    BY <1>1, <1>2, <1>9 DEF KnownTypes, DocumentTypes
  <1>12. ASSUME ~media
         PROVE  /\ worker.held.review = sidecar[p].review
                /\ Changes(after.review) = Changes(sidecar[p].review) \cup {c}
                /\ InOrder(after.review)
                /\ \A d \in Changes(sidecar[p].review) : d < c
                /\ c <= count.changes
                /\ \A i \in DOMAIN requests : c < requests[i].change
    <2>1. OrderInv
      BY <1>2 DEF WriterInv
    <2>2. worker.held.review = sidecar[p].review
      BY <1>1, <1>12, <2>1 DEF OrderInv, p
    <2>3. /\ \A d \in Changes(sidecar[p].review) : d < c
          /\ c <= count.changes
          /\ \A i \in DOMAIN requests : c < requests[i].change
          /\ InOrder(sidecar[p].review)
      BY <1>1, <1>4, <1>12, <2>1 DEF OrderInv, c
    <2>4. sidecar[p].review \in Review
      BY <1>5 DEF Sidecar
    <2>5. Changes(after.review) = Changes(sidecar[p].review) \cup {c}
      BY <1>4, <1>7, <2>2, <2>4, ChangesOfAppended
    <2>6. InOrder(after.review)
      BY <1>4, <1>7, <2>2, <2>3, <2>4, OrderedAppend
    <2>. QED  BY <2>2, <2>3, <2>5, <2>6
  <1>13. OrderInv'
    <2>. SUFFICES ASSUME ~media PROVE OrderInv'
      BY <1>1 DEF OrderInv
    <2>0. OrderInv /\ worker'.at = "idle"
      BY <1>2, <1>10 DEF WriterInv, Idle
    <2>1. /\ \A i \in DOMAIN requests : requests[i].change <= count.changes
          /\ \A i, j \in DOMAIN requests : i < j => requests[i].change < requests[j].change
      BY <2>0 DEF OrderInv
    <2>2. ASSUME NEW q \in Photo
          PROVE  /\ InOrder(sidecar'[q].review)
                 /\ \A d \in Changes(sidecar'[q].review) :
                      d <= count.changes /\ \A i \in DOMAIN requests : d < requests[i].change
      <3>1. CASE q = p
        BY <1>4, <1>9, <1>12, <2>0, <3>1 DEF OrderInv
      <3>2. CASE q # p
        BY <1>9, <2>0, <3>2 DEF OrderInv
      <3>. QED  BY <3>1, <3>2
    <2>. QED  BY <1>1, <2>0, <2>1, <2>2 DEF OrderInv
  <1>14. ~media => \A q \in Photo : Changes(sidecar[q].review) \subseteq Changes(sidecar'[q].review)
    BY <1>9, <1>12
  <1>15. SavedInv'
    <2>. SUFFICES ASSUME ~media, NEW q \in Photo, NEW d \in Changes(made[q])
                  PROVE  d \in Changes(sidecar'[q].review) \/ ToSave(q, d)' \/ ToReport(q, d)' \/ d \in reported
      BY <1>1 DEF SavedInv
    <2>1. d \in Changes(sidecar[q].review) \/ ToSave(q, d) \/ ToReport(q, d) \/ d \in reported
      BY <1>2 DEF WriterInv, SavedInv
    <2>2. d \in Nat
      BY <1>2, ChangesAreNat DEF DocumentTypes
    <2>3. q = p /\ d = c => d \in Changes(sidecar'[q].review)
      BY <1>9, <1>12
    <2>. QED  BY <1>10, <1>14, <2>1, <2>2, <2>3
  <1>16. LoadInv'
    <2>1. load.photo # NoPhoto => load.photo \in Photo
      BY <1>2 DEF DocumentTypes, LoadType
    <2>. QED  BY <1>1, <1>2, <1>14, <2>1 DEF WriterInv, LoadInv
  <1>17. EditsInv'
    <2>1. ~media => \A q \in Photo : sidecar'[q].edits = sidecar[q].edits
      BY <1>7, <1>9
    <2>. QED  BY <1>1, <1>2, <2>1 DEF WriterInv, EditsInv
  <1>. QED  BY <1>1, <1>2, <1>10, <1>11, <1>13, <1>15, <1>16, <1>17, SameShows DEF IInv, WriterInv

(* A failed save is among the results, as one to report. *)
LEMMA WriteReviewFailsKeeps ==
  ASSUME IInv, WriteReviewFails
  PROVE  IInv'
  <1>. DEFINE p == worker.request.photo
              c == worker.request.change
  <1>1. /\ worker.at = "read"
        /\ UNCHANGED <<media, grid, pending, requests, sidecar, doc, saves, load, ui, scanned, made,
                       reported, outdated, count>>
    BY DEF WriteReviewFails, documents
  <1>2. PICK review \in {sidecar[p].review, Unknown} : Report(review, FALSE)
    BY DEF WriteReviewFails
  <1>3. WriterTypes /\ KnownTypes /\ DocumentTypes /\ PendingIsExact /\ WriterInv
    BY DEF IInv
  <1>4. worker.request \in ReviewSave
    BY <1>1, <1>3 DEF WriterTypes, WorkerType
  <1>5. p \in Photo /\ c \in Nat
    BY <1>4 DEF ReviewSave, Change
  <1>6. review \in Review
    <2>1. Unknown \in Review
      BY DEF Unknown, Review, Change
    <2>2. sidecar[p].review \in Review
      BY <1>3, <1>5 DEF DocumentTypes, Sidecar
    <2>. QED  BY <1>2, <2>1, <2>2
  <1>. HIDE DEF p, c
  <1>7. /\ WriterTypes' /\ PendingIsExact' /\ worker' = Idle
        /\ \A q, d : ToReport(q, d) => ToReport(q, d)'
        /\ \A q \in Photo, d \in Nat : ToSave(q, d) => ToSave(q, d)' \/ (q = p /\ d = c)
        /\ \A q, d : q = p /\ d = c => ToReport(q, d)'
    BY <1>1, <1>2, <1>6, ReportKeeps DEF p, c
  <1>8. KnownTypes' /\ DocumentTypes'
    BY <1>1, <1>3 DEF KnownTypes, DocumentTypes
  <1>9. OrderInv'
    BY <1>1, <1>3, <1>7 DEF WriterInv, OrderInv, Idle
  <1>10. SavedInv'
    <2>. SUFFICES ASSUME ~media, NEW q \in Photo, NEW d \in Changes(made[q])
                  PROVE  d \in Changes(sidecar[q].review) \/ ToSave(q, d)' \/ ToReport(q, d)' \/ d \in reported
      BY <1>1 DEF SavedInv
    <2>1. d \in Changes(sidecar[q].review) \/ ToSave(q, d) \/ ToReport(q, d) \/ d \in reported
      BY <1>3 DEF WriterInv, SavedInv
    <2>2. d \in Nat
      BY <1>3, ChangesAreNat DEF DocumentTypes
    <2>. QED  BY <1>7, <2>1, <2>2
  <1>11. LoadInv'
    BY <1>1, <1>3 DEF WriterInv, LoadInv
  <1>. QED  BY <1>1, <1>3, <1>7, <1>8, <1>9, <1>10, <1>11, SameShows, SameEdits DEF IInv, WriterInv

LEMMA AllReceived ==
  ASSUME IInv
  PROVE  /\ Settles(Received, Len(results))
         /\ \A q \in Photo : Among(Len(results), q) = Finished(q)
         /\ \A q, c : ToReport(q, c) => c \in Received.reported
         /\ reported \subseteq Received.reported
  <1>1. KnownTypes /\ results \in Seq(ReviewSaved)
    BY DEF IInv, WriterTypes
  <1>2. ASSUME NEW q \in Photo
        PROVE  pending[q] >= Finished(q)
    <2>1. pending[q] = Queued(q) + Writing(q) + Finished(q)
      BY DEF IInv, PendingIsExact
    <2>2. Queued(q) \in Nat /\ Writing(q) \in Nat /\ Finished(q) \in Nat
      BY CountsAreNat DEF IInv
    <2>. QED  BY <2>1, <2>2
  <1>3. Settles(Received, Len(results))
    BY <1>1, <1>2, ResultsSettle
  <1>4. DOMAIN results = 1..Len(results)
    BY <1>1
  <1>5. \A q \in Photo : Among(Len(results), q) = Finished(q)
    BY <1>4 DEF Among, Finished
  <1>6. \A q, c : ToReport(q, c) => c \in Failures(results, Len(results))
    BY <1>4 DEF ToReport, Failures
  <1>. QED  BY <1>3, <1>5, <1>6 DEF Settles

(* A writer that stopped is forgotten, and what it had not saved is reported. *)
LEMMA ForgetWriterKeeps ==
  ASSUME IInv, ForgetWriter, results' = <<>>, UNCHANGED <<media, sidecar, documents, scanned, made, count>>
  PROVE  IInv'
  <1>1. WriterTypes /\ KnownTypes /\ DocumentTypes /\ PendingIsExact /\ WriterInv
    BY DEF IInv
  <1>2. /\ worker' = [at |-> "none", request |-> NoSave, held |-> Unedited]
        /\ requests' = <<>> /\ results' = <<>>
        /\ UNCHANGED <<media, sidecar, doc, saves, load, ui, scanned, made, count>>
    BY DEF ForgetWriter, NotStarted, Idle, documents
  <1>3. /\ Received \in KnownType
        /\ \A q, c : ToReport(q, c) => c \in Received.reported
        /\ reported \subseteq Received.reported
    BY AllReceived DEF Settles
  <1>4. /\ grid' = Received.grid /\ outdated' = Received.outdated
        /\ pending' = [q \in Photo |-> 0]
        /\ reported' = Received.reported \cup Unwritten
    <2>1. Received.grid = Stopped(Received).grid /\ Received.outdated = Stopped(Received).outdated
          /\ Stopped(Received).pending = [q \in Photo |-> 0]
          /\ Stopped(Received).reported = Received.reported \cup Unwritten
      BY <1>3 DEF Stopped, KnownType
    <2>. QED  BY <2>1 DEF ForgetWriter, Learn
  <1>5. Unwritten \subseteq Nat
    <2>1. /\ \A i \in DOMAIN requests : requests[i] \in ReviewSave
          /\ worker.request \in ReviewSave \cup {NoSave}
      BY <1>1 DEF WriterTypes, WorkerType
    <2>. QED  BY <2>1 DEF Unwritten, ReviewSave, NoSave, Change
  <1>6. WriterTypes'
    <2>1. Unedited \in Sidecar
      BY DEF Unedited, Sidecar, Review
    <2>2. requests' \in Seq(ReviewSave) /\ results' \in Seq(ReviewSaved)
      BY <1>2
    <2>. QED  BY <1>2, <2>1, <2>2 DEF WriterTypes, WorkerType
  <1>7. KnownTypes'
    BY <1>3, <1>4, <1>5 DEF KnownTypes, KnownType
  <1>8. DocumentTypes'
    BY <1>1, <1>2 DEF DocumentTypes
  <1>9. PendingIsExact'
    <2>. SUFFICES ASSUME NEW r \in Photo PROVE (pending[r] = Queued(r) + Writing(r) + Finished(r))'
      BY DEF PendingIsExact
    <2>1. Queued(r)' = 0 /\ Finished(r)' = 0
      <3>1. Queued(r)' = Cardinality(Of(requests', r)) /\ Finished(r)' = Cardinality(Of(results', r))
        BY DEF Queued, Finished, Of
      <3>. QED  BY <1>2, <3>1, CountOfEmpty
    <2>2. Writing(r)' = 0
      BY <1>2, ReviewAssumption DEF Writing, NoSave
    <2>3. pending'[r] = 0
      BY <1>4
    <2>. QED  BY <2>1, <2>2, <2>3
  <1>10. ShowsInv'
    BY <1>4 DEF ShowsInv
  <1>11. OrderInv'
    <2>1. worker'.at = "none" /\ DOMAIN requests' = {}
      BY <1>2
    <2>. QED  BY <1>1, <1>2, <2>1 DEF WriterInv, OrderInv
  <1>12. SavedInv'
    <2>. SUFFICES ASSUME ~media, NEW q \in Photo, NEW c \in Changes(made[q])
                  PROVE  c \in Changes(sidecar[q].review) \/ c \in reported'
      BY <1>2 DEF SavedInv
    <2>1. c \in Changes(sidecar[q].review) \/ ToSave(q, c) \/ ToReport(q, c) \/ c \in reported
      BY <1>1 DEF WriterInv, SavedInv
    <2>2. ToSave(q, c) => c \in Unwritten
      <3>1. worker.request = [photo |-> q, change |-> c] => worker.request # NoSave /\ worker.request.change = c
        BY ReviewAssumption DEF NoSave
      <3>. QED  BY <3>1 DEF ToSave, Unwritten
    <2>. QED  BY <1>3, <1>4, <2>1, <2>2
  <1>13. LoadInv'
    BY <1>1, <1>2, <1>3, <1>4 DEF WriterInv, LoadInv
  <1>14. EditsInv'
    BY <1>1, <1>2 DEF WriterInv, EditsInv
  <1>. QED  BY <1>6, <1>7, <1>8, <1>9, <1>10, <1>11, <1>12, <1>13, <1>14 DEF IInv, WriterInv

(* What is known after some results keeps the invariant without them. *)
LEMMA LearnKeeps ==
  ASSUME IInv, NEW known \in KnownType, Learn(known), results' \in Seq(ReviewSaved),
         worker.at = "none" => results' = <<>>,
         UNCHANGED <<worker, requests, media, sidecar, documents, scanned, made, count>>,
         \A q \in Photo : /\ known.pending[q] = pending[q] - Finished(q) + Finished(q)'
                          /\ known.pending[q] <= pending[q]
                          /\ known.pending[q] > 0 => known.grid[q] = grid[q]
                          /\ known.pending[q] > 0 => (q \in known.outdated <=> q \in outdated),
         reported \subseteq known.reported,
         \A q, c : ToReport(q, c) => ToReport(q, c)' \/ c \in known.reported
  PROVE  IInv'
  <1>1. WriterTypes /\ KnownTypes /\ DocumentTypes /\ PendingIsExact /\ WriterInv
    BY DEF IInv
  <1>2. /\ grid' = known.grid /\ pending' = known.pending
        /\ reported' = known.reported /\ outdated' = known.outdated
    BY DEF Learn
  <1>3. UNCHANGED <<worker, requests, media, sidecar, doc, saves, load, ui, scanned, made, count>>
    BY DEF documents
  <1>4. WriterTypes'
    BY <1>1, <1>3 DEF WriterTypes
  <1>5. KnownTypes'
    BY <1>2 DEF KnownTypes, KnownType
  <1>6. DocumentTypes'
    BY <1>1, <1>3 DEF DocumentTypes
  <1>7. PendingIsExact'
    <2>. SUFFICES ASSUME NEW r \in Photo PROVE (pending[r] = Queued(r) + Writing(r) + Finished(r))'
      BY DEF PendingIsExact
    <2>1. Queued(r)' = Queued(r) /\ Writing(r)' = Writing(r)
      BY <1>3 DEF Queued, Writing
    <2>2. pending[r] = Queued(r) + Writing(r) + Finished(r)
      BY <1>1 DEF PendingIsExact
    <2>3. Queued(r) \in Nat /\ Writing(r) \in Nat /\ Finished(r) \in Nat
      BY <1>1, CountsAreNat
    <2>4. Finished(r)' \in Nat
      <3>1. Finished(r)' = Cardinality(Of(results', r))
        BY DEF Finished, Of
      <3>. QED  BY <3>1, CountIsNat
    <2>5. pending'[r] = pending[r] - Finished(r) + Finished(r)'
      BY <1>2
    <2>. QED  BY <2>1, <2>2, <2>3, <2>4, <2>5
  <1>8. ShowsInv'
    <2>. SUFFICES ASSUME NEW q \in Photo, media \/ q \notin known.outdated, known.pending[q] > 0
                  PROVE  known.grid[q] # <<>> /\ made[q] # <<>> /\ Last(known.grid[q]) = Last(made[q])
      BY <1>2, <1>3 DEF ShowsInv
    <2>1. known.grid[q] = grid[q] /\ (q \in known.outdated <=> q \in outdated)
      OBVIOUS
    <2>2. pending[q] > 0
      <3>1. known.pending[q] <= pending[q] /\ known.pending[q] \in Nat /\ pending[q] \in Nat
        BY <1>1 DEF KnownTypes, KnownType
      <3>. QED  BY <3>1
    <2>. QED  BY <1>1, <2>1, <2>2 DEF WriterInv, ShowsInv
  <1>9. OrderInv'
    BY <1>1, <1>3 DEF WriterInv, OrderInv
  <1>10. SavedInv'
    <2>. SUFFICES ASSUME ~media, NEW q \in Photo, NEW c \in Changes(made[q])
                  PROVE  c \in Changes(sidecar[q].review) \/ ToSave(q, c)' \/ ToReport(q, c)' \/ c \in reported'
      BY <1>3 DEF SavedInv
    <2>1. c \in Changes(sidecar[q].review) \/ ToSave(q, c) \/ ToReport(q, c) \/ c \in reported
      BY <1>1 DEF WriterInv, SavedInv
    <2>2. ToSave(q, c)' <=> ToSave(q, c)
      BY <1>3 DEF ToSave
    <2>. QED  BY <1>2, <2>1, <2>2
  <1>11. LoadInv'
    BY <1>1, <1>2, <1>3 DEF WriterInv, LoadInv
  <1>12. EditsInv'
    BY <1>1, <1>3 DEF WriterInv, EditsInv
  <1>. QED  BY <1>4, <1>5, <1>6, <1>7, <1>8, <1>9, <1>10, <1>11, <1>12 DEF IInv, WriterInv

(* Every result is received in one frame. *)
LEMMA PollReviewSavesKeeps ==
  ASSUME IInv, PollReviewSaves
  PROVE  IInv'
  <1>1. /\ results' = <<>> /\ UNCHANGED <<media, sidecar, documents, scanned, made, count>>
        /\ \/ Learn(Received) /\ UNCHANGED <<worker, requests>>
           \/ ForgetWriter
    BY DEF PollReviewSaves
  <1>2. CASE Learn(Received) /\ UNCHANGED <<worker, requests>>
    <2>1. /\ Settles(Received, Len(results))
          /\ \A q \in Photo : Among(Len(results), q) = Finished(q)
          /\ \A q, c : ToReport(q, c) => c \in Received.reported
          /\ reported \subseteq Received.reported
      BY AllReceived
    <2>2. ASSUME NEW q \in Photo
          PROVE  /\ Received.pending[q] = pending[q] - Finished(q) + Finished(q)'
                 /\ Received.pending[q] <= pending[q]
                 /\ Received.pending[q] > 0 => Received.grid[q] = grid[q]
                 /\ Received.pending[q] > 0 => (q \in Received.outdated <=> q \in outdated)
      <3>1. Finished(q)' = 0
        <4>1. Finished(q)' = Cardinality(Of(results', q))
          BY DEF Finished, Of
        <4>. QED  BY <1>1, <4>1, CountOfEmpty
      <3>2. pending[q] \in Nat /\ Finished(q) \in Nat
        BY CountsAreNat DEF IInv, KnownTypes
      <3>3. Received.pending[q] = pending[q] - Finished(q)
        BY <2>1 DEF Settles
      <3>4. Received.pending[q] > 0 => /\ Received.grid[q] = grid[q]
                                       /\ q \in Received.outdated <=> q \in outdated
        BY <2>1 DEF Settles
      <3>. QED  BY <3>1, <3>2, <3>3, <3>4
    <2>3. Received \in KnownType
      BY <2>1 DEF Settles
    <2>4. results' \in Seq(ReviewSaved)
      BY <1>1
    <2>. QED  BY <1>1, <1>2, <2>1, <2>2, <2>3, <2>4, LearnKeeps
  <1>3. CASE ForgetWriter
    BY <1>1, <1>3, ForgetWriterKeeps
  <1>. QED  BY <1>1, <1>2, <1>3

(* One result is received while the wait for ratings goes on. *)
LEMMA SettleRoundKeeps ==
  ASSUME IInv, SettleRound
  PROVE  IInv'
  <1>. DEFINE saved == Head(results)
              known == SettleReviewSave(Known, saved)
  <1>1. /\ UNCHANGED <<media, sidecar, documents, scanned, made, count>>
        /\ \/ /\ results # <<>> /\ Learn(known) /\ results' = Tail(results)
              /\ UNCHANGED <<worker, requests>>
           \/ results' = <<>> /\ ForgetWriter
    BY DEF SettleRound
  <1>2. WriterTypes /\ KnownTypes /\ PendingIsExact /\ results \in Seq(ReviewSaved)
    BY DEF IInv, WriterTypes
  <1>3. CASE results # <<>> /\ Learn(known) /\ results' = Tail(results) /\ UNCHANGED <<worker, requests>>
    <2>1. /\ results' \in Seq(ReviewSaved) /\ saved \in ReviewSaved /\ saved = results[1] /\ 1 \in DOMAIN results
          /\ \A i \in DOMAIN results :
               i # 1 => i - 1 \in DOMAIN results' /\ results'[i - 1] = results[i]
      BY <1>2, <1>3, TailIs
    <2>2. \A q \in Photo : Finished(q) = Finished(q)' + (IF saved.photo = q THEN 1 ELSE 0)
      <3>. SUFFICES ASSUME NEW q \in Photo
                    PROVE  Finished(q) = Finished(q)' + (IF saved.photo = q THEN 1 ELSE 0)
        OBVIOUS
      <3>1. Finished(q)' = Cardinality(Of(results', q)) /\ Finished(q) = Cardinality(Of(results, q))
        BY DEF Finished, Of
      <3>. QED  BY <1>2, <1>3, <3>1, CountOfTail
    <2>3. \A q \in Photo : Finished(q)' \in Nat
      <3>1. \A q \in Photo : Finished(q)' = Cardinality(Of(results', q))
        BY DEF Finished, Of
      <3>. QED  BY <2>1, <3>1, CountIsNat
    <2>. HIDE DEF saved, known
    <2>4. saved.photo \in Photo
      BY <2>1 DEF ReviewSaved
    <2>5. Known \in KnownType /\ Known.grid = grid /\ Known.pending = pending
          /\ Known.reported = reported /\ Known.outdated = outdated
      BY <1>2, KnownIsTyped DEF Known
    <2>6. pending[saved.photo] >= 1
      <3>1. pending[saved.photo] = Queued(saved.photo) + Writing(saved.photo) + Finished(saved.photo)
        BY <1>2, <2>4 DEF PendingIsExact
      <3>2. Queued(saved.photo) \in Nat /\ Writing(saved.photo) \in Nat
        BY <1>2, CountsAreNat
      <3>. QED  BY <2>2, <2>3, <2>4, <3>1, <3>2
    <2>7. /\ known \in KnownType
          /\ known.reported = reported \cup (IF saved.ok THEN {} ELSE {saved.change})
          /\ \A q \in Photo :
               /\ known.pending[q] = pending[q] - (IF saved.photo = q THEN 1 ELSE 0)
               /\ known.pending[q] > 0 => /\ known.grid[q] = grid[q]
                                          /\ q \in known.outdated <=> q \in outdated
      BY <2>1, <2>5, <2>6, OneSettles DEF known
    <2>8. ASSUME NEW q \in Photo
          PROVE  /\ known.pending[q] = pending[q] - Finished(q) + Finished(q)'
                 /\ known.pending[q] <= pending[q]
                 /\ known.pending[q] > 0 => known.grid[q] = grid[q]
                 /\ known.pending[q] > 0 => (q \in known.outdated <=> q \in outdated)
      <3>1. pending[q] \in Nat
        BY <1>2 DEF KnownTypes
      <3>2. known.pending[q] = pending[q] - (IF saved.photo = q THEN 1 ELSE 0)
        BY <2>7
      <3>3. known.pending[q] > 0 => /\ known.grid[q] = grid[q]
                                    /\ q \in known.outdated <=> q \in outdated
        BY <2>7
      <3>. QED  BY <2>2, <2>3, <3>1, <3>2, <3>3
    <2>9. ASSUME NEW q, NEW c, ToReport(q, c)
          PROVE  ToReport(q, c)' \/ c \in known.reported
      <3>1. PICK i \in DOMAIN results : results[i].photo = q /\ results[i].change = c /\ ~results[i].ok
        BY <2>9 DEF ToReport
      <3>2. CASE i = 1
        BY <2>1, <2>7, <3>1, <3>2
      <3>3. CASE i # 1
        BY <2>1, <3>1, <3>3 DEF ToReport
      <3>. QED  BY <3>2, <3>3
    <2>10. worker.at # "none"
      BY <1>2, <1>3 DEF WriterTypes
    <2>. QED  BY <1>1, <1>3, <2>1, <2>7, <2>8, <2>9, <2>10, LearnKeeps
  <1>4. CASE results' = <<>> /\ ForgetWriter
    BY <1>1, <1>4, ForgetWriterKeeps
  <1>. QED  BY <1>1, <1>3, <1>4

-----------------------------------------------------------------------------
(* The invariant holds of every behaviour. *)

LEMMA InitHasIInv ==
  ASSUME Init
  PROVE  IInv
  <1>1. <<>> \in Review /\ Unknown \in Review
    BY DEF Review, Change, Unknown
  <1>2. Changes(<<>>) = {}
    BY DEF Changes, ToSet
  <1>3. WriterTypes
    <2>1. Unedited \in Sidecar
      BY <1>1 DEF Unedited, Sidecar
    <2>. QED  BY <2>1 DEF Init, NotStarted, Idle, WriterTypes, WorkerType
  <1>4. KnownTypes
    BY <1>1 DEF Init, KnownTypes
  <1>5. DocumentTypes
    <2>1. Unedited \in Sidecar /\ doc \in DocType /\ load \in LoadType /\ ~load.read
      BY <1>1 DEF Init, Unedited, Sidecar, NoDoc, DocType, NoLoad, LoadType
    <2>2. count \in CountType
      BY DEF Init, CountType
    <2>3. saves \in Seq(EditSave)
      BY DEF Init
    <2>. QED  BY <1>1, <2>1, <2>2, <2>3, ReviewAssumption DEF Init, DocumentTypes
  <1>6. PendingIsExact
    <2>. SUFFICES ASSUME NEW q \in Photo PROVE pending[q] = Queued(q) + Writing(q) + Finished(q)
      BY DEF PendingIsExact
    <2>1. Queued(q) = 0 /\ Finished(q) = 0
      BY CountsAre, CountOfEmpty DEF Init
    <2>2. Writing(q) = 0
      BY ReviewAssumption DEF Init, Writing, NotStarted, Idle, NoSave
    <2>3. pending[q] = 0
      BY DEF Init
    <2>. QED  BY <2>1, <2>2, <2>3
  <1>7. ShowsInv
    BY DEF Init, ShowsInv
  <1>8. OrderInv
    <2>1. worker.at = "none" /\ DOMAIN requests = {} /\ \A q \in Photo : sidecar[q].review = <<>>
      BY DEF Init, NotStarted, Idle, Unedited
    <2>2. InOrder(<<>>)
      BY DEF InOrder
    <2>. QED  BY <1>2, <2>1, <2>2 DEF OrderInv
  <1>9. SavedInv
    <2>1. \A q \in Photo : made[q] = <<>>
      BY DEF Init
    <2>. QED  BY <1>2, <2>1 DEF SavedInv
  <1>10. LoadInv
    BY DEF Init, LoadInv, NoLoad
  <1>11. EditsInv
    <2>1. DOMAIN saves = {} /\ count.edits = 0 /\ \A q \in Photo : sidecar[q].edits = 0
      BY DEF Init, Unedited
    <2>. QED  BY <2>1 DEF EditsInv
  <1>. QED  BY <1>3, <1>4, <1>5, <1>6, <1>7, <1>8, <1>9, <1>10, <1>11 DEF IInv, WriterInv

LEMMA StutterKeepsIInv ==
  ASSUME IInv, UNCHANGED vars
  PROVE  IInv'
  <1>1. UNCHANGED <<media, grid, pending, worker, requests, results, sidecar, doc, saves, load,
                    scanned, ui, made, reported, outdated, count>>
    BY DEF vars
  <1>2. WriterTypes' /\ KnownTypes' /\ DocumentTypes'
    BY <1>1 DEF IInv, WriterTypes, KnownTypes, DocumentTypes
  <1>3. LoadInv'
    BY <1>1 DEF IInv, WriterInv, LoadInv
  <1>. QED  BY <1>1, <1>2, <1>3, SameWaiting, SameReviews, SameShows, SameEdits DEF IInv, WriterInv, writer

LEMMA StepKeepsIInv ==
  ASSUME IInv, [Next]_vars
  PROVE  IInv'
  <1>1. ASSUME NEW q \in Photo, ReviewDocument(q) PROVE IInv'
    BY <1>1, ReviewDocumentKeeps
  <1>2. ASSUME NEW q \in Photo, ReviewPhoto(q) PROVE IInv'
    BY <1>2, ReviewPhotoKeeps
  <1>3. ASSUME NEW q \in Photo, OpenPhoto(q) PROVE IInv'
    BY <1>3, OpenPhotoKeeps
  <1>4. ASSUME NEW q \in Photo, ScanReads(q) PROVE IInv'
    BY <1>4, ScanReadsKeeps
  <1>5. ASSUME NEW q \in Photo, ScanShows(q) PROVE IInv'
    BY <1>5, ScanShowsKeeps
  <1>6. CASE Writer
    BY <1>6, ReadForReviewKeeps, WriteReviewKeeps, WriteReviewFailsKeeps, WriterDiesKeeps DEF Writer
  <1>7. CASE Document
    BY <1>7, ReadDocumentKeeps, InstallDocumentKeeps, EditDocumentKeeps, SaveEditsKeeps DEF Document
  <1>8. CASE PollReviewSaves
    BY <1>8, PollReviewSavesKeeps
  <1>9. CASE SettleRound
    BY <1>9, SettleRoundKeeps
  <1>10. CASE SettleEnds
    BY <1>10, SettleEndsKeeps
  <1>11. CASE UNCHANGED vars
    BY <1>11, StutterKeepsIInv
  <1>. QED  BY <1>1, <1>2, <1>3, <1>4, <1>5, <1>6, <1>7, <1>8, <1>9, <1>10, <1>11 DEF Next

(* The inductive invariant: what the grid, the writer, the sidecars, the edit saves and the load
   of reviews.rs and library_review.rs have to do with each other holds of every behaviour. *)
THEOREM Invariance == Spec => []IInv
  <1>1. Init => IInv
    BY InitHasIInv
  <1>2. IInv /\ [Next]_vars => IInv'
    BY StepKeepsIInv
  <1>. QED  BY <1>1, <1>2, PTL DEF Spec

LEMMA IInvTypes ==
  ASSUME IInv
  PROVE  TypeOK
  <1>1. WriterTypes /\ KnownTypes /\ DocumentTypes
    BY DEF IInv
  <1>2. /\ worker.at \in {"none", "idle", "read", "dead"}
        /\ worker.request \in ReviewSave \cup {NoSave} /\ worker.held \in Sidecar
    BY <1>1 DEF WriterTypes, WorkerType
  <1>3. /\ doc.photo \in Photo \cup {NoPhoto} /\ load.photo \in Photo \cup {NoPhoto}
        /\ \A i \in DOMAIN saves : saves[i].photo \in Photo
    <2>1. \A i \in DOMAIN saves : saves[i] \in EditSave
      BY <1>1 DEF DocumentTypes
    <2>. QED  BY <1>1, <2>1 DEF DocumentTypes, DocType, LoadType, EditSave
  <1>. QED  BY <1>1, <1>2, <1>3 DEF TypeOK, WriterTypes, KnownTypes, DocumentTypes

(* Every part of the state keeps its type: the maps of the UI thread, the channels of the writer,
   the sidecars and the document. *)
THEOREM TypeCorrect == Spec => []TypeOK
  <1>1. IInv => TypeOK
    BY IInvTypes
  <1>. QED  BY <1>1, Invariance, PTL

LEMMA IInvShows ==
  ASSUME IInv
  PROVE  NewestRatingShows
  BY DEF IInv, WriterInv, ShowsInv, ShowsNewest, NewestRatingShows

(* While a photo has a save waiting, which ReviewWriter::pending counts exactly, the grid shows the
   user's last change to it: settle_review_save lets no result of an earlier save replace it. *)
THEOREM NewestShows == Spec => []NewestRatingShows
  <1>1. IInv => NewestRatingShows
    BY IInvShows
  <1>. QED  BY <1>1, Invariance, PTL

LEMMA IInvSaved ==
  ASSUME IInv
  PROVE  RatingsReachTheSidecar
  <1>. SUFFICES ASSUME ~media, NEW q \in Photo
                PROVE  /\ Changes(made[q]) \subseteq Changes(sidecar[q].review) \cup OnTheWay(q) \cup reported
                       /\ InOrder(sidecar[q].review)
    BY DEF RatingsReachTheSidecar
  <1>1. InOrder(sidecar[q].review)
    BY DEF IInv, WriterInv, OrderInv
  <1>2. ASSUME NEW c \in Changes(made[q])
        PROVE  c \in Changes(sidecar[q].review) \cup OnTheWay(q) \cup reported
    <2>1. c \in Changes(sidecar[q].review) \/ ToSave(q, c) \/ ToReport(q, c) \/ c \in reported
      BY DEF IInv, WriterInv, SavedInv
    <2>2. ToSave(q, c) => c \in OnTheWay(q)
      BY DEF ToSave, OnTheWay, Changes, ToSet
    <2>3. ToReport(q, c) => c \in OnTheWay(q)
      BY DEF ToReport, OnTheWay
    <2>. QED  BY <2>1, <2>2, <2>3
  <1>. QED  BY <1>1, <1>2

(* In a folder every change is in the sidecar, on its way or reported, whatever edit saves and
   loads run meanwhile and whenever the writer fails or stops, and a later change always wins. *)
THEOREM RatingsArrive == Spec => []RatingsReachTheSidecar
  <1>1. IInv => RatingsReachTheSidecar
    BY IInvSaved
  <1>. QED  BY <1>1, Invariance, PTL

LEMMA IInvOpens ==
  ASSUME IInv
  PROVE  OpensWithReview
  BY DEF IInv, WriterInv, LoadInv, DocumentTypes, OpensWithReview

(* A document opened in a folder holds every rating that start_document_load waited for, unless
   its save failed: pending counts what is on its way, so nothing is when it is zero. *)
THEOREM OpensRated == Spec => []OpensWithReview
  <1>1. IInv => OpensWithReview
    BY IInvOpens
  <1>. QED  BY <1>1, Invariance, PTL

LEMMA StepKeepsEdits ==
  ASSUME IInv, [Next]_vars
  PROVE  [~media => EditsKept]_vars
  <1>. SUFFICES ASSUME ~media, NEW q \in Photo, Next
                PROVE  sidecar'[q].edits >= sidecar[q].edits
    BY DEF EditsKept
  <1>1. /\ sidecar \in [Photo -> Sidecar] /\ saves \in Seq(EditSave) /\ worker \in WorkerType
        /\ WriterTypes /\ EditsInv
    BY DEF IInv, DocumentTypes, WriterTypes, WriterInv
  <1>2. sidecar[q].edits \in Nat
    BY <1>1 DEF Sidecar
  <1>3. CASE UNCHANGED sidecar
    BY <1>2, <1>3
  <1>4. CASE WriteReview
    <2>1. worker.request.photo \in Photo
      BY <1>1, <1>4 DEF WriteReview, WriterTypes, WorkerType, ReviewSave
    <2>2. sidecar[worker.request.photo] \in Sidecar
      BY <1>1, <2>1
    <2>3. Written(sidecar[worker.request.photo], worker.held, worker.request.change).edits
            = sidecar[worker.request.photo].edits
      BY <2>2 DEF Written, Sidecar
    <2>4. sidecar'[q].edits = sidecar[q].edits
      BY <1>1, <1>4, <2>1, <2>3 DEF WriteReview
    <2>. QED  BY <1>2, <2>4
  <1>5. CASE SaveEdits
    <2>1. saves # <<>> /\ sidecar' = [sidecar EXCEPT ![Head(saves).photo] = SavedEdits(@, Head(saves))]
      BY <1>5 DEF SaveEdits
    <2>2. Head(saves) \in EditSave /\ Head(saves) = saves[1] /\ 1 \in DOMAIN saves
      BY <1>1, <2>1, TailIs
    <2>3. sidecar[q].edits < Head(saves).edits /\ Head(saves).edits \in Nat
      BY <1>1, <2>2 DEF EditsInv, EditSave
    <2>4. sidecar'[q].edits \in {sidecar[q].edits, Head(saves).edits}
      BY <1>1, <2>1 DEF SavedEdits
    <2>. QED  BY <1>2, <2>3, <2>4
  <1>6. UNCHANGED sidecar \/ WriteReview \/ SaveEdits
    BY DEF Next, Writer, Document, ReviewDocument, ReviewPhoto, OpenPhoto, ScanReads, ScanShows,
           ReadForReview, WriteReviewFails, WriterDies, ReadDocument, InstallDocument, EditDocument,
           PollReviewSaves, SettleRound, SettleEnds
  <1>. QED  BY <1>3, <1>4, <1>5, <1>6

(* In a folder no save puts older edits back: write_review replaces the review alone, and the edit
   saves run in the order of the edits. *)
THEOREM FolderEditsKept == Spec => FolderKeepsEdits
  <1>1. IInv /\ [Next]_vars => [~media => EditsKept]_vars
    BY StepKeepsEdits
  <1>. QED  BY <1>1, Invariance, PTL DEF Spec, FolderKeepsEdits

=============================================================================
