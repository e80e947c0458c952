---------------------- MODULE DecodedRawCacheProofs ----------------------
(***************************************************************************)
(* Type correctness of the cache, single flight, and that neither stale    *)
(* decodes are kept nor sleepers forgotten, for any files, threads, limits *)
(* and numbers of requests and clears.                                     *)
(***************************************************************************)
EXTENDS DecodedRawCache, FiniteSetTheorems, SequenceTheorems, WellFoundedInduction, TLAPS

-----------------------------------------------------------------------------
(* The inductive invariant. *)

(* No two entries have a key or a ticket in common. *)
Distinct(q) ==
  \A i, j \in DOMAIN q : q[i].key = q[j].key \/ q[i].ticket = q[j].ticket => i = j

(* All entries are of the current epoch. *)
EntriesInv ==
  /\ entries \in Seq(Entry)
  /\ Distinct(entries)
  /\ \A e \in Range(entries) : e.ticket < nextTicket /\ e.epoch = epoch

(* Only a thread that decodes has a ticket, and no other thread has that one. *)
CallsInv ==
  /\ call \in [Thread -> Call]
  /\ \A t \in Thread :
       /\ call[t].began <= epoch
       /\ call[t].ticket # NoTicket => Decodes(t) /\ call[t].ticket < nextTicket
  /\ \A t, u \in Thread :
       t # u /\ call[t].ticket # NoTicket => call[t].ticket # call[u].ticket

(* A decode with a ticket has its reservation until a clear; a reservation has the thread
   that will fill or drop it. *)
OwnersInv ==
  /\ \A t \in Thread : call[t].ticket # NoTicket /\ call[t].began = epoch =>
       \E e \in Range(entries) : ~e.ready /\ e.ticket = call[t].ticket
  /\ \A e \in Range(entries) : ~e.ready =>
       \E t \in Thread : call[t].ticket = e.ticket
  /\ \A t \in Thread, e \in Range(entries) : ~e.ready /\ e.ticket = call[t].ticket =>
       call[t].key = e.key /\ call[t].began = epoch

(* A thread sleeps only while the entry it waits for is reserved. *)
SleepersInv ==
  \A t \in Thread : call[t].at = "asleep" =>
    \E e \in Range(entries) : ~e.ready /\ e.key = call[t].key

ScalarsInv == limit \in Limits /\ nextTicket \in Nat /\ poisoned \in BOOLEAN /\ epoch \in Nat

IInv == ScalarsInv /\ EntriesInv /\ ReadyWithinLimit /\ CallsInv /\ OwnersInv /\ SleepersInv

-----------------------------------------------------------------------------
(* Induction and the fold. *)

(* A set of natural numbers has a least one.  It stands for induction: the library's *)
(* induction theorems take an operator, which no installed prover can instantiate.   *)
Below == {pair \in Nat \X Nat : pair[1] < pair[2]}

LEMMA LeastNatural ==
  ASSUME NEW T \in SUBSET Nat, T # {}
  PROVE  \E m \in T : \A k \in T : m <= k
<1>1. IsWellFoundedOn(Below, Nat)
  <2>1. Below = OpToRel(<, Nat)
    BY DEF Below, OpToRel
  <2>2. QED
    BY <2>1, NatLessThanWellFounded
<1>2. PICK m \in T : \A k \in T : <<k, m>> \notin Below
  BY <1>1, WFMin
<1>3. \A k \in Nat, n \in Nat : k < n => <<k, n>> \in Below
  BY DEF Below
<1>4. \A k \in T : ~(k < m)
  BY <1>2, <1>3
<1>5. \A k \in T : m <= k
  BY <1>4
<1>6. QED
  BY <1>5

(* What Max computes of positions. *)
LEMMA MaxIs ==
  ASSUME NEW s, NEW n \in Nat, NEW m \in s, s \in SUBSET (1 .. n), \A k \in s : k <= m
  PROVE  Max(s) = m
<1>1. \A k \in s : m >= k OBVIOUS
<1>2. \A x \in s : x >= m => x = m OBVIOUS
<1> QED BY <1>1, <1>2 DEF Max

(* How the community module defines the fold of evict_over_limit. *)
EvictionsOf(queue, n, d, g) ==
  g = [s \in SUBSET d |-> IF s = {} THEN queue ELSE EvictOne(g[s \ {Max(s)}], n)]

(* The recursive function by which the community module defines the fold exists. *)
LEMMA EvictionsExist ==
  ASSUME NEW queue, NEW n, NEW m \in Nat
  PROVE  \E g : EvictionsOf(queue, n, 1 .. m, g)
<1> DEFINE bad == {k \in Nat : ~ \E g : EvictionsOf(queue, n, 1 .. k, g)}
<1> SUFFICES ASSUME bad # {} PROVE FALSE
  OBVIOUS
<1>1. PICK k \in bad : \A j \in bad : k <= j
  BY LeastNatural
<1>2. k # 0
  <2> DEFINE g == [s \in SUBSET (1 .. 0) |-> queue]
  <2>1. \A s \in SUBSET (1 .. 0) : s = {}
    OBVIOUS
  <2>2. EvictionsOf(queue, n, 1 .. 0, g)
    BY <2>1 DEF EvictionsOf
  <2>3. QED
    BY <2>2
<1>3. k - 1 \in Nat /\ k - 1 \notin bad
  BY <1>1, <1>2
<1>4. PICK g : EvictionsOf(queue, n, 1 .. (k - 1), g)
  BY <1>3
<1> DEFINE h == [s \in SUBSET (1 .. k) |-> IF k \in s THEN EvictOne(g[s \ {k}], n) ELSE g[s]]
<1>5. ASSUME NEW s \in SUBSET (1 .. k)
      PROVE  h[s] = IF s = {} THEN queue ELSE EvictOne(h[s \ {Max(s)}], n)
  <2>1. CASE k \in s
    <3>1. Max(s) = k
      <4>1. \A j \in s : j <= k
        OBVIOUS
      <4>2. QED
        BY <2>1, <4>1, MaxIs
    <3>2. s \ {k} \in SUBSET (1 .. (k - 1)) /\ s \ {k} \in SUBSET (1 .. k) /\ k \notin s \ {k}
      OBVIOUS
    <3>3. h[s \ {k}] = g[s \ {k}]
      BY <3>2
    <3>4. QED
      BY <2>1, <3>1, <3>3
  <2>2. CASE k \notin s
    <3>1. s \in SUBSET (1 .. (k - 1))
      BY <2>2
    <3>2. g[s] = IF s = {} THEN queue ELSE EvictOne(g[s \ {Max(s)}], n)
      BY <3>1, <1>4 DEF EvictionsOf
    <3>3. h[s] = g[s] /\ h[s \ {Max(s)}] = g[s \ {Max(s)}]
      <4>1. s \ {Max(s)} \in SUBSET (1 .. k) /\ k \notin s \ {Max(s)}
        BY <2>2
      <4>2. QED BY <4>1, <2>2
    <3>4. QED
      BY <3>2, <3>3
  <2>3. QED
    BY <2>1, <2>2
<1>6. EvictionsOf(queue, n, 1 .. k, h)
  BY <1>5 DEF EvictionsOf
<1>7. QED
  BY <1>6

(* The loop of evict_over_limit, turn by turn. *)
LEMMA EvictionTurns ==
  ASSUME NEW queue \in Seq(Entry), NEW n
  PROVE  \E turn : /\ turn[0] = queue
                   /\ \A k \in 1 .. Len(queue) : turn[k] = EvictOne(turn[k - 1], n)
                   /\ Evicted(queue, n) = turn[Len(queue)]
<1> DEFINE d == 1 .. Len(queue)
           g == CHOOSE g : EvictionsOf(queue, n, d, g)
<1>1. DOMAIN queue = d /\ Len(queue) \in Nat
  OBVIOUS
<1>2. EvictionsOf(queue, n, d, g)
  BY <1>1, EvictionsExist
<1>3. Evicted(queue, n) = g[d]
  <2>1. Evicted(queue, n) = (CHOOSE h : h = [s \in SUBSET DOMAIN queue |->
            IF s = {} THEN queue ELSE EvictOne(h[s \ {Max(s)}], n)])[DOMAIN queue]
    BY DEF Evicted, FoldLeft, MapThenFoldSet
  <2>2. QED
    BY <1>1, <2>1 DEF EvictionsOf
<1> HIDE DEF g
<1> DEFINE turn == [k \in 0 .. Len(queue) |-> g[1 .. k]]
<1>4. turn[0] = queue
  <2>1. 1 .. 0 = {} OBVIOUS
  <2>2. g[{}] = queue
    BY <1>2 DEF EvictionsOf
  <2>3. QED BY <1>1, <2>1, <2>2
<1>5. ASSUME NEW k \in 1 .. Len(queue)
      PROVE  turn[k] = EvictOne(turn[k - 1], n)
  <2>1. 1 .. k \in SUBSET d /\ 1 .. k # {} /\ (1 .. k) \ {k} = 1 .. (k - 1)
    <3>1. 1 .. k \in SUBSET d
      BY <1>1
    <3>2. k \in 1 .. k
      BY <1>1
    <3>3. (1 .. k) \ {k} = 1 .. (k - 1)
      BY <1>1
    <3>4. QED
      BY <3>1, <3>2, <3>3
  <2>2. Max(1 .. k) = k
    <3>1. k \in 1 .. k /\ 1 .. k \in SUBSET d /\ \A j \in 1 .. k : j <= k
      BY <1>1
    <3>2. QED
      BY <3>1, <1>1, MaxIs
  <2>3. g[1 .. k] = EvictOne(g[(1 .. k) \ {Max(1 .. k)}], n)
    BY <1>2, <2>1 DEF EvictionsOf
  <2>4. g[1 .. k] = EvictOne(g[1 .. (k - 1)], n)
    BY <2>1, <2>2, <2>3
  <2>5. k \in 0 .. Len(queue) /\ k - 1 \in 0 .. Len(queue)
    BY <1>1
  <2>6. QED
    BY <2>4, <2>5
<1>6. turn[Len(queue)] = g[d]
  BY <1>1
<1> HIDE DEF turn
<1>7. QED
  BY <1>3, <1>4, <1>5, <1>6

-----------------------------------------------------------------------------
(* The list of entries. *)

(* What RemoveAt leaves. *)
LEMMA RemoveAtIs ==
  ASSUME NEW q \in Seq(Entry), NEW i \in 1 .. Len(q)
  PROVE  /\ RemoveAt(q, i) \in Seq(Entry)
         /\ Len(RemoveAt(q, i)) = Len(q) - 1
         /\ \A k \in 1 .. (Len(q) - 1) :
              RemoveAt(q, i)[k] = IF k < i THEN q[k] ELSE q[k + 1]
<1> DEFINE front == SubSeq(q, 1, i - 1)
           back == SubSeq(q, i + 1, Len(q))
<1>1. Len(q) \in Nat /\ \A k \in 1 .. Len(q) : q[k] \in Entry
  BY ElementOfSeq, LenProperties
<1>2. /\ front \in Seq(Entry) /\ Len(front) = i - 1
      /\ \A k \in 1 .. (i - 1) : front[k] = q[k]
  <2>1. \A k \in 1 .. (i - 1) : q[k] \in Entry
    BY <1>1
  <2>2. QED
    BY <1>1, <2>1, SubSeqProperties
<1>3. /\ back \in Seq(Entry) /\ Len(back) = Len(q) - i
      /\ \A k \in 1 .. (Len(q) - i) : back[k] = q[i + k]
  <2>1. \A k \in (i + 1) .. Len(q) : q[k] \in Entry
    BY <1>1
  <2>2. QED
    BY <1>1, <2>1, SubSeqProperties
<1> HIDE DEF front, back
<1>4. /\ front \o back \in Seq(Entry)
      /\ Len(front \o back) = Len(q) - 1
      /\ \A k \in 1 .. (Len(q) - 1) :
           (front \o back)[k] = IF k <= i - 1 THEN front[k] ELSE back[k - (i - 1)]
  BY <1>1, <1>2, <1>3, ConcatProperties
<1>5. RemoveAt(q, i) = front \o back
  BY DEF RemoveAt, front, back
<1>6. ASSUME NEW k \in 1 .. (Len(q) - 1)
      PROVE  (front \o back)[k] = IF k < i THEN q[k] ELSE q[k + 1]
  <2>1. CASE k < i
    BY <1>1, <1>2, <1>4, <2>1
  <2>2. CASE ~(k < i)
    <3>1. (front \o back)[k] = back[k - (i - 1)] /\ k - (i - 1) \in 1 .. (Len(q) - i)
      BY <1>1, <1>4, <2>2
    <3>2. i + (k - (i - 1)) = k + 1
      BY <1>1
    <3>3. QED
      BY <1>3, <2>2, <3>1, <3>2
  <2>3. QED
    BY <2>1, <2>2
<1>7. QED
  BY <1>4, <1>5, <1>6

(* A removed entry is gone and the others stay. *)
LEMMA RemoveAtRange ==
  ASSUME NEW q \in Seq(Entry), NEW i \in DOMAIN q, Distinct(q)
  PROVE  /\ Distinct(RemoveAt(q, i))
         /\ Range(RemoveAt(q, i)) = Range(q) \ {q[i]}
<1> DEFINE r == RemoveAt(q, i)
           from == [k \in 1 .. (Len(q) - 1) |-> IF k < i THEN k ELSE k + 1]
<1>1. Len(q) \in Nat /\ DOMAIN q = 1 .. Len(q) /\ i \in 1 .. Len(q)
  BY LenProperties
<1>2. /\ r \in Seq(Entry) /\ DOMAIN r = 1 .. (Len(q) - 1)
      /\ \A k \in DOMAIN r : r[k] = q[from[k]] /\ from[k] \in DOMAIN q /\ from[k] # i
  <2>1. /\ r \in Seq(Entry) /\ Len(r) = Len(q) - 1
        /\ \A k \in 1 .. (Len(q) - 1) : r[k] = IF k < i THEN q[k] ELSE q[k + 1]
    BY <1>1, RemoveAtIs
  <2> HIDE DEF r
  <2>2. DOMAIN r = 1 .. (Len(q) - 1)
    BY <2>1, LenProperties
  <2>3. ASSUME NEW k \in DOMAIN r
        PROVE  r[k] = q[from[k]] /\ from[k] \in DOMAIN q /\ from[k] # i
    BY <1>1, <2>1, <2>2
  <2>4. QED
    BY <2>1, <2>2, <2>3
<1>3. \A k, l \in DOMAIN r : from[k] = from[l] => k = l
  BY <1>1, <1>2
<1>4. Distinct(r)
  BY <1>2, <1>3 DEF Distinct
<1>5. \A k \in DOMAIN q : k # i => \E l \in DOMAIN r : from[l] = k
  <2>1. SUFFICES ASSUME NEW k \in DOMAIN q, k # i
                 PROVE  \E l \in DOMAIN r : from[l] = k
    OBVIOUS
  <2>2. CASE k < i
    <3>1. k \in DOMAIN r /\ from[k] = k
      BY <1>1, <1>2, <2>2
    <3>2. QED
      BY <3>1
  <2>3. CASE k > i
    <3>1. k - 1 \in DOMAIN r /\ from[k - 1] = k
      BY <1>1, <1>2, <2>3
    <3>2. QED
      BY <3>1
  <2>4. k < i \/ k = i \/ k > i
    BY <1>1
  <2>5. QED
    BY <2>1, <2>2, <2>3, <2>4
<1> HIDE DEF r, from
<1>6. Range(r) \subseteq Range(q) \ {q[i]}
  <2>1. \A k \in DOMAIN r : q[from[k]] # q[i]
    BY <1>2 DEF Distinct
  <2>2. QED
    BY <1>2, <2>1 DEF Range
<1>7. Range(q) \ {q[i]} \subseteq Range(r)
  BY <1>2, <1>5 DEF Range
<1>8. QED
  BY <1>4, <1>6, <1>7 DEF r

(* A new key with a new ticket. *)
LEMMA AppendRange ==
  ASSUME NEW q \in Seq(Entry), NEW e \in Entry, Distinct(q),
         \A f \in Range(q) : f.key # e.key /\ f.ticket # e.ticket
  PROVE  /\ Append(q, e) \in Seq(Entry)
         /\ Distinct(Append(q, e))
         /\ Range(Append(q, e)) = Range(q) \cup {e}
<1> DEFINE r == Append(q, e)
<1>1. Len(q) \in Nat /\ DOMAIN q = 1 .. Len(q)
  BY LenProperties
<1>2. /\ r \in Seq(Entry) /\ DOMAIN r = 1 .. (Len(q) + 1)
      /\ \A k \in 1 .. Len(q) : r[k] = q[k]
      /\ r[Len(q) + 1] = e
  <2>1. r \in Seq(Entry) /\ Len(r) = Len(q) + 1
    BY AppendProperties
  <2>2. DOMAIN r = 1 .. (Len(q) + 1)
    BY <2>1, LenProperties
  <2>3. QED
    BY <2>1, <2>2, AppendProperties
<1> HIDE DEF r
<1>3. \A k \in DOMAIN r : k \in DOMAIN q \/ k = Len(q) + 1
  BY <1>1, <1>2
<1>4. \A k \in DOMAIN q : k \in DOMAIN r /\ r[k] = q[k] /\ q[k] \in Range(q)
  BY <1>1, <1>2 DEF Range
<1>5. Distinct(r)
  <2>1. SUFFICES ASSUME NEW k \in DOMAIN r, NEW l \in DOMAIN r,
                        r[k].key = r[l].key \/ r[k].ticket = r[l].ticket
                 PROVE  k = l
    BY DEF Distinct
  <2>2. CASE k \in DOMAIN q /\ l \in DOMAIN q
    BY <1>4, <2>1, <2>2 DEF Distinct
  <2>3. CASE k \in DOMAIN q /\ l = Len(q) + 1
    BY <1>2, <1>4, <2>1, <2>3
  <2>4. CASE k = Len(q) + 1 /\ l \in DOMAIN q
    BY <1>2, <1>4, <2>1, <2>4
  <2>5. QED
    BY <1>3, <2>2, <2>3, <2>4
<1>6. Range(r) = Range(q) \cup {e}
  <2>1. Len(q) + 1 \in DOMAIN r
    BY <1>1, <1>2
  <2>2. Range(r) \subseteq Range(q) \cup {e}
    <3>1. \A k \in DOMAIN r : r[k] \in Range(q) \cup {e}
      BY <1>2, <1>3, <1>4
    <3>2. QED
      BY <3>1 DEF Range
  <2>3. Range(q) \subseteq Range(r)
    BY <1>4 DEF Range
  <2>4. e \in Range(r)
    BY <1>2, <2>1 DEF Range
  <2>5. QED
    BY <2>2, <2>3, <2>4
<1>7. QED
  BY <1>2, <1>5, <1>6 DEF r

(* Using an entry changes only its place. *)
LEMMA MarkUsedRange ==
  ASSUME NEW q \in Seq(Entry), NEW i \in DOMAIN q, Distinct(q)
  PROVE  /\ MarkUsed(q, i) \in Seq(Entry)
         /\ Distinct(MarkUsed(q, i))
         /\ Range(MarkUsed(q, i)) = Range(q)
<1> DEFINE r == RemoveAt(q, i)
<1>1. r \in Seq(Entry) /\ q[i] \in Entry /\ q[i] \in Range(q)
  BY RemoveAtIs, LenProperties DEF Range
<1>2. Distinct(r) /\ Range(r) = Range(q) \ {q[i]}
  BY RemoveAtRange
<1>3. ASSUME NEW f \in Range(r)
      PROVE  f.key # q[i].key /\ f.ticket # q[i].ticket
  <2>1. PICK k \in DOMAIN q : f = q[k] /\ f # q[i]
    BY <1>2 DEF Range
  <2>2. QED
    BY <2>1 DEF Distinct
<1> HIDE DEF r
<1>4. /\ Append(r, q[i]) \in Seq(Entry)
      /\ Distinct(Append(r, q[i]))
      /\ Range(Append(r, q[i])) = Range(r) \cup {q[i]}
  BY <1>1, <1>2, <1>3, AppendRange
<1>5. QED
  BY <1>1, <1>2, <1>4 DEF MarkUsed, r

-----------------------------------------------------------------------------
(* Evictions. *)

(* r is q without some of its ready entries, in any order. *)
Thinned(q, r) ==
  /\ r \in Seq(Entry)
  /\ Distinct(r)
  /\ Range(r) \subseteq Range(q)
  /\ \A e \in Range(q) : ~e.ready => e \in Range(r)

ReadyIn(q) == {i \in DOMAIN q : q[i].ready}

(* The community module's minimum of a set of positions is its least member. *)
LEMMA MinIs ==
  ASSUME NEW S \in SUBSET Nat, S # {}
  PROVE  Min(S) \in S
<1>1. PICK m \in S : \A k \in S : m <= k
  BY LeastNatural
<1>2. Min(S) \in S /\ \A k \in S : Min(S) =< k
  BY <1>1 DEF Min
<1>3. QED
  BY <1>2

(* One turn removes a ready entry, or the limit holds, or none is ready. *)
LEMMA EvictOneThins ==
  ASSUME NEW q \in Seq(Entry), Distinct(q), NEW n \in Nat
  PROVE  /\ Thinned(q, EvictOne(q, n))
         /\ \/ Len(EvictOne(q, n)) = Len(q) - 1
            \/ EvictOne(q, n) = q /\ (Len(q) <= n \/ ReadyIn(q) = {})
<1>1. Len(q) \in Nat /\ DOMAIN q = 1 .. Len(q)
  BY LenProperties
<1>2. CASE Len(q) > n /\ ReadyIn(q) # {}
  <2> DEFINE i == Min(ReadyIn(q))
  <2>1. i \in ReadyIn(q)
    <3>1. ReadyIn(q) \in SUBSET Nat
      BY <1>1 DEF ReadyIn
    <3>2. QED
      BY <1>2, <3>1, MinIs
  <2>2. EvictOne(q, n) = RemoveAt(q, i)
    BY <1>2 DEF EvictOne, ReadyIn
  <2> HIDE DEF i
  <2>3. i \in DOMAIN q /\ i \in 1 .. Len(q) /\ q[i].ready
    BY <1>1, <2>1 DEF ReadyIn
  <2>4. RemoveAt(q, i) \in Seq(Entry) /\ Len(RemoveAt(q, i)) = Len(q) - 1
    BY <2>3, RemoveAtIs
  <2>5. Distinct(RemoveAt(q, i)) /\ Range(RemoveAt(q, i)) = Range(q) \ {q[i]}
    BY <2>3, RemoveAtRange
  <2>6. QED
    BY <2>2, <2>3, <2>4, <2>5 DEF Thinned
<1>3. CASE ~(Len(q) > n /\ ReadyIn(q) # {})
  <2>1. EvictOne(q, n) = q
    BY <1>3 DEF EvictOne, ReadyIn
  <2>2. Thinned(q, q)
    BY DEF Thinned
  <2>3. Len(q) <= n \/ ReadyIn(q) = {}
    BY <1>1, <1>3
  <2>4. QED
    BY <2>1, <2>2, <2>3
<1>4. QED
  BY <1>2, <1>3

(* Evictions leave the reservations, and the limit holds or no ready entry is left. *)
LEMMA EvictedThins ==
  ASSUME NEW q \in Seq(Entry), Distinct(q), NEW n \in Nat
  PROVE  /\ Thinned(q, Evicted(q, n))
         /\ Len(Evicted(q, n)) <= n \/ ReadyIn(Evicted(q, n)) = {}
<1>1. PICK turn : /\ turn[0] = q
                  /\ \A k \in 1 .. Len(q) : turn[k] = EvictOne(turn[k - 1], n)
                  /\ Evicted(q, n) = turn[Len(q)]
  BY EvictionTurns
<1>2. Len(q) \in Nat
  BY LenProperties
<1> DEFINE Done(r) == Len(r) <= n \/ ReadyIn(r) = {}
           Fine(k) == Thinned(q, turn[k]) /\ (Done(turn[k]) \/ Len(turn[k]) + k <= Len(q))
           bad == {k \in 0 .. Len(q) : ~Fine(k)}
<1>3. bad = {}
  <2> SUFFICES ASSUME bad # {} PROVE FALSE
    OBVIOUS
  <2>1. PICK k \in bad : \A j \in bad : k <= j
    <3>1. bad \in SUBSET Nat
      BY <1>2
    <3>2. QED
      BY <3>1, LeastNatural
  <2>2. Thinned(q, q)
    BY DEF Thinned
  <2>3. k # 0
    BY <1>1, <1>2, <2>1, <2>2
  <2>4. k - 1 \in 0 .. Len(q) /\ k - 1 \notin bad /\ k \in 1 .. Len(q)
    <3>1. k \in 0 .. Len(q)
      OBVIOUS
    <3>2. k - 1 \in 0 .. Len(q) /\ k \in 1 .. Len(q) /\ ~(k <= k - 1)
      BY <1>2, <2>3, <3>1
    <3>3. QED
      BY <2>1, <3>2
  <2>5. Fine(k - 1) /\ turn[k] = EvictOne(turn[k - 1], n)
    BY <1>1, <2>4
  <2> DEFINE r == turn[k - 1]
             s == EvictOne(r, n)
  <2>6. /\ Thinned(r, s)
        /\ \/ Len(s) = Len(r) - 1
           \/ s = r /\ Done(r)
    BY <2>5, EvictOneThins DEF Thinned
  <2>7. Thinned(q, s)
    BY <2>5, <2>6 DEF Thinned
  <2>8. Len(r) \in Nat /\ Len(s) \in Nat
    BY <2>5, <2>6, LenProperties DEF Thinned
  <2>9. Done(s) \/ Len(s) + k <= Len(q)
    <3>1. CASE s = r /\ Done(r)
      BY <3>1
    <3>2. CASE Len(s) = Len(r) - 1 /\ Len(r) <= n
      BY <2>8, <3>2
    <3>3. CASE Len(s) = Len(r) - 1 /\ ReadyIn(r) = {}
      <4>1. ReadyIn(s) = {}
        BY <2>6, <3>3 DEF Thinned, ReadyIn, Range
      <4>2. QED
        BY <4>1
    <3>4. CASE Len(s) = Len(r) - 1 /\ Len(r) + (k - 1) <= Len(q)
      BY <1>2, <2>4, <2>8, <3>4
    <3>5. QED
      BY <2>5, <2>6, <3>1, <3>2, <3>3, <3>4
  <2>10. QED
    BY <2>1, <2>5, <2>7, <2>9
<1>4. Fine(Len(q))
  BY <1>2, <1>3
<1>5. Len(turn[Len(q)]) \in Nat
  BY <1>4, LenProperties DEF Thinned
<1>6. Done(turn[Len(q)])
  BY <1>2, <1>4, <1>5
<1>7. QED
  BY <1>1, <1>4, <1>6

-----------------------------------------------------------------------------
(* How many entries are ready. *)

(* Positions and entries are as many, so that their order does not matter. *)
LEMMA ReadyCount ==
  ASSUME NEW q \in Seq(Entry), Distinct(q)
  PROVE  /\ IsFiniteSet(ReadyIn(q)) /\ Cardinality(ReadyIn(q)) \in Nat
         /\ Cardinality(ReadyIn(q)) <= Len(q)
         /\ IsFiniteSet({e \in Range(q) : e.ready})
         /\ Cardinality({e \in Range(q) : e.ready}) = Cardinality(ReadyIn(q))
<1> DEFINE S == ReadyIn(q)
           T == {e \in Range(q) : e.ready}
           f == [i \in S |-> q[i]]
<1>1. Len(q) \in Nat /\ DOMAIN q = 1 .. Len(q)
  BY LenProperties
<1>2. /\ IsFiniteSet(1 .. Len(q)) /\ Cardinality(1 .. Len(q)) = Len(q)
  BY <1>1, FS_Interval
<1>3. IsFiniteSet(S) /\ Cardinality(S) <= Len(q) /\ Cardinality(S) \in Nat
  <2>1. S \in SUBSET (1 .. Len(q))
    BY <1>1 DEF ReadyIn
  <2>2. QED
    BY <1>2, <2>1, FS_Subset, FS_CardinalityType
<1>4. f \in Surjection(S, T)
  <2>1. f \in [S -> T]
    BY DEF ReadyIn, Range
  <2>2. \A e \in T : \E i \in S : f[i] = e
    BY DEF ReadyIn, Range
  <2>3. QED
    BY <2>1, <2>2 DEF Surjection
<1>5. \A i, j \in S : f[i] = f[j] => i = j
  BY DEF Distinct, ReadyIn
<1>6. f \in Injection(S, T)
  BY <1>4, <1>5 DEF Injection, Surjection, IsInjective
<1>7. ExistsBijection(S, T)
  BY <1>4, <1>6 DEF ExistsBijection, Bijection
<1>8. QED
  BY <1>3, <1>7, FS_Bijection

(* A list whose ready entries are among another's has no more of them. *)
LEMMA ReadyNoMore ==
  ASSUME NEW q \in Seq(Entry), Distinct(q), NEW r \in Seq(Entry), Distinct(r),
         \A e \in Range(r) : e.ready => e \in Range(q)
  PROVE  Cardinality(ReadyIn(r)) <= Cardinality(ReadyIn(q))
<1>1. {e \in Range(r) : e.ready} \in SUBSET {e \in Range(q) : e.ready}
  OBVIOUS
<1>2. QED
  BY <1>1, ReadyCount, FS_Subset

(* After evictions no more entries are ready than the limit. *)
LEMMA EvictedWithinLimit ==
  ASSUME NEW q \in Seq(Entry), Distinct(q), NEW n \in Nat
  PROVE  Cardinality(ReadyIn(Evicted(q, n))) <= n
<1> DEFINE r == Evicted(q, n)
<1>1. /\ r \in Seq(Entry) /\ Distinct(r)
      /\ Len(r) <= n \/ ReadyIn(r) = {}
  BY EvictedThins DEF Thinned
<1>2. Cardinality(ReadyIn(r)) \in Nat /\ Cardinality(ReadyIn(r)) <= Len(r) /\ Len(r) \in Nat
  BY <1>1, ReadyCount, LenProperties
<1>3. CASE ReadyIn(r) = {}
  BY <1>3, FS_EmptySet
<1>4. QED
  BY <1>1, <1>2, <1>3

(* finish fills a reservation. *)
LEMMA FilledRange ==
  ASSUME NEW q \in Seq(Entry), Distinct(q), NEW i \in DOMAIN q, NEW began \in Nat
  PROVE  LET filled == [q[i] EXCEPT !.ready = TRUE, !.epoch = began]
             r == [q EXCEPT ![i].ready = TRUE, ![i].epoch = began]
         IN  /\ r \in Seq(Entry) /\ Distinct(r) /\ DOMAIN r = DOMAIN q
             /\ Range(r) = (Range(q) \ {q[i]}) \cup {filled}
             /\ filled \in Entry /\ filled.key = q[i].key /\ filled.ticket = q[i].ticket
             /\ filled.ready /\ filled.epoch = began
<1> DEFINE filled == [q[i] EXCEPT !.ready = TRUE, !.epoch = began]
           r == [q EXCEPT ![i].ready = TRUE, ![i].epoch = began]
<1>1. DOMAIN q = 1 .. Len(q) /\ q[i] \in Entry
  BY LenProperties
<1>2. /\ filled \in Entry /\ filled.key = q[i].key /\ filled.ticket = q[i].ticket
      /\ filled.ready /\ filled.epoch = began
  BY <1>1 DEF Entry
<1>3. r = [q EXCEPT ![i] = filled]
  BY <1>1
<1> HIDE DEF filled, r
<1>4. /\ r \in Seq(Entry) /\ DOMAIN r = DOMAIN q
      /\ \A k \in DOMAIN q : r[k] = IF k = i THEN filled ELSE q[k]
  BY <1>1, <1>2, <1>3
<1>5. Distinct(r)
  BY <1>2, <1>4 DEF Distinct
<1>6. \A k \in DOMAIN q : k # i => q[k] # q[i]
  BY DEF Distinct
<1>7. Range(r) = (Range(q) \ {q[i]}) \cup {filled}
  <2>1. Range(r) \subseteq (Range(q) \ {q[i]}) \cup {filled}
    BY <1>4, <1>6 DEF Range
  <2>2. Range(q) \ {q[i]} \subseteq Range(r)
    BY <1>4 DEF Range
  <2>3. filled \in Range(r)
    BY <1>4 DEF Range
  <2>4. QED
    BY <2>1, <2>2, <2>3
<1>8. QED
  BY <1>2, <1>4, <1>5, <1>7 DEF filled, r

-----------------------------------------------------------------------------
(* The steps. *)

(* What the entries and calls are made of. *)
LEMMA Parts ==
  ASSUME IInv
  PROVE  /\ nextTicket \in Nat /\ epoch \in Nat /\ limit \in Nat
         /\ \A t \in Thread : /\ call[t] \in Call
                              /\ call[t].began \in Nat /\ call[t].key \in Key
                              /\ call[t].at \in Phase /\ call[t].ticket \in Nat \cup {NoTicket}
         /\ \A i \in DOMAIN entries : entries[i] \in Entry /\ entries[i] \in Range(entries)
         /\ \A e \in Range(entries) : /\ e \in Entry /\ e.ready \in BOOLEAN
                                      /\ e.ticket \in Nat /\ e.ticket # NoTicket
<1>1. nextTicket \in Nat /\ epoch \in Nat /\ limit \in Nat
  BY CacheAssumption DEF IInv, ScalarsInv
<1>2. \A t \in Thread : call[t] \in Call
  BY DEF IInv, CallsInv
<1>3. \A i \in DOMAIN entries : entries[i] \in Entry /\ entries[i] \in Range(entries)
  BY LenProperties DEF IInv, EntriesInv, Range
<1>4. \A e \in Range(entries) : e \in Entry
  BY <1>3 DEF Range
<1>5. \A e \in Entry : e.ready \in BOOLEAN /\ e.ticket \in Nat /\ e.ticket # NoTicket
  BY DEF Entry, NoTicket
<1>6. \A c \in Call : /\ c.began \in Nat /\ c.key \in Key
                      /\ c.at \in Phase /\ c.ticket \in Nat \cup {NoTicket}
  BY DEF Call
<1>7. QED
  BY <1>1, <1>2, <1>3, <1>4, <1>5, <1>6

(* A thread goes on without ending a decode: its ticket stays its own. *)
LEMMA CallMoves ==
  ASSUME IInv, NEW t \in Thread, NEW c \in Call,
         call' = [call EXCEPT ![t] = c],
         entries' \in Seq(Entry), Distinct(entries'), Range(entries') = Range(entries),
         UNCHANGED <<limit, nextTicket, epoch>>, poisoned' \in BOOLEAN,
         c.ticket = call[t].ticket, c.began <= epoch,
         c.ticket # NoTicket => /\ c.key = call[t].key /\ c.began = call[t].began
                                /\ c.at \in {"gate", "decoding", "decoded", "failed"},
         c.at = "asleep" => \E e \in Range(entries) : ~e.ready /\ e.key = c.key
  PROVE  IInv'
<1>1. /\ call' \in [Thread -> Call]
      /\ call'[t] = c
      /\ \A u \in Thread : u # t => call'[u] = call[u]
  BY DEF IInv, CallsInv
<1>2. ScalarsInv'
  BY DEF IInv, ScalarsInv
<1>3. EntriesInv'
  BY DEF IInv, EntriesInv
<1>4. ReadyWithinLimit'
  <2>1. Cardinality(ReadyIn(entries')) <= Cardinality(ReadyIn(entries))
    BY ReadyNoMore DEF IInv, EntriesInv
  <2>2. Cardinality(ReadyIn(entries')) \in Nat /\ Cardinality(ReadyIn(entries)) \in Nat
    BY ReadyCount DEF IInv, EntriesInv
  <2>3. Cardinality(ReadyIn(entries')) <= limit
    BY <2>1, <2>2, Parts DEF IInv, ReadyWithinLimit, ReadyIn
  <2>4. QED
    BY <2>3 DEF ReadyWithinLimit, ReadyIn
<1>5. CallsInv'
  <2>1. ASSUME NEW u \in Thread
        PROVE  /\ call'[u].began <= epoch
               /\ call'[u].ticket # NoTicket =>
                    /\ call'[u].at \in {"gate", "decoding", "decoded", "failed"}
                    /\ call'[u].ticket < nextTicket
               /\ call'[u].ticket = call[u].ticket
    BY <1>1 DEF IInv, CallsInv, Decodes
  <2>2. QED
    BY <1>1, <2>1 DEF IInv, CallsInv, Decodes
<1>6. OwnersInv'
  <2>1. \A u \in Thread : /\ call'[u].ticket = call[u].ticket
                          /\ call[u].ticket # NoTicket =>
                               call'[u].key = call[u].key /\ call'[u].began = call[u].began
    BY <1>1
  <2>2. QED
    BY <2>1, Parts DEF IInv, OwnersInv
<1>7. SleepersInv'
  BY <1>1 DEF IInv, SleepersInv
<1>8. QED
  BY <1>2, <1>3, <1>4, <1>5, <1>6, <1>7 DEF IInv

(* A decode is over: its reservation is filled, dropped, or already gone. *)
LEMMA DecodeIsOver ==
  ASSUME IInv, NEW t \in Thread, NEW answer \in {"done", "refused"},
         call[t].ticket # NoTicket,
         call' = [Awake EXCEPT ![t].at = answer, ![t].ticket = NoTicket],
         entries' \in Seq(Entry), Distinct(entries'),
         Cardinality(ReadyIn(entries')) <= limit,
         UNCHANGED <<limit, nextTicket, poisoned, epoch>>,
         \A e \in Range(entries') :
           \/ e.ready /\ e.ticket < nextTicket /\ e.epoch = epoch
           \/ e \in Range(entries) /\ e.ticket # call[t].ticket,
         \A e \in Range(entries) : ~e.ready /\ e.ticket # call[t].ticket => e \in Range(entries')
  PROVE  IInv'
<1>1. /\ \A u \in Thread : Awake[u] \in Call
      /\ \A u \in Thread : /\ Awake[u].ticket = call[u].ticket /\ Awake[u].key = call[u].key
                           /\ Awake[u].began = call[u].began /\ Awake[u].at # "asleep"
                           /\ Decodes(u) => Awake[u].at = call[u].at
  <2>1. SUFFICES ASSUME NEW u \in Thread
                 PROVE  /\ Awake[u] \in Call
                        /\ Awake[u].ticket = call[u].ticket /\ Awake[u].key = call[u].key
                        /\ Awake[u].began = call[u].began /\ Awake[u].at # "asleep"
                        /\ Decodes(u) => Awake[u].at = call[u].at
    OBVIOUS
  <2>2. Awake[u] = IF call[u].at = "asleep" THEN [call[u] EXCEPT !.at = "looking"] ELSE call[u]
    BY DEF Awake
  <2>3. QED
    BY <2>2, Parts DEF Call, Phase, Decodes
<1>2. /\ call' \in [Thread -> Call]
      /\ call'[t].at = answer /\ call'[t].ticket = NoTicket /\ call'[t].began = call[t].began
      /\ \A u \in Thread : u # t => call'[u] = Awake[u]
  <2>1. DOMAIN Awake = Thread
    BY DEF Awake
  <2>2. call'[t] = [Awake[t] EXCEPT !.at = answer, !.ticket = NoTicket]
    BY <2>1
  <2>3. call'[t] \in Call /\ call'[t].at = answer /\ call'[t].ticket = NoTicket
        /\ call'[t].began = call[t].began
    <3>1. ASSUME NEW c \in Call
          PROVE  LET d == [c EXCEPT !.at = answer, !.ticket = NoTicket]
                 IN  d \in Call /\ d.at = answer /\ d.ticket = NoTicket /\ d.began = c.began
      BY DEF Call, Phase
    <3>2. Awake[t] \in Call /\ Awake[t].began = call[t].began
      BY <1>1
    <3>3. QED
      BY <2>2, <3>1, <3>2
  <2>4. \A u \in Thread : u # t => call'[u] = Awake[u]
    BY <2>1
  <2>5. DOMAIN call' = Thread /\ \A u \in Thread : call'[u] \in Call
    BY <1>1, <2>1, <2>3, <2>4
  <2>6. call' = [u \in Thread |-> call'[u]]
    BY <2>1
  <2>7. call' \in [Thread -> Call]
    BY <2>5, <2>6
  <2>8. QED
    BY <2>3, <2>4, <2>7
<1>3. ScalarsInv'
  BY DEF IInv, ScalarsInv
<1>4. EntriesInv'
  BY DEF IInv, EntriesInv
<1>5. ReadyWithinLimit'
  BY DEF ReadyWithinLimit, ReadyIn
<1>6. CallsInv'
  <2>1. ASSUME NEW u \in Thread
        PROVE  /\ call'[u].began <= epoch
               /\ call'[u].ticket # NoTicket =>
                    /\ call'[u].at \in {"gate", "decoding", "decoded", "failed"}
                    /\ call'[u].ticket < nextTicket
                    /\ u # t /\ call'[u].ticket = call[u].ticket
    BY <1>1, <1>2 DEF IInv, CallsInv, Decodes
  <2>2. ASSUME NEW u \in Thread, NEW v \in Thread, u # v, call'[u].ticket # NoTicket
        PROVE  call'[u].ticket # call'[v].ticket
    BY <1>1, <1>2, <2>1, <2>2 DEF IInv, CallsInv
  <2>3. QED
    BY <1>2, <2>1, <2>2 DEF CallsInv, Decodes
<1>7. OwnersInv'
  <2>1. \A u \in Thread : u # t => /\ call'[u].ticket = call[u].ticket
                                   /\ call'[u].key = call[u].key
                                   /\ call'[u].began = call[u].began
    BY <1>1, <1>2
  <2>2. ASSUME NEW e \in Range(entries'), ~e.ready
        PROVE  e \in Range(entries) /\ e.ticket # call[t].ticket /\ e.ticket # NoTicket
    BY <2>2, Parts
  <2>3. ASSUME NEW u \in Thread, call'[u].ticket # NoTicket, call'[u].began = epoch
        PROVE  \E e \in Range(entries') : ~e.ready /\ e.ticket = call'[u].ticket
    <3>1. u # t
      BY <1>2, <2>3
    <3>2. PICK e \in Range(entries) : ~e.ready /\ e.ticket = call[u].ticket
      BY <2>1, <2>3, <3>1 DEF IInv, OwnersInv
    <3>3. e.ticket # call[t].ticket
      BY <2>1, <2>3, <3>1, <3>2 DEF IInv, CallsInv
    <3>4. QED
      BY <2>1, <3>1, <3>2, <3>3
  <2>4. ASSUME NEW e \in Range(entries'), ~e.ready
        PROVE  \E u \in Thread : call'[u].ticket = e.ticket
    <3>1. PICK u \in Thread : call[u].ticket = e.ticket
      BY <2>2, <2>4 DEF IInv, OwnersInv
    <3>2. u # t
      BY <2>2, <2>4, <3>1
    <3>3. QED
      BY <2>1, <3>1, <3>2
  <2>5. ASSUME NEW u \in Thread, NEW e \in Range(entries'), ~e.ready, e.ticket = call'[u].ticket
        PROVE  call'[u].key = e.key /\ call'[u].began = epoch
    <3>1. u # t
      BY <1>2, <2>2, <2>5
    <3>2. QED
      BY <2>1, <2>2, <2>5, <3>1 DEF IInv, OwnersInv
  <2>6. QED
    BY <2>3, <2>4, <2>5 DEF OwnersInv
<1>8. SleepersInv'
  <2>1. \A u \in Thread : call'[u].at # "asleep"
    BY <1>1, <1>2
  <2>2. QED
    BY <2>1 DEF SleepersInv
<1>9. QED
  BY <1>3, <1>4, <1>5, <1>6, <1>7, <1>8 DEF IInv

(* A file is asked for. *)
LEMMA AskStep ==
  ASSUME IInv, NEW t \in Thread, NEW key \in Key, Ask(t, key)
  PROVE  IInv'
<1> DEFINE c == [at |-> IF key.dcps THEN "looking" ELSE "peeking", key |-> key,
                 ticket |-> NoTicket, began |-> epoch]
<1>1. c \in Call /\ c.began <= epoch /\ c.at # "asleep"
  BY Parts DEF Call, Phase
<1>2. call[t].ticket = NoTicket
  BY DEF Ask, IInv, CallsInv, Decodes
<1>3. call' = [call EXCEPT ![t] = c] /\ UNCHANGED <<limit, nextTicket, entries, poisoned, epoch>>
  BY DEF Ask
<1> HIDE DEF c
<1>4. c.ticket = NoTicket
  BY DEF c
<1>5. QED
  BY <1>1, <1>2, <1>3, <1>4, CallMoves DEF IInv, EntriesInv, ScalarsInv

(* A step that only moves a call from one place to another, and may use an entry. *)
LEMMA AtMoves ==
  ASSUME IInv, NEW t \in Thread, NEW at \in Phase,
         call' = [call EXCEPT ![t].at = at],
         entries' = entries \/ \E i \in DOMAIN entries : entries' = MarkUsed(entries, i),
         UNCHANGED <<limit, nextTicket, epoch>>, poisoned' \in BOOLEAN,
         Decodes(t) => at \in {"gate", "decoding", "decoded", "failed"} \/ call[t].ticket = NoTicket,
         at = "asleep" => \E e \in Range(entries) : ~e.ready /\ e.key = call[t].key
  PROVE  IInv'
<1> DEFINE c == [call[t] EXCEPT !.at = at]
<1>1. /\ c \in Call /\ c.ticket = call[t].ticket /\ c.key = call[t].key
      /\ c.began = call[t].began /\ c.at = at
  <2>1. call[t] \in Call
    BY Parts
  <2>2. QED
    BY <2>1 DEF Call
<1>2. call' = [call EXCEPT ![t] = c]
  BY DEF IInv, CallsInv
<1>3. /\ entries' \in Seq(Entry) /\ Distinct(entries') /\ Range(entries') = Range(entries)
  BY MarkUsedRange DEF IInv, EntriesInv
<1>4. call[t].ticket # NoTicket => Decodes(t)
  BY DEF IInv, CallsInv
<1>5. call[t].began <= epoch
  BY DEF IInv, CallsInv
<1>6. c.ticket # NoTicket => /\ c.key = call[t].key /\ c.began = call[t].began
                             /\ c.at \in {"gate", "decoding", "decoded", "failed"}
  BY <1>1, <1>4
<1>7. c.at = "asleep" => \E e \in Range(entries) : ~e.ready /\ e.key = c.key
  BY <1>1
<1>8. c.ticket = call[t].ticket /\ c.began <= epoch /\ c \in Call
  BY <1>1, <1>5
<1> HIDE DEF c
<1>9. QED
  BY <1>2, <1>3, <1>6, <1>7, <1>8, CallMoves

(* A request for the embedded matrix looks for a decode that serves it. *)
LEMMA PeekStep ==
  ASSUME IInv, NEW t \in Thread, Peek(t)
  PROVE  IInv'
<1>1. ~Decodes(t) /\ UNCHANGED <<limit, nextTicket, poisoned, epoch>> /\ poisoned' \in BOOLEAN
  BY DEF Peek, Decodes, IInv, ScalarsInv
<1>2. CASE \E i \in ReadyAt(Matching(call[t].key)) :
             call' = Answered(t) /\ entries' = MarkUsed(entries, i)
  <2>1. \E i \in DOMAIN entries : entries' = MarkUsed(entries, i)
    BY <1>2 DEF ReadyAt, Positions
  <2>2. call' = [call EXCEPT ![t].at = "done"] /\ "done" \in Phase
    BY <1>2 DEF Answered, Phase
  <2>3. QED
    BY <1>1, <2>1, <2>2, AtMoves
<1>3. CASE call' = [call EXCEPT ![t].at = "looking"] /\ UNCHANGED entries
  <2>1. "looking" \in Phase
    BY DEF Phase
  <2>2. QED
    BY <1>1, <1>3, <2>1, AtMoves
<1>4. QED
  BY <1>2, <1>3 DEF Peek

(* Reserving an entry: a key without entries and a ticket nobody has. *)
LEMMA ReserveStep ==
  ASSUME IInv, NEW t \in Thread, call[t].at = "looking", Positions(call[t].key) = {},
         call' = [call EXCEPT ![t].at = "gate", ![t].began = epoch, ![t].ticket = nextTicket],
         entries' = Append(entries, [key |-> call[t].key, ready |-> FALSE,
                                     ticket |-> nextTicket, epoch |-> epoch]),
         nextTicket' = nextTicket + 1, UNCHANGED <<limit, poisoned, epoch>>
  PROVE  IInv'
<1> DEFINE new == [key |-> call[t].key, ready |-> FALSE, ticket |-> nextTicket, epoch |-> epoch]
<1>1. new \in Entry
  BY Parts DEF Entry
<1>2. \A e \in Range(entries) : e.key # new.key /\ e.ticket # new.ticket
  <2>1. \A i \in DOMAIN entries : entries[i].key # call[t].key
    BY DEF Positions
  <2>2. \A i \in DOMAIN entries : entries[i].ticket < nextTicket
    BY DEF IInv, EntriesInv, Range
  <2>3. QED
    BY <2>1, <2>2, Parts DEF Range
<1>3. /\ new.key = call[t].key /\ new.ticket = nextTicket /\ new.epoch = epoch /\ ~new.ready
      /\ entries' = Append(entries, new)
  OBVIOUS
<1> HIDE DEF new
<1>4. /\ entries' \in Seq(Entry) /\ Distinct(entries')
      /\ Range(entries') = Range(entries) \cup {new}
  BY <1>1, <1>2, <1>3, AppendRange DEF IInv, EntriesInv
<1>5. /\ call' \in [Thread -> Call]
      /\ call'[t].at = "gate" /\ call'[t].began = epoch /\ call'[t].ticket = nextTicket
      /\ call'[t].key = call[t].key
      /\ \A u \in Thread : u # t => call'[u] = call[u]
  <2> DEFINE d == [call[t] EXCEPT !.at = "gate", !.began = epoch, !.ticket = nextTicket]
  <2>1. /\ d \in Call /\ d.at = "gate" /\ d.began = epoch
        /\ d.ticket = nextTicket /\ d.key = call[t].key
    <3>1. call[t] \in Call /\ nextTicket \in Nat /\ epoch \in Nat
      BY Parts
    <3>2. QED
      BY <3>1 DEF Call, Phase
  <2>2. call \in [Thread -> Call]
    BY DEF IInv, CallsInv
  <2>3. call' = [call EXCEPT ![t] = d]
    BY <2>2
  <2> HIDE DEF d
  <2>4. QED
    BY <2>1, <2>2, <2>3
<1>6. \A u \in Thread : /\ call[u].ticket # nextTicket /\ call[u].ticket # NoTicket =>
                              call[u].ticket < nextTicket
                        /\ call[u].ticket \in Nat \cup {NoTicket}
                        /\ call[u].ticket # nextTicket
  BY Parts DEF IInv, CallsInv, NoTicket
<1>7. ScalarsInv'
  BY Parts DEF IInv, ScalarsInv
<1>8. EntriesInv'
  <2>1. \A e \in Range(entries) : e.ticket < nextTicket + 1 /\ e.epoch = epoch
    BY Parts DEF IInv, EntriesInv
  <2>2. \A e \in Range(entries') : e.ticket < nextTicket + 1 /\ e.epoch = epoch
    <3>1. new.ticket < nextTicket + 1 /\ new.epoch = epoch
      BY <1>3, Parts
    <3>2. QED
      BY <1>4, <2>1, <3>1
  <2>3. QED
    BY <1>4, <2>2 DEF EntriesInv
<1>9. ReadyWithinLimit'
  <2>1. Cardinality(ReadyIn(entries')) <= Cardinality(ReadyIn(entries))
    BY <1>3, <1>4, ReadyNoMore DEF IInv, EntriesInv
  <2>2. Cardinality(ReadyIn(entries')) \in Nat /\ Cardinality(ReadyIn(entries)) \in Nat
    BY <1>4, ReadyCount DEF IInv, EntriesInv
  <2>3. Cardinality(ReadyIn(entries)) <= limit /\ limit \in Nat
    BY Parts DEF IInv, ReadyWithinLimit, ReadyIn
  <2>4. Cardinality(ReadyIn(entries')) <= limit
    BY <2>1, <2>2, <2>3
  <2>5. QED
    BY <2>4 DEF ReadyWithinLimit, ReadyIn
<1>10. CallsInv'
  <2>1. ASSUME NEW u \in Thread
        PROVE  /\ call'[u].began <= epoch
               /\ call'[u].ticket # NoTicket =>
                    /\ call'[u].at \in {"gate", "decoding", "decoded", "failed"}
                    /\ call'[u].ticket < nextTicket + 1
    BY <1>5, Parts DEF IInv, CallsInv, Decodes
  <2>2. ASSUME NEW u \in Thread, NEW v \in Thread, u # v, call'[u].ticket # NoTicket
        PROVE  call'[u].ticket # call'[v].ticket
    BY <1>5, <1>6, <2>2, Parts DEF IInv, CallsInv
  <2>3. QED
    BY <1>5, <2>1, <2>2 DEF CallsInv, Decodes
<1>11. OwnersInv'
  <2>1. call[t].ticket = NoTicket
    BY DEF IInv, CallsInv, Decodes
  <2>2. ASSUME NEW u \in Thread, call'[u].ticket # NoTicket, call'[u].began = epoch
        PROVE  \E e \in Range(entries') : ~e.ready /\ e.ticket = call'[u].ticket
    <3>1. CASE u = t
      BY <1>3, <1>4, <1>5, <3>1
    <3>2. CASE u # t
      <4>1. call'[u] = call[u]
        BY <1>5, <3>2
      <4>2. PICK e \in Range(entries) : ~e.ready /\ e.ticket = call[u].ticket
        BY <2>2, <4>1 DEF IInv, OwnersInv
      <4>3. QED
        BY <1>4, <4>1, <4>2
    <3>3. QED
      BY <3>1, <3>2
  <2>3. ASSUME NEW e \in Range(entries'), ~e.ready
        PROVE  \E u \in Thread : call'[u].ticket = e.ticket
    <3>1. CASE e = new
      BY <1>3, <1>5, <3>1
    <3>2. CASE e \in Range(entries)
      <4>1. PICK u \in Thread : call[u].ticket = e.ticket
        BY <2>3, <3>2 DEF IInv, OwnersInv
      <4>2. u # t
        BY <2>1, <3>2, <4>1, Parts
      <4>3. QED
        BY <1>5, <4>1, <4>2
    <3>3. QED
      BY <1>4, <3>1, <3>2
  <2>4. ASSUME NEW u \in Thread, NEW e \in Range(entries'), ~e.ready, e.ticket = call'[u].ticket
        PROVE  call'[u].key = e.key /\ call'[u].began = epoch
    <3>1. CASE u = t
      <4>1. e = new
        BY <1>2, <1>3, <1>4, <1>5, <2>4, <3>1
      <4>2. QED
        BY <1>3, <1>5, <3>1, <4>1
    <3>2. CASE u # t
      <4>1. e # new
        BY <1>3, <1>5, <1>6, <2>4, <3>2
      <4>2. QED
        BY <1>4, <1>5, <2>4, <3>2, <4>1 DEF IInv, OwnersInv
    <3>3. QED
      BY <3>1, <3>2
  <2>5. QED
    BY <2>2, <2>3, <2>4 DEF OwnersInv
<1>12. SleepersInv'
  BY <1>4, <1>5 DEF IInv, SleepersInv
<1>13. QED
  BY <1>7, <1>8, <1>9, <1>10, <1>11, <1>12 DEF IInv

(* The loop of get_or_decode. *)
LEMMA LookStep ==
  ASSUME IInv, NEW t \in Thread, Look(t)
  PROVE  IInv'
<1>1. /\ call[t].at = "looking" /\ ~Decodes(t)
      /\ UNCHANGED <<limit, poisoned, epoch>> /\ poisoned' \in BOOLEAN
  BY DEF Look, Decodes, IInv, ScalarsInv
<1>2. CASE TakeReady(t)
  <2>1. \E i \in DOMAIN entries : entries' = MarkUsed(entries, i)
    BY <1>2 DEF TakeReady, ReadyAt, Positions
  <2>2. call' = [call EXCEPT ![t].at = "done"] /\ "done" \in Phase /\ UNCHANGED nextTicket
    BY <1>2 DEF TakeReady, Answered, Phase
  <2>3. QED
    BY <1>1, <2>1, <2>2, AtMoves
<1>3. CASE Wait(t)
  <2>1. \E e \in Range(entries) : ~e.ready /\ e.key = call[t].key
    <3>1. PICK i \in DOMAIN entries : entries[i].key = call[t].key /\ ~entries[i].ready
      BY <1>3 DEF Wait, ReadyAt, Positions
    <3>2. QED
      BY <3>1, Parts
  <2>2. /\ call' = [call EXCEPT ![t].at = "asleep"] /\ "asleep" \in Phase
        /\ UNCHANGED <<entries, nextTicket>>
    BY <1>3 DEF Wait, Phase
  <2>3. QED
    BY <1>1, <2>1, <2>2, AtMoves
<1>4. CASE BeginDecoding(t) /\ limit = 0
  <2> DEFINE c == [call[t] EXCEPT !.at = "gate", !.began = epoch]
  <2>1. /\ c \in Call /\ c.at = "gate" /\ c.began = epoch /\ c.ticket = call[t].ticket
    <3>1. call[t] \in Call /\ epoch \in Nat
      BY Parts
    <3>2. QED
      BY <3>1 DEF Call, Phase
  <2>2. call' = [call EXCEPT ![t] = c] /\ UNCHANGED <<entries, nextTicket>>
    BY <1>4 DEF BeginDecoding, IInv, CallsInv
  <2>3. c.ticket = NoTicket /\ c.began <= epoch /\ c.at # "asleep"
    BY <1>1, <2>1, Parts DEF IInv, CallsInv
  <2> HIDE DEF c
  <2>4. entries' \in Seq(Entry) /\ Distinct(entries') /\ Range(entries') = Range(entries)
    BY <2>2 DEF IInv, EntriesInv
  <2>5. QED
    BY <1>1, <2>1, <2>2, <2>3, <2>4, CallMoves
<1>5. CASE BeginDecoding(t) /\ limit # 0
  <2>1. /\ Positions(call[t].key) = {}
        /\ call' = [call EXCEPT ![t].at = "gate", ![t].began = epoch, ![t].ticket = nextTicket]
        /\ entries' = Append(entries, [key |-> call[t].key, ready |-> FALSE,
                                       ticket |-> nextTicket, epoch |-> epoch])
        /\ nextTicket' = nextTicket + 1
    BY <1>5 DEF BeginDecoding
  <2>2. QED
    BY <1>1, <2>1, ReserveStep
<1>6. QED
  BY <1>2, <1>3, <1>4, <1>5 DEF Look

(* Waking, entering the gate and leaving it move only the call. *)
LEMMA WakeSpuriouslyStep ==
  ASSUME IInv, NEW t \in Thread, WakeSpuriously(t)
  PROVE  IInv'
<1>1. /\ ~Decodes(t) /\ call' = [call EXCEPT ![t].at = "looking"] /\ "looking" \in Phase
      /\ UNCHANGED <<limit, nextTicket, entries, poisoned, epoch>> /\ poisoned' \in BOOLEAN
  BY DEF WakeSpuriously, Decodes, Phase, IInv, ScalarsInv
<1>2. QED
  BY <1>1, AtMoves

LEMMA TakeGateStep ==
  ASSUME IInv, NEW t \in Thread, TakeGate(t)
  PROVE  IInv'
<1>1. /\ UNCHANGED <<limit, nextTicket, entries, poisoned, epoch>> /\ poisoned' \in BOOLEAN
  BY DEF TakeGate, IInv, ScalarsInv
<1>2. CASE poisoned
  <2>1. call' = [call EXCEPT ![t].at = "failed"] /\ "failed" \in Phase
    BY <1>2 DEF TakeGate, Phase
  <2>2. QED
    BY <1>1, <2>1, AtMoves
<1>3. CASE ~poisoned
  <2>1. call' = [call EXCEPT ![t].at = "decoding"] /\ "decoding" \in Phase
    BY <1>3 DEF TakeGate, Phase
  <2>2. QED
    BY <1>1, <2>1, AtMoves
<1>4. QED
  BY <1>2, <1>3

LEMMA DecodeEndsStep ==
  ASSUME IInv, NEW t \in Thread, DecodeEnds(t)
  PROVE  IInv'
<1>1. UNCHANGED <<limit, nextTicket, entries, epoch>>
  BY DEF DecodeEnds
<1>2. poisoned' \in BOOLEAN
  BY DEF DecodeEnds, IInv, ScalarsInv
<1>3. CASE call' = [call EXCEPT ![t].at = "decoded"]
  <2>1. "decoded" \in Phase
    BY DEF Phase
  <2>2. QED
    BY <1>1, <1>2, <1>3, <2>1, AtMoves
<1>4. CASE call' = [call EXCEPT ![t].at = "failed"]
  <2>1. "failed" \in Phase
    BY DEF Phase
  <2>2. QED
    BY <1>1, <1>2, <1>4, <2>1, AtMoves
<1>5. QED
  BY <1>3, <1>4 DEF DecodeEnds

(* The entry that a ticket finds is the reservation of the thread that has the ticket. *)
LEMMA TicketFinds ==
  ASSUME IInv, NEW t \in Thread, NEW i \in PositionOfTicket(call[t].ticket)
  PROVE  /\ i \in DOMAIN entries /\ entries[i] \in Range(entries) /\ entries[i] \in Entry
         /\ ~entries[i].ready /\ entries[i].ticket = call[t].ticket
         /\ call[t].began = epoch
         /\ \A e \in Range(entries) : e # entries[i] => e.ticket # call[t].ticket
<1>1. i \in DOMAIN entries /\ ~entries[i].ready /\ entries[i].ticket = call[t].ticket
  BY DEF PositionOfTicket
<1>2. entries[i] \in Range(entries) /\ entries[i] \in Entry
  BY <1>1, Parts
<1>3. call[t].began = epoch
  BY <1>1, <1>2 DEF IInv, OwnersInv
<1>4. \A k \in DOMAIN entries : k # i => entries[k].ticket # entries[i].ticket
  BY <1>1 DEF IInv, EntriesInv, Distinct
<1>5. \A e \in Range(entries) : e # entries[i] => e.ticket # call[t].ticket
  BY <1>1, <1>4 DEF Range
<1>6. QED
  BY <1>1, <1>2, <1>3, <1>5

(* An entry that the ticket does not find is not the thread's. *)
LEMMA TicketMisses ==
  ASSUME IInv, NEW t \in Thread, PositionOfTicket(call[t].ticket) = {}
  PROVE  \A e \in Range(entries) : ~e.ready => e.ticket # call[t].ticket
  BY DEF PositionOfTicket, Range

(* A reservation that was cleared is not filled, whatever has its key now. *)
LEMMA NothingFilled ==
  ASSUME IInv, NEW t \in Thread, NEW answer \in {"done", "refused"},
         call[t].ticket # NoTicket, PositionOfTicket(call[t].ticket) = {},
         call' = [Awake EXCEPT ![t].at = answer, ![t].ticket = NoTicket],
         UNCHANGED <<limit, nextTicket, entries, poisoned, epoch>>
  PROVE  IInv'
<1>1. \A e \in Range(entries) : \/ e.ready /\ e.ticket < nextTicket /\ e.epoch = epoch
                                \/ e.ticket # call[t].ticket
  BY TicketMisses DEF IInv, EntriesInv
<1>2. entries' \in Seq(Entry) /\ Distinct(entries') /\ Cardinality(ReadyIn(entries')) <= limit
  BY DEF IInv, EntriesInv, ReadyWithinLimit, ReadyIn
<1>3. \A e \in Range(entries') : \/ e.ready /\ e.ticket < nextTicket /\ e.epoch = epoch
                                 \/ e \in Range(entries) /\ e.ticket # call[t].ticket
  BY <1>1
<1>4. \A e \in Range(entries) : ~e.ready /\ e.ticket # call[t].ticket => e \in Range(entries')
  OBVIOUS
<1>5. QED
  BY <1>2, <1>3, <1>4, DecodeIsOver

(* PendingDecode::finish *)
LEMMA FinishStep ==
  ASSUME IInv, NEW t \in Thread, Finish(t)
  PROVE  IInv'
<1>1. UNCHANGED <<limit, nextTicket, poisoned, epoch>> /\ poisoned' \in BOOLEAN
  BY DEF Finish, IInv, ScalarsInv
<1>2. CASE call[t].ticket = NoTicket
  <2>1. call' = [call EXCEPT ![t].at = "done"] /\ UNCHANGED entries /\ "done" \in Phase
    BY <1>2 DEF Finish, Phase
  <2>2. QED
    BY <1>1, <1>2, <2>1, AtMoves
<1>3. CASE call[t].ticket # NoTicket /\ PositionOfTicket(call[t].ticket) = {}
  <2>1. /\ call' = [Awake EXCEPT ![t].at = "done", ![t].ticket = NoTicket] /\ UNCHANGED entries
    BY <1>3 DEF Finish
  <2>2. QED
    BY <1>1, <1>3, <2>1, NothingFilled
<1>4. CASE call[t].ticket # NoTicket /\ PositionOfTicket(call[t].ticket) # {}
  <2>1. PICK i \in PositionOfTicket(call[t].ticket) :
          entries' = Evicted(MarkUsed([entries EXCEPT
                       ![i].ready = TRUE, ![i].epoch = call[t].began], i), limit)
    BY <1>4 DEF Finish
  <2>2. call' = [Awake EXCEPT ![t].at = "done", ![t].ticket = NoTicket]
    BY <1>4 DEF Finish
  <2> DEFINE q == [entries EXCEPT ![i].ready = TRUE, ![i].epoch = call[t].began]
             filled == [entries[i] EXCEPT !.ready = TRUE, !.epoch = call[t].began]
             r == MarkUsed(q, i)
  <2>3. /\ i \in DOMAIN entries /\ entries[i] \in Range(entries)
        /\ entries[i].ticket = call[t].ticket /\ call[t].began = epoch
        /\ \A e \in Range(entries) : e # entries[i] => e.ticket # call[t].ticket
    BY TicketFinds
  <2>4. /\ q \in Seq(Entry) /\ Distinct(q) /\ DOMAIN q = DOMAIN entries
        /\ Range(q) = (Range(entries) \ {entries[i]}) \cup {filled}
        /\ filled.ready /\ filled.ticket = entries[i].ticket /\ filled.epoch = call[t].began
    BY <2>3, Parts, FilledRange DEF IInv, EntriesInv
  <2> HIDE DEF q, filled
  <2>5. r \in Seq(Entry) /\ Distinct(r) /\ Range(r) = Range(q)
    BY <2>3, <2>4, MarkUsedRange
  <2> HIDE DEF r
  <2>6. entries' = Evicted(r, limit) /\ limit \in Nat
    BY <2>1, Parts DEF q, r
  <2>7. Thinned(r, entries') /\ Cardinality(ReadyIn(entries')) <= limit
    BY <2>5, <2>6, EvictedThins, EvictedWithinLimit
  <2>8. filled.ticket < nextTicket
    BY <2>3, <2>4 DEF IInv, EntriesInv
  <2>9. ASSUME NEW e \in Range(entries')
        PROVE  \/ e.ready /\ e.ticket < nextTicket /\ e.epoch = epoch
               \/ e \in Range(entries) /\ e.ticket # call[t].ticket
    <3>1. e = filled \/ (e \in Range(entries) /\ e # entries[i])
      <4>1. e \in Range(q)
        BY <2>5, <2>7 DEF Thinned
      <4>2. Range(q) = (Range(entries) \ {entries[i]}) \cup {filled}
        BY <2>4
      <4>3. e \in (Range(entries) \ {entries[i]}) \cup {filled}
        BY <4>1, <4>2
      <4>4. QED
        BY <4>3
    <3>2. QED
      BY <2>3, <2>4, <2>8, <3>1
  <2>10. ASSUME NEW e \in Range(entries), ~e.ready, e.ticket # call[t].ticket
         PROVE  e \in Range(entries')
    <3>1. e \in Range(r)
      BY <2>3, <2>4, <2>5, <2>10
    <3>2. QED
      BY <2>7, <2>10, <3>1 DEF Thinned
  <2>11. entries' \in Seq(Entry) /\ Distinct(entries')
    BY <2>7 DEF Thinned
  <2>12. QED
    BY <1>1, <1>4, <2>2, <2>7, <2>9, <2>10, <2>11, DecodeIsOver
<1>5. QED
  BY <1>2, <1>3, <1>4

(* PendingDecode::drop *)
LEMMA DropStep ==
  ASSUME IInv, NEW t \in Thread, Drop(t)
  PROVE  IInv'
<1>1. UNCHANGED <<limit, nextTicket, poisoned, epoch>> /\ poisoned' \in BOOLEAN
  BY DEF Drop, IInv, ScalarsInv
<1>2. CASE call[t].ticket = NoTicket
  <2>1. call' = [call EXCEPT ![t].at = "refused"] /\ UNCHANGED entries /\ "refused" \in Phase
    BY <1>2 DEF Drop, Phase
  <2>2. QED
    BY <1>1, <1>2, <2>1, AtMoves
<1>3. CASE call[t].ticket # NoTicket /\ PositionOfTicket(call[t].ticket) = {}
  <2>1. /\ call' = [Awake EXCEPT ![t].at = "refused", ![t].ticket = NoTicket]
        /\ UNCHANGED entries
    BY <1>3 DEF Drop
  <2>2. QED
    BY <1>1, <1>3, <2>1, NothingFilled
<1>4. CASE call[t].ticket # NoTicket /\ PositionOfTicket(call[t].ticket) # {}
  <2>1. PICK i \in PositionOfTicket(call[t].ticket) : entries' = RemoveAt(entries, i)
    BY <1>4 DEF Drop
  <2>2. call' = [Awake EXCEPT ![t].at = "refused", ![t].ticket = NoTicket]
    BY <1>4 DEF Drop
  <2>3. /\ i \in DOMAIN entries /\ entries[i].ticket = call[t].ticket
        /\ \A e \in Range(entries) : e # entries[i] => e.ticket # call[t].ticket
    BY TicketFinds
  <2>4. entries \in Seq(Entry) /\ Distinct(entries) /\ i \in 1 .. Len(entries)
    BY <2>3, LenProperties DEF IInv, EntriesInv
  <2>5. /\ entries' \in Seq(Entry) /\ Distinct(entries')
        /\ Range(entries') = Range(entries) \ {entries[i]}
    BY <2>1, <2>3, <2>4, RemoveAtIs, RemoveAtRange
  <2>6. Cardinality(ReadyIn(entries')) <= limit
    <3>1. Cardinality(ReadyIn(entries')) <= Cardinality(ReadyIn(entries))
      BY <2>4, <2>5, ReadyNoMore
    <3>2. Cardinality(ReadyIn(entries')) \in Nat /\ Cardinality(ReadyIn(entries)) \in Nat
      BY <2>4, <2>5, ReadyCount
    <3>3. Cardinality(ReadyIn(entries)) <= limit /\ limit \in Nat
      BY Parts DEF IInv, ReadyWithinLimit, ReadyIn
    <3>4. QED
      BY <3>1, <3>2, <3>3
  <2>7. \A e \in Range(entries') : e \in Range(entries) /\ e.ticket # call[t].ticket
    BY <2>3, <2>5
  <2>8. \A e \in Range(entries) : ~e.ready /\ e.ticket # call[t].ticket => e \in Range(entries')
    BY <2>3, <2>5
  <2>9. QED
    BY <1>1, <1>4, <2>2, <2>5, <2>6, <2>7, <2>8, DecodeIsOver
<1>5. QED
  BY <1>2, <1>3, <1>4

(* A lower limit evicts at once, and leaves the reservations. *)
LEMMA SetLimitStep ==
  ASSUME IInv, NEW n \in Limits, SetLimit(n)
  PROVE  IInv'
<1>1. /\ limit' = n /\ n \in Nat /\ entries' = Evicted(entries, n)
      /\ UNCHANGED <<nextTicket, call, poisoned, epoch>>
  BY CacheAssumption DEF SetLimit
<1>2. entries \in Seq(Entry) /\ Distinct(entries)
  BY DEF IInv, EntriesInv
<1>3. Thinned(entries, entries') /\ Cardinality(ReadyIn(entries')) <= n
  BY <1>1, <1>2, EvictedThins, EvictedWithinLimit
<1>4. /\ entries' \in Seq(Entry) /\ Distinct(entries')
      /\ \A e \in Range(entries') : e \in Range(entries)
      /\ \A e \in Range(entries) : ~e.ready => e \in Range(entries')
  BY <1>3 DEF Thinned
<1>5. ScalarsInv'
  BY <1>1 DEF IInv, ScalarsInv
<1>6. EntriesInv'
  BY <1>1, <1>4 DEF IInv, EntriesInv
<1>7. ReadyWithinLimit'
  BY <1>1, <1>3 DEF ReadyWithinLimit, ReadyIn
<1>8. CallsInv'
  BY <1>1 DEF IInv, CallsInv, Decodes
<1>9. OwnersInv'
  BY <1>1, <1>4 DEF IInv, OwnersInv
<1>10. SleepersInv'
  BY <1>1, <1>4 DEF IInv, SleepersInv
<1>11. QED
  BY <1>5, <1>6, <1>7, <1>8, <1>9, <1>10 DEF IInv

(* A clear leaves decodes of older epochs, whose tickets find nothing. *)
LEMMA ClearStep ==
  ASSUME IInv, Clear
  PROVE  IInv'
<1>1. /\ entries' = <<>> /\ call' = Awake /\ epoch' = epoch + 1
      /\ UNCHANGED <<limit, nextTicket, poisoned>>
  BY DEF Clear
<1>2. Range(entries') = {} /\ DOMAIN entries' = {}
  BY <1>1 DEF Range
<1>3. /\ call' \in [Thread -> Call]
      /\ \A u \in Thread : /\ call'[u].ticket = call[u].ticket
                           /\ call'[u].began = call[u].began /\ call'[u].at # "asleep"
                           /\ Decodes(u) => call'[u].at = call[u].at
  <2>1. SUFFICES ASSUME NEW u \in Thread
                 PROVE  /\ call'[u] \in Call
                        /\ call'[u].ticket = call[u].ticket
                        /\ call'[u].began = call[u].began /\ call'[u].at # "asleep"
                        /\ Decodes(u) => call'[u].at = call[u].at
    BY <1>1 DEF Awake
  <2>2. call'[u] = IF call[u].at = "asleep" THEN [call[u] EXCEPT !.at = "looking"] ELSE call[u]
    BY <1>1 DEF Awake
  <2>3. call[u] \in Call
    BY Parts
  <2>4. QED
    BY <2>2, <2>3 DEF Call, Phase, Decodes
<1>4. ScalarsInv'
  BY <1>1, Parts DEF IInv, ScalarsInv
<1>5. EntriesInv'
  BY <1>1, <1>2 DEF EntriesInv, Distinct
<1>6. ReadyWithinLimit'
  <2>1. ReadyIn(entries') = {}
    BY <1>2 DEF ReadyIn
  <2>2. Cardinality(ReadyIn(entries')) <= limit'
    <3>1. Cardinality(ReadyIn(entries')) = 0
      BY <2>1, FS_EmptySet
    <3>2. limit' = limit /\ limit \in Nat
      BY <1>1, Parts
    <3>3. QED
      BY <3>1, <3>2
  <2>3. QED
    BY <2>2 DEF ReadyWithinLimit, ReadyIn
<1>7. CallsInv'
  <2>1. ASSUME NEW u \in Thread
        PROVE  /\ call'[u].began <= epoch + 1
               /\ call'[u].ticket # NoTicket =>
                    /\ call'[u].at \in {"gate", "decoding", "decoded", "failed"}
                    /\ call'[u].ticket < nextTicket
    BY <1>3, Parts DEF IInv, CallsInv, Decodes
  <2>2. QED
    BY <1>1, <1>3, <2>1 DEF IInv, CallsInv, Decodes
<1>8. OwnersInv'
  <2>1. \A u \in Thread : call'[u].began # epoch'
    BY <1>1, <1>3, Parts DEF IInv, CallsInv
  <2>2. QED
    BY <1>2, <2>1 DEF OwnersInv
<1>9. SleepersInv'
  BY <1>3 DEF SleepersInv
<1>10. QED
  BY <1>4, <1>5, <1>6, <1>7, <1>8, <1>9 DEF IInv

-----------------------------------------------------------------------------
(* The theorems. *)

LEMMA InitEstablishes ==
  ASSUME Init
  PROVE  IInv
<1>1. \E key \in Key : TRUE
  <2>1. PICK source \in Source : TRUE
    BY CacheAssumption
  <2>2. [source |-> source, dcps |-> TRUE] \in Key
    BY <2>1 DEF Key
  <2>3. QED
    BY <2>2
<1>2. (CHOOSE key \in Key : TRUE) \in Key
  BY <1>1
<1>3. Range(entries) = {} /\ DOMAIN entries = {} /\ entries \in Seq(Entry)
  BY EmptySeq DEF Init, Range
<1>4. /\ call \in [Thread -> Call]
      /\ \A t \in Thread : call[t].at = "idle" /\ call[t].ticket = NoTicket /\ call[t].began = 0
  BY <1>2 DEF Init, Call, Phase
<1>5. ScalarsInv
  BY DEF Init, ScalarsInv
<1>6. EntriesInv
  BY <1>3 DEF EntriesInv, Distinct
<1>7. ReadyWithinLimit
  <2>1. ReadyIn(entries) = {}
    BY <1>3 DEF ReadyIn
  <2>2. Cardinality(ReadyIn(entries)) = 0
    BY <2>1, FS_EmptySet
  <2>3. limit \in Nat
    BY CacheAssumption DEF Init
  <2>4. QED
    BY <2>2, <2>3 DEF ReadyWithinLimit, ReadyIn
<1>8. CallsInv
  BY <1>4 DEF CallsInv, Init
<1>9. OwnersInv
  BY <1>3, <1>4 DEF OwnersInv
<1>10. SleepersInv
  BY <1>4 DEF SleepersInv
<1>11. QED
  BY <1>5, <1>6, <1>7, <1>8, <1>9, <1>10 DEF IInv

(* Every step of every thread, and of the settings, preserves the invariant. *)
LEMMA NextPreserves ==
  ASSUME IInv, [Next]_vars
  PROVE  IInv'
<1>1. ASSUME NEW t \in Thread, Work(t)
      PROVE  IInv'
  BY <1>1, PeekStep, LookStep, DecodeEndsStep, FinishStep, DropStep DEF Work
<1>2. ASSUME NEW t \in Thread, TakeGate(t) \/ WakeSpuriously(t)
      PROVE  IInv'
  BY <1>2, TakeGateStep, WakeSpuriouslyStep
<1>3. ASSUME NEW t \in Thread, NEW key \in Key, Ask(t, key)
      PROVE  IInv'
  BY <1>3, AskStep
<1>4. ASSUME NEW n \in Limits, SetLimit(n)
      PROVE  IInv'
  BY <1>4, SetLimitStep
<1>5. CASE Clear
  BY <1>5, ClearStep
<1>6. CASE UNCHANGED vars
  BY <1>6 DEF vars, IInv, ScalarsInv, EntriesInv, ReadyWithinLimit, CallsInv, OwnersInv,
              SleepersInv, Decodes
<1>7. QED
  BY <1>1, <1>2, <1>3, <1>4, <1>5, <1>6 DEF Next

(* The invariant holds in every reachable state. *)
THEOREM Invariance == Spec => []IInv
<1>1. Init => IInv
  BY InitEstablishes
<1>2. IInv /\ [Next]_vars => IInv'
  BY NextPreserves
<1>3. QED
  BY <1>1, <1>2, PTL DEF Spec

(* The cache, its calls and the gate are well typed, and tickets to be given are in no entry. *)
THEOREM TypeCorrect == Spec => []TypeOK
<1>1. IInv => TypeOK
  <2> SUFFICES ASSUME IInv PROVE TypeOK
    OBVIOUS
  <2>1. \A i \in DOMAIN entries : entries[i].ticket < nextTicket
    BY Parts DEF IInv, EntriesInv
  <2>2. QED
    BY <2>1 DEF TypeOK, IInv, ScalarsInv, EntriesInv, CallsInv
<1>2. QED
  BY <1>1, Invariance, PTL

(* No more files are ready than the limit allows (evict_over_limit), also when a reservation
   made under a higher limit is filled. *)
THEOREM LimitHolds == Spec => []ReadyWithinLimit
<1>1. IInv => ReadyWithinLimit
  BY DEF IInv
<1>2. QED
  BY <1>1, Invariance, PTL

(* Two threads never decode one file with tickets of one epoch: the second would have found
   the first one's reservation, which only its owner or a clear removes. *)
THEOREM DecodesOnce == Spec => []SingleFlight
<1>1. IInv => SingleFlight
  <2>1. SUFFICES ASSUME IInv, NEW t \in Thread, NEW u \in Thread, t # u,
                        call[t].ticket # NoTicket, call[u].ticket # NoTicket,
                        call[t].began = epoch, call[u].began = epoch,
                        call[t].key = call[u].key
                 PROVE  FALSE
    BY DEF SingleFlight
  <2>2. PICK e \in Range(entries) : ~e.ready /\ e.ticket = call[t].ticket
    BY <2>1 DEF IInv, OwnersInv
  <2>3. PICK f \in Range(entries) : ~f.ready /\ f.ticket = call[u].ticket
    BY <2>1 DEF IInv, OwnersInv
  <2>4. e.key = f.key
    BY <2>1, <2>2, <2>3 DEF IInv, OwnersInv
  <2>5. PICK i \in DOMAIN entries, j \in DOMAIN entries : e = entries[i] /\ f = entries[j]
    BY DEF Range
  <2>6. i = j
    BY <2>1, <2>4, <2>5 DEF IInv, EntriesInv, Distinct
  <2>7. QED
    BY <2>1, <2>2, <2>3, <2>5, <2>6 DEF IInv, CallsInv
<1>2. QED
  BY <1>1, Invariance, PTL

(* A decode from before a clear is not kept, although its reservation's key may be reserved
   again. *)
THEOREM StaleDecodesGo == Spec => []NoStaleDecodeKept
<1>1. IInv => NoStaleDecodeKept
  BY Parts DEF IInv, EntriesInv, NoStaleDecodeKept
<1>2. QED
  BY <1>1, Invariance, PTL

(* No sleeper is forgotten: while a thread sleeps, another one has the ticket of the entry
   it waits for and will fill or drop it, with a notification. *)
SleepersHaveADecode ==
  \A t \in Thread : call[t].at = "asleep" =>
    \E u \in Thread : Decodes(u) /\ call[u].key = call[t].key /\ call[u].began = epoch

THEOREM NoSleeperForgotten == Spec => []SleepersHaveADecode
<1>1. IInv => SleepersHaveADecode
  <2>1. SUFFICES ASSUME IInv, NEW t \in Thread, call[t].at = "asleep"
                 PROVE  \E u \in Thread : Decodes(u) /\ call[u].key = call[t].key
                                          /\ call[u].began = epoch
    BY DEF SleepersHaveADecode
  <2>2. PICK e \in Range(entries) : ~e.ready /\ e.key = call[t].key
    BY <2>1 DEF IInv, SleepersInv
  <2>3. PICK u \in Thread : call[u].ticket = e.ticket
    BY <2>1, <2>2 DEF IInv, OwnersInv
  <2>4. call[u].ticket # NoTicket
    BY <2>1, <2>3, Parts
  <2>5. Decodes(u) /\ call[u].key = e.key /\ call[u].began = epoch
    BY <2>1, <2>2, <2>3, <2>4 DEF IInv, CallsInv, OwnersInv
  <2>6. QED
    BY <2>2, <2>5
<1>2. QED
  BY <1>1, Invariance, PTL

=============================================================================
