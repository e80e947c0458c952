-------------------------- MODULE DecodedRawCache --------------------------
(***************************************************************************)
(* The cache of decoded RAWs that document loads and the neighbour         *)
(* prefetch share (app/decoded_raw_cache.rs), with the decode gate its     *)
(* callers take.  Decodes are single-flight: a request for an entry that   *)
(* is being decoded waits on a condition variable.                         *)
(*                                                                         *)
(* Every action of a thread is one critical section of the cache's mutex,  *)
(* or one acquisition or release of the decode gate.  A decode is known by *)
(* the number of clears before it began, its epoch: settings that change   *)
(* what decodes produce clear the cache.                                   *)
(***************************************************************************)
EXTENDS Integers, Sequences, SequencesExt, FiniteSets, FiniteSetsExt

CONSTANTS
  Source,       \* the files
  Loader,       \* the document load threads, whose decodes run alone
  Prefetcher,   \* the prefetch threads, a cancelled one among them
  Limits,       \* the limits the settings offer
  MaxTickets,   \* bound: decodes are asked for while fewer tickets were given
  MaxClears     \* bound: the cache is cleared less often

ASSUME CacheAssumption ==
  /\ Source # {}
  /\ Loader \cap Prefetcher = {}
  /\ Limits \subseteq Nat /\ Limits # {}
  /\ MaxTickets \in Nat
  /\ MaxClears \in Nat

Thread == Loader \cup Prefetcher

\* A decode for a key with `dcps` read the calibration signature, so it serves
\* the requests of both keys of its source.
Key == [source : Source, dcps : BOOLEAN]
Matching(key) == [key EXCEPT !.dcps = TRUE]

NoTicket == -1

VARIABLES
  limit,
  nextTicket,
  entries,    \* least recently used first: [key, ready, ticket, epoch]
  call,       \* call[t]: what thread t asks for and how far it is
  poisoned,   \* a decode panicked while it held the gate for writing
  epoch       \* history: how often the cache was cleared

vars == <<limit, nextTicket, entries, call, poisoned, epoch>>

\* A reservation holds the ticket of its decode, a ready entry that decode's epoch.
Entry == [key : Key, ready : BOOLEAN, ticket : Nat, epoch : Nat]

Phase == {"idle", "peeking", "looking", "asleep", "gate", "decoding", "decoded",
          "failed", "done", "refused"}

\* `began` is the epoch its decode began in.
\* A decode reads the profiles after it reserved its entry: one that reserves
\* after a clear is fresh, whatever settings its request was made under.
Call == [at : Phase, key : Key, ticket : Nat \cup {NoTicket}, began : Nat]

Positions(key) == {i \in DOMAIN entries : entries[i].key = key}
ReadyAt(key) == {i \in Positions(key) : entries[i].ready}

-----------------------------------------------------------------------------
(* CacheState *)

\* mark_used
MarkUsed(queue, i) == Append(RemoveAt(queue, i), queue[i])

\* Mutant of EvictOne: a limit of n keeps n + 1 files.
EvictLate(queue, n) ==
  LET ready == {i \in DOMAIN queue : queue[i].ready}
  IN IF Len(queue) > n + 1 /\ ready # {} THEN RemoveAt(queue, Min(ready)) ELSE queue

\* evict_over_limit: the least recently used ready entry goes, until the limit
\* holds or only reservations are left.
EvictOne(queue, n) ==
  LET ready == {i \in DOMAIN queue : queue[i].ready}
  IN IF Len(queue) > n /\ ready # {} THEN RemoveAt(queue, Min(ready)) ELSE queue

Evicted(queue, n) == FoldLeft(LAMBDA q, entry : EvictOne(q, n), queue, queue)

\* Mutant of PositionOfTicket: any reservation for the same file and kind.
AnyReservation(ticket) ==
  {i \in DOMAIN entries :
     ~entries[i].ready /\ \E t \in Thread : call[t].ticket = ticket
                                            /\ call[t].key = entries[i].key}

\* position_of_ticket
PositionOfTicket(ticket) ==
  {i \in DOMAIN entries : ~entries[i].ready /\ entries[i].ticket = ticket}

\* Mutant of Awake: nobody is woken.
NobodyWakes == call

\* notify_all
Awake == [t \in Thread |-> IF call[t].at = "asleep"
                           THEN [call[t] EXCEPT !.at = "looking"] ELSE call[t]]

-----------------------------------------------------------------------------
(* The threads. *)

Answered(t) == [call EXCEPT ![t].at = "done"]

\* decode_cached: a request for the embedded matrix first tries the decode that
\* can match DCPs.
Ask(t, key) ==
  /\ call[t].at \in {"idle", "done", "refused"}
  /\ nextTicket < MaxTickets
  /\ call' = [call EXCEPT ![t] =
       [at |-> IF key.dcps THEN "looking" ELSE "peeking", key |-> key,
        ticket |-> NoTicket, began |-> epoch]]
  /\ UNCHANGED <<limit, nextTicket, entries, poisoned, epoch>>

\* get_ready
Peek(t) ==
  /\ call[t].at = "peeking"
  /\ \/ \E i \in ReadyAt(Matching(call[t].key)) :
          call' = Answered(t) /\ entries' = MarkUsed(entries, i)
     \/ /\ ReadyAt(Matching(call[t].key)) = {}
        /\ call' = [call EXCEPT ![t].at = "looking"]
        /\ UNCHANGED entries
  /\ UNCHANGED <<limit, nextTicket, poisoned, epoch>>

\* The loop of get_or_decode: take a ready entry, wait for a decode in progress,
\* or reserve an entry (begin_decoding) unless caching is off.
TakeReady(t) ==
  \E i \in ReadyAt(call[t].key) :
    /\ call' = Answered(t)
    /\ entries' = MarkUsed(entries, i)
    /\ UNCHANGED nextTicket

\* Mutant of Wait: a decode in progress is not waited for.
WaitForReady(t) ==
  /\ Positions(call[t].key) # {} /\ ReadyAt(call[t].key) = {}
  /\ call' = [call EXCEPT ![t].at = "gate", ![t].began = epoch, ![t].ticket = nextTicket]
  /\ nextTicket' = nextTicket + 1
  /\ entries' = Append(entries, [key |-> call[t].key, ready |-> FALSE,
                                 ticket |-> nextTicket, epoch |-> epoch])

Wait(t) ==
  /\ Positions(call[t].key) # {} /\ ReadyAt(call[t].key) = {}
  /\ call' = [call EXCEPT ![t].at = "asleep"]
  /\ UNCHANGED <<entries, nextTicket>>

BeginDecoding(t) ==
  /\ Positions(call[t].key) = {}
  /\ IF limit = 0
     THEN /\ call' = [call EXCEPT ![t].at = "gate", ![t].began = epoch]
          /\ UNCHANGED <<entries, nextTicket>>
     ELSE /\ call' = [call EXCEPT ![t].at = "gate", ![t].began = epoch,
                                  ![t].ticket = nextTicket]
          /\ entries' = Append(entries, [key |-> call[t].key, ready |-> FALSE,
                                         ticket |-> nextTicket, epoch |-> epoch])
          /\ nextTicket' = nextTicket + 1

Look(t) ==
  /\ call[t].at = "looking"
  /\ TakeReady(t) \/ Wait(t) \/ BeginDecoding(t)
  /\ UNCHANGED <<limit, poisoned, epoch>>

\* A condition variable may wake without a notification.
WakeSpuriously(t) ==
  /\ call[t].at = "asleep"
  /\ call' = [call EXCEPT ![t].at = "looking"]
  /\ UNCHANGED <<limit, nextTicket, entries, poisoned, epoch>>

\* The decode gate: a load's decode runs alone, prefetch decodes share it.  A
\* poisoned gate refuses every decode.
Decoding == {t \in Thread : call[t].at = "decoding"}
GateIsFree(t) == IF t \in Loader THEN Decoding = {} ELSE Decoding \cap Loader = {}

TakeGate(t) ==
  /\ call[t].at = "gate"
  /\ GateIsFree(t)
  /\ call' = [call EXCEPT ![t].at = IF poisoned THEN "failed" ELSE "decoding"]
  /\ UNCHANGED <<limit, nextTicket, entries, poisoned, epoch>>

\* The decode ends and releases the gate: with a RAW, an error or a panic.
DecodeEnds(t) ==
  /\ call[t].at = "decoding"
  /\ \/ call' = [call EXCEPT ![t].at = "decoded"] /\ UNCHANGED poisoned
     \/ /\ call' = [call EXCEPT ![t].at = "failed"]
        /\ poisoned' \in {poisoned, poisoned \/ t \in Loader}
  /\ UNCHANGED <<limit, nextTicket, entries, epoch>>

\* PendingDecode::finish
Finish(t) ==
  LET at == PositionOfTicket(call[t].ticket)
  IN /\ call[t].at = "decoded"
     /\ IF call[t].ticket = NoTicket
        THEN call' = [call EXCEPT ![t].at = "done"] /\ UNCHANGED entries
        ELSE /\ call' = [Awake EXCEPT ![t].at = "done", ![t].ticket = NoTicket]
             /\ \/ at = {} /\ UNCHANGED entries
                \/ \E i \in at :
                     entries' = Evicted(MarkUsed([entries EXCEPT
                                  ![i].ready = TRUE, ![i].epoch = call[t].began], i), limit)
     /\ UNCHANGED <<limit, nextTicket, poisoned, epoch>>

\* PendingDecode::drop, unfinished
Drop(t) ==
  LET at == PositionOfTicket(call[t].ticket)
  IN /\ call[t].at = "failed"
     /\ IF call[t].ticket = NoTicket
        THEN call' = [call EXCEPT ![t].at = "refused"] /\ UNCHANGED entries
        ELSE /\ call' = [Awake EXCEPT ![t].at = "refused", ![t].ticket = NoTicket]
             /\ \/ at = {} /\ UNCHANGED entries
                \/ \E i \in at : entries' = RemoveAt(entries, i)
     /\ UNCHANGED <<limit, nextTicket, poisoned, epoch>>

-----------------------------------------------------------------------------
(* The settings. *)

SetLimit(n) ==
  /\ n # limit
  /\ limit' = n
  /\ entries' = Evicted(entries, n)
  /\ UNCHANGED <<nextTicket, call, poisoned, epoch>>

Clear ==
  /\ epoch < MaxClears
  /\ entries' = <<>>
  /\ call' = Awake
  /\ epoch' = epoch + 1
  /\ UNCHANGED <<limit, nextTicket, poisoned>>

-----------------------------------------------------------------------------
Init ==
  /\ limit \in Limits
  /\ nextTicket = 0
  /\ entries = <<>>
  /\ call = [t \in Thread |-> [at |-> "idle", key |-> CHOOSE key \in Key : TRUE,
                              ticket |-> NoTicket, began |-> 0]]
  /\ poisoned = FALSE
  /\ epoch = 0

Work(t) == Peek(t) \/ Look(t) \/ DecodeEnds(t) \/ Finish(t) \/ Drop(t)

Next ==
  \/ \E t \in Thread : Work(t) \/ TakeGate(t) \/ WakeSpuriously(t)
  \/ \E t \in Thread, key \in Key : Ask(t, key)
  \/ \E n \in Limits : SetLimit(n)
  \/ Clear

Spec == Init /\ [][Next]_vars

\* Threads run and decodes end.  The gate is a queued lock, which lets every
\* thread that waits for it in.  Only MaxTickets decodes are asked for: a waiter
\* may be overtaken by each new request that clears keep from being answered.
FairSpec == Spec /\ \A t \in Thread : WF_vars(Work(t)) /\ SF_vars(TakeGate(t))

-----------------------------------------------------------------------------
\* Types, and the ticket of an entry is none that is yet to be given.
TypeOK ==
  /\ limit \in Limits
  /\ nextTicket \in Nat
  /\ entries \in Seq(Entry)
  /\ \A i \in DOMAIN entries : entries[i].ticket < nextTicket
  /\ call \in [Thread -> Call]
  /\ poisoned \in BOOLEAN
  /\ epoch \in Nat

\* No more decoded files than the limit, also when a reservation made under a higher
\* limit is filled.
ReadyWithinLimit ==
  Cardinality({i \in DOMAIN entries : entries[i].ready}) <= limit

\* A thread that will end its reservation, with or without a RAW.
Decodes(t) == call[t].at \in {"gate", "decoding", "decoded", "failed"}

\* A file is decoded once at a time while the settings stay and caching is on.
SingleFlight ==
  \A t, u \in Thread :
    /\ t # u /\ Decodes(t) /\ Decodes(u)
    /\ call[t].ticket # NoTicket /\ call[u].ticket # NoTicket
    /\ call[t].began = epoch /\ call[u].began = epoch
    => call[t].key # call[u].key

\* A decode from before a clear is not kept ("decodes in flight finish for their
\* callers but are not kept"): its ticket must not fill a newer reservation.
NoStaleDecodeKept ==
  \A i \in DOMAIN entries : entries[i].ready => entries[i].epoch = epoch


\* Every request ends, however decodes fail, the cache is cleared and the limit
\* changes; decodes end and the gate is passed on.
EveryRequestEnds ==
  \A t \in Thread : call[t].at \notin {"idle", "done", "refused"}
                     ~> call[t].at \in {"done", "refused"}

=============================================================================
