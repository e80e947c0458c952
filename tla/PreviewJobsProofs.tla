------------------------- MODULE PreviewJobsProofs -------------------------
(***************************************************************************)
(* What the three renders of the canvas hold of the edit, for any number    *)
(* of edits and photos, any stages they start at and any failures: each     *)
(* graph holds the edit up to the first stage it owes, and a picture of the *)
(* whole photo is only shown for the fitted output it was rendered beside.  *)
(***************************************************************************)
EXTENDS PreviewJobs, SequenceTheorems, TLAPS

-----------------------------------------------------------------------------
(* Stages and buffers *)

EditType == [1..4 -> Nat]
Buffers == [Raw..Done -> Seq(Nat)]

(* Of two stages the earlier one is owed. *)
LEMMA EarlierIs ==
  ASSUME NEW s \in Raw..Done, NEW t \in Raw..Done
  PROVE  /\ Earlier(s, t) \in Raw..Done
         /\ Earlier(s, t) <= s /\ Earlier(s, t) <= t
         /\ Earlier(s, t) = s \/ Earlier(s, t) = t
         /\ Earlier(s, Done) = s /\ Earlier(Done, s) = s
         /\ \A k \in Nat : k <= s /\ k <= t => k <= Earlier(s, t)
  BY DEF Earlier, Raw, Done

(* The edit as a sequence. *)
LEMMA EditIs ==
  ASSUME NEW e \in EditType
  PROVE  /\ e \in Seq(Nat) /\ Len(e) = 4
         /\ SubSeq(e, 1, Done) = e
         /\ SubSeq(e, 1, Raw) = <<e[1]>>
         /\ \A j, k \in Raw..Done : SubSeq(e, j, k) \in Seq(Nat)
<1>1. e \in Seq(Nat) /\ Len(e) = 4
  <2>1. e \in Seq(Nat)
    BY SeqDef DEF EditType
  <2>2. QED
    BY <2>1, LenProperties DEF EditType
<1>2. SubSeq(e, 1, Done) = e
  BY <1>1, SubSeqFull DEF Done
<1>3. SubSeq(e, 1, Raw) = <<e[1]>>
  <2>1. /\ SubSeq(e, 1, 1) \in Seq(Nat) /\ Len(SubSeq(e, 1, 1)) = 1
        /\ SubSeq(e, 1, 1)[1] = e[1]
    BY SubSeqProperties DEF EditType
  <2>2. <<e[1]>> \in Seq(Nat) /\ Len(<<e[1]>>) = 1 /\ <<e[1]>>[1] = e[1]
    BY DEF EditType
  <2>3. SubSeq(e, 1, 1) = <<e[1]>>
    <3> DEFINE s == SubSeq(e, 1, 1)
               t == <<e[1]>>
    <3>1. s \in Seq(Nat) /\ t \in Seq(Nat) /\ Len(s) = Len(t) /\ Len(s) = 1 /\ s[1] = t[1]
      BY <2>1, <2>2
    <3> HIDE DEF s, t
    <3>2. \A i \in 1..Len(s) : s[i] = t[i]
      BY <3>1
    <3>3. s = t
      BY <3>1, <3>2, SeqEqual
    <3>4. QED
      BY <3>3 DEF s, t
  <2>4. QED
    BY <2>3 DEF Raw
<1>4. ASSUME NEW j \in Raw..Done, NEW k \in Raw..Done PROVE SubSeq(e, j, k) \in Seq(Nat)
  BY SubSeqProperties DEF EditType, Raw, Done
<1>5. QED
  BY <1>1, <1>2, <1>3, <1>4

(* An edit of a later stage leaves what the earlier ones read. *)
LEMMA PrefixStays ==
  ASSUME NEW e \in EditType, NEW f \in EditType, NEW k \in Raw..Done,
         \A j \in 1..k : e[j] = f[j]
  PROVE  SubSeq(e, 1, k) = SubSeq(f, 1, k)
<1>1. /\ SubSeq(e, 1, k) \in Seq(Nat) /\ Len(SubSeq(e, 1, k)) = k
      /\ \A j \in 1..k : SubSeq(e, 1, k)[j] = e[j]
  BY SubSeqProperties DEF EditType, Raw, Done
<1>2. /\ SubSeq(f, 1, k) \in Seq(Nat) /\ Len(SubSeq(f, 1, k)) = k
      /\ \A j \in 1..k : SubSeq(f, 1, k)[j] = f[j]
  BY SubSeqProperties DEF EditType, Raw, Done
<1>3. QED
  BY <1>1, <1>2, SeqEqual

(* A stage renders onto what the stages before it left. *)
LEMMA RenderedIs ==
  ASSUME NEW buf \in Buffers, NEW first \in Raw..Output, NEW last \in 0..Output,
         NEW e \in EditType,
         NEW r, r = Rendered(buf, first, last, e)
  PROVE  /\ r \in Buffers
         /\ \A k \in Raw..Done : k \notin (first + 1)..(last + 1) => r[k] = buf[k]
         /\ buf[first] = SubSeq(e, 1, first) =>
              \A k \in (first + 1)..(last + 1) : r[k] = SubSeq(e, 1, k)
<1>1. first \in Raw..Done /\ (first + 1)..(last + 1) \subseteq Raw..Done
  BY DEF Raw, Output, Done
<1>2. \A k \in Raw..Done :
        r[k] = IF k \in (first + 1)..(last + 1) THEN buf[first] \o SubSeq(e, first + 1, k)
               ELSE buf[k]
  BY DEF Rendered
<1>3. ASSUME NEW k \in (first + 1)..(last + 1)
      PROVE  /\ buf[first] \o SubSeq(e, first + 1, k) \in Seq(Nat)
             /\ buf[first] = SubSeq(e, 1, first) =>
                  buf[first] \o SubSeq(e, first + 1, k) = SubSeq(e, 1, k)
  <2>1. k \in Raw..Done /\ first + 1 \in Raw..Done
    BY DEF Raw, Output, Done
  <2>2. SubSeq(e, first + 1, k) \in Seq(Nat) /\ e \in Seq(Nat) /\ Len(e) = 4
    BY <2>1, EditIs
  <2>3. buf[first] \in Seq(Nat)
    BY <1>1 DEF Buffers
  <2>4. buf[first] \o SubSeq(e, first + 1, k) \in Seq(Nat)
    BY <2>2, <2>3, ConcatProperties
  <2>5. 1 \in 1..Len(e) + 1 /\ first \in 1 - 1..Len(e) /\ k \in first..Len(e)
    BY <2>1, <2>2 DEF Raw, Output, Done
  <2>6. SubSeq(e, 1, first) \o SubSeq(e, first + 1, k) = SubSeq(e, 1, k)
    BY <2>2, <2>5, ConcatAdjacentSubSeq
  <2>7. QED
    BY <2>4, <2>6
<1>4. \A k \in Raw..Done : r[k] \in Seq(Nat)
  BY <1>2, <1>3 DEF Buffers
<1>5. r \in Buffers
  BY <1>4 DEF Buffers, Rendered
<1>6. QED
  BY <1>1, <1>2, <1>3, <1>5

(* Nothing was rendered into the buffers of no graph. *)
LEMMA NoBuffersIs == NoBuffers \in Buffers
<1> DEFINE b == <<>>
<1>1. b \in Seq(Nat)
  BY EmptySeq
<1> HIDE DEF b
<1>2. << b, b, b, b >> \in [1..4 -> Seq(Nat)]
  BY <1>1
<1>3. QED
  BY <1>2 DEF b, NoBuffers, Buffers, Raw, Done

(* A new graph was only given the photo, and one that was built holds the whole edit. *)
LEMMA AllRenderedIs ==
  ASSUME NEW e \in EditType
  PROVE  /\ Unrendered(e[1]) \in Buffers /\ Unrendered(e[1])[Raw] = SubSeq(e, 1, Raw)
         /\ AllRendered(e) \in Buffers
         /\ \A k \in Raw..Done : AllRendered(e)[k] = SubSeq(e, 1, k)
<1>1. Unrendered(e[1]) \in Buffers
  <2>1. <<e[1]>> \in Seq(Nat) /\ <<>> \in Seq(Nat)
    BY EmptySeq DEF EditType
  <2>2. << <<e[1]>>, <<>>, <<>>, <<>> >> \in [1..4 -> Seq(Nat)]
    <3> DEFINE a == <<e[1]>>
               b == <<>>
    <3>1. a \in Seq(Nat) /\ b \in Seq(Nat)
      BY <2>1
    <3> HIDE DEF a, b
    <3>2. << a, b, b, b >> \in [1..4 -> Seq(Nat)]
      BY <3>1
    <3>3. QED
      BY <3>2 DEF a, b
  <2>3. QED
    BY <2>2 DEF Unrendered, Buffers, Raw, Done
<1>2. Unrendered(e[1])[Raw] = SubSeq(e, 1, Raw)
  BY EditIs DEF Unrendered, Raw
<1>3. Raw \in Raw..Output /\ Output \in 0..Output /\ Raw + 1..Output + 1 = Raw..Done \ {Raw}
  BY DEF Raw, Output, Done
<1>4. /\ AllRendered(e) \in Buffers
      /\ \A k \in Raw..Done : k \notin (Raw + 1)..(Output + 1) => AllRendered(e)[k] = Unrendered(e[1])[k]
      /\ \A k \in (Raw + 1)..(Output + 1) : AllRendered(e)[k] = SubSeq(e, 1, k)
  <2>1. /\ AllRendered(e) = Rendered(Unrendered(e[1]), Raw, Output, e)
        /\ Raw \in Raw..Output /\ Output \in 0..Output
    BY <1>3 DEF AllRendered
  <2> DEFINE r == AllRendered(e)
             u == Unrendered(e[1])
  <2>2. u \in Buffers /\ u[Raw] = SubSeq(e, 1, Raw) /\ r = Rendered(u, Raw, Output, e)
    BY <1>1, <1>2, <2>1
  <2> HIDE DEF r, u
  <2>3. ASSUME NEW first \in Raw..Output, NEW last \in 0..Output, first = Raw, last = Output
        PROVE  /\ r \in Buffers
               /\ \A k \in Raw..Done : k \notin (first + 1)..(last + 1) => r[k] = u[k]
               /\ u[first] = SubSeq(e, 1, first) =>
                    \A k \in (first + 1)..(last + 1) : r[k] = SubSeq(e, 1, k)
    <3>1. r = Rendered(u, first, last, e)
      BY <2>2, <2>3
    <3>2. QED
      BY <2>2, <3>1, RenderedIs
  <2>4. QED
    BY <2>1, <2>2, <2>3 DEF r, u
<1>5. QED
  BY <1>1, <1>2, <1>3, <1>4

-----------------------------------------------------------------------------
(* The inductive invariant *)

GraphType == [id : Nat, edge : Nat, revision : Nat, buf : Buffers]
RebuildType == [state : {"none", "running", "done", "failed"}, photo : Nat, edge : Nat]
PreviewType ==
  [graph : GraphType, builds : Nat, loaded : BOOLEAN, pending : Raw..Done, lost : Raw..Done,
   dirty : BOOLEAN, shrink : BOOLEAN, rebuild : RebuildType]

(* The fitted graph holds the edit up to the first stage that it owes or that failed; only the
   photo of a loaded pipeline is rebuilt. *)
PreviewFits(v, e) ==
  /\ v \in PreviewType
  /\ v.graph.id <= v.builds
  /\ v.rebuild.state # "none" => v.loaded
  /\ v.graph.id # 0 =>
       \A k \in Raw..Earlier(v.pending, v.lost) : v.graph.buf[k] = SubSeq(e, 1, k)

ReducedType == [source : Nat, rendered : BOOLEAN, buf : Buffers]
WarmType == [source : Nat, state : {"none", "running", "done", "died"}]
InterType ==
  [graph : ReducedType, warm : WarmType, failedFor : Nat,
   phase : {"idle", "dragging", "settling"}, following : BOOLEAN,
   edited : Raw..Done, pending : Raw..Done, synced : BOOLEAN]

(* The reduced graph is of the fitted one, has the photo, and while it is in step with the edits
   holds them up to the first stage it owes or (`stage`) has yet to hear of; else it owes them
   all. *)
Holds(i, stage, v, e) ==
  /\ i \in InterType
  /\ (i.phase # "idle" \/ i.following \/ i.pending # Done) => i.graph.source # 0
  /\ i.graph.source # 0 =>
       i.graph.source = v.graph.id /\ i.graph.buf[Raw] = SubSeq(e, 1, Raw)
  /\ i.graph.source # 0 /\ i.synced =>
       \A k \in Raw..Earlier(i.pending, stage) : i.graph.buf[k] = SubSeq(e, 1, k)
  /\ ~i.synced /\ i.pending # Done => i.pending = Raw

InterFits(i, v, e) == Holds(i, i.edited, v, e)

OutputType == Nat \X Nat
RunType ==
  [state : {"none", "running", "done", "failed"}, output : OutputType, photo : Nat,
   picture : Seq(Nat), cancel : BOOLEAN]
ImageType == [output : OutputType, photo : Nat, picture : Seq(Nat)]
FullType ==
  [enabled : BOOLEAN, running : RunType, image : ImageType, seen : OutputType,
   still : BOOLEAN, gaveUpFor : Nat]

(* A full-resolution picture belongs to an output the fitted preview has had; if it still has
   that output and owes nothing, the picture is of the edit. *)
Shows(x, v, e) ==
  \/ x.output[1] = 0
  \/ /\ x.output[1] <= v.builds
     /\ x.output[1] = v.graph.id => x.output[2] <= v.graph.revision
     /\ (/\ x.output = <<v.graph.id, v.graph.revision>> /\ x.photo = e[1]
         /\ v.pending = Done /\ v.lost = Done)
          => x.picture = e

FullFits(f, v, e) == f \in FullType /\ Shows(f.image, v, e) /\ Shows(f.running, v, e)

LoadingType == [state : {"none", "running", "done", "failed"}, edge : Nat]

Others ==
  /\ at \in {"idle", "poll", "views", "follow", "dispatch", "whole"}
  /\ repaint \in 0..2 /\ alarm \in BOOLEAN
  /\ edit \in EditType
  /\ slow \in BOOLEAN /\ dragging \in BOOLEAN
  /\ gate \in {"open", "busy", "finished"}
  /\ age \in 0..Over
  /\ loading \in LoadingType
  /\ want \in Edges
  /\ acts \in 0..MaxActs

(* A frame has told the reduced preview of its edits by the time it renders, and paints what it
   chose before it ends. *)
Steps ==
  /\ at \in {"idle", "poll", "dispatch", "whole"} => inter.edited = Done
  /\ chosen.kind = "whole" => at \in {"follow", "dispatch"}
  /\ WholeIsOfTheEdit

IInv ==
  /\ PreviewFits(preview, edit) /\ InterFits(inter, preview, edit) /\ FullFits(full, preview, edit)
  /\ Others /\ Steps

-----------------------------------------------------------------------------
(* The reduced preview *)

(* Without a graph the reduced preview owes nothing. *)
LEMMA ResetFits ==
  ASSUME NEW i \in InterType, NEW stage, NEW v, NEW e,
         NEW r, r = Reset(i)
  PROVE  /\ Holds(r, stage, v, e)
         /\ r.edited = i.edited /\ r.failedFor = i.failedFor
         /\ r.graph.source = 0 /\ r.phase = "idle" /\ ~r.following /\ r.pending = Done
         /\ r.warm = NoWarm
<1>1. NoReduced \in ReducedType /\ NoWarm \in WarmType
  <2>1. NoBuffers \in Buffers
    BY NoBuffersIs
  <2>2. QED
    BY <2>1 DEF NoReduced, NoWarm, ReducedType, WarmType
<1>2. Done \in Raw..Done
  BY DEF Raw, Done
<1>3. /\ r \in InterType
      /\ r.graph = NoReduced /\ r.warm = NoWarm /\ r.phase = "idle" /\ ~r.following
      /\ r.pending = Done /\ ~r.synced /\ r.edited = i.edited /\ r.failedFor = i.failedFor
  BY <1>1, <1>2 DEF Reset, InterType
<1>4. r.graph.source = 0
  BY <1>3 DEF NoReduced
<1>5. QED
  BY <1>3, <1>4 DEF Holds

(* Another worker's state, another failure remembered: the graph stays. *)
LEMMA WarmFits ==
  ASSUME NEW i \in InterType, NEW stage, NEW v, NEW e, Holds(i, stage, v, e),
         NEW r \in InterType, r.graph = i.graph, r.phase = i.phase, r.following = i.following,
         r.pending = i.pending, r.synced = i.synced
  PROVE  Holds(r, stage, v, e)
  BY DEF Holds

(* What maintain_interactive_graph leaves still fits, and it keeps or makes a graph only where
   one is wanted. *)
LEMMA MaintainedFits ==
  ASSUME PreviewFits(preview, edit), edit \in EditType,
         NEW i \in InterType, NEW stage \in Raw..Done, Holds(i, stage, preview, edit),
         NEW wanted \in BOOLEAN, wanted => HasPipeline,
         NEW m \in Maintained(i, wanted)
  PROVE  /\ Holds(m, stage, preview, edit) /\ m.edited = i.edited
         /\ m.graph.source # 0 => wanted /\ m.phase = i.phase
         /\ m.failedFor # i.failedFor /\ i.warm.state # "died" => acts < MaxActs
<1> DEFINE source == preview.graph.id
           kept == IF i.graph.source \notin {0, source} THEN Reset(i) ELSE i
           k == IF kept.warm.source = source THEN kept
                ELSE [kept EXCEPT !.warm = NoWarm]
           failed == [k EXCEPT !.warm = NoWarm, !.failedFor = source]
           built == [k EXCEPT
                       !.warm = NoWarm,
                       !.graph = [source |-> source, rendered |-> FALSE,
                                  buf |-> Unrendered(Photo)],
                       !.synced = FALSE]
           started == [k EXCEPT !.warm = [source |-> source, state |-> "running"]]
<1>1. source \in Nat /\ NoWarm \in WarmType /\ NoWarm.source = 0 /\ NoWarm.state = "none"
  BY DEF PreviewFits, PreviewType, GraphType, NoWarm, WarmType
<1>2. CASE ~wanted
  <2>1. m = Reset(i) \/ (m = i /\ i.graph.source = 0)
    BY <1>2 DEF Maintained
  <2>2. QED
    BY <2>1, ResetFits
<1>3. CASE wanted
  <2>1. source # 0
    BY <1>3 DEF HasPipeline
  <2>2. \/ m = k
        \/ m = failed /\ k.warm.state = "died"
        \/ m = failed /\ acts < MaxActs
        \/ m = built /\ k.graph.source = 0 /\ k.warm.state = "done"
        \/ m = started /\ k.graph.source = 0
    BY <1>3 DEF Maintained, Failures, MayFail
  <2>3. /\ kept \in InterType /\ Holds(kept, stage, preview, edit)
        /\ kept.edited = i.edited /\ kept.failedFor = i.failedFor
        /\ kept = i \/ (kept.warm = NoWarm /\ kept.graph.source = 0)
        /\ kept.graph.source # 0 => kept = i
    BY ResetFits DEF Holds
  <2> HIDE DEF kept
  <2>4. /\ k \in InterType
        /\ k.graph = kept.graph /\ k.phase = kept.phase /\ k.following = kept.following
        /\ k.pending = kept.pending /\ k.synced = kept.synced
        /\ k.edited = kept.edited /\ k.failedFor = kept.failedFor
        /\ k.warm = kept.warm \/ k.warm = NoWarm
    BY <1>1, <2>3 DEF InterType
  <2> HIDE DEF k
  <2>5. /\ Holds(k, stage, preview, edit)
        /\ k.edited = i.edited /\ k.failedFor = i.failedFor
        /\ k.graph.source # 0 => k.phase = i.phase
        /\ k.warm.state \in {"died", "done"} => k.warm = i.warm /\ kept = i
    BY <1>1, <2>3, <2>4, WarmFits
  <2>6. CASE m = k
    BY <1>3, <2>5, <2>6
  <2>7. CASE m = failed /\ (k.warm.state = "died" \/ acts < MaxActs)
    <3>1. /\ m \in InterType
          /\ m.graph = k.graph /\ m.phase = k.phase /\ m.following = k.following
          /\ m.pending = k.pending /\ m.synced = k.synced /\ m.edited = k.edited
      BY <1>1, <2>4, <2>7 DEF InterType
    <3>2. Holds(m, stage, preview, edit)
      BY <2>4, <2>5, <3>1, WarmFits
    <3>3. i.warm.state # "died" => acts < MaxActs
      BY <2>5, <2>7
    <3>4. QED
      BY <1>3, <2>5, <3>1, <3>2, <3>3
  <2>8. CASE m = started /\ k.graph.source = 0
    <3>1. [source |-> source, state |-> "running"] \in WarmType
      BY <1>1 DEF WarmType
    <3>2. /\ m \in InterType
          /\ m.graph = k.graph /\ m.phase = k.phase /\ m.following = k.following
          /\ m.pending = k.pending /\ m.synced = k.synced /\ m.edited = k.edited
          /\ m.failedFor = k.failedFor
      BY <2>4, <2>8, <3>1 DEF InterType
    <3>3. Holds(m, stage, preview, edit)
      BY <2>4, <2>5, <3>2, WarmFits
    <3>4. QED
      BY <1>3, <2>5, <3>2, <3>3
  <2>9. CASE m = built /\ k.graph.source = 0 /\ k.warm.state = "done"
    <3> DEFINE graph == [source |-> source, rendered |-> FALSE, buf |-> Unrendered(Photo)]
    <3>1. /\ Unrendered(Photo) \in Buffers
          /\ Unrendered(Photo)[Raw] = SubSeq(edit, 1, Raw)
      BY AllRenderedIs DEF Photo
    <3>2. graph \in ReducedType /\ graph.source = source /\ graph.buf[Raw] = SubSeq(edit, 1, Raw)
      BY <1>1, <3>1 DEF ReducedType
    <3>3. m = [k EXCEPT !.warm = NoWarm, !.graph = graph, !.synced = FALSE]
      BY <2>9
    <3> HIDE DEF graph
    <3>4. /\ m \in InterType
          /\ m.graph = graph /\ m.phase = k.phase /\ m.following = k.following
          /\ m.pending = k.pending /\ m.synced = FALSE /\ m.edited = k.edited
          /\ m.failedFor = k.failedFor
      BY <1>1, <2>4, <3>2, <3>3 DEF InterType
    <3>5. m.pending = Done
      BY <2>5, <2>9, <3>4 DEF Holds
    <3>6. Holds(m, stage, preview, edit)
      BY <2>1, <3>2, <3>4, <3>5 DEF Holds
    <3>7. k.phase = i.phase
      BY <2>4, <2>5, <2>9
    <3>8. QED
      BY <1>3, <2>5, <3>4, <3>6, <3>7
  <2>10. QED
    BY <2>2, <2>6, <2>7, <2>8, <2>9
<1>4. QED
  BY <1>2, <1>3

(* Entering a phase tells the reduced preview of the frame's edits. *)
LEMMA EnterFits ==
  ASSUME NEW i \in InterType, NEW stage \in Raw..Done, NEW v, NEW e, Holds(i, stage, v, e),
         NEW phase \in {"idle", "dragging", "settling"}, NEW following \in BOOLEAN,
         phase # "idle" \/ following => i.graph.source # 0,
         NEW r, r = Enter(i, phase, following, stage)
  PROVE  /\ Holds(r, Done, v, e) /\ r.edited = i.edited /\ r.failedFor = i.failedFor
         /\ r.graph = i.graph /\ r.warm = i.warm /\ r.phase = phase
<1> DEFINE entering == phase = "dragging" /\ i.phase # "dragging"
           pending == IF ~following THEN Done
                      ELSE IF ~i.synced /\ (entering \/ stage # Done) THEN Raw
                      ELSE Earlier(i.pending, stage)
           synced == i.synced /\ (following \/ (stage = Done /\ i.pending = Done))
<1>1. i.pending \in Raw..Done /\ Raw \in Raw..Done /\ Done \in Raw..Done /\ i.synced \in BOOLEAN
  BY DEF InterType, Raw, Done
<1>2. Earlier(i.pending, stage) \in Raw..Done
  BY <1>1, EarlierIs
<1>3. pending \in Raw..Done /\ synced \in BOOLEAN
  BY <1>1, <1>2
<1>4. r = [i EXCEPT !.phase = phase, !.following = following, !.pending = pending,
                    !.synced = synced]
  BY DEF Enter
<1>5. /\ ~following => pending = Done
      /\ following /\ ~i.synced => pending \in {Raw, Done}
      /\ following /\ i.synced => pending = Earlier(i.pending, stage)
      /\ synced => i.synced /\ (following \/ (stage = Done /\ i.pending = Done))
      /\ following /\ i.synced => synced
  <2>1. following /\ ~i.synced /\ stage = Done => Earlier(i.pending, stage) = i.pending
    BY <1>1, EarlierIs
  <2>2. ~i.synced => i.pending \in {Raw, Done}
    BY DEF Holds
  <2>3. QED
    BY <2>1, <2>2
<1> HIDE DEF pending, synced
<1>6. /\ r \in InterType /\ r.phase = phase /\ r.following = following /\ r.pending = pending
      /\ r.synced = synced /\ r.graph = i.graph /\ r.edited = i.edited /\ r.warm = i.warm
      /\ r.failedFor = i.failedFor
  BY <1>3, <1>4 DEF InterType
<1>7. Earlier(pending, Done) = pending /\ Earlier(Done, Done) = Done
  BY <1>1, <1>3, EarlierIs
<1>8. r.graph.source # 0 /\ r.synced =>
        \A k \in Raw..Earlier(r.pending, Done) : r.graph.buf[k] = SubSeq(e, 1, k)
  <2>1. synced => pending = Earlier(i.pending, stage)
    BY <1>5, <1>7
  <2>2. QED
    BY <1>5, <1>6, <1>7, <2>1 DEF Holds
<1>9. r.phase # "idle" \/ r.following \/ r.pending # Done => r.graph.source # 0
  BY <1>5, <1>6
<1>10. ~r.synced /\ r.pending # Done => r.pending = Raw
  BY <1>5, <1>6
<1>11. QED
  BY <1>6, <1>8, <1>9, <1>10 DEF Holds

(* A batch of the reduced preview renders what it owes; one that fails gives its graph up. *)
LEMMA ReducedRendersFits ==
  ASSUME PreviewFits(preview, edit), edit \in EditType,
         InterFits(inter, preview, edit), inter.edited = Done,
         inter.following, inter.pending # Done,
         acts \in 0..MaxActs,
         ReducedRenders
  PROVE  /\ InterFits(inter', preview, edit) /\ inter'.edited = Done
         /\ preview' = preview /\ acts' \in 0..MaxActs
<1> DEFINE r == Rendered(inter.graph.buf, inter.pending, Output, edit)
           graph == [inter.graph EXCEPT !.rendered = TRUE, !.buf = r]
           done == [inter EXCEPT !.graph = graph, !.pending = Done, !.synced = TRUE]
           failed == [Reset(inter) EXCEPT !.failedFor = inter.graph.source]
<1>1. /\ inter' = done \/ (inter' = failed /\ acts < MaxActs)
      /\ inter' # done => acts < MaxActs
      /\ acts' = acts + 1 => acts < MaxActs
      /\ acts' = acts \/ acts' = acts + 1
      /\ preview' = preview
  BY DEF ReducedRenders, Failures, MayFail, Spend
<1>2. acts' \in 0..MaxActs
  BY <1>1, BoundsAssumption
<1>3. inter \in InterType /\ inter.graph \in ReducedType /\ inter.graph.buf \in Buffers
  BY DEF InterFits, Holds, InterType, ReducedType
<1>4. CASE inter' = done
  <2>1. inter.pending \in Raw..Output /\ Output \in 0..Output /\ Done \in Raw..Done
    BY <1>3 DEF InterType, Raw, Output, Done
  <2>2. Earlier(inter.pending, Done) = inter.pending /\ Earlier(Done, Done) = Done
    BY <2>1, EarlierIs DEF Raw, Output, Done
  <2>3. /\ inter.graph.source # 0
        /\ inter.graph.source = preview.graph.id
        /\ \A k \in Raw..inter.pending : inter.graph.buf[k] = SubSeq(edit, 1, k)
    <3>1. CASE inter.synced
      BY <2>2, <3>1 DEF InterFits, Holds
    <3>2. CASE ~inter.synced
      <4>1. /\ inter.pending = Raw /\ inter.graph.source # 0
            /\ inter.graph.source = preview.graph.id
            /\ inter.graph.buf[Raw] = SubSeq(edit, 1, Raw)
        BY <3>2 DEF InterFits, Holds
      <4>2. \A k \in Raw..Raw : k = Raw
        BY DEF Raw
      <4>3. QED
        BY <4>1, <4>2
    <3>3. QED
      BY <3>1, <3>2
  <2>4. inter.graph.buf[inter.pending] = SubSeq(edit, 1, inter.pending)
    BY <2>1, <2>3 DEF Raw, Output
  <2>5. /\ r \in Buffers
        /\ \A k \in Raw..Done : k \notin (inter.pending + 1)..(Output + 1) => r[k] = inter.graph.buf[k]
        /\ \A k \in (inter.pending + 1)..(Output + 1) : r[k] = SubSeq(edit, 1, k)
    <3>1. ASSUME NEW first \in Raw..Output, NEW last \in 0..Output, first = inter.pending, last = Output
          PROVE  /\ r \in Buffers
                 /\ \A k \in Raw..Done : k \notin (first + 1)..(last + 1) => r[k] = inter.graph.buf[k]
                 /\ inter.graph.buf[first] = SubSeq(edit, 1, first) =>
                      \A k \in (first + 1)..(last + 1) : r[k] = SubSeq(edit, 1, k)
      <4>1. r = Rendered(inter.graph.buf, first, last, edit)
        BY <3>1
      <4> HIDE DEF r
      <4>2. QED
        BY <1>3, <4>1, RenderedIs
    <3>2. QED
      BY <2>1, <2>4, <3>1
  <2>6. \A k \in Raw..Done : r[k] = SubSeq(edit, 1, k)
    BY <2>1, <2>3, <2>5 DEF Raw, Output, Done
  <2> HIDE DEF r
  <2>7. graph \in ReducedType /\ graph.source = inter.graph.source /\ graph.buf = r
    BY <1>3, <2>5 DEF ReducedType
  <2> HIDE DEF graph
  <2>8. /\ inter' \in InterType /\ inter'.graph = graph /\ inter'.pending = Done
        /\ inter'.phase = inter.phase /\ inter'.following = inter.following
        /\ inter'.synced = TRUE /\ inter'.edited = Done
    BY <1>3, <1>4, <2>1, <2>7 DEF InterType
  <2>9. Raw \in Raw..Done
    BY DEF Raw, Done
  <2>10. Holds(inter', Done, preview, edit)
    BY <2>2, <2>3, <2>6, <2>7, <2>8, <2>9 DEF Holds
  <2>11. QED
    BY <1>1, <1>2, <2>8, <2>10 DEF InterFits
<1>5. CASE inter' = failed
  <2> DEFINE reset == Reset(inter)
  <2>1. /\ Holds(reset, Done, preview, edit)
        /\ reset.edited = Done
    BY <1>3, ResetFits
  <2> HIDE DEF reset
  <2>2. /\ inter' = [reset EXCEPT !.failedFor = inter.graph.source]
        /\ reset \in InterType /\ inter.graph.source \in Nat
    BY <1>3, <1>5, <2>1 DEF Holds, reset, ReducedType
  <2>3. /\ inter' \in InterType /\ inter'.graph = reset.graph /\ inter'.pending = reset.pending
        /\ inter'.phase = reset.phase /\ inter'.following = reset.following
        /\ inter'.synced = reset.synced /\ inter'.edited = Done
    BY <2>1, <2>2 DEF InterType
  <2>4. Holds(inter', Done, preview, edit)
    BY <2>1, <2>2, <2>3, WarmFits
  <2>5. QED
    BY <1>1, <1>2, <2>3, <2>4 DEF InterFits
<1>6. QED
  BY <1>1, <1>4, <1>5

-----------------------------------------------------------------------------
(* The full-resolution preview *)

(* What was rendered beside an output belongs to it as long as the fitted preview keeps that
   output: a graph that owes something, a newer revision and another graph do not have it. *)
LEMMA ShowsMoves ==
  ASSUME NEW v \in PreviewType, NEW w \in PreviewType, v.graph.id <= v.builds,
         NEW e \in EditType, NEW f \in EditType,
         NEW x, x.output \in OutputType, Shows(x, v, e),
         \/ /\ w.graph.id = v.graph.id /\ w.graph.revision = v.graph.revision
            /\ w.builds = v.builds
            /\ \/ w.pending # Done \/ w.lost # Done
               \/ f = e /\ w.pending = v.pending /\ w.lost = v.lost
         \/ /\ w.graph.id = v.graph.id /\ w.graph.revision = v.graph.revision + 1
            /\ w.builds = v.builds
         \/ w.graph.id = v.builds + 1 /\ w.builds = v.builds + 1
         \/ w.graph.id = 0 /\ w.builds = v.builds
  PROVE  Shows(x, w, f)
<1>1. /\ x.output[1] \in Nat /\ x.output[2] \in Nat
      /\ v.graph.id \in Nat /\ v.graph.revision \in Nat /\ v.builds \in Nat
      /\ w.graph.id \in Nat /\ w.graph.revision \in Nat /\ w.builds \in Nat
  BY DEF OutputType, PreviewType, GraphType
<1>2. ASSUME x.output = <<w.graph.id, w.graph.revision>>
      PROVE  x.output[1] = w.graph.id /\ x.output[2] = w.graph.revision
  BY <1>2
<1>3. CASE x.output[1] = 0
  BY <1>3 DEF Shows
<1>4. CASE x.output[1] # 0
  <2>1. /\ x.output[1] <= v.builds
        /\ x.output[1] = v.graph.id => x.output[2] <= v.graph.revision
        /\ (/\ x.output = <<v.graph.id, v.graph.revision>> /\ x.photo = e[1]
            /\ v.pending = Done /\ v.lost = Done) => x.picture = e
    BY <1>4 DEF Shows
  <2>2. CASE /\ w.graph.id = v.graph.id /\ w.graph.revision = v.graph.revision
             /\ w.builds = v.builds
             /\ \/ w.pending # Done \/ w.lost # Done
                \/ f = e /\ w.pending = v.pending /\ w.lost = v.lost
    BY <2>1, <2>2 DEF Shows
  <2>3. CASE /\ w.graph.id = v.graph.id /\ w.graph.revision = v.graph.revision + 1
             /\ w.builds = v.builds
    BY <1>1, <1>2, <2>1, <2>3 DEF Shows
  <2>4. CASE w.graph.id = v.builds + 1 /\ w.builds = v.builds + 1
    BY <1>1, <1>2, <2>1, <2>4 DEF Shows
  <2>5. CASE w.graph.id = 0 /\ w.builds = v.builds
    BY <1>1, <1>2, <1>4, <2>1, <2>5 DEF Shows
  <2>6. QED
    BY <2>2, <2>3, <2>4, <2>5
<1>5. QED
  BY <1>3, <1>4

(* The same of both of them. *)
LEMMA FullMoves ==
  ASSUME NEW v \in PreviewType, NEW w \in PreviewType, v.graph.id <= v.builds,
         NEW e \in EditType, NEW f \in EditType,
         NEW g, FullFits(g, v, e),
         \/ /\ w.graph.id = v.graph.id /\ w.graph.revision = v.graph.revision
            /\ w.builds = v.builds
            /\ \/ w.pending # Done \/ w.lost # Done
               \/ f = e /\ w.pending = v.pending /\ w.lost = v.lost
         \/ /\ w.graph.id = v.graph.id /\ w.graph.revision = v.graph.revision + 1
            /\ w.builds = v.builds
         \/ w.graph.id = v.builds + 1 /\ w.builds = v.builds + 1
         \/ w.graph.id = 0 /\ w.builds = v.builds
  PROVE  FullFits(g, w, f)
<1>1. g.image.output \in OutputType /\ g.running.output \in OutputType
  BY DEF FullFits, FullType, ImageType, RunType
<1>2. Shows(g.image, v, e) /\ Shows(g.running, v, e) /\ g \in FullType
  BY DEF FullFits
<1>3. Shows(g.image, w, f)
  BY <1>1, <1>2, ShowsMoves
<1>4. Shows(g.running, w, f)
  BY <1>1, <1>2, ShowsMoves
<1>5. QED
  BY <1>2, <1>3, <1>4 DEF FullFits

(* A render that is told to stop, or has none, still fits; so does nothing at all. *)
LEMMA NothingShows ==
  ASSUME NEW v, NEW e
  PROVE  /\ NoRun \in RunType /\ NoImage \in ImageType /\ NoOutput \in OutputType
         /\ Shows(NoRun, v, e) /\ Shows(NoImage, v, e)
<1>1. <<>> \in Seq(Nat)
  BY EmptySeq
<1>2. NoOutput \in OutputType /\ NoOutput[1] = 0
  BY DEF NoOutput, OutputType
<1>3. NoRun \in RunType /\ NoImage \in ImageType
  <2> DEFINE none == <<>>
  <2>1. none \in Seq(Nat)
    BY <1>1
  <2> HIDE DEF none
  <2>2. /\ [state |-> "none", output |-> NoOutput, photo |-> 0, picture |-> none,
            cancel |-> FALSE] \in RunType
        /\ [output |-> NoOutput, photo |-> 0, picture |-> none] \in ImageType
    BY <1>2, <2>1 DEF RunType, ImageType
  <2>3. QED
    BY <2>2 DEF none, NoRun, NoImage
<1>4. NoRun.output = NoOutput /\ NoImage.output = NoOutput
  BY DEF NoRun, NoImage
<1>5. QED
  BY <1>2, <1>3, <1>4 DEF Shows

LEMMA CancelledFits ==
  ASSUME NEW f, NEW v, NEW e, FullFits(f, v, e), NEW c, c = Cancelled(f)
  PROVE  /\ FullFits(c, v, e)
         /\ c.image = f.image /\ c.seen = f.seen /\ c.still = f.still /\ c.enabled = f.enabled
         /\ c.gaveUpFor = f.gaveUpFor
<1>1. f \in FullType
  BY DEF FullFits
<1>2. CASE f.running.state = "none"
  BY <1>2 DEF Cancelled
<1>3. CASE f.running.state # "none"
  <2> DEFINE run == [f.running EXCEPT !.cancel = TRUE]
  <2>1. c = [f EXCEPT !.running = run]
    BY <1>1, <1>3 DEF Cancelled, FullType
  <2>2. /\ run \in RunType /\ run.output = f.running.output /\ run.photo = f.running.photo
        /\ run.picture = f.running.picture
    BY <1>1 DEF FullType, RunType
  <2> HIDE DEF run
  <2>3. /\ c \in FullType /\ c.running = run /\ c.image = f.image
        /\ c.seen = f.seen /\ c.still = f.still /\ c.enabled = f.enabled
        /\ c.gaveUpFor = f.gaveUpFor
    BY <1>1, <2>1, <2>2 DEF FullType
  <2>4. QED
    BY <2>2, <2>3 DEF FullFits, Shows
<1>4. QED
  BY <1>2, <1>3

LEMMA ObservedFits ==
  ASSUME PreviewFits(preview, edit), FullFits(full, preview, edit)
  PROVE  FullFits(Observed(full), preview, edit) /\ Observed(full).gaveUpFor = full.gaveUpFor
<1> DEFINE output == FittedOutput
           running == IF full.running.output # output THEN Cancelled(full).running
                      ELSE full.running
           image == IF full.image.output # output THEN NoImage ELSE full.image
           o == Observed(full)
<1>1. output \in OutputType
  BY DEF FittedOutput, OutputType, PreviewFits, PreviewType, GraphType
<1>2. running \in RunType /\ Shows(running, preview, edit)
  BY CancelledFits DEF FullFits, FullType
<1>3. image \in ImageType /\ Shows(image, preview, edit)
  BY NothingShows DEF FullFits, FullType
<1>4. o = full \/ o = [full EXCEPT !.seen = output, !.still = FALSE,
                                   !.running = running, !.image = image]
  BY DEF Observed
<1> HIDE DEF output, running, image, o
<1>5. CASE o = full
  BY <1>5 DEF o
<1>6. CASE o = [full EXCEPT !.seen = output, !.still = FALSE,
                            !.running = running, !.image = image]
  <2>1. /\ o \in FullType /\ o.running = running /\ o.image = image
        /\ o.gaveUpFor = full.gaveUpFor
    BY <1>1, <1>2, <1>3, <1>6 DEF FullFits, FullType
  <2>2. QED
    BY <1>2, <1>3, <2>1 DEF FullFits, o
<1>7. QED
  BY <1>4, <1>5, <1>6

-----------------------------------------------------------------------------
(* The fitted preview *)

(* What is pending, rendered up to a stage. *)
UpTo(v, last, e) ==
  [v EXCEPT !.pending = Done, !.graph.buf = Rendered(@, v.pending, last, e)]

(* What rendering up to a stage leaves: the buffers up to the next one are of the
   edit, and those it had before stay. *)
LEMMA UpToFits ==
  ASSUME NEW e \in EditType, PreviewFits(preview, e), HasPipeline,
         preview.pending \in Raw..Output,
         NEW last \in 0..Output, preview.pending <= last + 1,
         NEW u, u = UpTo(preview, last, e)
  PROVE  /\ u \in PreviewType /\ u.pending = Done
         /\ u.graph.id = preview.graph.id /\ u.graph.revision = preview.graph.revision
         /\ u.builds = preview.builds /\ u.lost = preview.lost
         /\ u.rebuild = preview.rebuild /\ u.loaded = preview.loaded
         /\ \A k \in Raw..Done :
              (k <= preview.lost \/ preview.pending <= preview.lost) /\ k <= last + 1
                => u.graph.buf[k] = SubSeq(e, 1, k)
<1> DEFINE first == preview.pending
           r == Rendered(preview.graph.buf, first, last, e)
           graph == [preview.graph EXCEPT !.buf = r]
<1>1. /\ preview \in PreviewType /\ preview.graph \in GraphType /\ preview.graph.buf \in Buffers
      /\ preview.lost \in Raw..Done /\ first \in Raw..Done
      /\ \A k \in Raw..Earlier(first, preview.lost) : preview.graph.buf[k] = SubSeq(e, 1, k)
  BY DEF PreviewFits, PreviewType, GraphType, HasPipeline
<1>2. /\ r \in Buffers
      /\ \A k \in Raw..Done : k \notin (first + 1)..(last + 1) => r[k] = preview.graph.buf[k]
      /\ preview.graph.buf[first] = SubSeq(e, 1, first) =>
           \A k \in (first + 1)..(last + 1) : r[k] = SubSeq(e, 1, k)
  <2>1. r = Rendered(preview.graph.buf, first, last, e)
    OBVIOUS
  <2>2. preview.graph.buf \in Buffers /\ first \in Raw..Output
    BY <1>1
  <2>3. ASSUME NEW b \in Buffers, b = preview.graph.buf, NEW from \in Raw..Output, from = first
        PROVE  /\ r \in Buffers
               /\ \A k \in Raw..Done : k \notin (from + 1)..(last + 1) => r[k] = b[k]
               /\ b[from] = SubSeq(e, 1, from) =>
                    \A k \in (from + 1)..(last + 1) : r[k] = SubSeq(e, 1, k)
    <3>1. r = Rendered(b, from, last, e)
      BY <2>1, <2>3
    <3> HIDE DEF r
    <3>2. QED
      BY <3>1, RenderedIs
  <2>4. QED
    BY <2>2, <2>3
<1>3. ASSUME NEW k \in Raw..Done, k <= preview.lost \/ first <= preview.lost, k <= last + 1
      PROVE  r[k] = SubSeq(e, 1, k)
  <2>1. /\ k <= first /\ k <= preview.lost => k <= Earlier(first, preview.lost)
        /\ first <= preview.lost => first <= Earlier(first, preview.lost)
    BY <1>1, EarlierIs DEF Raw, Done
  <2>2. CASE k <= first
    <3>1. k \notin (first + 1)..(last + 1) /\ k <= preview.lost
      BY <1>1, <1>3, <2>2 DEF Raw, Done, Output
    <3>2. k \in Raw..Earlier(first, preview.lost)
      BY <1>1, <2>1, <2>2, <3>1, EarlierIs DEF Raw, Done
    <3>3. QED
      BY <1>1, <1>2, <3>1, <3>2
  <2>3. CASE first < k
    <3>1. k \in (first + 1)..(last + 1) /\ first <= preview.lost
      BY <1>1, <1>3, <2>3 DEF Raw, Done, Output
    <3>2. first \in Raw..Earlier(first, preview.lost)
      BY <1>1, <2>1, <3>1, EarlierIs DEF Raw, Done
    <3>3. QED
      BY <1>1, <1>2, <3>1, <3>2
  <2>4. QED
    BY <1>1, <2>2, <2>3 DEF Raw, Done
<1> HIDE DEF r
<1>4. /\ graph \in GraphType /\ graph.buf = r /\ graph.id = preview.graph.id
      /\ graph.revision = preview.graph.revision
  BY <1>1, <1>2 DEF GraphType
<1>5. u = [preview EXCEPT !.pending = Done, !.graph = graph]
  BY <1>1 DEF PreviewType, r, UpTo
<1> HIDE DEF graph, first
<1>a. Done \in Raw..Done
  BY DEF Raw, Done
<1>6. /\ u \in PreviewType /\ u.pending = Done /\ u.graph = graph
      /\ u.builds = preview.builds /\ u.lost = preview.lost
      /\ u.rebuild = preview.rebuild /\ u.loaded = preview.loaded
  BY <1>1, <1>4, <1>5, <1>a DEF PreviewType
<1>7. QED
  BY <1>3, <1>4, <1>6 DEF first

(* A batch of the fitted preview renders what it owes.  A stage that fails leaves itself out,
   and what was left out before stays out unless the batch began before it. *)
LEMMA FittedRendersFits ==
  ASSUME PreviewFits(preview, edit), edit \in EditType,
         FullFits(full, preview, edit),
         preview.pending # Done,
         acts \in 0..MaxActs,
         FittedRenders
  PROVE  /\ PreviewFits(preview', edit) /\ FullFits(full, preview', edit)
         /\ preview'.graph.id = preview.graph.id
         /\ inter' = inter /\ acts' \in 0..MaxActs
<1> DEFINE first == preview.pending
           upTo(last) == UpTo(preview, last, edit)
           done == [upTo(Output) EXCEPT
                      !.graph.revision = @ + 1,
                      !.lost = IF first <= @ THEN Done ELSE @]
           failed(at_stage) == [upTo(at_stage - 1) EXCEPT
                                  !.lost = Earlier(@, at_stage)]
<1>1. /\ preview \in PreviewType /\ preview.graph \in GraphType
      /\ preview.lost \in Raw..Done /\ first \in Raw..Output /\ first \in Raw..Done
      /\ preview.graph.id <= preview.builds
      /\ preview.rebuild.state # "none" => preview.loaded
      /\ Done \in Raw..Done
  BY DEF PreviewFits, PreviewType, Raw, Output, Done
<1>2. /\ inter' = inter
      /\ acts' = acts \/ (acts' = acts + 1 /\ HasPipeline /\ preview' # done)
      /\ ~HasPipeline => preview' = [preview EXCEPT !.pending = Done]
      /\ HasPipeline => \/ preview' = done
                        \/ \E s \in first..Output : preview' = failed(s) /\ acts < MaxActs
  BY DEF FittedRenders, Failures, MayFail, Spend, UpTo
<1>3. acts' \in 0..MaxActs
  <2> HIDE DEF done, failed
  <2>1. acts' = acts + 1 => acts < MaxActs
    BY <1>2
  <2>2. QED
    BY <1>2, <2>1, BoundsAssumption
<1>4. Earlier(Done, preview.lost) = preview.lost /\ Earlier(Done, Done) = Done
  BY <1>1, EarlierIs
<1>5. CASE ~HasPipeline
  <2>1. /\ preview' \in PreviewType /\ preview'.graph = preview.graph
        /\ preview'.builds = preview.builds /\ preview'.rebuild = preview.rebuild
        /\ preview'.loaded = preview.loaded
    BY <1>1, <1>2, <1>5 DEF PreviewType
  <2>2. preview.graph.id = 0
    BY <1>5 DEF HasPipeline
  <2>3. PreviewFits(preview', edit)
    BY <1>1, <2>1, <2>2 DEF PreviewFits
  <2>4. FullFits(full, preview', edit)
    BY <1>1, <2>1, <2>2, FullMoves
  <2>5. QED
    BY <1>2, <1>3, <2>1, <2>3, <2>4
<1>6. CASE HasPipeline /\ preview' = done
  <2> DEFINE u == upTo(Output)
             lost == IF first <= u.lost THEN Done ELSE u.lost
             graph == [u.graph EXCEPT !.revision = @ + 1]
  <2>1. Output \in 0..Output /\ first <= Output + 1 /\ Output + 1 = Done
    BY <1>1 DEF Raw, Output, Done
  <2>2. /\ u \in PreviewType /\ u.pending = Done
        /\ u.graph.id = preview.graph.id /\ u.graph.revision = preview.graph.revision
        /\ u.builds = preview.builds /\ u.lost = preview.lost
        /\ u.rebuild = preview.rebuild /\ u.loaded = preview.loaded
        /\ \A k \in Raw..Done :
             (k <= preview.lost \/ preview.pending <= preview.lost) /\ k <= Output + 1
               => u.graph.buf[k] = SubSeq(edit, 1, k)
    <3>1. ASSUME NEW last \in 0..Output, last = Output, NEW w, w = UpTo(preview, last, edit)
          PROVE  /\ w \in PreviewType /\ w.pending = Done
                 /\ w.graph.id = preview.graph.id /\ w.graph.revision = preview.graph.revision
                 /\ w.builds = preview.builds /\ w.lost = preview.lost
                 /\ w.rebuild = preview.rebuild /\ w.loaded = preview.loaded
                 /\ \A k \in Raw..Done :
                      (k <= preview.lost \/ preview.pending <= preview.lost) /\ k <= last + 1
                        => w.graph.buf[k] = SubSeq(edit, 1, k)
      <4>1. HasPipeline /\ preview.pending \in Raw..Output /\ preview.pending <= last + 1
        BY <1>1, <1>6, <2>1, <3>1
      <4>2. QED
        BY <3>1, <4>1, UpToFits
    <3> HIDE DEF first
    <3>2. QED
      BY <2>1, <3>1
  <2>3. done = [u EXCEPT !.graph.revision = @ + 1, !.lost = IF first <= @ THEN Done ELSE @]
    OBVIOUS
  <2> HIDE DEF u
  <2>4. preview' = [u EXCEPT !.graph = graph, !.lost = lost]
    BY <1>6, <2>2, <2>3 DEF PreviewType
  <2>5. /\ graph \in GraphType /\ graph.id = preview.graph.id /\ graph.buf = u.graph.buf
        /\ graph.revision = preview.graph.revision + 1
    BY <2>2 DEF PreviewType, GraphType
  <2>6. lost \in Raw..Done
    BY <1>1, <2>2
  <2> HIDE DEF lost, graph
  <2>7. /\ preview' \in PreviewType /\ preview'.graph = graph /\ preview'.lost = lost
        /\ preview'.pending = Done /\ preview'.builds = preview.builds
        /\ preview'.rebuild = preview.rebuild /\ preview'.loaded = preview.loaded
    BY <2>2, <2>4, <2>5, <2>6 DEF PreviewType
  <2>8. ASSUME NEW k \in Raw..Earlier(Done, lost)
        PROVE  graph.buf[k] = SubSeq(edit, 1, k)
    <3>1. k \in Raw..lost /\ k \in Raw..Done
      BY <2>6, <2>8, EarlierIs DEF Raw, Done
    <3>2. k <= preview.lost \/ first <= preview.lost
      BY <1>1, <2>2, <3>1 DEF lost, Raw, Done
    <3>3. k <= Output + 1
      BY <2>1, <3>1 DEF Raw, Done
    <3>4. QED
      BY <2>2, <2>5, <3>1, <3>2, <3>3
  <2>9. PreviewFits(preview', edit)
    BY <1>1, <2>5, <2>7, <2>8 DEF PreviewFits
  <2>10. FullFits(full, preview', edit)
    BY <1>1, <2>5, <2>7, FullMoves
  <2>11. QED
    BY <1>2, <1>3, <2>5, <2>7, <2>9, <2>10
<1>7. CASE HasPipeline /\ preview' # done
  <2>1. PICK s \in first..Output : preview' = failed(s)
    BY <1>2, <1>7
  <2> DEFINE u == upTo(s - 1)
  <2>2. s - 1 \in 0..Output /\ first <= (s - 1) + 1 /\ (s - 1) + 1 = s /\ s \in Raw..Done
    BY <1>1 DEF Raw, Output, Done
  <2>3. ASSUME NEW last \in 0..Output, last = s - 1, NEW w, w = upTo(last)
        PROVE  /\ w \in PreviewType /\ w.pending = Done
               /\ w.graph.id = preview.graph.id /\ w.graph.revision = preview.graph.revision
               /\ w.builds = preview.builds /\ w.lost = preview.lost
               /\ w.rebuild = preview.rebuild /\ w.loaded = preview.loaded
               /\ \A k \in Raw..Done :
                    (k <= preview.lost \/ preview.pending <= preview.lost) /\ k <= last + 1
                      => w.graph.buf[k] = SubSeq(edit, 1, k)
    BY <1>1, <1>7, <2>2, <2>3, UpToFits
  <2>4. /\ u \in PreviewType /\ u.pending = Done
        /\ u.graph.id = preview.graph.id /\ u.graph.revision = preview.graph.revision
        /\ u.builds = preview.builds /\ u.lost = preview.lost
        /\ u.rebuild = preview.rebuild /\ u.loaded = preview.loaded
        /\ \A k \in Raw..Done :
             (k <= preview.lost \/ preview.pending <= preview.lost) /\ k <= s
               => u.graph.buf[k] = SubSeq(edit, 1, k)
    <3> HIDE DEF upTo
    <3>1. QED
      BY <2>2, <2>3
  <2>5. preview' = [u EXCEPT !.lost = Earlier(@, s)]
    BY <2>1
  <2> HIDE DEF u
  <2>6. /\ Earlier(u.lost, s) \in Raw..Done /\ Earlier(u.lost, s) <= u.lost
        /\ Earlier(u.lost, s) <= s /\ Earlier(u.lost, s) # Done
    BY <1>1, <2>2, <2>4, EarlierIs DEF Raw, Output, Done
  <2>7. /\ preview' \in PreviewType /\ preview'.graph = u.graph
        /\ preview'.lost = Earlier(u.lost, s)
        /\ preview'.pending = Done /\ preview'.builds = preview.builds
        /\ preview'.rebuild = preview.rebuild /\ preview'.loaded = preview.loaded
    BY <2>4, <2>5, <2>6 DEF PreviewType
  <2>8. ASSUME NEW k \in Raw..Earlier(Done, preview'.lost)
        PROVE  u.graph.buf[k] = SubSeq(edit, 1, k)
    <3>1. Earlier(Done, preview'.lost) = preview'.lost
      BY <2>6, <2>7, EarlierIs
    <3>2. k \in Raw..Done /\ k <= preview.lost /\ k <= s
      BY <1>1, <2>2, <2>4, <2>6, <2>7, <2>8, <3>1 DEF Raw, Done
    <3>3. QED
      BY <2>4, <3>2
  <2>9. PreviewFits(preview', edit)
    BY <1>1, <2>4, <2>7, <2>8 DEF PreviewFits
  <2>10. FullFits(full, preview', edit)
    BY <1>1, <2>4, <2>6, <2>7, FullMoves
  <2>11. QED
    BY <1>2, <1>3, <2>4, <2>7, <2>9, <2>10
<1>8. QED
  BY <1>5, <1>6, <1>7

-----------------------------------------------------------------------------
(* Steps that leave the graphs alone *)

(* What both graphs hold stays; where the frame is moves on between its render and its input. *)
LEMMA GraphsStay ==
  ASSUME IInv, UNCHANGED <<edit, chosen>>, PreviewFits(preview', edit),
         preview'.graph = preview.graph, preview'.lost = preview.lost,
         inter' \in InterType, inter'.graph = inter.graph, inter'.phase = inter.phase,
         inter'.following = inter.following, inter'.pending = inter.pending,
         inter'.synced = inter.synced, inter'.edited = inter.edited,
         FullFits(full', preview', edit), Others',
         \/ at' = at
         \/ at = "idle" /\ at' = "poll"
         \/ at = "poll" /\ at' = "views"
         \/ at = "whole" /\ at' = "idle"
  PROVE  IInv'
<1>1. InterFits(inter', preview', edit)
  BY DEF IInv, InterFits, Holds
<1>2. Steps'
  BY DEF IInv, Steps, WholeIsOfTheEdit
<1>3. QED
  BY <1>1, <1>2 DEF IInv

(* Only the time, the flags and what was asked for move on. *)
LEMMA NothingMoves ==
  ASSUME IInv, UNCHANGED <<edit, preview, inter, full, chosen>>, Others',
         \/ at' = at
         \/ at = "idle" /\ at' = "poll"
         \/ at = "poll" /\ at' = "views"
  PROVE  IInv'
<1>1. /\ PreviewFits(preview', edit) /\ FullFits(full', preview', edit)
      /\ inter' \in InterType
  BY DEF IInv, InterFits, Holds
<1>2. QED
  BY <1>1, GraphsStay

LEMMA FrameStartsFits == ASSUME IInv, FrameStarts PROVE IInv'
<1>1. repaint' \in 0..2
  BY DEF IInv, Others, FrameStarts
<1>2. Others'
  BY <1>1 DEF IInv, Others, FrameStarts, User, Shown
<1>3. QED
  BY <1>2, NothingMoves DEF FrameStarts, User, Shown

LEMMA ElsewhereQuiet ==
  ASSUME IInv, GpuFinishes \/ DeviceIsPolled \/ PhaseAges \/ AlarmRings
  PROVE  IInv'
<1>1. CASE GpuFinishes
  <2>0. /\ slow' \in BOOLEAN
        /\ slow' # slow => acts < MaxActs
        /\ acts' = IF slow' # slow THEN acts + 1 ELSE acts
    BY <1>1 DEF IInv, Others, GpuFinishes, Spend
  <2>1. acts' \in 0..MaxActs
    BY <2>0, BoundsAssumption DEF IInv, Others
  <2>a. slow' \in BOOLEAN
    BY <2>0
  <2>2. Others'
    BY <1>1, <2>1, <2>a DEF IInv, Others, GpuFinishes, Rest
  <2>3. QED
    BY <1>1, <2>2, NothingMoves DEF GpuFinishes, Rest
<1>2. CASE DeviceIsPolled
  <2>1. Others'
    BY <1>2 DEF IInv, Others, DeviceIsPolled, RequestRepaint, Rest
  <2>2. QED
    BY <1>2, <2>1, NothingMoves DEF DeviceIsPolled, Rest
<1>3. CASE PhaseAges
  <2>1. age' \in 0..Over
    BY <1>3 DEF IInv, Others, PhaseAges, Over
  <2>2. Others'
    BY <1>3, <2>1 DEF IInv, Others, PhaseAges, Rest
  <2>3. QED
    BY <1>3, <2>2, NothingMoves DEF PhaseAges, Rest
<1>4. CASE AlarmRings
  <2>a. repaint' \in 0..2
    BY <1>4 DEF IInv, Others, AlarmRings
  <2>1. Others'
    BY <1>4, <2>a DEF IInv, Others, AlarmRings, Rest
  <2>2. QED
    BY <1>4, <2>1, NothingMoves DEF AlarmRings, Rest
<1>5. QED
  BY <1>1, <1>2, <1>3, <1>4

LEMMA LoadEndsFits == ASSUME IInv, NEW result, LoadEnds(result) PROVE IInv'
<1>1. /\ result \in {"done", "failed"}
      /\ acts' \in 0..MaxActs
  BY BoundsAssumption DEF IInv, Others, LoadEnds, Spend, Failures, MayFail
<1>2. loading' \in LoadingType
  BY <1>1 DEF IInv, Others, LoadEnds, LoadingType
<1>3. Others'
  BY <1>1, <1>2 DEF IInv, Others, LoadEnds, RequestRepaint
<1>4. QED
  BY <1>3, NothingMoves DEF LoadEnds

LEMMA HandsFit == ASSUME IInv, NoInput \/ Grab \/ LetGo PROVE IInv'
<1>1. acts' \in 0..MaxActs
  BY BoundsAssumption DEF IInv, Others, NoInput, Grab, LetGo, Acts, Spend
<1>2. /\ dragging' \in BOOLEAN /\ at = "poll" /\ at' = "views"
      /\ UNCHANGED <<repaint, alarm, edit, preview, gate, slow, inter, age, full, loading,
                     want, chosen, canvas>>
  BY DEF IInv, Others, NoInput, Grab, LetGo, Handles, User, Shown
<1>3. Others'
  BY <1>1, <1>2 DEF IInv, Others
<1>4. QED
  BY <1>2, <1>3, NothingMoves

(* A worker of the reduced preview ends. *)
LEMMA WarmUpEndsFits == ASSUME IInv, NEW result, WarmUpEnds(result) PROVE IInv'
<1>1. /\ result \in {"done", "died"} /\ acts' \in 0..MaxActs
      /\ inter' = [inter EXCEPT !.warm.state = result]
      /\ UNCHANGED <<at, edit, preview, loading, want, dragging, chosen, canvas, alarm, gate,
                     slow, age, full>>
      /\ repaint' \in {2, repaint}
  BY BoundsAssumption DEF IInv, Others, WarmUpEnds, Spend, Failures, MayFail, RequestRepaint, Rest
<1>2. inter \in InterType
  BY DEF IInv, InterFits, Holds
<1>3. [inter.warm EXCEPT !.state = result] \in WarmType
  BY <1>1, <1>2 DEF InterType, WarmType
<1>4. /\ inter' \in InterType /\ inter'.graph = inter.graph /\ inter'.phase = inter.phase
      /\ inter'.following = inter.following /\ inter'.pending = inter.pending
      /\ inter'.synced = inter.synced /\ inter'.edited = inter.edited
  BY <1>1, <1>2, <1>3 DEF InterType
<1>5. Others'
  BY <1>1 DEF IInv, Others
<1>6. PreviewFits(preview', edit) /\ FullFits(full', preview', edit)
  BY <1>1 DEF IInv
<1>7. QED
  BY <1>1, <1>4, <1>5, <1>6, GraphsStay

(* A rebuild ends; the view is resized, or the quality changed: the fitted graph stays. *)
LEMMA FittedStays ==
  ASSUME IInv, UNCHANGED <<edit, chosen, inter>>, Others',
         preview' \in PreviewType, preview'.graph = preview.graph,
         preview'.builds = preview.builds, preview'.pending = preview.pending,
         preview'.lost = preview.lost, preview'.loaded = preview.loaded,
         preview'.rebuild.state # "none" => preview.rebuild.state # "none",
         FullFits(full', preview, edit),
         at' = at \/ (at = "poll" /\ at' = "views")
  PROVE  IInv'
<1>1. PreviewFits(preview', edit)
  BY DEF IInv, PreviewFits
<1>2. preview \in PreviewType /\ preview.graph.id <= preview.builds /\ edit \in EditType
  BY DEF IInv, PreviewFits, Others
<1>3. FullFits(full', preview', edit)
  BY <1>2, FullMoves
<1>4. inter \in InterType
  BY DEF IInv, InterFits, Holds
<1>5. QED
  BY <1>1, <1>3, <1>4, GraphsStay

LEMMA RebuildEndsFits == ASSUME IInv, NEW result, RebuildEnds(result) PROVE IInv'
<1>1. /\ result \in {"done", "failed"} /\ acts' \in 0..MaxActs
      /\ preview.rebuild.state = "running"
      /\ preview' = [preview EXCEPT !.rebuild.state = result]
  BY BoundsAssumption DEF IInv, Others, RebuildEnds, Spend, Failures, MayFail
<1>2. preview \in PreviewType /\ FullFits(full', preview, edit)
  BY DEF IInv, PreviewFits, RebuildEnds
<1>3. [preview.rebuild EXCEPT !.state = result] \in RebuildType
  BY <1>1, <1>2 DEF PreviewType, RebuildType
<1>4. /\ preview' \in PreviewType /\ preview'.graph = preview.graph
      /\ preview'.builds = preview.builds /\ preview'.pending = preview.pending
      /\ preview'.lost = preview.lost /\ preview'.loaded = preview.loaded
  BY <1>1, <1>2, <1>3 DEF PreviewType
<1>5. Others'
  BY <1>1 DEF IInv, Others, RebuildEnds, RequestRepaint
<1>6. QED
  BY <1>1, <1>2, <1>4, <1>5, FittedStays DEF RebuildEnds

LEMMA ViewChangesFits == ASSUME IInv, Resize \/ ChangeQuality PROVE IInv'
<1>0. acts' \in 0..MaxActs
  BY BoundsAssumption DEF IInv, Others, Resize, ChangeQuality, Acts, Spend
<1>1. /\ want' \in Edges /\ alarm' \in BOOLEAN
      /\ at = "poll" /\ at' = "views"
      /\ UNCHANGED <<repaint, edit, gate, slow, inter, age, loading, dragging, chosen, canvas>>
  <2>1. CASE Resize
    BY <2>1 DEF IInv, Others, Resize, Handles, Shown
  <2>2. CASE ChangeQuality
    BY <2>2 DEF IInv, Others, ChangeQuality, Handles, Shown
  <2>3. QED
    BY <2>1, <2>2
<1>2. preview \in PreviewType /\ FullFits(full, preview, edit)
  BY DEF IInv, PreviewFits
<1>3. FullFits(full', preview, edit)
  BY <1>2, CancelledFits DEF Resize, ChangeQuality
<1>4. /\ preview' \in PreviewType /\ preview'.graph = preview.graph
      /\ preview'.builds = preview.builds /\ preview'.pending = preview.pending
      /\ preview'.lost = preview.lost /\ preview'.loaded = preview.loaded
      /\ preview'.rebuild = preview.rebuild
  <2>1. CASE Resize
    <3>1. PICK dirty \in BOOLEAN : preview' = [preview EXCEPT !.dirty = dirty]
      BY <1>2, <2>1 DEF Resize, PreviewType
    <3>2. QED
      BY <1>2, <3>1 DEF PreviewType
  <2>2. CASE ChangeQuality
    <3>1. \/ preview' = [preview EXCEPT !.dirty = TRUE, !.shrink = TRUE]
          \/ preview' = preview
      BY <2>2 DEF ChangeQuality
    <3>2. QED
      BY <1>2, <3>1 DEF PreviewType
  <2>3. QED
    BY <2>1, <2>2
<1>5. Others'
  BY <1>0, <1>1 DEF IInv, Others
<1>6. QED
  BY <1>1, <1>3, <1>4, <1>5, FittedStays

(* The full-resolution preview alone: a render ends or is heard of, the output has been still,
   and the user turns it off or on. *)
LEMMA WholeEndsFits == ASSUME IInv, NEW result, WholeEnds(result) PROVE IInv'
<1>1. /\ result \in {"done", "failed"}
      /\ result = "failed" /\ ~full.running.cancel => acts < MaxActs
      /\ acts' = IF result = "failed" /\ ~full.running.cancel THEN acts + 1 ELSE acts
      /\ full' = [full EXCEPT !.running.state = result]
      /\ UNCHANGED <<at, edit, preview, inter, loading, want, dragging, chosen, canvas, alarm,
                     gate, slow, age>>
      /\ repaint' = 2
  BY DEF WholeEnds, Spend, MayFail, RequestRepaint, Rest
<1>2. acts' \in 0..MaxActs
  BY <1>1, BoundsAssumption DEF IInv, Others
<1>3. full \in FullType /\ Shows(full.running, preview, edit) /\ Shows(full.image, preview, edit)
  BY DEF IInv, FullFits
<1> DEFINE run == [full.running EXCEPT !.state = result]
<1>4. /\ run \in RunType /\ run.output = full.running.output /\ run.photo = full.running.photo
      /\ run.picture = full.running.picture
  BY <1>1, <1>3 DEF FullType, RunType
<1>5. full' = [full EXCEPT !.running = run]
  BY <1>1, <1>3 DEF FullType
<1> HIDE DEF run
<1>6. full' \in FullType /\ full'.running = run /\ full'.image = full.image
  BY <1>3, <1>4, <1>5 DEF FullType
<1>7. FullFits(full', preview', edit)
  BY <1>1, <1>3, <1>4, <1>6 DEF FullFits, Shows
<1>8. Others'
  BY <1>1, <1>2 DEF IInv, Others
<1>9. PreviewFits(preview', edit) /\ inter' \in InterType
  BY <1>1 DEF IInv, InterFits, Holds
<1>10. QED
  BY <1>1, <1>7, <1>8, <1>9, GraphsStay

LEMMA WholeArrivesFits == ASSUME IInv, WholeArrives PROVE IInv'
<1> DEFINE run == full.running
           ended == [full EXCEPT !.running = NoRun]
           image == [output |-> run.output, photo |-> run.photo, picture |-> run.picture]
<1>1. /\ \/ full' = ended
         \/ full' = [ended EXCEPT !.gaveUpFor = Photo]
         \/ full' = [ended EXCEPT !.image = image]
      /\ UNCHANGED <<at, alarm, edit, preview, gate, slow, inter, age, loading, want, dragging,
                     chosen, canvas, acts>>
      /\ repaint' \in {2, repaint}
  BY DEF WholeArrives, RequestRepaint, User, Shown
<1>2. /\ full \in FullType /\ run \in RunType
      /\ Shows(run, preview, edit) /\ Shows(full.image, preview, edit)
      /\ NoRun \in RunType /\ Shows(NoRun, preview, edit)
      /\ Photo \in Nat
  BY NothingShows DEF IInv, FullFits, FullType, Others, EditType, Photo
<1>3. image \in ImageType /\ Shows(image, preview, edit)
  BY <1>2 DEF RunType, ImageType, Shows
<1> HIDE DEF image, run
<1>4. /\ ended \in FullType /\ ended.running = NoRun /\ ended.image = full.image
  BY <1>2 DEF FullType
<1> HIDE DEF ended
<1>5. /\ full' \in FullType /\ full'.running = NoRun /\ full'.image \in {full.image, image}
  BY <1>1, <1>2, <1>3, <1>4 DEF FullType
<1>6. FullFits(full', preview', edit)
  BY <1>1, <1>2, <1>3, <1>5 DEF FullFits
<1>7. Others'
  BY <1>1 DEF IInv, Others
<1>8. PreviewFits(preview', edit) /\ inter' \in InterType
  BY <1>1 DEF IInv, InterFits, Holds
<1>9. QED
  BY <1>1, <1>6, <1>7, <1>8, GraphsStay

LEMMA StillnessFits == ASSUME IInv, StillnessPasses PROVE IInv'
<1>1. /\ full' = [full EXCEPT !.still = TRUE]
      /\ UNCHANGED <<at, edit, preview, loading, want, dragging, chosen, canvas, repaint, alarm,
                     gate, slow, inter, age, acts>>
  BY DEF StillnessPasses, Rest
<1>2. full \in FullType /\ Shows(full.running, preview, edit) /\ Shows(full.image, preview, edit)
  BY DEF IInv, FullFits
<1>3. full' \in FullType /\ full'.running = full.running /\ full'.image = full.image
  BY <1>1, <1>2 DEF FullType
<1>4. FullFits(full', preview', edit)
  BY <1>1, <1>2, <1>3 DEF FullFits
<1>5. Others'
  BY <1>1 DEF IInv, Others
<1>6. PreviewFits(preview', edit) /\ inter' \in InterType
  BY <1>1 DEF IInv, InterFits, Holds
<1>7. QED
  BY <1>1, <1>4, <1>5, <1>6, GraphsStay

LEMMA ToggleWholeFits == ASSUME IInv, ToggleWhole PROVE IInv'
<1> DEFINE c == Cancelled(full)
<1>1. /\ full' = [c EXCEPT !.enabled = ~@, !.gaveUpFor = 0, !.seen = NoOutput, !.still = FALSE,
                           !.image = NoImage]
      /\ at = "poll" /\ at' = "views"
      /\ acts < MaxActs /\ acts' = acts + 1
      /\ UNCHANGED <<repaint, alarm, edit, preview, gate, slow, inter, age, loading, want,
                     dragging, chosen, canvas>>
  BY DEF ToggleWhole, Handles, Acts, Spend, Shown
<1>2. acts' \in 0..MaxActs
  BY <1>1, BoundsAssumption DEF IInv, Others
<1>3. FullFits(c, preview, edit)
  BY CancelledFits DEF IInv
<1>4. /\ NoImage \in ImageType /\ NoOutput \in OutputType /\ Shows(NoImage, preview, edit)
  BY NothingShows
<1> HIDE DEF c
<1>5. full' \in FullType /\ full'.running = c.running /\ full'.image = NoImage
  BY <1>1, <1>3, <1>4 DEF FullFits, FullType
<1>6. FullFits(full', preview', edit)
  BY <1>1, <1>3, <1>4, <1>5 DEF FullFits
<1>7. Others'
  BY <1>1, <1>2 DEF IInv, Others
<1>8. PreviewFits(preview', edit) /\ inter' \in InterType
  BY <1>1 DEF IInv, InterFits, Holds
<1>9. QED
  BY <1>1, <1>6, <1>7, <1>8, GraphsStay

(* A render is started of the edit, beside the output it is seen with. *)
LEMMA WholeAdvancesFits == ASSUME IInv, WholeAdvances PROVE IInv'
<1> DEFINE o == Observed(full)
           seen == IF dragging THEN Cancelled(o) ELSE o
           run == [state |-> "running", output |-> FittedOutput, photo |-> Photo,
                   picture |-> edit, cancel |-> FALSE]
<1>1. /\ \/ full' = seen
         \/ full' = [seen EXCEPT !.running = run]
         \/ full' = [seen EXCEPT !.gaveUpFor = Photo] /\ acts < MaxActs
      /\ at = "whole" /\ at' = "idle" /\ alarm' \in BOOLEAN
      /\ UNCHANGED <<repaint, edit, preview, gate, slow, inter, age, loading, want, dragging,
                     chosen, canvas>>
      /\ acts' = IF full'.gaveUpFor # full.gaveUpFor THEN acts + 1 ELSE acts
  BY DEF WholeAdvances, Failures, MayFail, Spend, User, Shown, IInv, Others
<1>2. FullFits(o, preview, edit) /\ o.gaveUpFor = full.gaveUpFor
  BY ObservedFits DEF IInv
<1> HIDE DEF o
<1>3. FullFits(seen, preview, edit) /\ seen.gaveUpFor = full.gaveUpFor
  BY <1>2, CancelledFits
<1>4. preview \in PreviewType /\ preview.graph.id <= preview.builds /\ edit \in EditType
  BY DEF IInv, PreviewFits, Others
<1>5. /\ Photo \in Nat /\ FittedOutput \in OutputType
      /\ FittedOutput[1] = preview.graph.id /\ FittedOutput[2] = preview.graph.revision
  BY <1>4 DEF Photo, EditType, FittedOutput, OutputType, PreviewType, GraphType
<1>6. edit \in Seq(Nat)
  BY <1>4, EditIs
<1>7. run \in RunType
  BY <1>5, <1>6 DEF RunType
<1>8. Shows(run, preview, edit)
  <2>1. run.output = FittedOutput /\ run.picture = edit
    OBVIOUS
  <2> HIDE DEF run
  <2>2. preview.graph.revision \in Nat /\ preview.graph.revision <= preview.graph.revision
    BY <1>4 DEF PreviewType, GraphType
  <2>3. QED
    BY <1>4, <1>5, <2>1, <2>2 DEF Shows
<1> HIDE DEF run, seen
<1>9. seen \in FullType
  BY <1>3 DEF FullFits
<1>10. /\ full' \in FullType /\ full'.running \in {seen.running, run}
       /\ full'.image = seen.image
       /\ full'.gaveUpFor # full.gaveUpFor => acts < MaxActs
  BY <1>1, <1>3, <1>5, <1>7, <1>9 DEF FullType
<1>11. FullFits(full', preview', edit)
  BY <1>1, <1>3, <1>8, <1>10 DEF FullFits
<1>12. acts' \in 0..MaxActs
  BY <1>1, <1>10, BoundsAssumption DEF IInv, Others
<1>13. Others'
  BY <1>1, <1>12 DEF IInv, Others
<1>14. PreviewFits(preview', edit) /\ inter' \in InterType
  BY <1>1 DEF IInv, InterFits, Holds
<1>15. QED
  BY <1>1, <1>11, <1>13, <1>14, GraphsStay

-----------------------------------------------------------------------------
(* Steps that replace a graph or the edit *)

(* The fitted graph is replaced by a rendered one, dropped, or stays; the reduced one goes with
   it.  No picture of the whole photo is about to be painted. *)
LEMMA FittedReplaced ==
  ASSUME IInv, at = "poll", at' \in {"poll", "views"}, UNCHANGED <<chosen, full>>, Others',
         preview' \in PreviewType,
         preview'.rebuild.state # "none" => preview'.loaded,
         \/ /\ edit' = edit /\ preview'.graph = preview.graph
            /\ preview'.builds = preview.builds
            /\ preview'.pending = preview.pending /\ preview'.lost = preview.lost
         \/ /\ edit' = edit /\ preview'.graph.id = preview.builds + 1
            /\ preview'.builds = preview.builds + 1
            /\ \A k \in Raw..Done : preview'.graph.buf[k] = SubSeq(edit, 1, k)
         \/ preview'.graph.id = 0 /\ preview'.builds = preview.builds,
         \/ inter' = Reset(inter)
         \/ inter' = inter /\ preview'.graph = preview.graph /\ edit' = edit
  PROVE  IInv'
<1>1. /\ preview \in PreviewType /\ preview.graph.id <= preview.builds
      /\ preview.graph.id \in Nat /\ preview.builds \in Nat
      /\ edit \in EditType /\ edit' \in EditType /\ FullFits(full, preview, edit)
      /\ preview.graph.id # 0 =>
           \A k \in Raw..Earlier(preview.pending, preview.lost) :
             preview.graph.buf[k] = SubSeq(edit, 1, k)
  BY DEF IInv, PreviewFits, Others, PreviewType, GraphType
<1>2. /\ preview'.graph.id <= preview'.builds
      /\ preview'.graph.id # 0 =>
           \A k \in Raw..Earlier(preview'.pending, preview'.lost) :
             preview'.graph.buf[k] = SubSeq(edit', 1, k)
  <2>1. CASE /\ edit' = edit /\ preview'.graph = preview.graph
             /\ preview'.builds = preview.builds
             /\ preview'.pending = preview.pending /\ preview'.lost = preview.lost
    BY <1>1, <2>1
  <2>2. CASE /\ edit' = edit /\ preview'.graph.id = preview.builds + 1
             /\ preview'.builds = preview.builds + 1
             /\ \A k \in Raw..Done : preview'.graph.buf[k] = SubSeq(edit, 1, k)
    <3>1. preview'.pending \in Raw..Done /\ preview'.lost \in Raw..Done
      BY DEF PreviewType
    <3>2. Earlier(preview'.pending, preview'.lost) \in Raw..Done
      BY <3>1, EarlierIs
    <3>3. Raw..Earlier(preview'.pending, preview'.lost) \subseteq Raw..Done
      BY <3>2 DEF Raw, Done
    <3>4. QED
      BY <1>1, <2>2, <3>3
  <2>3. CASE preview'.graph.id = 0 /\ preview'.builds = preview.builds
    BY <1>1, <2>3
  <2>4. QED
    BY <2>1, <2>2, <2>3
<1>3. PreviewFits(preview', edit')
  BY <1>2 DEF PreviewFits
<1>4. FullFits(full', preview', edit')
  BY <1>1, FullMoves
<1>5. inter \in InterType
  BY DEF IInv, InterFits, Holds
<1>6. InterFits(inter', preview', edit') /\ inter'.edited = inter.edited
  <2>1. CASE inter' = Reset(inter)
    BY <1>5, <2>1, ResetFits DEF InterFits
  <2>2. CASE inter' = inter /\ preview'.graph = preview.graph /\ edit' = edit
    BY <2>2 DEF IInv, InterFits, Holds
  <2>3. QED
    BY <2>1, <2>2
<1>7. Steps'
  BY <1>6 DEF IInv, Steps, WholeIsOfTheEdit
<1>8. QED
  BY <1>3, <1>4, <1>6, <1>7 DEF IInv

LEMMA ReleaseMemoryFits == ASSUME IInv, ReleaseMemory PROVE IInv'
<1>1. /\ at = "poll" /\ at' = at /\ acts < MaxActs /\ acts' = acts + 1
      /\ inter' = Reset(inter)
      /\ UNCHANGED <<repaint, alarm, edit, preview, gate, slow, age, full, loading, want,
                     dragging, chosen, canvas>>
  BY DEF ReleaseMemory, Acts, Spend, Shown
<1>2. acts' \in 0..MaxActs
  BY <1>1, BoundsAssumption DEF IInv, Others
<1>3. Others'
  BY <1>1, <1>2 DEF IInv, Others
<1>4. preview' \in PreviewType /\ (preview'.rebuild.state # "none" => preview'.loaded)
  BY <1>1 DEF IInv, PreviewFits
<1>5. QED
  BY <1>1, <1>3, <1>4, FittedReplaced

(* A graph that was built holds the edit it was built with. *)
LEMMA BuiltFits ==
  ASSUME PreviewFits(preview, edit), edit \in EditType, NEW edge \in Nat,
         NEW g, g = Built(edge, edit)
  PROVE  /\ g \in GraphType /\ g.id = preview.builds + 1
         /\ \A k \in Raw..Done : g.buf[k] = SubSeq(edit, 1, k)
<1>1. preview.builds \in Nat
  BY DEF PreviewFits, PreviewType
<1> DEFINE buf == AllRendered(edit)
<1>2. buf \in Buffers /\ \A k \in Raw..Done : buf[k] = SubSeq(edit, 1, k)
  BY AllRenderedIs
<1>3. g = [id |-> preview.builds + 1, edge |-> edge, revision |-> 0, buf |-> buf]
  BY DEF Built
<1> HIDE DEF buf
<1>4. QED
  BY <1>1, <1>2, <1>3 DEF GraphType

LEMMA LoadArrivesFits == ASSUME IInv, LoadArrives PROVE IInv'
<1>1. /\ at = "poll" /\ loading' = NoLoad
      /\ UNCHANGED <<at, repaint, alarm, edit, gate, slow, age, full, want, dragging, chosen,
                     canvas, acts>>
  BY DEF LoadArrives, User, Shown
<1>2. NoLoad \in LoadingType
  BY DEF NoLoad, LoadingType
<1>3. Others'
  BY <1>1, <1>2 DEF IInv, Others
<1>4. CASE loading.state = "failed"
  BY <1>1, <1>3, <1>4, NothingMoves DEF LoadArrives
<1>5. CASE loading.state # "failed"
  <2> DEFINE g == Built(loading.edge, edit)
  <2>1. /\ preview' = [preview EXCEPT !.graph = g, !.builds = @ + 1, !.loaded = TRUE,
                                      !.pending = Done, !.lost = Done]
        /\ inter' = Reset(inter)
    BY <1>5 DEF LoadArrives
  <2>2. loading.edge \in Nat /\ PreviewFits(preview, edit) /\ edit \in EditType
    BY DEF IInv, Others, LoadingType
  <2>3. /\ g \in GraphType /\ g.id = preview.builds + 1
        /\ \A k \in Raw..Done : g.buf[k] = SubSeq(edit, 1, k)
    BY <2>2, BuiltFits
  <2>4. Done \in Raw..Done
    BY DEF Raw, Done
  <2> HIDE DEF g
  <2>a. preview \in PreviewType
    BY <2>2 DEF PreviewFits
  <2>b. preview.builds + 1 \in Nat
    BY <2>a DEF PreviewType
  <2>c. preview' = [preview EXCEPT !.graph = g, !.builds = preview.builds + 1, !.loaded = TRUE,
                                   !.pending = Done, !.lost = Done]
    BY <2>1
  <2>5. /\ preview' \in PreviewType /\ preview'.graph = g /\ preview'.loaded
        /\ preview'.builds = preview.builds + 1
    BY <2>3, <2>4, <2>a, <2>b, <2>c DEF PreviewType
  <2>6. QED
    BY <1>1, <1>3, <2>1, <2>3, <2>5, FittedReplaced
<1>6. QED
  BY <1>4, <1>5

LEMMA RebuildArrivesFits == ASSUME IInv, RebuildArrives PROVE IInv'
<1> DEFINE none == [preview EXCEPT !.rebuild = NoRebuild]
           failed == [none EXCEPT !.dirty = FALSE]
           dropped == [failed EXCEPT !.graph = [NoGraph EXCEPT !.edge = preview.graph.edge]]
           built == Rebuilt(preview.rebuild.edge)
           g == Built(preview.rebuild.edge, edit)
<1>1. /\ at = "poll"
      /\ UNCHANGED <<at, repaint, alarm, edit, gate, slow, age, full, loading, want, dragging,
                     chosen, canvas>>
      /\ inter' = IF preview'.graph = preview.graph THEN inter ELSE Reset(inter)
      /\ acts' = IF /\ preview.rebuild.state = "done" /\ preview.rebuild.photo = Photo
                    /\ preview'.builds = preview.builds THEN acts + 1 ELSE acts
      /\ preview.rebuild.state \in {"done", "failed"}
  BY DEF RebuildArrives, Spend, User, Shown
<1>2. \/ preview' = failed /\ (preview.rebuild.state = "failed" \/ acts < MaxActs)
      \/ preview' = none /\ (~preview.loaded \/ preview.rebuild.photo # Photo)
      \/ preview' = dropped /\ acts < MaxActs
      \/ preview' = built
  BY DEF RebuildArrives, RebuildOutcomes, Failures, MayFail
<1>3. /\ preview \in PreviewType /\ preview.graph \in GraphType /\ preview.loaded
      /\ PreviewFits(preview, edit) /\ edit \in EditType /\ preview.rebuild.edge \in Nat
      /\ preview.graph.edge \in Nat /\ preview.builds \in Nat
  BY <1>1 DEF IInv, PreviewFits, PreviewType, GraphType, RebuildType, Others
<1>4. /\ g \in GraphType /\ g.id = preview.builds + 1
      /\ \A k \in Raw..Done : g.buf[k] = SubSeq(edit, 1, k)
  BY <1>3, BuiltFits
<1>5. built = [preview EXCEPT
                 !.graph = g, !.builds = @ + 1, !.rebuild = NoRebuild,
                 !.pending = Done, !.lost = Done, !.dirty = @ \/ preview.rebuild.edge < want]
  BY DEF Rebuilt
<1>6. NoRebuild \in RebuildType /\ NoRebuild.state = "none" /\ Done \in Raw..Done
  BY DEF NoRebuild, RebuildType, Raw, Done
<1>7. /\ [NoGraph EXCEPT !.edge = preview.graph.edge] \in GraphType
      /\ [NoGraph EXCEPT !.edge = preview.graph.edge].id = 0
  BY <1>3, NoBuffersIs DEF NoGraph, GraphType
<1> DEFINE empty == [NoGraph EXCEPT !.edge = preview.graph.edge]
<1>8. empty \in GraphType /\ empty.id = 0
  BY <1>7
<1> HIDE DEF g, built, empty
<1>9. /\ none \in PreviewType /\ none.graph = preview.graph /\ none.builds = preview.builds
      /\ none.pending = preview.pending /\ none.lost = preview.lost /\ none.rebuild = NoRebuild
  BY <1>3, <1>6 DEF PreviewType
<1> HIDE DEF none
<1>10. /\ failed \in PreviewType /\ failed.graph = preview.graph
       /\ failed.builds = preview.builds
       /\ failed.pending = preview.pending /\ failed.lost = preview.lost
       /\ failed.rebuild = NoRebuild
  BY <1>9 DEF PreviewType
<1>11. /\ dropped \in PreviewType /\ dropped.graph.id = 0
       /\ dropped.builds = preview.builds /\ dropped.rebuild = NoRebuild
  <2>1. dropped = [failed EXCEPT !.graph = empty]
    BY DEF empty
  <2> HIDE DEF failed
  <2>2. QED
    BY <1>8, <1>10, <2>1 DEF PreviewType
<1>12. /\ built \in PreviewType /\ built.graph = g /\ built.builds = preview.builds + 1
       /\ built.rebuild = NoRebuild
  <2>1. PICK dirty \in BOOLEAN :
          built = [preview EXCEPT
                     !.graph = g, !.builds = preview.builds + 1, !.rebuild = NoRebuild,
                     !.pending = Done, !.lost = Done, !.dirty = dirty]
    BY <1>3, <1>5 DEF PreviewType
  <2>2. preview \in PreviewType /\ preview.builds + 1 \in Nat
    BY <1>3
  <2>3. QED
    BY <1>4, <1>6, <2>1, <2>2 DEF PreviewType
<1> HIDE DEF failed, dropped
<1>13. acts' \in 0..MaxActs
  <2>1. (/\ preview.rebuild.state = "done" /\ preview.rebuild.photo = Photo
         /\ preview'.builds = preview.builds) => acts < MaxActs
    BY <1>2, <1>3, <1>12
  <2>2. QED
    BY <1>1, <2>1, BoundsAssumption DEF IInv, Others
<1>14. Others'
  BY <1>1, <1>13 DEF IInv, Others
<1>15. preview' \in PreviewType /\ preview'.rebuild.state = "none"
  BY <1>2, <1>6, <1>9, <1>10, <1>11, <1>12
<1>16. \/ /\ preview'.graph = preview.graph
          /\ preview'.builds = preview.builds
          /\ preview'.pending = preview.pending /\ preview'.lost = preview.lost
       \/ /\ preview'.graph.id = preview.builds + 1
          /\ preview'.builds = preview.builds + 1
          /\ \A k \in Raw..Done : preview'.graph.buf[k] = SubSeq(edit, 1, k)
       \/ preview'.graph.id = 0 /\ preview'.builds = preview.builds
  BY <1>2, <1>4, <1>9, <1>10, <1>11, <1>12
<1>17. QED
  BY <1>1, <1>14, <1>15, <1>16, FittedReplaced

(* The pictures of the photo that was open belong to a graph that is gone. *)
LEMMA OpenPhotoFits == ASSUME IInv, OpenPhoto PROVE IInv'
<1>1. /\ at = "poll" /\ at' = "views" /\ acts < MaxActs /\ acts' = acts + 1
      /\ edit' = [edit EXCEPT ![1] = @ + 1]
      /\ loading' = [state |-> "running", edge |-> want]
      /\ preview' = [preview EXCEPT
                       !.graph = NoGraph, !.loaded = FALSE, !.rebuild = NoRebuild,
                       !.pending = Done, !.lost = Done]
      /\ inter' = Reset(inter)
      /\ UNCHANGED <<repaint, alarm, gate, slow, age, full, want, dragging, chosen, canvas>>
  BY DEF OpenPhoto, Handles, Acts, Spend, Shown
<1>2. acts' \in 0..MaxActs
  BY <1>1, BoundsAssumption DEF IInv, Others
<1>3. edit' \in EditType
  BY <1>1 DEF IInv, Others, EditType
<1>4. loading' \in LoadingType
  BY <1>1 DEF IInv, Others, Edges, LoadingType
<1>5. Others'
  BY <1>1, <1>2, <1>3, <1>4 DEF IInv, Others
<1>6. /\ NoGraph \in GraphType /\ NoGraph.id = 0 /\ NoRebuild \in RebuildType
      /\ NoRebuild.state = "none" /\ Done \in Raw..Done
  BY NoBuffersIs DEF NoGraph, GraphType, NoRebuild, RebuildType, Raw, Done
<1>7. preview \in PreviewType
  BY DEF IInv, PreviewFits
<1>8. /\ preview' \in PreviewType /\ preview'.graph = NoGraph /\ preview'.rebuild = NoRebuild
      /\ preview'.builds = preview.builds
  BY <1>1, <1>6, <1>7 DEF PreviewType
<1>9. QED
  BY <1>1, <1>5, <1>6, <1>8, FittedReplaced

(* An edit at a stage is owed from that stage on, and leaves what the earlier stages read. *)
LEMMA EditFits == ASSUME IInv, NEW s \in EditStages, Edit(s) PROVE IInv'
<1>1. /\ at = "poll" /\ at' = "views"
      /\ edit' = [edit EXCEPT ![s + 1] = @ + 1]
      /\ UNCHANGED <<alarm, gate, slow, age, loading, want, dragging, chosen, canvas, acts>>
      /\ repaint' \in {2, repaint}
  BY DEF Edit, Handles, RequestRepaint, User, Shown
<1>2. s \in Raw..Output /\ s \in Raw..Done /\ s \in 1..3
  BY StagesAssumption DEF Raw, Output, Done
<1>3. edit \in EditType /\ edit' \in EditType
  BY <1>1, <1>2 DEF IInv, Others, EditType
<1>4. ASSUME NEW k \in Raw..Done, k <= s
      PROVE  SubSeq(edit', 1, k) = SubSeq(edit, 1, k)
  <2>1. \A j \in 1..k : edit'[j] = edit[j]
    BY <1>1, <1>2, <1>3, <1>4 DEF EditType, Raw, Done
  <2>2. ASSUME NEW e \in EditType, NEW f \in EditType, \A j \in 1..k : e[j] = f[j]
        PROVE  SubSeq(e, 1, k) = SubSeq(f, 1, k)
    BY <2>2, PrefixStays
  <2>3. QED
    BY <1>3, <2>1, <2>2
<1>5. Others'
  BY <1>1, <1>3 DEF IInv, Others
<1>6. /\ preview \in PreviewType /\ preview.graph.id <= preview.builds
      /\ preview.rebuild.state # "none" => preview.loaded
      /\ preview.pending \in Raw..Done /\ preview.lost \in Raw..Done
      /\ preview.graph.id # 0 =>
           \A k \in Raw..Earlier(preview.pending, preview.lost) :
             preview.graph.buf[k] = SubSeq(edit, 1, k)
      /\ FullFits(full, preview, edit)
  BY DEF IInv, PreviewFits, PreviewType
<1>7. /\ inter \in InterType /\ inter.edited \in Raw..Done /\ inter.pending \in Raw..Done
      /\ (inter.phase # "idle" \/ inter.following \/ inter.pending # Done) =>
           inter.graph.source # 0
      /\ inter.graph.source # 0 =>
           inter.graph.source = preview.graph.id /\ inter.graph.buf[Raw] = SubSeq(edit, 1, Raw)
      /\ inter.graph.source # 0 /\ inter.synced =>
           \A k \in Raw..Earlier(inter.pending, inter.edited) :
             inter.graph.buf[k] = SubSeq(edit, 1, k)
      /\ ~inter.synced /\ inter.pending # Done => inter.pending = Raw
  BY DEF IInv, InterFits, Holds, InterType
<1>8. CASE HasPipeline
  <2> DEFINE p == Earlier(preview.pending, s)
             q == Earlier(inter.edited, s)
  <2>1. /\ preview' = [preview EXCEPT !.pending = p]
        /\ inter' = [inter EXCEPT !.edited = q]
        /\ full' = Cancelled(full)
    BY <1>8 DEF Edit
  <2>2. /\ p \in Raw..Done /\ p <= s /\ p <= preview.pending
        /\ q \in Raw..Done /\ q <= s /\ q <= inter.edited
    BY <1>2, <1>6, <1>7, EarlierIs
  <2> HIDE DEF p, q
  <2>3. /\ preview' \in PreviewType /\ preview'.graph = preview.graph
        /\ preview'.builds = preview.builds /\ preview'.lost = preview.lost
        /\ preview'.pending = p /\ preview'.rebuild = preview.rebuild
        /\ preview'.loaded = preview.loaded
    BY <1>6, <2>1, <2>2 DEF PreviewType
  <2>4. ASSUME NEW k \in Raw..Earlier(p, preview.lost), preview.graph.id # 0
        PROVE  preview.graph.buf[k] = SubSeq(edit', 1, k)
    <3>1. /\ Earlier(p, preview.lost) <= p /\ Earlier(p, preview.lost) <= preview.lost
          /\ Earlier(p, preview.lost) \in Raw..Done
      BY <1>6, <2>2, EarlierIs
    <3>2. /\ k \in Raw..Done /\ k <= s /\ k <= preview.pending /\ k <= preview.lost
      BY <1>2, <1>6, <2>2, <2>4, <3>1 DEF Raw, Done
    <3>3. k <= Earlier(preview.pending, preview.lost)
      BY <1>6, <3>2, EarlierIs DEF Raw, Done
    <3>a. Earlier(preview.pending, preview.lost) \in Raw..Done
      BY <1>6, EarlierIs
    <3>4. k \in Raw..Earlier(preview.pending, preview.lost)
      BY <3>2, <3>3, <3>a DEF Raw, Done
    <3>5. QED
      BY <1>4, <1>6, <2>4, <3>2, <3>4
  <2>5. PreviewFits(preview', edit')
    BY <1>6, <2>3, <2>4 DEF PreviewFits
  <2>6. preview'.pending # Done
    BY <1>2, <2>2, <2>3 DEF Raw, Output, Done
  <2>7. FullFits(full', preview, edit)
    BY <1>6, <2>1, CancelledFits
  <2>8. FullFits(full', preview', edit')
    BY <1>3, <1>6, <2>3, <2>6, <2>7, FullMoves
  <2>9. /\ inter' \in InterType /\ inter'.graph = inter.graph /\ inter'.phase = inter.phase
        /\ inter'.following = inter.following /\ inter'.pending = inter.pending
        /\ inter'.synced = inter.synced /\ inter'.edited = q
    BY <1>7, <2>1, <2>2 DEF InterType
  <2>10. SubSeq(edit', 1, Raw) = SubSeq(edit, 1, Raw)
    <3>1. Raw \in Raw..Done /\ Raw <= s
      BY <1>2 DEF Raw, Done
    <3>2. QED
      BY <1>4, <3>1
  <2>11. ASSUME NEW k \in Raw..Earlier(inter.pending, q), inter.graph.source # 0, inter.synced
         PROVE  inter.graph.buf[k] = SubSeq(edit', 1, k)
    <3>1. /\ Earlier(inter.pending, q) <= q /\ Earlier(inter.pending, q) <= inter.pending
          /\ Earlier(inter.pending, q) \in Raw..Done
      BY <1>7, <2>2, EarlierIs
    <3>2. /\ k \in Raw..Done /\ k <= s /\ k <= inter.pending /\ k <= inter.edited
      BY <1>2, <1>7, <2>2, <2>11, <3>1 DEF Raw, Done
    <3>3. k <= Earlier(inter.pending, inter.edited)
      BY <1>7, <3>2, EarlierIs DEF Raw, Done
    <3>a. Earlier(inter.pending, inter.edited) \in Raw..Done
      BY <1>7, EarlierIs
    <3>4. k \in Raw..Earlier(inter.pending, inter.edited)
      BY <3>2, <3>3, <3>a DEF Raw, Done
    <3>5. QED
      BY <1>4, <1>7, <2>11, <3>2, <3>4
  <2>12. InterFits(inter', preview', edit')
    BY <1>7, <2>3, <2>9, <2>10, <2>11 DEF InterFits, Holds
  <2>13. Steps'
    BY <1>1 DEF IInv, Steps, WholeIsOfTheEdit
  <2>14. QED
    BY <1>5, <2>5, <2>8, <2>12, <2>13 DEF IInv
<1>9. CASE ~HasPipeline
  <2>1. preview' = preview /\ inter' = inter /\ full' = full /\ preview.graph.id = 0
    BY <1>9 DEF Edit, HasPipeline
  <2>2. PreviewFits(preview', edit')
    BY <1>6, <2>1 DEF PreviewFits
  <2>3. FullFits(full', preview', edit')
    BY <1>3, <1>6, <2>1, FullMoves
  <2>4. inter.graph.source = 0
    BY <1>7, <2>1
  <2>5. InterFits(inter', preview', edit')
    BY <1>7, <2>1, <2>4 DEF InterFits, Holds
  <2>6. Steps'
    BY <1>1 DEF IInv, Steps, WholeIsOfTheEdit
  <2>7. QED
    BY <1>5, <2>2, <2>3, <2>5, <2>6 DEF IInv
<1>10. QED
  BY <1>8, <1>9

-----------------------------------------------------------------------------
(* The frame's canvas and its work *)

(* The picture of the whole photo is only chosen for the output it was rendered beside, when
   nothing is pending. *)
LEMMA ShownIsOfTheEdit ==
  ASSUME IInv, ShownPicture.kind = "whole", preview.lost = Done
  PROVE  ShownPicture.picture = edit
<1>1. /\ HasPipeline /\ WholeShows
      /\ ShownPicture = [kind |-> "whole", picture |-> full.image.picture]
  BY DEF ShownPicture, NoPicture
<1>2. /\ full.image.output = <<preview.graph.id, preview.graph.revision>>
      /\ full.image.photo = edit[1] /\ preview.pending = Done /\ preview.graph.id # 0
  BY <1>1 DEF WholeShows, FittedOutput, Photo, HasPipeline
<1>3. full.image.output[1] = preview.graph.id
  BY <1>2
<1>4. Shows(full.image, preview, edit)
  BY DEF IInv, FullFits
<1>5. full.image.picture = edit
  BY <1>2, <1>3, <1>4 DEF Shows
<1>6. QED
  BY <1>1, <1>5

LEMMA AppliesQualityFits == ASSUME IInv, AppliesQuality PROVE IInv'
<1> DEFINE taken == [preview EXCEPT !.shrink = FALSE]
           run == [state |-> "running", photo |-> Photo, edge |-> want]
           starts == [taken EXCEPT !.dirty = FALSE, !.rebuild = run]
           waits == \/ preview.rebuild.state # "none"
                    \/ ~preview.dirty
                    \/ loading.state # "none"
<1>1. /\ at = "views" /\ at' = "follow" /\ chosen' = ShownPicture
      /\ \/ preview' = preview
         \/ preview' = [preview EXCEPT !.dirty = FALSE]
         \/ preview' = [taken EXCEPT !.dirty = FALSE]
         \/ preview' = starts /\ preview.loaded
         \/ preview' = taken
      /\ inter' = inter \/ inter' = Reset(inter)
      /\ UNCHANGED <<repaint, edit, gate, slow, age, full, loading, canvas, want, dragging>>
      /\ acts' = IF ~waits /\ preview'.dirty THEN acts + 1 ELSE acts
      /\ alarm' = (alarm \/ preview'.rebuild # preview.rebuild)
  <2> HIDE DEF taken, starts, waits
  <2>1. /\ IF waits THEN UNCHANGED <<preview, inter>>
           ELSE IF ~preview.loaded
             THEN preview' = [preview EXCEPT !.dirty = FALSE] /\ UNCHANGED inter
           ELSE IF FitsWanted
             THEN preview' = [taken EXCEPT !.dirty = FALSE] /\ UNCHANGED inter
           ELSE /\ preview' \in {starts} \cup Failures("worker", {taken})
                /\ inter' = Reset(inter)
        /\ Spend(~waits /\ preview'.dirty)
    BY DEF AppliesQuality, taken, starts, waits
  <2>2. \/ preview' = preview
        \/ preview' = [preview EXCEPT !.dirty = FALSE]
        \/ preview' = [taken EXCEPT !.dirty = FALSE]
        \/ preview' = starts /\ preview.loaded
        \/ preview' = taken
    BY <2>1 DEF Failures
  <2>3. inter' = inter \/ inter' = Reset(inter)
    BY <2>1
  <2>4. QED
    BY <2>1, <2>2, <2>3 DEF AppliesQuality, Spend, User
<1>2. /\ preview \in PreviewType /\ preview.graph.id <= preview.builds
      /\ preview.rebuild.state # "none" => preview.loaded
      /\ FullFits(full, preview, edit) /\ edit \in EditType
  BY DEF IInv, PreviewFits, Others
<1>3. run \in RebuildType
  BY <1>2 DEF RebuildType, Photo, EditType, IInv, Others, Edges
<1> HIDE DEF run
<1>4. /\ taken \in PreviewType /\ taken.graph = preview.graph /\ taken.builds = preview.builds
      /\ taken.pending = preview.pending /\ taken.lost = preview.lost
      /\ taken.loaded = preview.loaded /\ taken.rebuild = preview.rebuild
      /\ taken.dirty = preview.dirty
  BY <1>2 DEF PreviewType
<1> HIDE DEF taken
<1>5. /\ preview' \in PreviewType /\ preview'.graph = preview.graph
      /\ preview'.builds = preview.builds
      /\ preview'.pending = preview.pending /\ preview'.lost = preview.lost
      /\ preview'.loaded = preview.loaded
      /\ preview'.rebuild = preview.rebuild \/ preview.loaded
  BY <1>1, <1>2, <1>3, <1>4 DEF PreviewType
<1>6. ~waits /\ preview'.dirty => acts < MaxActs
  <2>1. ASSUME ~waits, preview'.dirty PROVE acts < MaxActs
    <3>1. CASE ~preview.loaded
      <4>1. preview' = [preview EXCEPT !.dirty = FALSE]
        BY <2>1, <3>1 DEF AppliesQuality
      <4>2. ~preview'.dirty
        BY <1>2, <4>1 DEF PreviewType
      <4>3. QED
        BY <2>1, <4>2
    <3>2. CASE preview.loaded /\ FitsWanted
      <4>1. preview' = [taken EXCEPT !.dirty = FALSE]
        BY <2>1, <3>2 DEF AppliesQuality, taken
      <4>2. ~preview'.dirty
        BY <1>4, <4>1 DEF PreviewType
      <4>3. QED
        BY <2>1, <4>2
    <3>3. CASE preview.loaded /\ ~FitsWanted
      <4>1. preview' \in {starts} \cup Failures("worker", {taken})
        BY <2>1, <3>3 DEF AppliesQuality, taken, run
      <4>2. ~starts.dirty
        BY <1>3, <1>4 DEF PreviewType
      <4>3. Failures("worker", {taken}) # {}
        BY <2>1, <4>1, <4>2
      <4>4. QED
        BY <4>3 DEF Failures, MayFail
    <3>4. QED
      BY <3>1, <3>2, <3>3
  <2>2. QED
    BY <2>1
<1>7. acts' \in 0..MaxActs
  BY <1>1, <1>6, BoundsAssumption DEF IInv, Others
<1>8. Others'
  BY <1>1, <1>7 DEF IInv, Others
<1>9. PreviewFits(preview', edit')
  BY <1>1, <1>5 DEF IInv, PreviewFits
<1>10. FullFits(full', preview', edit')
  BY <1>1, <1>2, <1>5, FullMoves
<1>11. InterFits(inter', preview', edit')
  <2>1. inter \in InterType
    BY DEF IInv, InterFits, Holds
  <2>2. CASE inter' = inter
    BY <1>1, <1>5, <2>2 DEF IInv, InterFits, Holds
  <2>3. CASE inter' = Reset(inter)
    BY <2>1, <2>3, ResetFits DEF InterFits
  <2>4. QED
    BY <1>1, <2>2, <2>3
<1>12. Steps'
  <2>1. (chosen'.kind = "whole" /\ preview'.lost = Done) => chosen'.picture = edit'
    BY <1>1, <1>5, ShownIsOfTheEdit
  <2>2. QED
    BY <1>1, <2>1 DEF Steps, WholeIsOfTheEdit
<1>13. QED
  BY <1>8, <1>9, <1>10, <1>11, <1>12 DEF IInv

(* What a frame makes of the drag, and when it hands the canvas over. *)
LEMMA FollowsDragIs ==
  ASSUME IInv, FollowsDrag
  PROVE  /\ Holds(inter', Done, preview, edit) /\ inter'.edited = Done
         /\ age' \in 0..Over /\ acts' \in 0..MaxActs
         /\ (inter.phase = "settling" /\ inter'.phase = "idle" /\ inter'.graph.source # 0)
              => HasPipeline /\ SharpCurrent
<1> DEFINE i == [inter EXCEPT !.edited = Done]
           stage == inter.edited
           wanted == Usable /\ slow
<1>1. PICK kept \in Maintained(i, wanted) :
        LET eligible == Usable /\ slow /\ kept.graph.source # 0
            next == NextPhase(kept.phase, eligible, stage # Done, SharpCurrent)
        IN /\ inter' = Enter(kept, next[1], Follows(next[1], next[2]), stage)
           /\ age' = next[2]
           /\ Spend(/\ kept.failedFor # inter.failedFor
                    /\ inter.warm.state # "died")
  BY DEF FollowsDrag
<1> DEFINE eligible == Usable /\ slow /\ kept.graph.source # 0
           next == NextPhase(kept.phase, eligible, stage # Done, SharpCurrent)
           following == Follows(next[1], next[2])
<1>2. /\ inter' = Enter(kept, next[1], following, stage)
      /\ age' = next[2]
      /\ acts' = IF kept.failedFor # inter.failedFor /\ inter.warm.state # "died"
                 THEN acts + 1 ELSE acts
  BY <1>1 DEF Spend
<1>3. /\ inter \in InterType /\ stage \in Raw..Done /\ Done \in Raw..Done
      /\ Holds(inter, stage, preview, edit) /\ age \in 0..Over /\ edit \in EditType
      /\ PreviewFits(preview, edit) /\ slow \in BOOLEAN
  BY DEF IInv, InterFits, Holds, InterType, Others, Raw, Done
<1>4. /\ i \in InterType /\ i.graph = inter.graph /\ i.phase = inter.phase
      /\ i.following = inter.following /\ i.pending = inter.pending /\ i.synced = inter.synced
      /\ i.edited = Done /\ i.failedFor = inter.failedFor /\ i.warm = inter.warm
  BY <1>3 DEF InterType
<1> HIDE DEF i
<1>5. Holds(i, stage, preview, edit)
  BY <1>3, <1>4, WarmFits
<1>6. wanted \in BOOLEAN /\ (wanted => HasPipeline)
  BY <1>3 DEF Usable
<1> HIDE DEF wanted, stage
<1>7. /\ Holds(kept, stage, preview, edit) /\ kept.edited = Done
      /\ kept.graph.source # 0 => wanted /\ kept.phase = inter.phase
      /\ (kept.failedFor # inter.failedFor /\ inter.warm.state # "died") => acts < MaxActs
  BY <1>3, <1>4, <1>5, <1>6, MaintainedFits
<1>8. kept \in InterType /\ kept.phase \in {"idle", "dragging", "settling"}
  BY <1>7 DEF Holds, InterType
<1>10. (eligible => wanted) /\ (eligible <=> (wanted /\ kept.graph.source # 0))
  BY DEF wanted
<1> DEFINE current == SharpCurrent
           edited == stage # Done
<1> HIDE DEF eligible, edited, current, next
<1>12. /\ next[1] \in {"idle", "dragging", "settling"} /\ next[2] \in 0..Over
       /\ next[1] # "idle" => eligible
       /\ following \in BOOLEAN
       /\ following => eligible
       /\ kept.phase = "settling" /\ eligible /\ next[1] = "idle" => current
  <2>1. 0 \in 0..Over
    BY DEF Over
  <2>2. \/ next = <<"idle", 0>>
        \/ next = <<"dragging", 0>> /\ eligible
        \/ next = <<"settling", 0>> /\ eligible
        \/ next = <<kept.phase, age>> /\ eligible
    BY DEF NextPhase, next
  <2>3. kept.phase = "settling" /\ eligible /\ next = <<"idle", 0>> => current
    BY DEF NextPhase, next, current
  <2>4. /\ next[1] \in {"idle", "dragging", "settling"} /\ next[2] \in 0..Over
        /\ next[1] # "idle" => eligible
    BY <1>3, <1>8, <2>1, <2>2
  <2>5. ASSUME kept.phase = "settling", eligible, next[1] = "idle" PROVE current
    <3>1. CASE next = <<"idle", 0>>
      BY <2>3, <2>5, <3>1
    <3>2. CASE next = <<"dragging", 0>>
      <4>1. next[1] = "dragging"
        BY <3>2
      <4>2. QED
        BY <2>5, <4>1
    <3>3. CASE next = <<"settling", 0>>
      <4>1. next[1] = "settling"
        BY <3>3
      <4>2. QED
        BY <2>5, <4>1
    <3>4. CASE next = <<kept.phase, age>>
      <4>1. next[1] = kept.phase
        BY <3>4
      <4>2. QED
        BY <2>5, <4>1
    <3>5. QED
      BY <2>2, <3>1, <3>2, <3>3, <3>4
  <2>6. following \in BOOLEAN /\ (following => next[1] # "idle")
    BY DEF Follows
  <2>7. QED
    BY <2>4, <2>5, <2>6
<1> HIDE DEF following
<1>13. /\ Holds(inter', Done, preview, edit) /\ inter'.edited = kept.edited
       /\ inter'.graph = kept.graph /\ inter'.phase = next[1]
  BY <1>2, <1>3, <1>7, <1>8, <1>10, <1>12, EnterFits
<1>14. acts' \in 0..MaxActs
  BY <1>2, <1>7, BoundsAssumption DEF IInv, Others
<1>15. (inter.phase = "settling" /\ inter'.phase = "idle" /\ inter'.graph.source # 0)
         => HasPipeline /\ SharpCurrent
  BY <1>6, <1>7, <1>10, <1>12, <1>13 DEF current
<1>16. QED
  BY <1>2, <1>7, <1>12, <1>13, <1>14, <1>15

LEMMA FollowsDragFits == ASSUME IInv, FollowsDrag PROVE IInv'
<1>1. /\ Holds(inter', Done, preview, edit) /\ inter'.edited = Done
      /\ age' \in 0..Over /\ acts' \in 0..MaxActs
  BY FollowsDragIs
<1>2. /\ at = "follow" /\ at' = "dispatch"
      /\ UNCHANGED <<edit, preview, slow, full, loading, want, dragging, chosen, canvas>>
      /\ gate' \in {gate, Polled} /\ repaint' \in {2, repaint} /\ alarm' \in BOOLEAN
  BY DEF FollowsDrag, RequestRepaint, User, Shown, IInv, Others
<1>3. gate' \in {"open", "busy", "finished"}
  BY <1>2 DEF IInv, Others, Polled
<1>4. Others'
  BY <1>1, <1>2, <1>3 DEF IInv, Others
<1>5. InterFits(inter', preview', edit')
  BY <1>1, <1>2 DEF InterFits
<1>6. Steps'
  BY <1>1, <1>2 DEF IInv, Steps, WholeIsOfTheEdit
<1>7. QED
  BY <1>2, <1>4, <1>5, <1>6 DEF IInv

LEMMA DispatchesFits == ASSUME IInv, Dispatches PROVE IInv'
<1> DEFINE opened == Polled = "open"
           reduced == opened /\ inter.following /\ inter.pending # Done
           fitted == opened /\ ~inter.following /\ preview.pending # Done
<1>1. /\ at = "dispatch" /\ at' = "whole" /\ chosen' = NoPicture
      /\ \/ reduced /\ ReducedRenders
         \/ fitted /\ FittedRenders
         \/ UNCHANGED <<preview, inter, acts>>
      /\ gate' \in {"busy", Polled}
      /\ repaint' \in {2, repaint}
      /\ UNCHANGED <<alarm, edit, slow, age, full, loading, want, dragging>>
  BY DEF Dispatches, RequestRepaint, User
<1>2. gate' \in {"open", "busy", "finished"}
  BY <1>1 DEF IInv, Others, Polled
<1>3. /\ PreviewFits(preview, edit) /\ edit \in EditType /\ acts \in 0..MaxActs
      /\ InterFits(inter, preview, edit) /\ FullFits(full, preview, edit)
      /\ inter.edited = Done
  BY <1>1 DEF IInv, Others, Steps
<1>4. /\ PreviewFits(preview', edit) /\ InterFits(inter', preview', edit)
      /\ FullFits(full, preview', edit)
      /\ inter'.edited = Done /\ acts' \in 0..MaxActs
  <2>1. CASE reduced /\ ReducedRenders
    BY <1>3, <2>1, ReducedRendersFits
  <2>2. CASE fitted /\ FittedRenders
    <3>1. /\ PreviewFits(preview', edit) /\ FullFits(full, preview', edit)
          /\ preview'.graph.id = preview.graph.id
          /\ inter' = inter /\ acts' \in 0..MaxActs
      BY <1>3, <2>2, FittedRendersFits
    <3>2. InterFits(inter', preview', edit)
      BY <1>3, <3>1 DEF InterFits, Holds
    <3>3. QED
      BY <1>3, <3>1, <3>2
  <2>3. CASE UNCHANGED <<preview, inter, acts>>
    BY <1>3, <2>3
  <2>4. QED
    BY <1>1, <2>1, <2>2, <2>3
<1>5. Others'
  BY <1>1, <1>2, <1>4 DEF IInv, Others
<1>6. Steps'
  <2>1. chosen'.kind # "whole"
    BY <1>1 DEF NoPicture
  <2>2. QED
    BY <1>1, <1>4, <2>1 DEF Steps, WholeIsOfTheEdit
<1>7. QED
  BY <1>1, <1>4, <1>5, <1>6 DEF IInv

-----------------------------------------------------------------------------
(* Theorems *)

LEMMA InitFits == Init => IInv
<1> SUFFICES ASSUME Init PROVE IInv
  OBVIOUS
<1>1. /\ edit = <<1, 1, 1, 1>>
      /\ at = "idle" /\ repaint = 1 /\ alarm = FALSE /\ gate = "open"
      /\ slow = ConstrainedMemory /\ age = 0 /\ want = 1 /\ dragging = FALSE
      /\ loading = [state |-> "running", edge |-> 1]
      /\ chosen = NoPicture /\ acts = 0
  BY DEF Init
<1>2. edit \in EditType
  BY <1>1 DEF EditType
<1>3. Others
  <2>1. loading \in LoadingType /\ age \in 0..Over /\ want \in Edges
    BY <1>1 DEF LoadingType, Over, Edges
  <2>2. acts \in 0..MaxActs
    BY <1>1, BoundsAssumption
  <2>3. QED
    <3>1. slow \in BOOLEAN
      BY <1>1, DeviceAssumption
    <3>2. /\ at \in {"idle", "poll", "views", "follow", "dispatch", "whole"}
          /\ gate \in {"open", "busy", "finished"}
      BY <1>1
    <3>a. repaint \in 0..2
      BY <1>1
    <3>b. alarm \in BOOLEAN /\ dragging \in BOOLEAN
      BY <1>1
    <3>3. QED
      BY <1>2, <2>1, <2>2, <3>1, <3>2, <3>a, <3>b DEF Others
<1>4. Done \in Raw..Done
  BY DEF Raw, Done
<1>5. PreviewFits(preview, edit)
  <2>1. NoGraph \in GraphType /\ NoGraph.id = 0
    BY NoBuffersIs DEF NoGraph, GraphType
  <2>2. NoRebuild \in RebuildType /\ NoRebuild.state = "none"
    BY DEF NoRebuild, RebuildType
  <2>3. preview = [graph |-> NoGraph, builds |-> 0, loaded |-> FALSE,
                   pending |-> Done, lost |-> Done, dirty |-> FALSE, shrink |-> FALSE,
                   rebuild |-> NoRebuild]
    BY DEF Init
  <2>4. /\ preview \in PreviewType /\ preview.graph = NoGraph /\ preview.builds = 0
        /\ preview.rebuild = NoRebuild
    BY <1>4, <2>1, <2>2, <2>3 DEF PreviewType
  <2>5. QED
    BY <2>1, <2>2, <2>4 DEF PreviewFits
<1>6. InterFits(inter, preview, edit) /\ inter.edited = Done
  <2>1. NoReduced \in ReducedType /\ NoReduced.source = 0 /\ NoWarm \in WarmType
    BY NoBuffersIs DEF NoReduced, ReducedType, NoWarm, WarmType
  <2>2. inter = [graph |-> NoReduced, warm |-> NoWarm, failedFor |-> 0,
                 phase |-> "idle", following |-> FALSE, edited |-> Done,
                 pending |-> Done, synced |-> FALSE]
    BY DEF Init
  <2>3. /\ inter \in InterType /\ inter.graph = NoReduced /\ inter.phase = "idle"
        /\ ~inter.following /\ inter.pending = Done /\ inter.edited = Done
    BY <1>4, <2>1, <2>2 DEF InterType
  <2>4. QED
    BY <2>1, <2>3 DEF InterFits, Holds
<1>7. FullFits(full, preview, edit)
  <2>1. full = [enabled |-> TRUE, running |-> NoRun, image |-> NoImage,
                seen |-> NoOutput, still |-> FALSE, gaveUpFor |-> 0]
    BY DEF Init
  <2>2. /\ NoRun \in RunType /\ NoImage \in ImageType /\ NoOutput \in OutputType
        /\ Shows(NoRun, preview, edit) /\ Shows(NoImage, preview, edit)
    BY NothingShows
  <2>3. full \in FullType /\ full.running = NoRun /\ full.image = NoImage
    BY <2>1, <2>2 DEF FullType
  <2>4. QED
    BY <2>2, <2>3 DEF FullFits
<1>8. Steps
  BY <1>1, <1>6 DEF Steps, WholeIsOfTheEdit, NoPicture
<1>9. QED
  BY <1>3, <1>5, <1>6, <1>7, <1>8 DEF IInv

LEMMA StepFits == IInv /\ [Next]_vars => IInv'
<1> SUFFICES ASSUME IInv, [Next]_vars PROVE IInv'
  OBVIOUS
<1>1. CASE FrameStarts \/ ReleaseMemory
  BY <1>1, FrameStartsFits, ReleaseMemoryFits
<1>2. CASE LoadArrives \/ RebuildArrives \/ WholeArrives
  BY <1>2, LoadArrivesFits, RebuildArrivesFits, WholeArrivesFits
<1>3. CASE Input
  <2>1. CASE NoInput \/ Grab \/ LetGo
    BY <2>1, HandsFit
  <2>2. CASE \E s \in EditStages : Edit(s)
    BY <2>2, EditFits
  <2>3. CASE Resize \/ ChangeQuality
    BY <2>3, ViewChangesFits
  <2>4. CASE ToggleWhole \/ OpenPhoto
    BY <2>4, ToggleWholeFits, OpenPhotoFits
  <2>5. QED
    BY <1>3, <2>1, <2>2, <2>3, <2>4 DEF Input
<1>4. CASE AppliesQuality \/ FollowsDrag \/ Dispatches \/ WholeAdvances
  BY <1>4, AppliesQualityFits, FollowsDragFits, DispatchesFits, WholeAdvancesFits
<1>5. CASE Elsewhere
  <2>1. CASE GpuFinishes \/ DeviceIsPolled \/ PhaseAges \/ AlarmRings
    BY <2>1, ElsewhereQuiet
  <2>2. CASE StillnessPasses
    BY <2>2, StillnessFits
  <2>3. CASE \E result \in {"done", "died", "failed"} :
               WarmUpEnds(result) \/ WholeEnds(result) \/ RebuildEnds(result) \/ LoadEnds(result)
    BY <2>3, WarmUpEndsFits, WholeEndsFits, RebuildEndsFits, LoadEndsFits
  <2>4. QED
    BY <1>5, <2>1, <2>2, <2>3 DEF Elsewhere
<1>6. CASE UNCHANGED vars
  BY <1>6 DEF vars, IInv, PreviewFits, InterFits, Holds, FullFits, Shows, Others, Steps,
              WholeIsOfTheEdit
<1>7. QED
  BY <1>1, <1>2, <1>3, <1>4, <1>5, <1>6 DEF Next, Frame

(* The inductive invariant holds. *)
THEOREM Invariance == Spec => []IInv
<1>1. Init => IInv
  BY InitFits
<1>2. IInv /\ [Next]_vars => IInv'
  BY StepFits
<1>3. QED
  BY <1>1, <1>2, PTL DEF Spec

(* The state keeps its shape: what the reduced preview follows or owes belongs to a reduced
   graph of the graph that is shown. *)
THEOREM TypeCorrect == Spec => []TypeOK
<1>1. IInv => TypeOK
  <2> SUFFICES ASSUME IInv PROVE TypeOK
    OBVIOUS
  <2>1. /\ preview.pending \in Raw..Done /\ preview.lost \in Raw..Done
        /\ preview.rebuild.state \in {"none", "running", "done", "failed"}
    BY DEF IInv, PreviewFits, PreviewType, RebuildType
  <2>2. /\ inter.warm.state \in {"none", "running", "done", "died"}
        /\ inter.phase \in {"idle", "dragging", "settling"}
        /\ inter.pending \in Raw..Done /\ inter.edited \in Raw..Done
        /\ (inter.phase # "idle" \/ inter.following \/ inter.pending # Done) =>
             inter.graph.source # 0
        /\ (inter.graph.source # 0) => inter.graph.source = preview.graph.id
    BY DEF IInv, InterFits, Holds, InterType, WarmType
  <2>3. full.running.state \in {"none", "running", "done", "failed"}
    BY DEF IInv, FullFits, FullType, RunType
  <2>4. /\ DOMAIN edit = 1..4 /\ (\A k \in 1..4 : edit[k] \in Nat)
        /\ loading.state \in {"none", "running", "done", "failed"}
    BY DEF IInv, Others, EditType, LoadingType
  <2>5. QED
    BY <2>1, <2>2, <2>3, <2>4 DEF IInv, Others, TypeOK
<1>2. QED
  BY <1>1, Invariance, PTL

(* However edits of several stages merge while the GPU is busy, and whichever stages fail: what
   a graph does not hold of the edit it owes. *)
THEOREM GraphsOwe == Spec => []GraphsOweWhatTheyMiss
<1>1. IInv => GraphsOweWhatTheyMiss
  <2> SUFFICES ASSUME IInv PROVE GraphsOweWhatTheyMiss
    OBVIOUS
  <2>1. FittedOwesWhatItMisses
    <3>1. /\ preview.pending \in Raw..Done /\ preview.lost \in Raw..Done
          /\ preview.graph.id # 0 =>
               \A k \in Raw..Earlier(preview.pending, preview.lost) :
                 preview.graph.buf[k] = SubSeq(edit, 1, k)
      BY DEF IInv, PreviewFits, PreviewType
    <3>2. Earlier(preview.pending, preview.lost) \in Raw..Done
      BY <3>1, EarlierIs
    <3>3. Earlier(preview.pending, preview.lost) \in Raw..Earlier(preview.pending, preview.lost)
      BY <3>2 DEF Raw, Done
    <3>4. QED
      BY <3>1, <3>3 DEF FittedOwesWhatItMisses, HasPipeline
  <2>2. SyncedMissesNothing
    <3> SUFFICES ASSUME inter.graph.source # 0, inter.synced, inter.edited = Done
                 PROVE  inter.graph.buf[inter.pending] = SubSeq(edit, 1, inter.pending)
      BY DEF SyncedMissesNothing
    <3>1. /\ inter.pending \in Raw..Done
          /\ \A k \in Raw..Earlier(inter.pending, Done) :
               inter.graph.buf[k] = SubSeq(edit, 1, k)
      BY DEF IInv, InterFits, Holds, InterType
    <3>2. Done \in Raw..Done
      BY DEF Raw, Done
    <3>3. Earlier(inter.pending, Done) = inter.pending
      BY <3>1, <3>2, EarlierIs
    <3>4. inter.pending \in Raw..inter.pending
      BY <3>1 DEF Raw, Done
    <3>5. QED
      BY <3>1, <3>3, <3>4
  <2>3. QED
    BY <2>1, <2>2 DEF GraphsOweWhatTheyMiss
<1>2. QED
  BY <1>1, Invariance, PTL

(* The full-resolution picture a frame shows is the photo with every edit. *)
THEOREM WholeShowsTheEdit == Spec => []WholeIsOfTheEdit
<1>1. IInv => WholeIsOfTheEdit
  BY DEF IInv, Steps
<1>2. QED
  BY <1>1, Invariance, PTL

(* The reduced preview hands the canvas to a fitted one that has every edit and that the GPU
   has finished. *)
THEOREM HandoverShows == Spec => HandoverShowsTheEdit
<1> DEFINE Handover ==
      (at = "follow" /\ inter.phase = "settling" /\ inter'.phase = "idle"
         /\ inter'.graph.source # 0)
      => /\ gate' = "open"
         /\ preview.lost # Done \/ Picture(preview.graph.buf) = edit
<1>1. IInv /\ [Next]_vars => [Handover]_vars
  <2> SUFFICES ASSUME IInv, Next, at = "follow", inter.phase = "settling",
                      inter'.phase = "idle", inter'.graph.source # 0
               PROVE  /\ gate' = "open"
                      /\ preview.lost # Done \/ Picture(preview.graph.buf) = edit
    OBVIOUS
  <2>1. FollowsDrag
    BY DEF Next, FrameStarts, ReleaseMemory, Frame, LoadArrives, RebuildArrives, WholeArrives,
           Input, NoInput, Edit, Grab, LetGo, Resize, ChangeQuality, ToggleWhole, OpenPhoto,
           Handles, AppliesQuality, Dispatches, WholeAdvances, Elsewhere, GpuFinishes,
           DeviceIsPolled, WarmUpEnds, WholeEnds, RebuildEnds, LoadEnds, PhaseAges,
           StillnessPasses, AlarmRings
  <2>2. HasPipeline /\ SharpCurrent
    BY <2>1, FollowsDragIs
  <2>3. gate' = "open"
    BY <2>1, <2>2 DEF FollowsDrag, SharpCurrent
  <2>4. CASE preview.lost = Done
    <3>1. /\ \A k \in Raw..Earlier(Done, Done) : preview.graph.buf[k] = SubSeq(edit, 1, k)
          /\ edit \in EditType
      BY <2>2, <2>4 DEF IInv, Others, PreviewFits, HasPipeline, SharpCurrent
    <3>2. Done \in Raw..Done
      BY DEF Raw, Done
    <3>3. Earlier(Done, Done) = Done
      BY <3>2, EarlierIs
    <3>4. preview.graph.buf[Done] = SubSeq(edit, 1, Done)
      BY <3>1, <3>2, <3>3
    <3>5. QED
      BY <2>3, <3>1, <3>4, EditIs DEF Picture
  <2>5. QED
    BY <2>3, <2>4
<1>2. Spec => [][Handover]_vars
  <2> HIDE DEF Handover
  <2>1. QED
    BY <1>1, Invariance, PTL DEF Spec
<1>3. QED
  BY <1>2 DEF HandoverShowsTheEdit

=============================================================================
