---------------------------- MODULE EditResults ----------------------------
(***************************************************************************)
(* What the editor promises of the results local AI makes for an edit: a   *)
(* result enters the edit only while the photo it was made from is open    *)
(* with the content it was made from, and only for something the edit asks *)
(* for.  The edit may give any result up.  ContentJobs implements this.    *)
(***************************************************************************)
EXTENDS Integers

VARIABLES
  photo,   \* the open photo's document generation and content
  asked,   \* what the edit asks for: a kind of mask and its input
  held     \* the results the edit holds, in its masks, its history and its cache

vars == <<photo, asked, held>>

AskedBy(result) == [kind |-> result.kind, input |-> result.input]

\* What may enter an edit that asks for a.
Answers(a, content) ==
  {result \in held' : result.content = content /\ AskedBy(result) \in a}

\* Edits, and the results that come in.
Answer ==
  /\ ~photo.loading
  /\ photo' = photo
  /\ held' \subseteq held \cup Answers(asked', photo.content)

\* The content changes: a retouch ends, or the history is stepped through.
Change ==
  /\ ~photo.loading /\ ~photo'.loading
  /\ photo'.document = photo.document
  /\ held' \subseteq held

Open ==
  /\ photo'.document > photo.document /\ photo'.loading
  /\ asked' = {} /\ held' = {}

\* The photo's saved edit brings its own results.
Load ==
  /\ photo.loading
  /\ photo' = [photo EXCEPT !.loading = FALSE]

Init == ~photo.loading /\ asked = {} /\ held = {}

Next == Answer \/ Change \/ Open \/ Load

Spec == Init /\ [][Next]_vars
=============================================================================
