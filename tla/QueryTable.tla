----------------------------- MODULE QueryTable -----------------------------
(***************************************************************************)
(* What becomes of the queries that the fleet server asks, with no agent,  *)
(* call or thread in sight: a query is answered once, and the records that *)
(* come with the answer are taken in hand with it, by one or by several at *)
(* a time, until each who has them has stored or lost them.                *)
(*                                                                         *)
(* FederatedQueries implements this specification, with whoever asks.      *)
(***************************************************************************)
EXTENDS Naturals

VARIABLES
  asked,            \* Queries 1..asked have been asked.
  bare,             \* Those whose answer brings no records to store (traces).
  answered,         \* Those that have been answered.
  held,             \* Those whose records somebody has in hand, not stored.
  kept,             \* Those whose records somebody has stored,
  lost              \* ... or has lost.

vars == <<asked, bare, answered, held, kept, lost>>

Init ==
  /\ asked = 0 /\ bare = {} /\ answered = {}
  /\ held = {} /\ kept = {} /\ lost = {}

\* One transaction asks one query; a request for both ends of an incident two.
Ask ==
  /\ asked' \in {asked + 1, asked + 2}
  /\ \E new \in SUBSET ((asked + 1)..asked') : bare' = bare \union new
  /\ UNCHANGED <<answered, held, kept, lost>>

Answer ==
  /\ \E q \in (1..asked) \ answered :
       /\ answered' = answered \union {q}
       /\ held' = IF q \in bare THEN held ELSE held \union {q}
  /\ UNCHANGED <<asked, bare, kept, lost>>

\* Somebody else had begun with the same answer: the records are the same.
AnswerAgain ==
  /\ \E q \in answered \ bare : held' = held \union {q}
  /\ UNCHANGED <<asked, bare, answered, kept, lost>>

\* Who has stored or lost them may have been the last to hold them.
Keep ==
  /\ \E q \in held : kept' = kept \union {q} /\ held' \in {held, held \ {q}}
  /\ UNCHANGED <<asked, bare, answered, lost>>

Lose ==
  /\ \E some \in SUBSET held : lost' = lost \union some /\ held' \in {held, held \ some}
  /\ UNCHANGED <<asked, bare, answered, kept>>

Next == Ask \/ Answer \/ AnswerAgain \/ Keep \/ Lose

Spec == Init /\ [][Next]_vars

\* Every answer that brings records has been taken in hand, and it alone.
Accounted == held \union kept \union lost = answered \ bare
=============================================================================
