---------------------------- MODULE DurableQueue ----------------------------
(***************************************************************************)
(* What the event_queue table promises the threads that share it, with no  *)
(* thread in sight: a log whose rows are handed out in order of their id   *)
(* and never go back.  Rows 1..head have been inserted, rows 1..done have  *)
(* been marked processed, and only processed rows are ever deleted.        *)
(*                                                                         *)
(* EventPipeline implements this specification: the analyzer's cursor is   *)
(* sound only because the processed rows form a prefix of the log.         *)
(***************************************************************************)
EXTENDS Naturals

CONSTANT MaxEvents      \* Bound on the number of rows inserted.

VARIABLES
  head,                 \* Id of the newest row (AUTOINCREMENT: never reused).
  done,                 \* Every row up to this id has been marked processed.
  gone                  \* Ids of the rows that retention has deleted.

vars == <<head, done, gone>>

Init ==
  /\ head = 0
  /\ done = 0
  /\ gone = {}

\* One transaction inserts one or more rows.
Insert ==
  /\ head' \in (head + 1)..MaxEvents
  /\ UNCHANGED <<done, gone>>

\* One UPDATE marks the next rows, in order and without a gap.
Mark ==
  /\ done' \in (done + 1)..head
  /\ UNCHANGED <<head, gone>>

\* One DELETE removes processed rows.
Delete ==
  /\ gone' \in SUBSET (1..done)
  /\ gone \subseteq gone'
  /\ UNCHANGED <<head, done>>

Next == Insert \/ Mark \/ Delete

Spec == Init /\ [][Next]_vars
=============================================================================
