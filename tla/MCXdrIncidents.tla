-------------------------- MODULE MCXdrIncidents --------------------------
(***************************************************************************)
(* Small instances of XdrIncidents for TLC.                                *)
(***************************************************************************)
EXTENDS XdrIncidents

CONSTANTS a1, a2, lateral

\* Movement from a1 to a2, and escalation on a1 otherwise.
MCOrigin == [f \in Findings |-> a1]
MCTarget == [f \in Findings |-> IF f = lateral THEN a2 ELSE a1]
=============================================================================
