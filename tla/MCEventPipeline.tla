-------------------------- MODULE MCEventPipeline --------------------------
(***************************************************************************)
(* Small instances of EventPipeline for TLC.                               *)
(***************************************************************************)
EXTENDS EventPipeline
=============================================================================
