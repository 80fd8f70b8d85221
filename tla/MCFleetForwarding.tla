------------------------- MODULE MCFleetForwarding -------------------------
(***************************************************************************)
(* Small instances of FleetForwarding for TLC.                             *)
(***************************************************************************)
EXTENDS FleetForwarding
=============================================================================
