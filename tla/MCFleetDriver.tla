---------------------------- MODULE MCFleetDriver ----------------------------
(* A small instance of FleetDriver for TLC.                                 *)
EXTENDS FleetDriver

CONSTANTS d1, d2, d3, list
=============================================================================
