--------------------------- MODULE MCElm327Driver ---------------------------
(* A small instance of Elm327Driver for TLC.                                *)
EXTENDS Elm327Driver

CONSTANTS t1, t2, t3
=============================================================================
