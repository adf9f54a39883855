-------------------------- MODULE MCRuntimeLifespan --------------------------
(* A small instance of RuntimeLifespan for TLC.                             *)
EXTENDS RuntimeLifespan

CONSTANTS s1, s2, s3
=============================================================================
