---------------------------- MODULE MCOperations ----------------------------
(* The installed release and two newer ones.                               *)
EXTENDS Operations

CONSTANTS v1, v2, v3

Versions == {v1, v2, v3}
=============================================================================
