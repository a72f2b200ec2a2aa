------------------------------ MODULE MCShells ------------------------------
(* Values of the constants of Shells for TLC. *)
EXTENDS Shells

CONSTANT s1
=============================================================================
