---------------------------- MODULE MCCommands ----------------------------
(* Values of the constants of Commands for TLC. *)
EXTENDS Commands, TLC

CONSTANTS c1, c2, k1

\* All commands on the one client.
TargetSame == [c \in Commands |-> k1]

Symmetric == Permutations(Commands)
=============================================================================
