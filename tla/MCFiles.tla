-------------------------------- MODULE MCFiles --------------------------------
(* Files for TLC: up to three transfers on one path. *)
EXTENDS Files, TLC

CONSTANTS t1, t2, t3, p1

OnePath == [t \in Transfers |-> p1]

\* Transfers in the same direction are alike.
Symmetric == Permutations(Pushes) \cup Permutations(Transfers \ Pushes)
=============================================================================
