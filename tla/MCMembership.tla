----------------------------- MODULE MCMembership -----------------------------
(* Membership for TLC: symmetric channels, aliases and requests. *)
EXTENDS Membership, TLC

CONSTANTS ch1, ch2, a1, a2, a3, r1, r2

\* Everybody may be left by an old hub, or only a2 may be there from before.
Symmetric == Permutations(Channels) \cup Permutations(Requests)
AliasSymmetric == Symmetric \cup Permutations(Aliases \ Legacy)
=============================================================================
