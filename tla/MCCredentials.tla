---------------------------- MODULE MCCredentials ----------------------------
(* Values of the constants of Credentials for TLC. *)
EXTENDS Credentials

CONSTANTS u1, u2, a1, a2, th
=============================================================================
