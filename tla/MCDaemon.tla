------------------------------ MODULE MCDaemon ------------------------------
(* Values of the constants of Daemon for TLC. *)
EXTENDS Daemon

CONSTANTS c1, c2, p1, p2, p3
=============================================================================
