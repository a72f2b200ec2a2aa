---------------------------- MODULE CommandLife ----------------------------
(***************************************************************************)
(* What the hub promises about a command, without the machinery: a command *)
(* is queued, may be claimed once, its program may be started once by the  *)
(* holder of that claim, and it is resolved once, with one exit event.     *)
(* Commands.tla is shown to implement this specification.                  *)
(***************************************************************************)
EXTENDS Naturals

CONSTANT Commands        \* the command ids

VARIABLES
    status,    \* the record's status column
    claimed,   \* whether the record was ever handed to a client
    runs,      \* how often a program was started for the command
    exits      \* how many command.exit events initiators can read

lifeVars == <<status, claimed, runs, exits>>

Terminal == {"succeeded", "failed", "canceled"}
Open     == {"queued", "running"}

LifeInit ==
    /\ status  = [c \in Commands |-> "none"]
    /\ claimed = [c \in Commands |-> FALSE]
    /\ runs    = [c \in Commands |-> 0]
    /\ exits   = [c \in Commands |-> 0]

LifeCreate(c) ==
    /\ status[c] = "none"
    /\ status' = [status EXCEPT ![c] = "queued"]
    /\ UNCHANGED <<claimed, runs, exits>>

LifeClaim(c) ==
    /\ status[c] = "queued"
    /\ status'  = [status EXCEPT ![c] = "running"]
    /\ claimed' = [claimed EXCEPT ![c] = TRUE]
    /\ UNCHANGED <<runs, exits>>

LifeRun(c) ==
    /\ claimed[c]
    /\ runs[c] = 0
    /\ runs' = [runs EXCEPT ![c] = 1]
    /\ UNCHANGED <<status, claimed, exits>>

\* One transaction of the hub may resolve several open records at once.
LifeResolve(S) ==
    /\ \A c \in S : status[c] \in Open
    /\ \E st \in [S -> Terminal] :
         status' = [c \in Commands |-> IF c \in S THEN st[c] ELSE status[c]]
    /\ exits' = [c \in Commands |-> IF c \in S THEN exits[c] + 1 ELSE exits[c]]
    /\ UNCHANGED <<claimed, runs>>

LifeNext ==
    \/ \E c \in Commands : LifeCreate(c) \/ LifeClaim(c) \/ LifeRun(c)
    \/ \E S \in SUBSET Commands : LifeResolve(S)

LifeSpec == LifeInit /\ [][LifeNext]_lifeVars
=============================================================================
