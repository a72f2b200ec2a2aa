---------------------------- MODULE ShellPromise ----------------------------
(***************************************************************************)
(* What mvp-orbit promises about a shell session, without the machinery: a *)
(* shell is spawned at most once and only for a session that was claimed,  *)
(* what is written to it is what was typed, in order, each input once and  *)
(* none left out - though of any input a part may be missing - and the     *)
(* session ends once, with one terminal event, for good.  Shells.tla is    *)
(* shown to implement this specification.                                  *)
(***************************************************************************)
EXTENDS Naturals, Sequences

CONSTANT Sessions        \* the session ids

VARIABLES
    status,    \* the record's status column
    claimed,   \* whether the record was ever handed to a client
    spawned,   \* how often a shell was started for the session
    typed,     \* how many inputs the hub accepted
    written,   \* the inputs the session's pty took, in order
    cut,       \* those it took a part of only
    ends       \* how many terminal events initiators can read

promiseVars == <<status, claimed, spawned, typed, written, cut, ends>>

Over == {"closed", "failed"}
Open == {"queued", "running"}

PromiseInit ==
    /\ status  = [s \in Sessions |-> "none"]
    /\ claimed = [s \in Sessions |-> FALSE]
    /\ spawned = [s \in Sessions |-> 0]
    /\ typed   = [s \in Sessions |-> 0]
    /\ written = [s \in Sessions |-> <<>>]
    /\ cut     = [s \in Sessions |-> {}]
    /\ ends    = [s \in Sessions |-> 0]

PromiseOpen(s) ==
    /\ status[s] = "none"
    /\ status' = [status EXCEPT ![s] = "queued"]
    /\ UNCHANGED <<claimed, spawned, typed, written, cut, ends>>

PromiseClaim(s) ==
    /\ status[s] = "queued"
    /\ status'  = [status EXCEPT ![s] = "running"]
    /\ claimed' = [claimed EXCEPT ![s] = TRUE]
    /\ UNCHANGED <<spawned, typed, written, cut, ends>>

PromiseSpawn(s) ==
    /\ claimed[s]
    /\ spawned[s] = 0
    /\ spawned' = [spawned EXCEPT ![s] = 1]
    /\ UNCHANGED <<status, claimed, typed, written, cut, ends>>

PromiseType(s) ==
    /\ status[s] # "none"
    /\ typed' = [typed EXCEPT ![s] = @ + 1]
    /\ UNCHANGED <<status, claimed, spawned, written, cut, ends>>

\* The shell gets some of the inputs that follow those it has.
PromiseWrite(s) ==
    /\ spawned[s] = 1
    /\ \E n \in Len(written[s]) .. typed[s] :
         /\ written' = [written EXCEPT ![s] = [i \in 1 .. n |-> i]]
         /\ \E short \in SUBSET (Len(written[s]) + 1 .. n) :
              cut' = [cut EXCEPT ![s] = @ \cup short]
    /\ UNCHANGED <<status, claimed, spawned, typed, ends>>

\* One transaction of the hub may end several sessions at once.
PromiseEnd(S) ==
    /\ \A s \in S : status[s] \in Open
    /\ \E st \in [S -> Over] :
         status' = [s \in Sessions |-> IF s \in S THEN st[s] ELSE status[s]]
    /\ ends' = [s \in Sessions |-> IF s \in S THEN ends[s] + 1 ELSE ends[s]]
    /\ UNCHANGED <<claimed, spawned, typed, written, cut>>

PromiseNext ==
    \/ \E s \in Sessions :
          PromiseOpen(s) \/ PromiseClaim(s) \/ PromiseSpawn(s) \/ PromiseType(s) \/ PromiseWrite(s)
    \/ \E S \in SUBSET Sessions : PromiseEnd(S)

PromiseSpec == PromiseInit /\ [][PromiseNext]_promiseVars
=============================================================================
