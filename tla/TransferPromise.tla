--------------------------- MODULE TransferPromise ---------------------------
(***************************************************************************)
(* What mvp-orbit promises about a file transfer, without the machinery:   *)
(* no push is written to its end while its record is queued, and a         *)
(* transfer is resolved once, with one result, for good - a push as        *)
(* succeeded only if it was written to its end.  Files.tla is shown to     *)
(* implement this specification.                                           *)
(***************************************************************************)
EXTENDS Naturals

CONSTANTS
    Transfers,   \* transfer ids
    Pushes       \* those that write a file

VARIABLES
    status,      \* the record's status column
    results,     \* how many file.result events initiators can read
    landed       \* the pushes that were written to their end once

promiseVars == <<status, results, landed>>

Open     == {"queued", "running"}
Terminal == {"succeeded", "failed"}

PromiseInit ==
    /\ status = [t \in Transfers |-> "none"]
    /\ results = [t \in Transfers |-> 0]
    /\ landed = {}

PromiseCreate(t) ==
    /\ status[t] = "none"
    /\ status' = [status EXCEPT ![t] = "queued"]
    /\ UNCHANGED <<results, landed>>

PromiseStart(t) ==
    /\ status[t] = "queued"
    /\ status' = [status EXCEPT ![t] = "running"]
    /\ UNCHANGED <<results, landed>>

\* The file is written also when the reaper was faster than the client.
PromiseLand(t) ==
    /\ t \in Pushes
    /\ status[t] \notin {"none", "queued"}
    /\ landed' = landed \cup {t}
    /\ UNCHANGED <<status, results>>

\* One transaction of the hub may resolve several open records at once.
PromiseResolve(S, st) ==
    /\ \A t \in S : status[t] \in Open
    /\ st = "succeeded" => S \cap Pushes \subseteq landed
    /\ status' = [t \in Transfers |-> IF t \in S THEN st ELSE status[t]]
    /\ results' = [t \in Transfers |-> IF t \in S THEN results[t] + 1 ELSE results[t]]
    /\ UNCHANGED landed

PromiseNext ==
    \/ \E t \in Transfers : PromiseCreate(t) \/ PromiseStart(t) \/ PromiseLand(t)
    \/ \E S \in SUBSET Transfers, st \in Terminal : PromiseResolve(S, st)

PromiseSpec == PromiseInit /\ [][PromiseNext]_promiseVars
=============================================================================
