--------------------------------- MODULE Files ---------------------------------
(***************************************************************************)
(* File transfers to and from one client: the records and the reaper of    *)
(* src/mvp_orbit/hub/store.py, the dispatch and the worker threads of      *)
(* client/service.py, and the file handlers of client/runtime.py.          *)
(*                                                                         *)
(* Unlike a command a transfer is not claimed: the worker announces it     *)
(* (file.started), does it, and reports once (file.result).  A failing     *)
(* POST kills the thread.  File events are delivered to every connection   *)
(* whose Last-Event-ID they exceed, whatever became of the transfer.       *)
(* A process that swaps its ClientService for one with a renewed token     *)
(* (client/main.py) reads them from the beginning again, while threads of  *)
(* the old service - the strays - may still be writing files.              *)
(***************************************************************************)
EXTENDS Naturals, Sequences, FiniteSets

CONSTANTS
    Transfers,   \* transfer ids
    Pushes,      \* those that write a file, the others read one
    Paths,       \* file paths of the client
    Path,        \* Path[t]: the file a transfer is about
    Faults,      \* which faults the environment may commit
    MaxFaults,   \* bound on the faults of one behaviour
    Nothing,     \* content of a path without a file
    Torn         \* content of a file that is being written

AllFaults == {"crash",         \* the client process dies and is restarted
              "swap",          \* it goes on with a new ClientService
              "disconnect",    \* its event stream breaks
              "lost_request",  \* a worker's POST does not reach the hub
              "late_request",  \* ... or reaches it after the worker gave up
              "lost_reply"}    \* the hub handles it, the answer is lost

ASSUME TransferAssumption == Pushes \subseteq Transfers /\ Path \in [Transfers -> Paths]
ASSUME FaultAssumption == Faults \subseteq AllFaults /\ MaxFaults \in Nat
ASSUME ContentAssumption == Nothing \notin Transfers /\ Torn \notin Transfers /\ Nothing # Torn

Open     == {"queued", "running"}
Terminal == {"succeeded", "failed"}

VARIABLES
    status,    \* file_transfers.status, "none" before the row exists
    results,   \* file.result events in the transfer's log
    overdue,   \* the claim timeout of a queued transfer has passed
    control,   \* the client's control events: transfers in order of seq
    up,        \* the client process runs
    conn,      \* it reads its event stream
    lastId,    \* ClientService._last_event_id
    worker,    \* the thread of a transfer
    outcome,   \* the result a worker reports
    disk,      \* content of a path: the transfer that wrote it last
    landed,    \* transfers whose content was written to its end once
    strays,    \* pushes in the hands of a former ClientService of the process
    net,       \* requests of workers on their way to the hub
    faults     \* faults so far

hubVars    == <<status, results, overdue, control>>
clientVars == <<up, conn, lastId>>
workVars   == <<worker, outcome, disk, landed, strays>>
vars == <<hubVars, clientVars, workVars, net, faults>>

Commit(f) == f \in Faults /\ faults < MaxFaults /\ faults' = faults + 1

Started(t)    == [type |-> "started", transfer |-> t, result |-> "none", waiting |-> TRUE]
Result(t, st) == [type |-> "result", transfer |-> t, result |-> st, waiting |-> TRUE]

-----------------------------------------------------------------------------
(* The hub *)

\* create_file_push and create_file_pull: the row and the client's event.
Create(t) ==
    /\ status[t] = "none"
    /\ status' = [status EXCEPT ![t] = "queued"]
    /\ control' = Append(control, t)
    /\ UNCHANGED <<results, overdue, clientVars, workVars, net, faults>>

BecomeOverdue(t) ==
    /\ status[t] = "queued" /\ ~overdue[t]
    /\ overdue' = [overdue EXCEPT ![t] = TRUE]
    /\ UNCHANGED <<status, results, control, clientVars, workVars, net, faults>>

\* Mutant: transfers of a client that is online are not reaped.
UnclaimedOffline == {t \in Transfers : status[t] = "queued" /\ overdue[t] /\ ~conn}

Unclaimed == {t \in Transfers : status[t] = "queued" /\ overdue[t]}

\* The reaper fails what nobody started; running transfers are not looked at.
Reap ==
    /\ Unclaimed # {}
    /\ status' = [t \in Transfers |-> IF t \in Unclaimed THEN "failed" ELSE status[t]]
    /\ results' = [t \in Transfers |-> IF t \in Unclaimed THEN results[t] + 1 ELSE results[t]]
    /\ UNCHANGED <<overdue, control, clientVars, workVars, net, faults>>

\* Mutant: a result does not look at the status of the record.
ApplyResultAlways(t, st) ==
    /\ status' = [status EXCEPT ![t] = st]
    /\ results' = [results EXCEPT ![t] = @ + 1]

\* What apply_client_events makes of a request; what comes too late changes
\* nothing.
ApplyStarted(t) ==
    /\ status' = [status EXCEPT ![t] = IF @ = "queued" THEN "running" ELSE @]
    /\ UNCHANGED results

ApplyResult(t, st) ==
    IF status[t] \in Open
    THEN /\ status' = [status EXCEPT ![t] = st]
         /\ results' = [results EXCEPT ![t] = @ + 1]
    ELSE UNCHANGED <<status, results>>

Apply(m) == \/ m.type = "started" /\ ApplyStarted(m.transfer)
            \/ m.type = "result" /\ ApplyResult(m.transfer, m.result)

\* Mutant: the answer to a request of a former process moves the worker.
AfterAnyAnswer(m) == IF m.type = "started" THEN "working" ELSE "gone"

\* The worker that waits goes on to work, or ends after its report.
AfterAnswer(m) ==
    IF ~m.waiting THEN worker[m.transfer]
    ELSE IF m.type = "started" THEN "working" ELSE "gone"

Handle(m) ==
    /\ m \in net
    /\ Apply(m)
    /\ net' = net \ {m}
    /\ worker' = [worker EXCEPT ![m.transfer] = AfterAnswer(m)]
    /\ UNCHANGED <<overdue, control, clientVars, outcome, disk, landed, strays, faults>>

\* The answer is lost: the worker does not go on.
HandleUnanswered(m) ==
    /\ m \in net /\ m.waiting
    /\ Commit("lost_reply")
    /\ Apply(m)
    /\ net' = net \ {m}
    /\ worker' = [worker EXCEPT ![m.transfer] = "gone"]
    /\ UNCHANGED <<overdue, control, clientVars, outcome, disk, landed, strays>>

Lose(m) ==
    /\ m \in net /\ m.waiting
    /\ \/ Commit("lost_request") /\ net' = net \ {m}
       \/ Commit("late_request") /\ net' = (net \ {m}) \cup {[m EXCEPT !.waiting = FALSE]}
    /\ worker' = [worker EXCEPT ![m.transfer] = "gone"]
    /\ UNCHANGED <<hubVars, clientVars, outcome, disk, landed, strays>>

-----------------------------------------------------------------------------
(* The client *)

\* Mutant: every connection starts over.
ConnectAnew ==
    /\ up /\ ~conn
    /\ conn' = TRUE
    /\ lastId' = 0
    /\ UNCHANGED <<hubVars, up, workVars, net, faults>>

Connect ==
    /\ up /\ ~conn
    /\ conn' = TRUE
    /\ UNCHANGED <<hubVars, up, lastId, workVars, net, faults>>

StreamBreaks ==
    /\ conn
    /\ Commit("disconnect")
    /\ conn' = FALSE
    /\ UNCHANGED <<hubVars, up, lastId, workVars, net>>

\* The next event of the stream gets a thread, which announces the transfer.
Dispatch ==
    /\ conn
    /\ lastId < Len(control)
    /\ LET t == control[lastId + 1]
       IN /\ worker' = [worker EXCEPT ![t] = "starting"]
          /\ net' = net \cup {Started(t)}
    /\ lastId' = lastId + 1
    /\ UNCHANGED <<hubVars, up, conn, outcome, disk, landed, strays, faults>>

\* write_bytes truncates the file before it writes.
BeginWrite(t) ==
    /\ worker[t] = "working" /\ t \in Pushes
    /\ worker' = [worker EXCEPT ![t] = "writing"]
    /\ disk' = [disk EXCEPT ![Path[t]] = Torn]
    /\ UNCHANGED <<hubVars, clientVars, outcome, landed, strays, net, faults>>

Report(t, st) ==
    /\ outcome' = [outcome EXCEPT ![t] = st]
    /\ worker' = [worker EXCEPT ![t] = "reporting"]
    /\ net' = net \cup {Result(t, st)}

\* The content of t is written to its end.  What it leaves is whole unless
\* somebody else is in the middle of writing the same file.
Written(t, others) ==
    /\ landed' = landed \cup {t}
    /\ \E content \in {t} \cup (IF others THEN {Torn} ELSE {}) :
         disk' = [disk EXCEPT ![Path[t]] = content]

Writing(u) == worker[u] = "writing"

EndWrite(t) ==
    /\ Writing(t)
    /\ Written(t, \/ \E u \in Transfers \ {t} : Writing(u) /\ Path[u] = Path[t]
                  \/ \E s \in strays : s.writing /\ Path[s.transfer] = Path[t])
    /\ Report(t, "succeeded")
    /\ UNCHANGED <<hubVars, clientVars, strays, faults>>

Read(t) ==
    /\ worker[t] = "working" /\ t \notin Pushes
    /\ disk[Path[t]] # Nothing
    /\ Report(t, "succeeded")
    /\ UNCHANGED <<hubVars, clientVars, disk, landed, strays, faults>>

\* Mutant: a failure is reported as success.
FailWorkUnnoticed(t) ==
    /\ worker[t] \in {"working", "writing"}
    /\ Report(t, "succeeded")
    /\ UNCHANGED <<hubVars, clientVars, disk, landed, strays, faults>>

\* Too large, not allowed, no such file, or the write itself fails.
FailWork(t) ==
    /\ worker[t] \in {"working", "writing"}
    /\ Report(t, "failed")
    /\ UNCHANGED <<hubVars, clientVars, disk, landed, strays, faults>>

\* The process dies with its threads; requests under way may still arrive.
Crash ==
    /\ up
    /\ Commit("crash")
    /\ up' = FALSE /\ conn' = FALSE /\ lastId' = 0
    /\ worker' = [t \in Transfers |-> "none"]
    /\ strays' = {}
    /\ net' = {[m EXCEPT !.waiting = FALSE] : m \in net}
    /\ UNCHANGED <<hubVars, outcome, disk, landed>>

Stray(t, writing) == [transfer |-> t, swap |-> faults, writing |-> writing]

\* The token is refused on a reconnect and a renewed one is there: the process
\* goes on with a new ClientService.  The HTTP client of the old one is closed,
\* so its threads learn no answer and cannot report, but who has a file to
\* write still writes it.
Swap ==
    /\ up /\ ~conn
    /\ Commit("swap")
    /\ lastId' = 0
    /\ worker' = [t \in Transfers |-> "none"]
    /\ strays' = strays \cup {Stray(t, Writing(t)) : t \in {u \in Pushes : worker[u] \in {"working", "writing"}}}
    /\ net' = {[m EXCEPT !.waiting = FALSE] : m \in net}
    /\ UNCHANGED <<hubVars, up, conn, outcome, disk, landed>>

StrayBegins(s) ==
    /\ ~s.writing
    /\ strays' = (strays \ {s}) \cup {[s EXCEPT !.writing = TRUE]}
    /\ disk' = [disk EXCEPT ![Path[s.transfer]] = Torn]
    /\ UNCHANGED <<hubVars, clientVars, worker, outcome, landed, net, faults>>

\* The file is written; the report fails and the thread dies of it.
StrayEnds(s) ==
    /\ s.writing
    /\ strays' = strays \ {s}
    /\ Written(s.transfer, \/ \E u \in Transfers : Writing(u) /\ Path[u] = Path[s.transfer]
                           \/ \E o \in strays \ {s} : o.writing /\ Path[o.transfer] = Path[s.transfer])
    /\ UNCHANGED <<hubVars, clientVars, worker, outcome, net, faults>>

StrayFails(s) ==
    /\ strays' = strays \ {s}
    /\ UNCHANGED <<hubVars, clientVars, worker, outcome, disk, landed, net, faults>>

Restart ==
    /\ ~up
    /\ up' = TRUE
    /\ UNCHANGED <<hubVars, conn, lastId, workVars, net, faults>>

\* A request of a worker that is gone need not arrive.
Vanish(m) ==
    /\ m \in net /\ ~m.waiting
    /\ net' = net \ {m}
    /\ UNCHANGED <<hubVars, clientVars, workVars, faults>>

-----------------------------------------------------------------------------
Init ==
    /\ status = [t \in Transfers |-> "none"]
    /\ results = [t \in Transfers |-> 0]
    /\ overdue = [t \in Transfers |-> FALSE]
    /\ control = <<>>
    /\ up = TRUE /\ conn = FALSE /\ lastId = 0
    /\ worker = [t \in Transfers |-> "none"]
    /\ outcome = [t \in Transfers |-> "none"]
    /\ disk = [p \in Paths |-> Nothing]
    /\ landed = {}
    /\ strays = {}
    /\ net = {}
    /\ faults = 0

StrayWork(s) == StrayBegins(s) \/ StrayEnds(s) \/ StrayFails(s)

Work(t) == BeginWrite(t) \/ EndWrite(t) \/ Read(t)

Next ==
    \/ Reap
    \/ Connect
    \/ StreamBreaks
    \/ Dispatch
    \/ Crash
    \/ Swap
    \/ Restart
    \/ \E s \in strays : StrayWork(s)
    \/ \E t \in Transfers :
        \/ Create(t)
        \/ BecomeOverdue(t)
        \/ Work(t)
        \/ FailWork(t)
    \/ \E m \in net :
        \/ Handle(m)
        \/ HandleUnanswered(m)
        \/ Lose(m)
        \/ Vanish(m)

Spec == Init /\ [][Next]_vars

\* Time passes, the reaper runs, threads run, a running client reconnects and
\* requests somebody waits for are handled.  A dead client may stay dead.
FairSpec ==
    /\ Spec
    /\ WF_vars(Reap) /\ WF_vars(Connect) /\ WF_vars(Dispatch)
    /\ \A t \in Transfers :
        /\ WF_vars(BecomeOverdue(t))
        /\ WF_vars(Work(t) \/ FailWork(t))
        /\ WF_vars(\E m \in net : m.transfer = t /\ m.waiting /\ Handle(m))

-----------------------------------------------------------------------------
(* Properties *)

Posts == [type : {"started"}, transfer : Transfers, result : {"none"}, waiting : BOOLEAN]
         \cup [type : {"result"}, transfer : Transfers, result : Terminal, waiting : BOOLEAN]

\* Type invariant: only a worker that is starting or reporting waits for a
\* request, and what it waits for fits.
TypeOK ==
    /\ status \in [Transfers -> {"none"} \cup Open \cup Terminal]
    /\ results \in [Transfers -> Nat]
    /\ overdue \in [Transfers -> BOOLEAN]
    /\ control \in Seq(Transfers)
    /\ up \in BOOLEAN /\ conn \in BOOLEAN /\ lastId \in 0 .. Len(control)
    /\ conn => up
    /\ worker \in [Transfers -> {"none", "starting", "working", "writing", "reporting", "gone"}]
    /\ outcome \in [Transfers -> {"none"} \cup Terminal]
    /\ disk \in [Paths -> Transfers \cup {Nothing, Torn}]
    /\ landed \subseteq Pushes
    /\ strays \subseteq [transfer : Pushes, swap : Nat, writing : BOOLEAN]
    /\ net \subseteq Posts
    /\ \A m \in net : m.waiting =>
            worker[m.transfer] = IF m.type = "started" THEN "starting" ELSE "reporting"
    /\ faults \in Nat

\* The log of a transfer holds one result when the transfer is resolved and
\* none before: the reaper, a late report and the report of a repeated run
\* never add a second (store.py:994-1024).
ResultOnce ==
    \A t \in Transfers : results[t] = IF status[t] \in Terminal THEN 1 ELSE 0

\* A resolved transfer stays as it is: a late start does not bring it back to
\* running, a late result does not replace the reaper's ("late completions must
\* not resurrect terminal records", SKILL.md:142).
ResolvedIsFinal ==
    [][\A t \in Transfers : status[t] \in Terminal => status'[t] = status[t]]_vars

\* A push that is reported as succeeded was written to its end.
SuccessMeansLanded ==
    \A t \in Pushes : status[t] = "succeeded" => t \in landed

\* A ClientService does every transfer once, however often its stream breaks
\* and resumes: the file events are not filtered, only Last-Event-ID keeps them
\* from coming again.  (The service of a restarted process, and the one that
\* takes over after a swap, do them all again.)
OncePerService ==
    [][\A t \in Transfers : worker[t] \notin {"none", "starting"} => worker'[t] # "starting"]_vars

\* A transfer is resolved: by the reaper if nobody starts it, and once started
\* whatever the file handlers run into.  Only a fault leaves it running, which
\* neither the reaper nor a reconcile mends.
OnlyFaultsOrphan ==
    \A t \in Transfers :
        status[t] = "queued" ~> status[t] \in Terminal \/ (status[t] = "running" /\ faults > 0)

(* The hub's records and the client's disk implement TransferPromise. *)
Promise == INSTANCE TransferPromise

\* Whatever the faults - late reports, repeated runs of a restarted client, the
\* reaper in between - records, results and files behave as TransferPromise says.
ImplementsPromise == Promise!PromiseSpec
=============================================================================
