------------------------------ MODULE Commands ------------------------------
(***************************************************************************)
(* The life of a command between an initiator, the hub and the client that *)
(* executes it: HubStore (src/mvp_orbit/hub/store.py), the event stream of *)
(* the hub (hub/app.py), and the consume loop, heartbeat and worker        *)
(* threads of ClientService (client/service.py, client/runtime.py).        *)
(*                                                                         *)
(* Every hub handler runs in one transaction under the store's lock, so it *)
(* is one action.  Requests travel as members of net: a client thread puts *)
(* one there and waits, the hub handles it, and the thread learns the      *)
(* answer - or an exception, if the environment loses the request or the   *)
(* answer.  A request whose sender gave up stays behind with waiting FALSE *)
(* when late requests are allowed, and the hub may still handle it.        *)
(***************************************************************************)
EXTENDS Naturals, Sequences, FiniteSets

CONSTANTS
    Commands,     \* command ids
    Clients,      \* client ids (members that execute work)
    Target,       \* Target[c]: the client the command is created for
    Faults,       \* which faults the environment may commit
    MaxFaults,    \* bound on the number of faults of one behaviour
    MaxControl,   \* bound on a client's control log that stops repeated cancels
    MaxEvents     \* bound on a command's event log that stops further output

AllFaults == {"crash",           \* the client process dies
              "swap",            \* it starts over with a renewed token
              "disconnect",      \* the event stream of a client breaks
              "lost_request",    \* a worker's POST never reaches the hub
              "lost_reply",      \* the answer to a worker's event POST is lost
              "lost_lease",      \* the answer to a granted claim is lost
              "lost_reconcile",  \* the reconcile POST never reaches the hub
              "late_request",    \* a POST is handled after its sender gave up
              "outage"}          \* heartbeats of a live client do not arrive

ASSUME TargetAssumption == Target \in [Commands -> Clients]
ASSUME BoundAssumption ==
    /\ Faults \subseteq AllFaults
    /\ MaxFaults \in Nat /\ MaxControl \in Nat /\ MaxEvents \in Nat

Terminal == {"succeeded", "failed", "canceled"}
Open     == {"queued", "running"}
Reasons  == {"none", "canceled", "unclaimed", "client_lost",
             "client_restarted", "reported"}

VARIABLES
    \* the hub's tables
    status,       \* commands.status, "none" before the row exists
    started,      \* commands.started_at is set
    cancelAsked,  \* commands.cancel_requested_at is set
    reason,       \* commands.failure_code, "reported" for a client's own code
    overdue,      \* the claim timeout of the record has passed
    events,       \* command_events of the command, kinds in order
    control,      \* client_control_events of a client, in order of seq
    lastSeen,     \* clients.last_seen_at: no row, recent, or past the cutoff
    \* one event stream per client, hub side and in flight
    cursor,       \* last_event_id of the hub's stream generator
    stream,       \* seqs of the control events sent and not consumed
    \* the client process
    up,           \* the process runs
    conn,         \* its consume loop: down, reconciling, or reading
    lastId,       \* ClientService._last_event_id
    cancels,      \* keys of ClientService._command_cancels
    cancelSet,    \* those whose cancel event is set
    worker,       \* the _run_command thread of a command
    outcome,      \* the status the worker will report
    \* the operating system of the client
    proc,         \* the command's program: none, alive, ended
    runs,         \* how often the program was started
    stray,        \* the thread of a ClientService the process swapped for another
    \* the network
    net,          \* requests of worker threads on their way to the hub
    recons,       \* reconcile requests on their way to the hub
    faults        \* faults committed so far

hubVars    == <<status, started, cancelAsked, reason, overdue, events, control, lastSeen>>
streamVars == <<cursor, stream>>
loopVars   == <<up, conn, lastId, cancels, cancelSet>>
workVars   == <<worker, outcome, proc, runs, stray>>
vars == <<hubVars, streamVars, loopVars, workVars, net, recons, faults>>

-----------------------------------------------------------------------------
(* Requests *)

WorkReq(t, c, x, w) == [type |-> t, cmd |-> c, body |-> x, waiting |-> w]
ClaimReq(c)         == WorkReq("claim", c, "none", TRUE)
ReportReq(c, kind)  == WorkReq("report", c, kind, TRUE)
ExitReq(c, st)      == WorkReq("exit", c, st, TRUE)

WorkRequests ==
    {m \in [type : {"claim", "report", "exit"}, cmd : Commands,
            body : {"none", "started", "output"} \cup Terminal, waiting : BOOLEAN] :
        /\ m.type = "report" => m.body \in {"started", "output"}
        /\ m.type = "exit" => m.body \in Terminal}

ReconcileReq(k, A, w) == [client |-> k, active |-> A, waiting |-> w]
ReconcileRequests == [client : Clients, active : SUBSET Commands, waiting : BOOLEAN]

\* The environment may still commit the fault f, and commits it now.
Commit(f) ==
    /\ f \in Faults
    /\ faults < MaxFaults
    /\ faults' = faults + 1

\* The request the worker of c is waiting on, if any.
Pending(c) == {m \in net : m.cmd = c /\ m.waiting}

\* The sender of m gives up, and the hub may still get it - or never does.
Abandoned(m) == WorkReq(m.type, m.cmd, m.body, FALSE)

GiveUp(m) ==
    \/ Commit("lost_request") /\ net' = net \ {m}
    \/ Commit("late_request") /\ net' = (net \ {m}) \cup {Abandoned(m)}

ControlEvent(k, c) == [kind |-> k, cmd |-> c]

HubTypes ==
    /\ status \in [Commands -> {"none"} \cup Open \cup Terminal]
    /\ started \in [Commands -> BOOLEAN]
    /\ cancelAsked \in [Commands -> BOOLEAN]
    /\ reason \in [Commands -> Reasons]
    /\ overdue \in [Commands -> BOOLEAN]
    /\ events \in [Commands -> Seq({"started", "output", "exit"})]
    /\ control \in [Clients -> Seq([kind : {"start", "cancel"}, cmd : Commands])]
    /\ lastSeen \in [Clients -> {"none", "fresh", "stale"}]

StreamTypes ==
    /\ cursor \in [Clients -> Nat]
    /\ stream \in [Clients -> SUBSET Nat]

LoopTypes ==
    /\ up \in [Clients -> BOOLEAN]
    /\ conn \in [Clients -> {"down", "reconciling", "reading"}]
    /\ lastId \in [Clients -> Nat]
    /\ cancels \in [Clients -> SUBSET Commands]
    /\ cancelSet \in [Clients -> SUBSET Commands]

WorkTypes ==
    /\ worker \in [Commands -> {"idle", "claiming", "leased", "executing", "exiting"}]
    /\ outcome \in [Commands -> {"none"} \cup Terminal]
    /\ proc \in [Commands -> {"none", "alive", "ended"}]
    /\ runs \in [Commands -> Nat]
    /\ stray \in [Commands -> {"none", "leased", "executing"}]

NetTypes ==
    /\ net \subseteq WorkRequests
    /\ recons \subseteq ReconcileRequests
    /\ faults \in Nat

TypeOK == HubTypes /\ StreamTypes /\ LoopTypes /\ WorkTypes /\ NetTypes

Init ==
    /\ status = [c \in Commands |-> "none"]
    /\ started = [c \in Commands |-> FALSE]
    /\ cancelAsked = [c \in Commands |-> FALSE]
    /\ reason = [c \in Commands |-> "none"]
    /\ overdue = [c \in Commands |-> FALSE]
    /\ events = [c \in Commands |-> <<>>]
    /\ control = [k \in Clients |-> <<>>]
    /\ lastSeen = [k \in Clients |-> "none"]
    /\ cursor = [k \in Clients |-> 0]
    /\ stream = [k \in Clients |-> {}]
    /\ up = [k \in Clients |-> TRUE]
    /\ conn = [k \in Clients |-> "down"]
    /\ lastId = [k \in Clients |-> 0]
    /\ cancels = [k \in Clients |-> {}]
    /\ cancelSet = [k \in Clients |-> {}]
    /\ worker = [c \in Commands |-> "idle"]
    /\ outcome = [c \in Commands |-> "none"]
    /\ proc = [c \in Commands |-> "none"]
    /\ runs = [c \in Commands |-> 0]
    /\ stray = [c \in Commands |-> "none"]
    /\ net = {}
    /\ recons = {}
    /\ faults = 0

-----------------------------------------------------------------------------
(* The hub: initiators' requests and the reaper *)

\* The records in S become terminal, each with its exit event.
Resolve(S, st, why) ==
    /\ status' = [c \in Commands |-> IF c \in S THEN st ELSE status[c]]
    /\ reason' = [c \in Commands |-> IF c \in S THEN why[c] ELSE reason[c]]
    /\ events' = [c \in Commands |-> IF c \in S THEN Append(events[c], "exit") ELSE events[c]]

\* POST /api/commands, for a client whose row exists.
Create(c) ==
    /\ status[c] = "none"
    /\ lastSeen[Target[c]] # "none"
    /\ status' = [status EXCEPT ![c] = "queued"]
    /\ control' = [control EXCEPT ![Target[c]] = Append(@, ControlEvent("start", c))]
    /\ UNCHANGED <<started, cancelAsked, reason, overdue, events, lastSeen>>
    /\ UNCHANGED <<streamVars, loopVars, workVars, net, recons, faults>>

CancelQueued(c) ==
    /\ status[c] = "queued"
    /\ Resolve({c}, "canceled", [x \in {c} |-> "canceled"])
    /\ cancelAsked' = [cancelAsked EXCEPT ![c] = TRUE]
    /\ UNCHANGED <<started, overdue, control, lastSeen>>
    /\ UNCHANGED <<streamVars, loopVars, workVars, net, recons, faults>>

CancelRunning(c) ==
    /\ status[c] = "running"
    /\ cancelAsked[c] => Len(control[Target[c]]) < MaxControl
    /\ cancelAsked' = [cancelAsked EXCEPT ![c] = TRUE]
    /\ control' = [control EXCEPT ![Target[c]] = Append(@, ControlEvent("cancel", c))]
    /\ UNCHANGED <<status, started, reason, overdue, events, lastSeen>>
    /\ UNCHANGED <<streamVars, loopVars, workVars, net, recons, faults>>

\* The claim timeout of a queued record passes.
BecomeOverdue(c) ==
    /\ status[c] = "queued"
    /\ ~overdue[c]
    /\ overdue' = [overdue EXCEPT ![c] = TRUE]
    /\ UNCHANGED <<status, started, cancelAsked, reason, events, control, lastSeen>>
    /\ UNCHANGED <<streamVars, loopVars, workVars, net, recons, faults>>

\* ORBIT_CLIENT_OFFLINE_SEC pass without a sign of life of the client.
BecomeStale(k) ==
    /\ lastSeen[k] = "fresh"
    /\ \/ ~up[k] /\ UNCHANGED faults
       \/ up[k] /\ Commit("outage")
    /\ lastSeen' = [lastSeen EXCEPT ![k] = "stale"]
    /\ UNCHANGED <<status, started, cancelAsked, reason, overdue, events, control>>
    /\ UNCHANGED <<streamVars, loopVars, workVars, net, recons>>

Lost(c)      == status[c] = "running" /\ lastSeen[Target[c]] # "fresh"
Unclaimed(c) == status[c] = "queued" /\ overdue[c]

\* One pass of the reaper over all commands.
Reap ==
    LET S == {c \in Commands : Lost(c) \/ Unclaimed(c)} IN
    /\ S # {}
    /\ Resolve(S, "failed", [c \in S |-> IF Lost(c) THEN "client_lost" ELSE "unclaimed"])
    /\ UNCHANGED <<started, cancelAsked, overdue, control, lastSeen>>
    /\ UNCHANGED <<streamVars, loopVars, workVars, net, recons, faults>>

-----------------------------------------------------------------------------
(* The hub: requests of clients.  m.waiting tells whether the sender still  *)
(* waits; Answered and the "lost" disjuncts say what it learns.             *)

Seen(k) == lastSeen' = [lastSeen EXCEPT ![k] = "fresh"]

\* The worker thread ends and takes its cancel event with it.
ThreadEnds(c) ==
    /\ worker' = [worker EXCEPT ![c] = "idle"]
    /\ cancels' = [cancels EXCEPT ![Target[c]] = @ \ {c}]
    /\ cancelSet' = [cancelSet EXCEPT ![Target[c]] = @ \ {c}]

\* The thread dies of an exception; its entry in _command_cancels stays.
ThreadDies(c) ==
    /\ worker' = [worker EXCEPT ![c] = "idle"]
    /\ UNCHANGED <<cancels, cancelSet>>

Claimable(c) == status[c] = "queued"

GrantClaim(m) ==
    LET c == m.cmd IN
    /\ m.type = "claim"
    /\ Claimable(c)
    /\ status' = [status EXCEPT ![c] = "running"]
    /\ started' = [started EXCEPT ![c] = TRUE]
    /\ net' = net \ {m}
    /\ \/ ~m.waiting /\ UNCHANGED <<worker, cancels, cancelSet, faults>>
       \/ /\ m.waiting
          /\ worker' = [worker EXCEPT ![c] = "leased"]
          /\ UNCHANGED <<cancels, cancelSet, faults>>
       \/ m.waiting /\ Commit("lost_lease") /\ ThreadDies(c)
    /\ UNCHANGED <<cancelAsked, reason, overdue, events, control, lastSeen>>
    /\ UNCHANGED <<streamVars, up, conn, lastId, outcome, proc, runs, stray, recons>>

\* The client's answer to 409: the thread returns.
Refused(c) == ThreadEnds(c)

\* 409: the record is not queued any more.
RefuseClaim(m) ==
    LET c == m.cmd IN
    /\ m.type = "claim"
    /\ ~Claimable(c)
    /\ net' = net \ {m}
    /\ \/ ~m.waiting /\ UNCHANGED <<worker, cancels, cancelSet, faults>>
       \/ m.waiting /\ Refused(c) /\ UNCHANGED faults
       \/ m.waiting /\ Commit("lost_lease") /\ ThreadDies(c)
    /\ UNCHANGED <<hubVars, streamVars, up, conn, lastId, outcome, proc, runs, stray, recons>>

\* Mutant: the outcome is not kept for the report.
StartExitForgetful(c, st) ==
    worker' = [worker EXCEPT ![c] = "exiting"] /\ UNCHANGED outcome

\* The worker's outcome is decided: it turns to posting command.exit.
StartExit(c, st) ==
    /\ worker' = [worker EXCEPT ![c] = "exiting"]
    /\ outcome' = [outcome EXCEPT ![c] = st]

\* command.started, command.stdout and command.stderr are appended whatever
\* the record's status; a worker whose POST raised reports runtime_error.
HandleReport(m) ==
    LET c == m.cmd IN
    /\ m.type = "report"
    /\ events' = [events EXCEPT ![c] = Append(@, m.body)]
    /\ Seen(Target[c])
    /\ net' = net \ {m}
    /\ \/ UNCHANGED <<worker, outcome, faults>>
       \/ m.waiting /\ Commit("lost_reply") /\ StartExit(c, "failed")
    /\ UNCHANGED <<status, started, cancelAsked, reason, overdue, control>>
    /\ UNCHANGED <<streamVars, loopVars, proc, runs, stray, recons>>

\* Mutant: a late completion overwrites the record.
ApplyExitAlways(c, st) == Resolve({c}, st, [x \in {c} |-> "reported"])

\* command.exit takes effect only on an open record.
ApplyExit(c, st) ==
    IF status[c] \in Open
    THEN Resolve({c}, st, [x \in {c} |-> "reported"])
    ELSE UNCHANGED <<status, reason, events>>

\* Mutant: the exit report is tried once only.
ExitNotRetried(c) == ThreadEnds(c)

\* A failed exit report leaves the thread in its retry loop.
ExitRetried(c) == UNCHANGED <<worker, cancels, cancelSet>>

HandleExit(m) ==
    LET c == m.cmd IN
    /\ m.type = "exit"
    /\ ApplyExit(c, m.body)
    /\ Seen(Target[c])
    /\ net' = net \ {m}
    /\ \/ ~m.waiting /\ UNCHANGED <<worker, outcome, cancels, cancelSet, faults>>
       \/ /\ m.waiting
          /\ ThreadEnds(c)
          /\ outcome' = [outcome EXCEPT ![c] = "none"]
          /\ UNCHANGED faults
       \/ m.waiting /\ Commit("lost_reply") /\ ExitRetried(c) /\ UNCHANGED outcome
    /\ UNCHANGED <<started, cancelAsked, overdue, control>>
    /\ UNCHANGED <<streamVars, up, conn, lastId, proc, runs, stray, recons>>

\* Mutants: rows of every status, the whole list.
UnlistedAnyStatus(m) ==
    {c \in Commands : Target[c] = m.client /\ status[c] # "none" /\ c \notin m.active}
UnlistedOrNot(m) == {c \in Commands : Target[c] = m.client /\ status[c] = "running"}

\* The running records of the client that its reconcile does not list.
Unlisted(m) ==
    {c \in Commands : Target[c] = m.client /\ status[c] = "running" /\ c \notin m.active}

HandleReconcile(m) ==
    LET k == m.client
        S == Unlisted(m)
    IN
    /\ Resolve(S, "failed", [c \in S |-> "client_restarted"])
    /\ Seen(k)
    /\ recons' = recons \ {m}
    /\ conn' = IF m.waiting THEN [conn EXCEPT ![k] = "reading"] ELSE conn
    /\ UNCHANGED <<started, cancelAsked, overdue, control>>
    /\ UNCHANGED <<streamVars, up, lastId, cancels, cancelSet, workVars, net, faults>>

-----------------------------------------------------------------------------
(* The hub: the client's event stream *)

\* Mutant: every event about a command that is not queued is stale.
LiveIfQueued(e) == status[e.cmd] = "queued"

\* A start is sent only while its command is queued; cancels always are.
Live(e) == e.kind = "start" => status[e.cmd] = "queued"

\* One turn of _client_stream: everything after the cursor is examined, the
\* live events are sent, and the cursor skips the dropped ones for good.
Poll(k) ==
    /\ conn[k] # "down"
    /\ cursor[k] < Len(control[k])
    /\ stream' = [stream EXCEPT ![k] =
                    @ \cup {i \in cursor[k] + 1 .. Len(control[k]) : Live(control[k][i])}]
    /\ cursor' = [cursor EXCEPT ![k] = Len(control[k])]
    /\ UNCHANGED <<hubVars, loopVars, workVars, net, recons, faults>>

-----------------------------------------------------------------------------
(* The client: its consume loop *)

\* Mutant: the hub goes on where its last stream to the client stopped.
ResumeAtCursor(k) == cursor[k]

\* Last-Event-ID.
ResumeFrom(k) == lastId[k]

\* Mutant: only work whose program runs is listed.
ActiveIfExecuting(k) == {c \in cancels[k] : worker[c] = "executing"}

\* active_command_ids: the keys of _command_cancels.
ActiveCommands(k) == cancels[k]

\* (Re)connect with Last-Event-ID: the hub registers the client and streams
\* from there; the client first reports what it is executing.
Connect(k) ==
    /\ up[k]
    /\ conn[k] = "down"
    /\ conn' = [conn EXCEPT ![k] = "reconciling"]
    /\ Seen(k)
    /\ cursor' = [cursor EXCEPT ![k] = ResumeFrom(k)]
    /\ stream' = [stream EXCEPT ![k] = {}]
    /\ recons' = recons \cup {ReconcileReq(k, ActiveCommands(k), TRUE)}
    /\ UNCHANGED <<status, started, cancelAsked, reason, overdue, events, control>>
    /\ UNCHANGED <<up, lastId, cancels, cancelSet, workVars, net, faults>>

\* The reconcile POST raises; the loop logs it and reads on.
ReconcileFails(k) ==
    \E m \in recons :
        /\ m.client = k /\ m.waiting
        /\ \/ Commit("lost_reconcile") /\ recons' = recons \ {m}
           \/ /\ Commit("late_request")
              /\ recons' = (recons \ {m}) \cup {ReconcileReq(k, m.active, FALSE)}
        /\ conn' = [conn EXCEPT ![k] = "reading"]
        /\ UNCHANGED <<hubVars, streamVars, up, lastId, cancels, cancelSet, workVars, net>>

\* The next event of the stream, in order of seq.
NextEvent(k, i) == i \in stream[k] /\ \A j \in stream[k] : i <= j

Consume(k, i) ==
    /\ conn[k] = "reading"
    /\ NextEvent(k, i)
    /\ stream' = [stream EXCEPT ![k] = @ \ {i}]
    /\ lastId' = [lastId EXCEPT ![k] = IF @ < i THEN i ELSE @]
    /\ UNCHANGED <<hubVars, cursor, up, conn, outcome, proc, runs, stray, recons, faults>>

\* command.start: a worker thread is started unless one already has the id.
DispatchStart(k) ==
    \E i \in stream[k] :
        LET c == control[k][i].cmd IN
        /\ control[k][i].kind = "start"
        /\ Consume(k, i)
        /\ IF c \in cancels[k]
           THEN UNCHANGED <<cancels, worker, net>>
           ELSE /\ cancels' = [cancels EXCEPT ![k] = @ \cup {c}]
                /\ worker' = [worker EXCEPT ![c] = "claiming"]
                /\ net' = net \cup {ClaimReq(c)}
        /\ UNCHANGED cancelSet

\* command.cancel: set the event of the worker, if there is one.
DispatchCancel(k) ==
    \E i \in stream[k] :
        LET c == control[k][i].cmd IN
        /\ control[k][i].kind = "cancel"
        /\ Consume(k, i)
        /\ cancelSet' = IF c \in cancels[k]
                        THEN [cancelSet EXCEPT ![k] = @ \cup {c}]
                        ELSE cancelSet
        /\ UNCHANGED <<cancels, worker, net>>

\* The stream breaks (or the hub restarts): events in flight are lost.
StreamBreaks(k) ==
    /\ conn[k] = "reading"
    /\ Commit("disconnect")
    /\ conn' = [conn EXCEPT ![k] = "down"]
    /\ stream' = [stream EXCEPT ![k] = {}]
    /\ UNCHANGED <<hubVars, cursor, up, lastId, cancels, cancelSet, workVars, net, recons>>

\* A heartbeat of a live client arrives.
Heartbeat(k) ==
    /\ up[k]
    /\ lastSeen[k] # "fresh"
    /\ Seen(k)
    /\ UNCHANGED <<status, started, cancelAsked, reason, overdue, events, control>>
    /\ UNCHANGED <<streamVars, loopVars, workVars, net, recons, faults>>

\* The consume loop, the worker threads and what they wait for are gone.  The
\* hub may still handle a request that was on its way.
Forget(k) ==
    /\ lastId' = [lastId EXCEPT ![k] = 0]
    /\ cancels' = [cancels EXCEPT ![k] = {}]
    /\ cancelSet' = [cancelSet EXCEPT ![k] = {}]
    /\ worker' = [c \in Commands |-> IF Target[c] = k THEN "idle" ELSE worker[c]]
    /\ outcome' = [c \in Commands |-> IF Target[c] = k THEN "none" ELSE outcome[c]]
    /\ LET cut   == {m \in net : Target[m.cmd] = k /\ m.waiting}
           rcut  == {m \in recons : m.client = k /\ m.waiting}
       IN \E late \in SUBSET cut, rlate \in SUBSET rcut :
            /\ late \cup rlate # {} => "late_request" \in Faults
            /\ net' = (net \ cut) \cup {Abandoned(m) : m \in late}
            /\ recons' = (recons \ rcut) \cup {ReconcileReq(k, m.active, FALSE) : m \in rlate}

\* The process dies, by a signal or by giving up on the stream, and all its
\* threads with it.  Programs it started run in sessions of their own.
Crash(k) ==
    /\ up[k]
    /\ Commit("crash")
    /\ up' = [up EXCEPT ![k] = FALSE]
    /\ conn' = [conn EXCEPT ![k] = "down"]
    /\ stream' = [stream EXCEPT ![k] = {}]
    /\ stray' = [c \in Commands |-> IF Target[c] = k THEN "none" ELSE stray[c]]
    /\ Forget(k)
    /\ UNCHANGED <<hubVars, cursor, proc, runs>>

\* The thread of c does not notice that the HTTP client was closed: it is about
\* to start the program, or waits for its output, its end or the deadline.
GoesOn(c) == worker[c] = "leased" \/ (worker[c] = "executing" /\ proc[c] = "alive" /\ Pending(c) = {})

\* A reconnect is refused with 401 and the process goes on with a renewed token
\* and a new ClientService.  The old one is shut down and its HTTP client is
\* closed: what its threads post raises, and nothing reaches their cancel
\* events any more, but nobody stops them either.
Swap(k) ==
    /\ up[k]
    /\ conn[k] = "down"
    /\ Commit("swap")
    /\ stray' = [c \in Commands |-> IF Target[c] = k /\ GoesOn(c) THEN worker[c] ELSE stray[c]]
    /\ Forget(k)
    /\ UNCHANGED <<hubVars, streamVars, up, conn, proc, runs>>

\* A new process, started by the supervisor.
Restart(k) ==
    /\ ~up[k]
    /\ up' = [up EXCEPT ![k] = TRUE]
    /\ UNCHANGED <<hubVars, streamVars, conn, lastId, cancels, cancelSet, workVars, net, recons, faults>>

-----------------------------------------------------------------------------
(* The client: the worker thread of a command *)

\* The claim POST raises something other than 409: nothing catches it.
ClaimFails(c) ==
    \E m \in Pending(c) :
        /\ m.type = "claim"
        /\ GiveUp(m)
        /\ ThreadDies(c)
        /\ UNCHANGED <<hubVars, streamVars, up, conn, lastId, outcome, proc, runs, stray, recons>>

\* handle_command raises before it gets to Popen (a working directory outside
\* the workspace): the thread reports runtime_error.
SetupFails(c) ==
    /\ worker[c] = "leased"
    /\ StartExit(c, "failed")
    /\ UNCHANGED <<hubVars, streamVars, loopVars, proc, runs, stray, net, recons, faults>>

\* Popen succeeds, or fails with OSError (proc stays "none"); either way
\* command.started is posted.
Spawn(c) ==
    /\ worker[c] = "leased"
    /\ worker' = [worker EXCEPT ![c] = "executing"]
    /\ \/ /\ proc' = [proc EXCEPT ![c] = "alive"]
          /\ runs' = [runs EXCEPT ![c] = @ + 1]
       \/ UNCHANGED <<proc, runs>>
    /\ net' = net \cup {ReportReq(c, "started")}
    /\ UNCHANGED <<hubVars, streamVars, loopVars, outcome, stray, recons, faults>>

Output(c) ==
    /\ worker[c] = "executing"
    /\ Pending(c) = {}
    /\ Len(events[c]) < MaxEvents
    /\ net' = net \cup {ReportReq(c, "output")}
    /\ UNCHANGED <<hubVars, streamVars, loopVars, workVars, recons, faults>>

\* The program ends by itself or is killed at its deadline, or there was none.
Finish(c) ==
    /\ worker[c] = "executing"
    /\ Pending(c) = {}
    /\ proc' = [proc EXCEPT ![c] = IF @ = "alive" THEN "ended" ELSE @]
    /\ \E st \in {"succeeded", "failed"} :
         /\ proc[c] = "none" => st = "failed"
         /\ StartExit(c, st)
    /\ UNCHANGED <<hubVars, streamVars, loopVars, runs, stray, net, recons, faults>>

\* The loop of handle_command sees the cancel event and kills the program.
Terminate(c) ==
    /\ worker[c] = "executing"
    /\ Pending(c) = {}
    /\ proc[c] = "alive"
    /\ c \in cancelSet[Target[c]]
    /\ proc' = [proc EXCEPT ![c] = "ended"]
    /\ StartExit(c, "canceled")
    /\ UNCHANGED <<hubVars, streamVars, loopVars, runs, stray, net, recons, faults>>

\* Mutant: a report that cannot be delivered is ignored.
ReportFailsIgnored(c) ==
    \E m \in Pending(c) :
        /\ m.type = "report"
        /\ GiveUp(m)
        /\ UNCHANGED <<hubVars, streamVars, loopVars, workVars, recons>>

\* A command.started or output POST raises: the worker reports runtime_error
\* and leaves the program alone.
ReportFails(c) ==
    \E m \in Pending(c) :
        /\ m.type = "report"
        /\ GiveUp(m)
        /\ StartExit(c, "failed")
        /\ UNCHANGED <<hubVars, streamVars, loopVars, proc, runs, stray, recons>>

\* One attempt of _post_terminal_event, and its failure: the loop retries.
PostExit(c) ==
    /\ worker[c] = "exiting"
    /\ Pending(c) = {}
    /\ net' = net \cup {ExitReq(c, outcome[c])}
    /\ UNCHANGED <<hubVars, streamVars, loopVars, workVars, recons, faults>>

ExitFails(c) ==
    \E m \in Pending(c) :
        /\ m.type = "exit"
        /\ GiveUp(m)
        /\ ExitRetried(c)
        /\ UNCHANGED <<hubVars, streamVars, up, conn, lastId, outcome, proc, runs, stray, recons>>

\* A thread of an earlier ClientService starts the program it has the lease for,
\* if it can; command.started cannot be posted, and that ends the thread.
StraySpawns(c) ==
    /\ stray[c] = "leased"
    /\ stray' = [stray EXCEPT ![c] = "none"]
    /\ \/ /\ proc' = [proc EXCEPT ![c] = "alive"]
          /\ runs' = [runs EXCEPT ![c] = @ + 1]
       \/ UNCHANGED <<proc, runs>>
    /\ UNCHANGED <<hubVars, streamVars, loopVars, worker, outcome, net, recons, faults>>

\* It is over when the program ends, the deadline or an earlier cancel kills the
\* program, or there is output to post, which leaves the program alone.
StrayEnds(c) ==
    /\ stray[c] = "executing"
    /\ stray' = [stray EXCEPT ![c] = "none"]
    /\ \/ proc' = [proc EXCEPT ![c] = "ended"]
       \/ UNCHANGED proc
    /\ UNCHANGED <<hubVars, streamVars, loopVars, worker, outcome, runs, net, recons, faults>>

\* A program that no thread waits for ends.
OrphanEnds(c) ==
    /\ worker[c] # "executing" /\ stray[c] # "executing"
    /\ proc[c] = "alive"
    /\ proc' = [proc EXCEPT ![c] = "ended"]
    /\ UNCHANGED <<hubVars, streamVars, loopVars, worker, outcome, runs, stray, net, recons, faults>>

-----------------------------------------------------------------------------
Initiator(c) == Create(c) \/ CancelQueued(c) \/ CancelRunning(c)
Time         == (\E c \in Commands : BecomeOverdue(c)) \/ (\E k \in Clients : BecomeStale(k))
Handle(m)    == GrantClaim(m) \/ RefuseClaim(m) \/ HandleReport(m) \/ HandleExit(m)
Loop(k)      == \/ Connect(k) \/ ReconcileFails(k) \/ StreamBreaks(k) \/ Heartbeat(k)
                \/ DispatchStart(k) \/ DispatchCancel(k) \/ Crash(k) \/ Swap(k)
                \/ Restart(k)
Worker(c)    == \/ ClaimFails(c) \/ SetupFails(c) \/ Spawn(c) \/ Output(c) \/ Finish(c)
                \/ Terminate(c) \/ ReportFails(c) \/ PostExit(c) \/ ExitFails(c) \/ StraySpawns(c) \/ StrayEnds(c)
                \/ OrphanEnds(c)

Next ==
    \/ \E c \in Commands : Initiator(c) \/ Worker(c)
    \/ \E k \in Clients : Poll(k) \/ Loop(k)
    \/ \E m \in net : Handle(m)
    \/ \E m \in recons : HandleReconcile(m)
    \/ Time
    \/ Reap

Spec == Init /\ [][Next]_vars

(***************************************************************************)
(* Fairness.  The hub handles requests (uvicorn's thread pool), sends its  *)
(* stream and reaps periodically; clocks advance; a client that runs       *)
(* reconnects and reads its stream; a worker goes on, retries its exit     *)
(* report and ends its program no later than timeout_sec.  No fairness on  *)
(* Create, cancels, faults, Restart (nobody has to restart a client) and   *)
(* Heartbeat.                                                              *)
(***************************************************************************)
HubFairness ==
    /\ WF_vars(\E m \in recons : HandleReconcile(m))
    /\ \A c \in Commands :
         /\ WF_vars(\E m \in net : m.cmd = c /\ Handle(m))
         /\ WF_vars(BecomeOverdue(c))
    /\ \A k \in Clients : WF_vars(Poll(k)) /\ WF_vars(~up[k] /\ BecomeStale(k))
    /\ WF_vars(Reap)

LoopFairness ==
    \A k \in Clients :
        WF_vars(Connect(k)) /\ WF_vars(DispatchStart(k) \/ DispatchCancel(k))

WorkerFairness ==
    \A c \in Commands :
        /\ WF_vars(Spawn(c))
        /\ WF_vars(Terminate(c) \/ (proc[c] = "none" /\ Finish(c)))
        /\ WF_vars(PostExit(c))

DeadlineFairness == \A c \in Commands : WF_vars(Finish(c))

CalmSpec == Spec /\ HubFairness /\ LoopFairness /\ WorkerFairness
FairSpec == CalmSpec /\ DeadlineFairness

-----------------------------------------------------------------------------
(* Properties *)

ExitsAt(c) == {i \in 1 .. Len(events[c]) : events[c][i] = "exit"}

\* An initiator that follows a command sees exactly one command.exit, and
\* sees it exactly when the record is terminal - whatever retried, duplicated
\* or late exit reports, reconciles, cancels and reaper passes race for it.
ExitOnce ==
    \A c \in Commands :
        /\ \A i, j \in ExitsAt(c) : i = j
        /\ status[c] \in Terminal <=> ExitsAt(c) # {}

Holds(log, e) == \E i \in 1 .. Len(log) : log[i] = e

\* The log starts at most once, and holds output only after its start.
StartedFirst(log) ==
    /\ \A i, j \in 1 .. Len(log) : log[i] = "started" /\ log[j] = "started" => i = j
    /\ \A i \in 1 .. Len(log) :
         log[i] = "output" => \E j \in 1 .. i - 1 : log[j] = "started"

\* What an initiator reads makes sense whatever reports are lost, doubled by a
\* lost answer or handled late: one command.started before any output, and
\* one command.exit exactly when the record is terminal.
LogInOrder == ExitOnce /\ \A c \in Commands : StartedFirst(events[c])

\* The program of a command is started at most once, although the start
\* event is delivered again after every reconnect and restart (at-most-once
\* execution rests on the claim and on _command_cancels together).
RunOnce == \A c \in Commands : runs[c] <= 1

\* No program starts for a command nobody claimed: one that was canceled or
\* reaped while queued never runs, even if its start event was already sent.
RunClaimed == \A c \in Commands : runs[c] > 0 => started[c]

\* A terminal record is final: late completions must not resurrect it, nor
\* replace its status or failure code.
TerminalIsFinal ==
    [][\A c \in Commands : status[c] \in Terminal =>
          status'[c] = status[c] /\ reason'[c] = reason[c]]_vars

\* A thread of the client has the lease of c and is not done with it.
Working(c) == worker[c] \in {"leased", "executing", "exiting"} \/ stray[c] # "none"

\* The reconcile of a reconnecting client fails no work that a thread of the
\* client is executing: the key is listed from before the claim until after the
\* exit report.  The threads that outlive a swap of the credentials are the
\* one exception: the new ClientService does not list them and the hub fails
\* their commands while they go on.  (Needs that no reconcile is handled late.)
ReconcileSparesWork ==
    \A c \in Commands : reason[c] = "client_restarted" /\ Working(c) => stray[c] # "none"

\* No running record is orphaned while the hub sees its client: a thread of the
\* client works on the command or retries its exit report, or the client is
\* disconnected and does not list the command, or the reconcile on its way
\* will fail the record.  (Needs that no request is handled late and that no
\* answer to a claim and no reconcile is lost: those really orphan records.)
RunningIsHeld ==
    \A c \in Commands : LET k == Target[c] IN status[c] = "running" =>
        \/ worker[c] \in {"leased", "executing", "exiting"}
        \/ conn[k] = "down" /\ c \notin ActiveCommands(k)
        \/ \E m \in recons : m.client = k /\ m.waiting /\ c \notin m.active

\* The last event of a resolved command is its exit: output of a program
\* never follows the exit that ends the initiator's stream.  (Needs that the
\* record is resolved by nobody but the worker while the worker is alive.)
ExitIsLast ==
    \A c \in Commands : \A i \in ExitsAt(c) : i = Len(events[c])

StillToCome(k, e) ==
    \E i \in 1 .. Len(control[k]) :
        control[k][i] = e /\ (i \in stream[k] \/ i > cursor[k])

\* The stream never skips the start of a command that still waits: across
\* the hub's filtering, breaks, Last-Event-ID resumption and restarts it is
\* in flight, or to be sent, or the client already took it.
StartNotSkipped ==
    \A c \in Commands : LET k == Target[c] IN
        status[c] = "queued" /\ conn[k] # "down" =>
            c \in cancels[k] \/ StillToCome(k, ControlEvent("start", c))

\* A cancel of a running command is never lost on its way to the worker that
\* executes the command: it is set, or the connected client will still get it.
CancelReachesWorker ==
    \A c \in Commands : LET k == Target[c] IN
        /\ status[c] = "running" /\ cancelAsked[c]
        /\ worker[c] \in {"leased", "executing"} /\ conn[k] # "down"
        => c \in cancelSet[k] \/ StillToCome(k, ControlEvent("cancel", c))

\* Nothing is skipped on its way to the client.
NothingSkipped == StartNotSkipped /\ CancelReachesWorker

\* Every command somebody created is resolved if programs end (timeout_sec sees
\* to that when it is set): nobody who waits for it hangs.
EveryCommandResolves ==
    DeadlineFairness => \A c \in Commands : status[c] = "queued" ~> status[c] \in Terminal

\* Every claimed command reaches a terminal status (SKILL.md, Reliability
\* Invariants, 2).
EveryClaimResolves ==
    \A c \in Commands : status[c] = "running" ~> status[c] \in Terminal

\* A cancel ends a command even if its program would never end by itself.
CancelResolves ==
    \A c \in Commands : cancelAsked[c] ~> status[c] \in Terminal

(* The hub's tables implement CommandLife. *)
Life == INSTANCE CommandLife WITH
            claimed <- started,
            exits   <- [c \in Commands |-> Cardinality(ExitsAt(c))]

\* Whatever the faults, the records, their events and the programs behave as
\* CommandLife says.
ImplementsLife == Life!LifeSpec
=============================================================================
