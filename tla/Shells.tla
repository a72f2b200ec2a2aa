------------------------------- MODULE Shells -------------------------------
(***************************************************************************)
(* Interactive shell sessions on one client: HubStore (hub/store.py), its  *)
(* endpoints (hub/app.py), the consume loop and the shell threads of       *)
(* ClientService (client/service.py) and the pty loop of ClientRuntime     *)
(* (client/runtime.py).                                                    *)
(*                                                                         *)
(* Shell events are never filtered out of a client's stream, so the stream *)
(* is its control log, read from Last-Event-ID on.  Requests that are      *)
(* handled after their sender gave up are left to Commands.tla.            *)
(***************************************************************************)
EXTENDS Naturals, Sequences, FiniteSets

CONSTANTS
    Sessions,   \* shell session ids, all on the one client
    Faults,     \* which faults the environment may commit
    MaxFaults,  \* bound on the number of faults of one behaviour
    MaxTyped,   \* bound on the inputs typed into one session
    MaxControl, \* bound on the control log that stops resizes and repeated closes
    MaxEvents   \* bound on a session's event log beyond which output is not kept

AllFaults == {"crash",           \* the client process dies
              "swap",            \* it goes on with a renewed token
              "disconnect",      \* the event stream of the client breaks
              "lost_request",    \* a POST of a shell thread never reaches the hub
              "lost_reply",      \* the answer to an event POST is lost
              "lost_lease",      \* the answer to a granted claim is lost
              "lost_reconcile",  \* the reconcile POST never reaches the hub
              "spawn_error",     \* openpty or Popen raises OSError
              "pty_full",        \* os.write to the nonblocking pty raises
              "short_write",     \* ... or takes a part of the input only
              "outage"}          \* heartbeats of the live client do not arrive

ASSUME BoundAssumption ==
    /\ Faults \subseteq AllFaults
    /\ MaxFaults \in Nat /\ MaxTyped \in Nat /\ MaxControl \in Nat /\ MaxEvents \in Nat

Over == {"closed", "failed"}
Open == {"queued", "running"}

VARIABLES
    \* the hub's tables
    status,      \* shell_sessions.status, "none" before the row exists
    started,     \* shell_sessions.started_at is set
    closeAsked,  \* shell_sessions.close_requested_at is set
    overdue,     \* the claim timeout of the record has passed
    events,      \* shell_stream_events of the session, kinds in order
    control,     \* client_control_events of the client, in order of seq
    typed,       \* the inputs accepted for the session so far
    lastSeen,    \* clients.last_seen_at: no row, recent, or past the cutoff
    \* the client process
    up,          \* the process runs
    conn,        \* its consume loop: down, reconciling, or reading
    position,    \* seq of the last event read from the open stream
    lastId,      \* ClientService._last_event_id
    controls,    \* keys of ClientService._shell_controls
    inputs,      \* _ShellControl.inputs
    resized,     \* _ShellControl.resizes holds a size
    closing,     \* sessions whose _ShellControl.close_requested is set
    worker,      \* the _run_shell thread of a session
    outcome,     \* the status the thread will report
    \* the operating system of the client
    pty,         \* the master side of the session's pty: none, open, closed
    proc,        \* the shell: none, alive, ended
    spawned,     \* how often a shell was started for the session
    written,     \* the inputs the pty took, in order
    cut,         \* those it took a part of only
    abandoned,   \* sessions whose thread left the open pty behind
    stray,       \* the thread of a ClientService the process swapped for another
    left,        \* the input queue of its _ShellControl
    \* the network
    net,         \* requests of shell threads on their way to the hub
    recons,      \* reconcile requests on their way to the hub, as session sets
    faults       \* faults committed so far

hubVars  == <<status, started, closeAsked, overdue, events, control, typed, lastSeen>>
connVars == <<up, conn, position, lastId>>
ctlVars  == <<controls, inputs, resized, closing>>
strayVars == <<stray, left>>
osVars   == <<pty, proc, spawned, written, cut, abandoned, strayVars>>
workVars == <<worker, outcome>>
netVars  == <<net, recons, faults>>
vars     == <<hubVars, connVars, ctlVars, osVars, workVars, netVars>>

\* Where a shell thread is in its loop; "draining" is the reading of the rest
\* of the output after the shell has ended.
Looping == {"serving", "checking", "reading", "polling", "draining"}

-----------------------------------------------------------------------------
(* Requests and events *)

Request(t, s, x) == [type |-> t, session |-> s, body |-> x]
Requests ==
    {m \in [type : {"claim", "report", "end"}, session : Sessions,
            body : {"none", "started", "output"} \cup Over] :
        /\ m.type = "report" => m.body \in {"started", "output"}
        /\ m.type = "end" => m.body \in Over}

\* The request the thread of s is waiting on, if any.
Pending(s) == {m \in net : m.session = s}

\* The environment may still commit the fault f, and commits it now.
Commit(f) ==
    /\ f \in Faults
    /\ faults < MaxFaults
    /\ faults' = faults + 1

ControlEvent(k, s, n) == [kind |-> k, session |-> s, input |-> n]
ControlEvents == [kind : {"start", "stdin", "resize", "close"}, session : Sessions, input : Nat]

HubTypes ==
    /\ status \in [Sessions -> {"none"} \cup Open \cup Over]
    /\ started \in [Sessions -> BOOLEAN]
    /\ closeAsked \in [Sessions -> BOOLEAN]
    /\ overdue \in [Sessions -> BOOLEAN]
    /\ events \in [Sessions -> Seq({"started", "output", "end"})]
    /\ control \in Seq(ControlEvents)
    /\ typed \in [Sessions -> Nat]
    /\ lastSeen \in {"none", "fresh", "stale"}

ConnTypes ==
    /\ up \in BOOLEAN
    /\ conn \in {"down", "reconciling", "reading"}
    /\ position \in Nat
    /\ lastId \in Nat

CtlTypes ==
    /\ controls \subseteq Sessions
    /\ inputs \in [Sessions -> Seq(Nat)]
    /\ resized \subseteq Sessions
    /\ closing \subseteq Sessions

WorkTypes ==
    /\ worker \in [Sessions -> {"idle", "claiming", "leased", "starting", "ending"} \cup Looping]
    /\ outcome \in [Sessions -> {"none"} \cup Over]

OsTypes ==
    /\ pty \in [Sessions -> {"none", "open", "closed"}]
    /\ proc \in [Sessions -> {"none", "alive", "ended"}]
    /\ spawned \in [Sessions -> Nat]
    /\ written \in [Sessions -> Seq(Nat)]
    /\ cut \in [Sessions -> SUBSET Nat]
    /\ abandoned \subseteq Sessions
    /\ stray \in [Sessions -> {"none", "leased", "looping"}]
    /\ left \in [Sessions -> Seq(Nat)]

NetTypes ==
    /\ net \subseteq Requests
    /\ recons \subseteq SUBSET Sessions
    /\ faults \in Nat

TypeOK == HubTypes /\ ConnTypes /\ CtlTypes /\ WorkTypes /\ OsTypes /\ NetTypes

Init ==
    /\ status = [s \in Sessions |-> "none"]
    /\ started = [s \in Sessions |-> FALSE]
    /\ closeAsked = [s \in Sessions |-> FALSE]
    /\ overdue = [s \in Sessions |-> FALSE]
    /\ events = [s \in Sessions |-> <<>>]
    /\ control = <<>>
    /\ typed = [s \in Sessions |-> 0]
    /\ lastSeen = "none"
    /\ up = TRUE /\ conn = "down" /\ position = 0 /\ lastId = 0
    /\ controls = {} /\ resized = {} /\ closing = {}
    /\ inputs = [s \in Sessions |-> <<>>]
    /\ worker = [s \in Sessions |-> "idle"]
    /\ outcome = [s \in Sessions |-> "none"]
    /\ pty = [s \in Sessions |-> "none"]
    /\ proc = [s \in Sessions |-> "none"]
    /\ spawned = [s \in Sessions |-> 0]
    /\ written = [s \in Sessions |-> <<>>]
    /\ cut = [s \in Sessions |-> {}]
    /\ abandoned = {}
    /\ stray = [s \in Sessions |-> "none"]
    /\ left = [s \in Sessions |-> <<>>]
    /\ net = {} /\ recons = {} /\ faults = 0

-----------------------------------------------------------------------------
(* The hub: initiators' requests and the reaper *)

\* The records in S end, each with its terminal event (shell.closed or
\* shell.exit).
Resolve(S, st) ==
    /\ status' = [s \in Sessions |-> IF s \in S THEN st ELSE status[s]]
    /\ events' = [s \in Sessions |-> IF s \in S THEN Append(events[s], "end") ELSE events[s]]

\* POST /api/shells
Create(s) ==
    /\ status[s] = "none"
    /\ lastSeen # "none"
    /\ status' = [status EXCEPT ![s] = "queued"]
    /\ control' = Append(control, ControlEvent("start", s, 0))
    /\ UNCHANGED <<started, closeAsked, overdue, events, typed, lastSeen>>
    /\ UNCHANGED <<connVars, ctlVars, osVars, workVars, netVars>>

\* POST /api/shells/{id}/input: taken whatever the status of the session.
Type(s) ==
    /\ status[s] # "none"
    /\ typed[s] < MaxTyped
    /\ typed' = [typed EXCEPT ![s] = @ + 1]
    /\ control' = Append(control, ControlEvent("stdin", s, typed[s] + 1))
    /\ UNCHANGED <<status, started, closeAsked, overdue, events, lastSeen>>
    /\ UNCHANGED <<connVars, ctlVars, osVars, workVars, netVars>>

Resize(s) ==
    /\ status[s] # "none"
    /\ Len(control) < MaxControl
    /\ control' = Append(control, ControlEvent("resize", s, 0))
    /\ UNCHANGED <<status, started, closeAsked, overdue, events, typed, lastSeen>>
    /\ UNCHANGED <<connVars, ctlVars, osVars, workVars, netVars>>

\* POST /api/shells/{id}/close: a queued session is closed on the spot.
CloseQueued(s) ==
    /\ status[s] = "queued"
    /\ Resolve({s}, "closed")
    /\ closeAsked' = [closeAsked EXCEPT ![s] = TRUE]
    /\ UNCHANGED <<started, overdue, control, typed, lastSeen>>
    /\ UNCHANGED <<connVars, ctlVars, osVars, workVars, netVars>>

CloseRunning(s) ==
    /\ status[s] = "running"
    /\ closeAsked[s] => Len(control) < MaxControl
    /\ closeAsked' = [closeAsked EXCEPT ![s] = TRUE]
    /\ control' = Append(control, ControlEvent("close", s, 0))
    /\ UNCHANGED <<status, started, overdue, events, typed, lastSeen>>
    /\ UNCHANGED <<connVars, ctlVars, osVars, workVars, netVars>>

\* The claim timeout of a queued record passes.
BecomeOverdue(s) ==
    /\ status[s] = "queued"
    /\ ~overdue[s]
    /\ overdue' = [overdue EXCEPT ![s] = TRUE]
    /\ UNCHANGED <<status, started, closeAsked, events, control, typed, lastSeen>>
    /\ UNCHANGED <<connVars, ctlVars, osVars, workVars, netVars>>

\* ORBIT_CLIENT_OFFLINE_SEC pass without a sign of life of the client.
BecomeStale ==
    /\ lastSeen = "fresh"
    /\ \/ ~up /\ UNCHANGED faults
       \/ up /\ Commit("outage")
    /\ lastSeen' = "stale"
    /\ UNCHANGED <<status, started, closeAsked, overdue, events, control, typed>>
    /\ UNCHANGED <<connVars, ctlVars, osVars, workVars, net, recons>>

Lost(s)      == status[s] = "running" /\ lastSeen # "fresh"
Unclaimed(s) == status[s] = "queued" /\ overdue[s]

\* One pass of the reaper over all sessions.
Reap ==
    LET S == {s \in Sessions : Lost(s) \/ Unclaimed(s)} IN
    /\ S # {}
    /\ Resolve(S, "failed")
    /\ UNCHANGED <<started, closeAsked, overdue, control, typed, lastSeen>>
    /\ UNCHANGED <<connVars, ctlVars, osVars, workVars, netVars>>

-----------------------------------------------------------------------------
(* The shell thread and what it holds *)

\* _run_shell returns and takes its _ShellControl out of the map.
ThreadEnds(s) ==
    /\ worker' = [worker EXCEPT ![s] = "idle"]
    /\ controls' = controls \ {s}
    /\ inputs' = [inputs EXCEPT ![s] = <<>>]
    /\ resized' = resized \ {s}
    /\ closing' = closing \ {s}

\* The thread dies of an exception; its entry in _shell_controls stays.
ThreadDies(s) ==
    /\ worker' = [worker EXCEPT ![s] = "idle"]
    /\ UNCHANGED ctlVars

\* Mutant: the outcome is not kept for the report.
StartEndForgetful(s, st) ==
    worker' = [worker EXCEPT ![s] = "ending"] /\ UNCHANGED outcome

\* The outcome is decided: the thread turns to posting the terminal event.
StartEnd(s, st) ==
    /\ worker' = [worker EXCEPT ![s] = "ending"]
    /\ outcome' = [outcome EXCEPT ![s] = st]

\* Mutant: the master side is closed only on the regular ways out.
CloseMasterUnlessRaised(s, raised) ==
    pty' = IF raised THEN pty ELSE [pty EXCEPT ![s] = "closed"]

\* The finally of handle_shell_session.
CloseMaster(s, raised) == pty' = [pty EXCEPT ![s] = "closed"]

\* Something raises in the loop: runtime_error is reported.
LoopRaises(s) == StartEnd(s, "failed") /\ CloseMaster(s, TRUE)

\* A POST of the thread raises.  In the loop the finally closes the pty;
\* shell.started is posted before the try, and the open pty is left behind.
ReportRaises(s) ==
    IF worker[s] = "starting"
    THEN /\ StartEnd(s, "failed")
         /\ abandoned' = abandoned \cup {s}
         /\ UNCHANGED pty
    ELSE LoopRaises(s) /\ UNCHANGED abandoned

-----------------------------------------------------------------------------
(* The hub: requests of the client *)

Claimable(s) == status[s] = "queued"

GrantClaim(m) ==
    LET s == m.session IN
    /\ m.type = "claim"
    /\ Claimable(s)
    /\ status' = [status EXCEPT ![s] = "running"]
    /\ started' = [started EXCEPT ![s] = TRUE]
    /\ net' = net \ {m}
    /\ \/ worker' = [worker EXCEPT ![s] = "leased"] /\ UNCHANGED <<ctlVars, faults>>
       \/ Commit("lost_lease") /\ ThreadDies(s)
    /\ UNCHANGED <<closeAsked, overdue, events, control, typed, lastSeen>>
    /\ UNCHANGED <<connVars, osVars, outcome, recons>>

\* 409: the thread returns.
RefuseClaim(m) ==
    LET s == m.session IN
    /\ m.type = "claim"
    /\ ~Claimable(s)
    /\ net' = net \ {m}
    /\ \/ ThreadEnds(s) /\ UNCHANGED faults
       \/ Commit("lost_lease") /\ ThreadDies(s)
    /\ UNCHANGED <<hubVars, connVars, osVars, outcome, recons>>

\* shell.started and shell.stdout are appended whatever the status.
Logged(log, kind) == IF kind = "output" /\ Len(log) >= MaxEvents THEN log ELSE Append(log, kind)

HandleReport(m) ==
    LET s == m.session IN
    /\ m.type = "report"
    /\ events' = [events EXCEPT ![s] = Logged(@, m.body)]
    /\ lastSeen' = "fresh"
    /\ net' = net \ {m}
    /\ \/ /\ worker' = [worker EXCEPT ![s] = IF @ = "starting" THEN "serving" ELSE @]
          /\ UNCHANGED <<outcome, pty, abandoned, faults>>
       \/ Commit("lost_reply") /\ ReportRaises(s)
    /\ UNCHANGED <<status, started, closeAsked, overdue, control, typed>>
    /\ UNCHANGED <<connVars, ctlVars, proc, spawned, written, cut, strayVars, recons>>

\* shell.closed or shell.exit takes effect only on an open record.
ApplyEnd(s, st) ==
    IF status[s] \in Open THEN Resolve({s}, st) ELSE UNCHANGED <<status, events>>

\* Mutant: the terminal event is tried once only.
EndNotRetried(s) == ThreadEnds(s)

\* A failed report leaves the thread in its retry loop.
EndRetried(s) == UNCHANGED <<worker, ctlVars>>

HandleEnd(m) ==
    LET s == m.session IN
    /\ m.type = "end"
    /\ ApplyEnd(s, m.body)
    /\ lastSeen' = "fresh"
    /\ net' = net \ {m}
    /\ \/ ThreadEnds(s) /\ outcome' = [outcome EXCEPT ![s] = "none"] /\ UNCHANGED faults
       \/ Commit("lost_reply") /\ EndRetried(s) /\ UNCHANGED outcome
    /\ UNCHANGED <<started, closeAsked, overdue, control, typed>>
    /\ UNCHANGED <<connVars, osVars, recons>>

\* Mutant: the reconcile is about commands only.
UnlistedNone(A) == {}

\* The running records of the client that its reconcile does not list.
Unlisted(A) == {s \in Sessions : status[s] = "running" /\ s \notin A}

HandleReconcile(A) ==
    /\ Resolve(Unlisted(A), "failed")
    /\ lastSeen' = "fresh"
    /\ recons' = recons \ {A}
    /\ conn' = "reading"
    /\ UNCHANGED <<started, closeAsked, overdue, control, typed>>
    /\ UNCHANGED <<up, position, lastId, ctlVars, osVars, workVars, net, faults>>

-----------------------------------------------------------------------------
(* The client: its consume loop *)

\* Mutant: the client asks for its whole log after every reconnect.
ResumeFromStart == 0

\* Last-Event-ID.
ResumeFrom == lastId

\* Mutant: only sessions whose loop runs are listed.
ActiveIfLooping == {s \in controls : worker[s] \in Looping}

\* active_session_ids: the keys of _shell_controls.
ActiveSessions == controls

\* (Re)connect: the client first reports what it is executing.
Connect ==
    /\ up
    /\ conn = "down"
    /\ conn' = "reconciling"
    /\ lastSeen' = "fresh"
    /\ position' = ResumeFrom
    /\ recons' = recons \cup {ActiveSessions}
    /\ UNCHANGED <<status, started, closeAsked, overdue, events, control, typed>>
    /\ UNCHANGED <<up, lastId, ctlVars, osVars, workVars, net, faults>>

\* The reconcile POST raises; the loop logs it and reads on.
ReconcileFails ==
    \E A \in recons :
        /\ Commit("lost_reconcile")
        /\ recons' = recons \ {A}
        /\ conn' = "reading"
        /\ UNCHANGED <<hubVars, up, position, lastId, ctlVars, osVars, workVars, net>>

\* The next event of the stream is e.
Consume(e) ==
    /\ conn = "reading"
    /\ position < Len(control)
    /\ e = control[position + 1]
    /\ position' = position + 1
    /\ lastId' = IF lastId < position + 1 THEN position + 1 ELSE lastId
    /\ UNCHANGED <<hubVars, up, conn, outcome, osVars, recons, faults>>

\* shell.start: a thread is started unless one already has the id.
DispatchStart ==
    \E e \in {control[i] : i \in 1 .. Len(control)} :
        LET s == e.session IN
        /\ e.kind = "start"
        /\ Consume(e)
        /\ IF s \in controls
           THEN UNCHANGED <<controls, worker, net>>
           ELSE /\ controls' = controls \cup {s}
                /\ worker' = [worker EXCEPT ![s] = "claiming"]
                /\ net' = net \cup {Request("claim", s, "none")}
        /\ UNCHANGED <<inputs, resized, closing>>

\* Mutant: only a shell that runs takes input.
TakesInputIfLooping(s) == s \in controls /\ worker[s] \in Looping

\* A _ShellControl exists: from before the claim until the end is reported.
TakesInput(s) == s \in controls

\* shell.stdin, shell.resize and shell.close go to the session's
\* _ShellControl, if there is one; otherwise they are dropped.
DispatchInput ==
    \E e \in {control[i] : i \in 1 .. Len(control)} :
        LET s == e.session IN
        /\ e.kind = "stdin"
        /\ Consume(e)
        /\ inputs' = IF TakesInput(s) THEN [inputs EXCEPT ![s] = Append(@, e.input)] ELSE inputs
        /\ UNCHANGED <<controls, resized, closing, worker, net>>

DispatchResize ==
    \E e \in {control[i] : i \in 1 .. Len(control)} :
        /\ e.kind = "resize"
        /\ Consume(e)
        /\ resized' = IF e.session \in controls THEN resized \cup {e.session} ELSE resized
        /\ UNCHANGED <<controls, inputs, closing, worker, net>>

DispatchClose ==
    \E e \in {control[i] : i \in 1 .. Len(control)} :
        /\ e.kind = "close"
        /\ Consume(e)
        /\ closing' = IF e.session \in controls THEN closing \cup {e.session} ELSE closing
        /\ UNCHANGED <<controls, inputs, resized, worker, net>>

\* The stream breaks (or the hub restarts).
StreamBreaks ==
    /\ conn = "reading"
    /\ Commit("disconnect")
    /\ conn' = "down"
    /\ UNCHANGED <<hubVars, up, position, lastId, ctlVars, osVars, workVars, net, recons>>

\* A heartbeat of the live client arrives.
Heartbeat ==
    /\ up
    /\ lastSeen = "stale"
    /\ lastSeen' = "fresh"
    /\ UNCHANGED <<status, started, closeAsked, overdue, events, control, typed>>
    /\ UNCHANGED <<connVars, ctlVars, osVars, workVars, netVars>>

\* The process dies: its ptys are closed by the kernel, its shells, in
\* sessions of their own, live on without a terminal.
Crash ==
    /\ up
    /\ Commit("crash")
    /\ up' = FALSE /\ conn' = "down" /\ position' = 0 /\ lastId' = 0
    /\ controls' = {} /\ resized' = {} /\ closing' = {}
    /\ inputs' = [s \in Sessions |-> <<>>]
    /\ worker' = [s \in Sessions |-> "idle"]
    /\ outcome' = [s \in Sessions |-> "none"]
    /\ pty' = [s \in Sessions |-> IF pty[s] = "open" THEN "closed" ELSE pty[s]]
    /\ stray' = [s \in Sessions |-> "none"]
    /\ left' = [s \in Sessions |-> <<>>]
    /\ net' = {} /\ recons' = {}
    /\ UNCHANGED <<hubVars, proc, spawned, written, cut, abandoned>>

\* The thread of s does not notice that the HTTP client was closed: it is about
\* to spawn its shell, or in its loop with nothing to post.
GoesOn(s) == worker[s] \in {"leased"} \cup Looping /\ Pending(s) = {}

\* What such a thread may still write: a close it is about to see and the end
\* of its shell come before the next input.
Unwritten(s) ==
    IF worker[s] = "draining" \/ (worker[s] = "checking" /\ s \in closing) THEN <<>> ELSE inputs[s]

\* A reconnect is refused with 401 and the process goes on with a renewed token
\* and a new ClientService.  The HTTP client of the old one is closed, so that
\* what its threads post raises - on the way to shell.started, or in the loop,
\* whose finally closes the pty - and they end without a report.
Swap ==
    /\ up
    /\ conn = "down"
    /\ Commit("swap")
    /\ position' = 0 /\ lastId' = 0
    /\ controls' = {} /\ resized' = {} /\ closing' = {}
    /\ inputs' = [s \in Sessions |-> <<>>]
    /\ worker' = [s \in Sessions |-> "idle"]
    /\ outcome' = [s \in Sessions |-> "none"]
    /\ stray' = [s \in Sessions |-> IF ~GoesOn(s) THEN stray[s]
                                     ELSE IF worker[s] = "leased" THEN "leased" ELSE "looping"]
    /\ left' = [s \in Sessions |-> IF GoesOn(s) THEN Unwritten(s) ELSE left[s]]
    /\ abandoned' = abandoned \cup {s \in Sessions : worker[s] = "starting"}
    /\ pty' = [s \in Sessions |-> IF worker[s] \in Looping /\ ~GoesOn(s) THEN "closed" ELSE pty[s]]
    /\ net' = {}
    /\ UNCHANGED <<hubVars, up, conn, proc, spawned, written, cut, recons>>

Restart ==
    /\ ~up
    /\ up' = TRUE
    /\ UNCHANGED <<hubVars, conn, position, lastId, ctlVars, osVars, workVars, netVars>>

-----------------------------------------------------------------------------
(* The client: the shell thread of a session *)

\* The claim POST raises something other than 409: nothing catches it.
ClaimFails(s) ==
    \E m \in Pending(s) :
        /\ m.type = "claim"
        /\ Commit("lost_request")
        /\ net' = net \ {m}
        /\ ThreadDies(s)
        /\ UNCHANGED <<hubVars, connVars, osVars, outcome, recons>>

\* A shell on a pty of its own; shell.started is posted.
Spawn(s) ==
    /\ worker[s] = "leased"
    /\ worker' = [worker EXCEPT ![s] = "starting"]
    /\ pty' = [pty EXCEPT ![s] = "open"]
    /\ proc' = [proc EXCEPT ![s] = "alive"]
    /\ spawned' = [spawned EXCEPT ![s] = @ + 1]
    /\ net' = net \cup {Request("report", s, "started")}
    /\ UNCHANGED <<hubVars, connVars, ctlVars, outcome, written, cut, abandoned, strayVars, recons, faults>>

\* openpty raises - or Popen does, and both ends of the pty stay open.
NoShell(s) ==
    /\ Commit("spawn_error")
    /\ \/ UNCHANGED <<pty, abandoned>>
       \/ pty' = [pty EXCEPT ![s] = "open"] /\ abandoned' = abandoned \cup {s}

\* The thread reports runtime_error.
SpawnFails(s) ==
    /\ worker[s] = "leased"
    /\ NoShell(s)
    /\ StartEnd(s, "failed")
    /\ UNCHANGED <<hubVars, connVars, ctlVars, proc, spawned, written, cut, strayVars, net, recons>>

\* What os.write does: it takes a part of the inputs in short only, which
\* nobody looks at, and raises when the pty is full or its shell has ended.
PtyTakes(s, short, raises) ==
    \/ short = {} /\ (raises => proc[s] = "ended") /\ UNCHANGED faults
    \/ short # {} /\ (raises => proc[s] = "ended") /\ Commit("short_write")
    \/ raises /\ (short # {} => "short_write" \in Faults) /\ Commit("pty_full")

\* The first n inputs of the queue are written, one after the other; the next
\* one, if there is one, raises.
Write(s, queue, n) ==
    /\ written' = [written EXCEPT ![s] = @ \o SubSeq(queue, 1, n)]
    /\ \E short \in SUBSET {queue[i] : i \in 1 .. n} :
         /\ cut' = [cut EXCEPT ![s] = @ \cup short]
         /\ PtyTakes(s, short, n < Len(queue))

\* The top of the loop: the sizes are applied, all queued input is taken out
\* and written.
Serve(s) ==
    /\ worker[s] = "serving"
    /\ resized' = resized \ {s}
    /\ inputs' = [inputs EXCEPT ![s] = <<>>]
    /\ \E n \in 0 .. Len(inputs[s]) :
         /\ Write(s, inputs[s], n)
         /\ IF n = Len(inputs[s])
            THEN /\ worker' = [worker EXCEPT ![s] = "checking"]
                 /\ UNCHANGED <<outcome, pty>>
            ELSE LoopRaises(s)
    /\ UNCHANGED <<hubVars, connVars, controls, closing, proc, spawned, abandoned, strayVars, net, recons>>

\* should_close(): "exit" is written and the shell ends or is terminated.
\* What was queued since pop_input is thrown away.
CloseShell(s) ==
    /\ worker[s] = "checking"
    /\ s \in closing
    /\ proc' = [proc EXCEPT ![s] = "ended"]
    /\ \E st \in Over : StartEnd(s, st)
    /\ CloseMaster(s, FALSE)
    /\ UNCHANGED <<hubVars, connVars, ctlVars, spawned, written, cut, abandoned, strayVars, netVars>>

GoOn(s) ==
    /\ worker[s] = "checking"
    /\ s \notin closing
    /\ worker' = [worker EXCEPT ![s] = "reading"]
    /\ UNCHANGED <<hubVars, connVars, ctlVars, osVars, outcome, netVars>>

\* The pty has output, which is posted once a turn.
Output(s) ==
    /\ worker[s] = "reading"
    /\ worker' = [worker EXCEPT ![s] = "polling"]
    /\ net' = net \cup {Request("report", s, "output")}
    /\ UNCHANGED <<hubVars, connVars, ctlVars, osVars, outcome, recons, faults>>

\* proc.poll(): go round, or the shell has ended.
Poll(s) ==
    /\ worker[s] \in {"reading", "polling"}
    /\ Pending(s) = {}
    /\ worker' = [worker EXCEPT ![s] = IF proc[s] = "alive" THEN "serving" ELSE "draining"]
    /\ UNCHANGED <<hubVars, connVars, ctlVars, osVars, outcome, netVars>>

\* The rest of the output is read and posted without a look at anything else,
\* as long as a program that the shell left behind writes to the pty...
DrainOutput(s) ==
    /\ worker[s] = "draining"
    /\ Pending(s) = {}
    /\ net' = net \cup {Request("report", s, "output")}
    /\ UNCHANGED <<hubVars, connVars, ctlVars, osVars, workVars, recons, faults>>

\* ... until there is none to read.
Drained(s) ==
    /\ worker[s] = "draining"
    /\ Pending(s) = {}
    /\ \E st \in Over : StartEnd(s, st)
    /\ CloseMaster(s, FALSE)
    /\ UNCHANGED <<hubVars, connVars, ctlVars, proc, spawned, written, cut, abandoned, strayVars, netVars>>

\* A shell.started or shell.stdout POST raises.
ReportFails(s) ==
    \E m \in Pending(s) :
        /\ m.type = "report"
        /\ Commit("lost_request")
        /\ net' = net \ {m}
        /\ ReportRaises(s)
        /\ UNCHANGED <<hubVars, connVars, ctlVars, proc, spawned, written, cut, strayVars, recons>>

\* One attempt of _post_terminal_event, and its failure: the loop retries.
PostEnd(s) ==
    /\ worker[s] = "ending"
    /\ Pending(s) = {}
    /\ net' = net \cup {Request("end", s, outcome[s])}
    /\ UNCHANGED <<hubVars, connVars, ctlVars, osVars, workVars, recons, faults>>

EndFails(s) ==
    \E m \in Pending(s) :
        /\ m.type = "end"
        /\ Commit("lost_request")
        /\ net' = net \ {m}
        /\ EndRetried(s)
        /\ UNCHANGED <<hubVars, connVars, osVars, outcome, recons>>

\* The shell ends: its user exits it, or it reads the end of its closed pty.
ShellEnds(s) ==
    /\ proc[s] = "alive"
    /\ proc' = [proc EXCEPT ![s] = "ended"]
    /\ UNCHANGED <<hubVars, connVars, ctlVars, workVars, pty, spawned, written, cut, abandoned, strayVars, netVars>>

-----------------------------------------------------------------------------
(* The threads of a ClientService that was swapped for another              *)

\* The shell is spawned, the POST of shell.started raises before the try, and
\* the thread ends without closing the pty.
StraySpawns(s) ==
    /\ stray[s] = "leased"
    /\ stray' = [stray EXCEPT ![s] = "none"]
    /\ left' = [left EXCEPT ![s] = <<>>]
    /\ \/ /\ pty' = [pty EXCEPT ![s] = "open"]
          /\ proc' = [proc EXCEPT ![s] = "alive"]
          /\ spawned' = [spawned EXCEPT ![s] = @ + 1]
          /\ abandoned' = abandoned \cup {s}
          /\ UNCHANGED faults
       \/ NoShell(s) /\ UNCHANGED <<proc, spawned>>
    /\ UNCHANGED <<hubVars, connVars, ctlVars, workVars, written, cut, net, recons>>

\* The thread leaves its loop and the finally closes the pty.
StrayLeaves(s) ==
    /\ stray' = [stray EXCEPT ![s] = "none"]
    /\ pty' = [pty EXCEPT ![s] = "closed"]

\* The loop takes what was queued before the swap; nobody adds to it any more.
StrayServes(s) ==
    /\ stray[s] = "looping"
    /\ left' = [left EXCEPT ![s] = <<>>]
    /\ \E n \in 0 .. Len(left[s]) :
         /\ Write(s, left[s], n)
         /\ IF n = Len(left[s]) THEN UNCHANGED <<stray, pty>> ELSE StrayLeaves(s)
    /\ UNCHANGED <<hubVars, connVars, ctlVars, workVars, proc, spawned, abandoned, net, recons>>

\* There is output to post, the shell has ended, or it is closed on a request
\* from before the swap.  Nothing makes this happen.
StrayEnds(s) ==
    /\ stray[s] = "looping"
    /\ StrayLeaves(s)
    /\ left' = [left EXCEPT ![s] = <<>>]
    /\ proc' \in {proc, [proc EXCEPT ![s] = "ended"]}
    /\ UNCHANGED <<hubVars, connVars, ctlVars, workVars, spawned, written, cut, abandoned, netVars>>

-----------------------------------------------------------------------------
Initiator(s) == Create(s) \/ Type(s) \/ Resize(s) \/ CloseQueued(s) \/ CloseRunning(s)
Handle(m)    == GrantClaim(m) \/ RefuseClaim(m) \/ HandleReport(m) \/ HandleEnd(m)
Dispatch     == DispatchStart \/ DispatchInput \/ DispatchResize \/ DispatchClose
Loop         == \/ Connect \/ ReconcileFails \/ Dispatch \/ StreamBreaks \/ Heartbeat
                \/ Crash \/ Swap \/ Restart
Turn(s)      == Serve(s) \/ CloseShell(s) \/ GoOn(s) \/ Poll(s) \/ Drained(s)
Thread(s)    == \/ ClaimFails(s) \/ Spawn(s) \/ SpawnFails(s) \/ Turn(s) \/ Output(s)
                \/ DrainOutput(s) \/ ReportFails(s) \/ PostEnd(s) \/ EndFails(s) \/ ShellEnds(s)
Stray(s)     == StraySpawns(s) \/ StrayServes(s) \/ StrayEnds(s)

Next ==
    \/ \E s \in Sessions : Initiator(s) \/ BecomeOverdue(s) \/ Thread(s) \/ Stray(s)
    \/ \E m \in net : Handle(m)
    \/ \E A \in recons : HandleReconcile(A)
    \/ Loop
    \/ BecomeStale
    \/ Reap

Spec == Init /\ [][Next]_vars

(***************************************************************************)
(* Fairness.  The hub handles requests and reaps periodically, clocks      *)
(* advance, a client that runs reconnects and reads its stream, a shell    *)
(* thread goes on and repeats its report.  No fairness on initiators,      *)
(* faults, Restart, Heartbeat, output, the threads of a swapped service    *)
(* and on the shells ending.                                               *)
(***************************************************************************)
Fairness ==
    /\ \A s \in Sessions :
         /\ WF_vars(\E m \in net : m.session = s /\ Handle(m))
         /\ WF_vars(BecomeOverdue(s))
         /\ WF_vars(Spawn(s)) /\ WF_vars(Turn(s)) /\ WF_vars(PostEnd(s))
    /\ WF_vars(\E A \in recons : HandleReconcile(A))
    /\ WF_vars(Reap)
    /\ WF_vars(~up /\ BecomeStale)
    /\ WF_vars(Connect)
    /\ WF_vars(Dispatch)

FairSpec == Spec /\ Fairness

-----------------------------------------------------------------------------
(* Properties *)

EndsAt(s) == {i \in 1 .. Len(events[s]) : events[s][i] = "end"}

(* The hub's records and the ptys implement ShellPromise. *)
Promise == INSTANCE ShellPromise WITH
              claimed <- started,
              ends    <- [s \in Sessions |-> Cardinality(EndsAt(s))]

\* Whatever the faults, no input is written twice, out of order or after one
\* that was left out, though streams break and resume, restarted clients and
\* swapped services read their whole log again and the loop dies of a full pty;
\* of an input the pty may have taken a part only.  A session's shell is spawned
\* once; a session ends once and for good.
ImplementsPromise == Promise!PromiseSpec

\* The hub never resolves a session whose shell the client's ClientService
\* serves: neither the reconcile of a reconnect nor the reaper takes a live
\* session for a dead one (store.py:898-915, 1256-1274).  Needs that heartbeats
\* arrive in time.  The loops that a swap leaves behind are no longer the
\* service's, and are resolved (client/main.py:66-90).
ResolvedIsOver ==
    "outage" \notin Faults =>
        \A s \in Sessions : status[s] \in Over => worker[s] \notin {"leased", "starting"} \cup Looping

\* While the client is connected and its reconcile is through, every session
\* the hub calls running is held by a thread of its ClientService: what a dead
\* process or a swapped service left is resolved before the next one reads its
\* first event, and the start events that it reads again do not count as work.
RunningIsHeld ==
    {"lost_lease", "lost_reconcile"} \cap Faults = {} =>
        \A s \in Sessions :
            conn = "reading" /\ status[s] = "running" => worker[s] \notin {"idle", "claiming"}

\* A shell that outlives its session has lost its terminal, so that it ends.
\* The exceptions: a loop of a swapped service that has nothing to post, and
\* the ptys that are left open where Popen raises, shell.started cannot be
\* posted or a swap comes before it (runtime.py:157-171).
ShellHungUp ==
    \A s \in Sessions : pty[s] = "open" =>
        worker[s] \in {"starting"} \cup Looping \/ stray[s] = "looping" \/ s \in abandoned

\* Nobody goes on writing to a pty for ever after the shell itself has ended.
DrainsEnd == \A s \in Sessions : []<>(worker[s] # "draining")

\* Closing a session ends it, whatever its shell does, and whether the client
\* serves it, has yet to claim it, reconnects, starts over or is gone - unless
\* the drain of runtime.py:207-215, which does not look at the close, goes on.
CloseResolves == DrainsEnd => \A s \in Sessions : closeAsked[s] ~> status[s] \in Over

\* What is typed into a session reaches its shell, at least in part, or the
\* session ends: also when it is typed before the session is claimed or while
\* the stream is down.
InputArrives ==
    DrainsEnd =>
        \A s \in Sessions : \A n \in 1 .. MaxTyped :
            typed[s] = n ~> (Len(written[s]) >= n \/ status[s] \in Over)
=============================================================================
