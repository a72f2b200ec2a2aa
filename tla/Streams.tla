-------------------------------- MODULE Streams --------------------------------
(***************************************************************************)
(* Following the event log of one record (a command, shell or file         *)
(* transfer) over server-sent events: the generator _record_stream of      *)
(* hub/app.py, the waiting and notifying of hub/store.py, and the          *)
(* follower _follow_stream with its callers in cli/main.py.                *)
(*                                                                         *)
(* Events are known by their position in the log.  Of update_version a     *)
(* generator only uses whether it moved since it was read: changed[f].     *)
(***************************************************************************)
EXTENDS Naturals, Sequences

CONSTANTS
    Followers,      \* processes that follow the record
    MaxLog,         \* bound on the record's log
    LateOutput,     \* output may be appended after the exit event
    MaxFailures,    \* failures in a row after which a follower gives up
    MaxFaults       \* bound on the faults of one behaviour

ASSUME BoundAssumption == MaxLog \in Nat /\ MaxFailures \in Nat \ {0} /\ MaxFaults \in Nat
ASSUME SwitchAssumption == LateOutput \in BOOLEAN

VARIABLES
    log,        \* the record's events: "output" or "exit"
    owed,       \* committed changes whose _notify_update is still to come
    gen,        \* where the generator of a follower's stream stands
    cursor,     \* last_event_id of the generator
    changed,    \* update_version moved since the generator read it
    woken,      \* the event of the generator's wait is set
    wire,       \* events on their way to the follower
    mode,       \* what the follower does
    got,        \* last_event_id of the follower
    printed,    \* the events it printed
    failures,   \* failures since its last successful connection
    faults      \* faults so far

storeVars == <<log, owed>>
genVars   == <<gen, cursor, changed, woken>>
userVars  == <<mode, got, printed, failures>>
vars == <<storeVars, genVars, wire, userVars, faults>>

Terminal == \E i \in DOMAIN log : log[i] = "exit"

-----------------------------------------------------------------------------
(* The store *)

\* A handler appends events and commits; the exit event and the terminal
\* status of the record are one transaction.  The bound keeps a place for it.
AppendEvent(kind) ==
    /\ Len(log) < IF kind = "exit" \/ Terminal THEN MaxLog ELSE MaxLog - 1
    /\ Terminal => kind = "output" /\ LateOutput
    /\ log' = Append(log, kind)
    /\ owed' = owed + 1
    /\ UNCHANGED <<genVars, wire, userVars, faults>>

\* _notify_update bumps the version and sets the event of every waiter.
Wakened == [f \in Followers |-> woken[f] \/ gen[f] = "wait"]

Notify ==
    /\ owed > 0
    /\ owed' = owed - 1
    /\ changed' = [f \in Followers |-> TRUE]
    /\ woken' = Wakened
    /\ UNCHANGED <<log, gen, cursor, wire, userVars, faults>>

\* Some other record of the hub changed.
OtherChange ==
    /\ changed' = [f \in Followers |-> TRUE]
    /\ woken' = Wakened
    /\ UNCHANGED <<storeVars, gen, cursor, wire, userVars, faults>>

-----------------------------------------------------------------------------
(* The generator of a stream *)

ReadVersion(f) ==
    /\ gen[f] = "top"
    /\ gen' = [gen EXCEPT ![f] = "list"]
    /\ changed' = [changed EXCEPT ![f] = FALSE]
    /\ UNCHANGED <<storeVars, cursor, woken, wire, userVars, faults>>

\* Mutant: positions counted from one too many.
NewEventsBeyond(f) == [i \in 1 .. Len(log) - cursor[f] |-> cursor[f] + i + 1]

NewEvents(f) == [i \in 1 .. Len(log) - cursor[f] |-> cursor[f] + i]

SendEvents(f) ==
    /\ gen[f] = "list"
    /\ Len(log) > cursor[f]
    /\ wire' = [wire EXCEPT ![f] = @ \o NewEvents(f)]
    /\ cursor' = [cursor EXCEPT ![f] = Len(log)]
    /\ gen' = [gen EXCEPT ![f] = "top"]
    /\ UNCHANGED <<storeVars, changed, woken, userVars, faults>>

FindNoEvents(f) ==
    /\ gen[f] = "list"
    /\ Len(log) <= cursor[f]
    /\ gen' = [gen EXCEPT ![f] = "record"]
    /\ UNCHANGED <<storeVars, cursor, changed, woken, wire, userVars, faults>>

\* Mutant: the stream ends whenever there is nothing to send.
CheckNothing(f) ==
    /\ gen[f] = "record"
    /\ gen' = [gen EXCEPT ![f] = "closed"]
    /\ UNCHANGED <<storeVars, cursor, changed, woken, wire, userVars, faults>>

\* The record is read after the events: what came in between is not sent.
CheckRecord(f) ==
    /\ gen[f] = "record"
    /\ gen' = [gen EXCEPT ![f] = IF Terminal THEN "closed" ELSE "check"]
    /\ UNCHANGED <<storeVars, cursor, changed, woken, wire, userVars, faults>>

\* Mutant: a waiter that does not compare the version.
StartWaitUnseen(f) ==
    /\ gen[f] = "check"
    /\ gen' = [gen EXCEPT ![f] = "wait"]
    /\ woken' = [woken EXCEPT ![f] = FALSE]
    /\ UNCHANGED <<storeVars, cursor, changed, wire, userVars, faults>>

\* wait_for_update_async compares the version before it becomes a waiter.
StartWait(f) ==
    /\ gen[f] = "check"
    /\ gen' = [gen EXCEPT ![f] = IF changed[f] THEN "top" ELSE "wait"]
    /\ woken' = [woken EXCEPT ![f] = FALSE]
    /\ UNCHANGED <<storeVars, cursor, changed, wire, userVars, faults>>

Wake(f) ==
    /\ gen[f] = "wait" /\ woken[f]
    /\ gen' = [gen EXCEPT ![f] = "top"]
    /\ UNCHANGED <<storeVars, cursor, changed, woken, wire, userVars, faults>>

\* The keepalive is due, before or during the wait; comments carry no event.
KeepAlive(f) ==
    /\ gen[f] \in {"check", "wait"}
    /\ gen' = [gen EXCEPT ![f] = "top"]
    /\ UNCHANGED <<storeVars, cursor, changed, woken, wire, userVars, faults>>

-----------------------------------------------------------------------------
(* The follower *)

Fault == faults < MaxFaults /\ faults' = faults + 1

\* Mutant: the stream starts over.
ConnectAnew(f) ==
    /\ mode[f] = "connect"
    /\ mode' = [mode EXCEPT ![f] = "read"]
    /\ failures' = [failures EXCEPT ![f] = 0]
    /\ gen' = [gen EXCEPT ![f] = "top"]
    /\ cursor' = [cursor EXCEPT ![f] = 0]
    /\ UNCHANGED <<storeVars, changed, woken, wire, got, printed, faults>>

Connect(f) ==
    /\ mode[f] = "connect"
    /\ mode' = [mode EXCEPT ![f] = "read"]
    /\ failures' = [failures EXCEPT ![f] = 0]
    /\ gen' = [gen EXCEPT ![f] = "top"]
    /\ cursor' = [cursor EXCEPT ![f] = got[f]]
    /\ UNCHANGED <<storeVars, changed, woken, wire, got, printed, faults>>

\* Mutant: without a read timeout a dead connection goes unnoticed.
InterruptedUnnoticed(f) == UNCHANGED userVars

\* httpx.RequestError: try again, after six failures in a row give up.
Interrupted(f) ==
    /\ failures' = [failures EXCEPT ![f] = @ + 1]
    /\ mode' = [mode EXCEPT ![f] = IF failures[f] + 1 >= MaxFailures
                                   THEN "gaveup" ELSE "connect"]
    /\ UNCHANGED <<got, printed>>

ConnectFails(f) ==
    /\ mode[f] = "connect"
    /\ Fault
    /\ Interrupted(f)
    /\ UNCHANGED <<storeVars, genVars, wire>>

\* The connection is cut, or 30 s go by without a line.
Break(f) ==
    /\ mode[f] = "read"
    /\ Fault
    /\ Interrupted(f)
    /\ gen' = [gen EXCEPT ![f] = "none"]
    /\ wire' = [wire EXCEPT ![f] = <<>>]
    /\ UNCHANGED <<storeVars, cursor, changed, woken>>

\* Any error status of the hub or a proxy ends the follower at once.
Rejected(f) ==
    /\ mode[f] \in {"connect", "fetch"}
    /\ Fault
    /\ mode' = [mode EXCEPT ![f] = "gaveup"]
    /\ UNCHANGED <<storeVars, genVars, wire, got, printed, failures>>

ReadOutput(f) ==
    /\ mode[f] = "read" /\ wire[f] # <<>>
    /\ log[Head(wire[f])] = "output"
    /\ wire' = [wire EXCEPT ![f] = Tail(@)]
    /\ got' = [got EXCEPT ![f] = Head(wire[f])]
    /\ printed' = [printed EXCEPT ![f] = Append(@, Head(wire[f]))]
    /\ UNCHANGED <<storeVars, genVars, mode, failures, faults>>

\* The terminal event ends the stream; what follows it is not read.
ReadExit(f) ==
    /\ mode[f] = "read" /\ wire[f] # <<>>
    /\ log[Head(wire[f])] = "exit"
    /\ wire' = [wire EXCEPT ![f] = <<>>]
    /\ got' = [got EXCEPT ![f] = Head(wire[f])]
    /\ mode' = [mode EXCEPT ![f] = "done"]
    /\ gen' = [gen EXCEPT ![f] = "none"]
    /\ UNCHANGED <<storeVars, cursor, changed, woken, printed, failures, faults>>

\* The hub closed the stream without a terminal event: ask for the record.
StreamEnds(f) ==
    /\ mode[f] = "read"
    /\ gen[f] = "closed" /\ wire[f] = <<>>
    /\ mode' = [mode EXCEPT ![f] = "fetch"]
    /\ gen' = [gen EXCEPT ![f] = "none"]
    /\ UNCHANGED <<storeVars, cursor, changed, woken, wire, got, printed, failures, faults>>

FetchRecord(f) ==
    /\ mode[f] = "fetch"
    /\ mode' = [mode EXCEPT ![f] = IF Terminal THEN "done" ELSE "orphaned"]
    /\ UNCHANGED <<storeVars, genVars, wire, got, printed, failures, faults>>

-----------------------------------------------------------------------------
Each(v) == [f \in Followers |-> v]

Init ==
    /\ log = <<>> /\ owed = 0
    /\ gen = Each("none") /\ cursor = Each(0)
    /\ changed = Each(FALSE) /\ woken = Each(FALSE) /\ wire = Each(<<>>)
    /\ mode = Each("connect") /\ got = Each(0) /\ printed = Each(<<>>)
    /\ failures = Each(0) /\ faults = 0

HubStep(f) ==
    \/ ReadVersion(f)
    \/ SendEvents(f)
    \/ FindNoEvents(f)
    \/ CheckRecord(f)
    \/ StartWait(f)
    \/ Wake(f)

UserStep(f) ==
    \/ Connect(f)
    \/ ReadOutput(f)
    \/ ReadExit(f)
    \/ StreamEnds(f)
    \/ FetchRecord(f)

Next ==
    \/ \E kind \in {"output", "exit"} : AppendEvent(kind)
    \/ Notify
    \/ OtherChange
    \/ \E f \in Followers :
        \/ HubStep(f)
        \/ KeepAlive(f)
        \/ UserStep(f)
        \/ ConnectFails(f)
        \/ Break(f)
        \/ Rejected(f)

Spec == Init /\ [][Next]_vars

\* The record is resolved one day (see Commands), threads and event loop run,
\* and the timer of the keepalive fires.
FairSpec ==
    /\ Spec
    /\ WF_vars(~Terminal /\ AppendEvent("exit"))
    /\ WF_vars(Notify)
    /\ \A f \in Followers :
        /\ WF_vars(HubStep(f))
        /\ WF_vars(KeepAlive(f))
        /\ WF_vars(UserStep(f))

-----------------------------------------------------------------------------
(* Properties *)

\* Type invariant: the generator stands somewhere exactly while the follower
\* reads, and positions lie within the log.
TypeOK ==
    /\ log \in Seq({"output", "exit"}) /\ owed \in Nat
    /\ gen \in [Followers -> {"none", "top", "list", "record", "check", "wait", "closed"}]
    /\ cursor \in [Followers -> 0 .. Len(log)]
    /\ changed \in [Followers -> BOOLEAN] /\ woken \in [Followers -> BOOLEAN]
    /\ wire \in [Followers -> Seq(1 .. Len(log))]
    /\ mode \in [Followers -> {"connect", "read", "fetch", "done", "orphaned", "gaveup"}]
    /\ \A f \in Followers : gen[f] # "none" <=> mode[f] = "read"
    /\ got \in [Followers -> 0 .. Len(log)]
    /\ printed \in [Followers -> Seq(1 .. Len(log))]
    /\ failures \in [Followers -> 0 .. MaxFailures] /\ faults \in Nat

\* A generator never sleeps through a change: while it waits, an event it has
\* not sent, or the end of its record, has woken it or is about to.
NoLostWakeup ==
    \A f \in Followers :
        gen[f] = "wait" /\ (Len(log) > cursor[f] \/ Terminal) => woken[f] \/ owed > 0

\* Whatever breaks and however often the follower resumes, it prints events in
\* order, none twice and none left out.
PrintedInOrder ==
    \A f \in Followers :
        /\ \A i \in DOMAIN printed[f] : printed[f][i] = i
        /\ Len(printed[f]) = IF mode[f] = "done" /\ got[f] > 0 /\ log[got[f]] = "exit"
                             THEN got[f] - 1 ELSE got[f]

\* A stream that ends without a terminal event ends because the record is
\* resolved: the fallback to the record never fails ("stream ended before
\* terminal event").
NeverOrphaned == \A f \in Followers : mode[f] # "orphaned"

\* A follower returns, with a result or an error.
FollowerReturns == \A f \in Followers : <>(mode[f] \in {"done", "orphaned", "gaveup"})
=============================================================================
