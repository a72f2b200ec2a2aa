---------------------------- MODULE DeliveryProofs ----------------------------
(***************************************************************************)
(* Proofs about the way of control events to the workers of a client, and  *)
(* of the workers' requests to the hub, under every fault of Commands.     *)
(***************************************************************************)
EXTENDS CommandsProofs

-----------------------------------------------------------------------------
(* Workers and their requests.  A worker waits on one request at a time,   *)
(* of the kind its stage sends, and stays listed in _command_cancels until *)
(* it ends.                                                                *)

Stage(t) == CASE t = "claim" -> "claiming" [] t = "report" -> "executing" [] t = "exit" -> "exiting"

OneRequest ==
    \A m \in net : m.waiting =>
        /\ worker[m.cmd] = Stage(m.type)
        /\ \A n \in net : n.waiting /\ n.cmd = m.cmd => n = m

Listed == \A c \in Commands : worker[c] # "idle" => c \in cancels[Target[c]]

\* The log of a client names its own commands only, a start only of a created
\* one and a cancel only of one that was claimed.
LogShape ==
    \A k \in Clients : \A i \in 1 .. Len(control[k]) :
        LET e == control[k][i] IN
        /\ Target[e.cmd] = k
        /\ status[e.cmd] # "none"
        /\ e.kind = "cancel" => status[e.cmd] # "queued"

WorkerInv == OneRequest /\ Listed

\* Steps that only take requests away, or end and advance the workers of
\* those, keep the workers' invariant.
LEMMA RequestsShrink ==
  ASSUME WorkerInv, NetTypes,
         \A n \in net' : n.waiting => n \in net /\ worker'[n.cmd] = worker[n.cmd],
         \A c \in Commands : worker'[c] # "idle" =>
            worker[c] # "idle" /\ (c \in cancels[Target[c]] => c \in cancels'[Target[c]])
  PROVE  WorkerInv'
  BY DEF WorkerInv, OneRequest, Listed

\* A worker without a request sends one.
LEMMA RequestSent ==
  ASSUME WorkerInv, NetTypes, NEW r, net' = net \cup {r},
         r.cmd \in Commands, r.waiting, worker'[r.cmd] = Stage(r.type),
         \A n \in net : n.waiting => n.cmd # r.cmd,
         \A c \in Commands \ {r.cmd} : worker'[c] = worker[c],
         \A c \in Commands : c \in cancels[Target[c]] => c \in cancels'[Target[c]],
         r.cmd \in cancels'[Target[r.cmd]]
  PROVE  WorkerInv'
<1>1. \A n \in net : n.cmd \in Commands  BY DEF NetTypes, WorkRequests
<1>2. OneRequest'  BY <1>1 DEF WorkerInv, OneRequest
<1>3. Listed'  BY DEF WorkerInv, Listed
<1>4. QED  BY <1>2, <1>3 DEF WorkerInv

\* A crash and a swap take one client's connection down and its workers away.
LEMMA GoneDown ==
  ASSUME TypeInv, NEW k \in Clients, Crash(k) \/ Swap(k)
  PROVE  /\ Forget(k) /\ lastSeen' = lastSeen
         /\ conn'[k] = "down"
         /\ \A j \in Clients \ {k} : conn'[j] = conn[j] /\ up'[j] = up[j]
<1>1. CASE Crash(k)  BY <1>1 DEF Crash, hubVars, TypeInv, LoopTypes
<1>2. CASE Swap(k)  BY <1>2 DEF Swap, hubVars
<1>3. QED  BY <1>1, <1>2

\* Every request handled keeps the workers' invariant.
LEMMA WorkerHandle == ASSUME TypeInv, WorkerInv, NEW m \in net, Handle(m) PROVE WorkerInv'
<1> DEFINE c == m.cmd
<1>0. c \in Commands /\ Target[c] \in Clients  BY RequestTypes DEF TypeInv
<1>1. net' = net \ {m}
  BY DEF Handle, GrantClaim, RefuseClaim, HandleReport, HandleExit
<1>2. \A n \in net' : n.waiting /\ m.waiting => n.cmd # c
  BY <1>1 DEF WorkerInv, OneRequest
<1>3. /\ \A x \in Commands \ {c} : worker'[x] = worker[x]
      /\ ~m.waiting => worker' = worker
      /\ m.waiting => worker[c] # "idle"
      /\ \A x \in Commands : worker'[x] # "idle" /\ x \in cancels[Target[x]] => x \in cancels'[Target[x]]
  <2>1. m.waiting => worker[c] = Stage(m.type)  BY DEF WorkerInv, OneRequest
  <2>2. CASE GrantClaim(m)
    BY <1>0, <2>1, <2>2 DEF GrantClaim, ThreadDies, Stage, TypeInv, WorkInv, WorkTypes
  <2>3. CASE RefuseClaim(m)
    BY <1>0, <2>1, <2>3, TargetAssumption
      DEF RefuseClaim, Refused, ThreadEnds, ThreadDies, Stage, TypeInv, WorkInv, WorkTypes, LoopTypes
  <2>4. CASE HandleReport(m)
    BY <1>0, <2>1, <2>4 DEF HandleReport, StartExit, loopVars, Stage, TypeInv, WorkInv, WorkTypes
  <2>5. CASE HandleExit(m)
    BY <1>0, <2>1, <2>5, TargetAssumption
      DEF HandleExit, ThreadEnds, ExitRetried, Stage, TypeInv, WorkInv, WorkTypes, LoopTypes
  <2>6. QED  BY <2>2, <2>3, <2>4, <2>5 DEF Handle
<1>4. \A n \in net' : n.waiting => n \in net /\ n.cmd \in Commands /\ worker'[n.cmd] = worker[n.cmd]
  BY <1>1, <1>2, <1>3, RequestTypes DEF TypeInv
<1>5. \A x \in Commands : worker'[x] # "idle" => worker[x] # "idle"
  BY <1>3
<1>6. QED  BY <1>3, <1>4, <1>5, RequestsShrink DEF TypeInv

\* Every step of the loop keeps the workers' invariant.
LEMMA WorkerLoop ==
  ASSUME TypeInv, LogShape, WorkerInv, NEW k \in Clients, Poll(k) \/ Loop(k)
  PROVE  WorkerInv'
<1>1. CASE DispatchStart(k)
  <2>1. PICK i \in stream[k] : DispatchStart(k)!(i)  BY <1>1 DEF DispatchStart
  <2> DEFINE c == control[k][i].cmd
             r == ClaimReq(c)
  <2>2. c \in Commands /\ Target[c] = k
    BY <2>1, TypeConsume DEF TypeInv, StreamInLog, LogShape
  <2>3. CASE c \in cancels[k]
    BY <2>1, <2>3, RequestsShrink DEF TypeInv
  <2>4. CASE c \notin cancels[k]
    <3>1. worker[c] = "idle"  BY <2>2, <2>4 DEF WorkerInv, Listed
    <3>2. \A n \in net : n.waiting => n.cmd # c
      BY <2>2, <3>1, RequestTypes DEF WorkerInv, OneRequest, Stage, TypeInv
    <3>3. /\ cancels' = [cancels EXCEPT ![k] = @ \cup {c}]
          /\ worker' = [worker EXCEPT ![c] = "claiming"]
          /\ net' = net \cup {r}
      BY <2>1, <2>4
    <3>4. r.cmd = c /\ r.waiting /\ r.type = "claim"  BY DEF ClaimReq, WorkReq
    <3> HIDE DEF r, c
    <3>5. worker'[r.cmd] = Stage(r.type)
      BY <2>2, <3>3, <3>4 DEF Stage, TypeInv, WorkInv, WorkTypes
    <3>6. \A x \in Commands \ {r.cmd} : worker'[x] = worker[x]
      BY <3>3, <3>4 DEF TypeInv, WorkInv, WorkTypes
    <3>7. /\ \A x \in Commands : x \in cancels[Target[x]] => x \in cancels'[Target[x]]
          /\ r.cmd \in cancels'[Target[r.cmd]]
      BY <2>2, <3>3, <3>4, TargetAssumption DEF TypeInv, LoopTypes
    <3>8. QED  BY <2>2, <3>2, <3>3, <3>4, <3>5, <3>6, <3>7, RequestSent DEF TypeInv
  <2>5. QED  BY <2>3, <2>4
<1>2. CASE Crash(k) \/ Swap(k)
  <2>1. PICK late \in SUBSET {m \in net : Target[m.cmd] = k /\ m.waiting} :
          net' = (net \ {m \in net : Target[m.cmd] = k /\ m.waiting}) \cup {Abandoned(m) : m \in late}
    BY <1>2 DEF Crash, Swap, Forget
  <2>2. \A m \in late : ~Abandoned(m).waiting  BY DEF Abandoned, WorkReq
  <2>3. \A n \in net' : n.waiting => n \in net /\ Target[n.cmd] # k
    BY <2>1, <2>2
  <2>4. /\ \A x \in Commands : worker'[x] = IF Target[x] = k THEN "idle" ELSE worker[x]
        /\ \A x \in Commands : Target[x] # k => cancels'[Target[x]] = cancels[Target[x]]
    BY <1>2, TargetAssumption DEF Crash, Swap, Forget, TypeInv, LoopTypes
  <2>5. \A n \in net' : n.waiting => n \in net /\ worker'[n.cmd] = worker[n.cmd]
    BY <2>3, <2>4, RequestTypes DEF TypeInv
  <2>6. QED  BY <2>4, <2>5, RequestsShrink DEF TypeInv
<1>3. CASE \/ Poll(k) \/ Connect(k) \/ ReconcileFails(k) \/ StreamBreaks(k) \/ Heartbeat(k)
           \/ Restart(k) \/ DispatchCancel(k)
  <2>1. UNCHANGED <<worker, cancels, net>>
    BY <1>3 DEF Poll, Connect, ReconcileFails, StreamBreaks, Heartbeat, Restart, DispatchCancel,
       loopVars, workVars
  <2>2. QED  BY <2>1, RequestsShrink DEF TypeInv
<1>4. QED  BY <1>1, <1>2, <1>3 DEF Loop

\* A request given up is no longer waited for.
LEMMA GivenUp ==
  ASSUME NEW m \in net, GiveUp(m)
  PROVE  \A n \in net' : n.waiting => n \in net \ {m}
  BY DEF GiveUp, Abandoned, WorkReq

\* Every step of a worker thread keeps the workers' invariant.
LEMMA WorkerWorker == ASSUME TypeInv, WorkerInv, NEW c \in Commands, Worker(c) PROVE WorkerInv'
<1>0. worker \in [Commands -> {"idle", "claiming", "leased", "executing", "exiting"}]
  BY DEF TypeInv, WorkInv, WorkTypes
<1>1. CASE ClaimFails(c) \/ ReportFails(c) \/ ExitFails(c)
  <2>1. PICK m \in net : m.cmd = c /\ m.waiting /\ GiveUp(m)
    BY <1>1 DEF ClaimFails, ReportFails, ExitFails, Pending
  <2>2. \A n \in net' : n.waiting => n \in net /\ n.cmd # c
    BY <2>1, GivenUp DEF WorkerInv, OneRequest
  <2>3. /\ cancels' = cancels /\ \A x \in Commands \ {c} : worker'[x] = worker[x]
        /\ worker[c] # "idle"
    BY <1>0, <1>1, <2>1, RequestTypes DEF ClaimFails, ReportFails, ExitFails, ThreadDies, StartExit, ExitRetried,
       loopVars, WorkerInv, OneRequest, Stage, TypeInv
  <2>4. \A n \in net' : n.waiting => n \in net /\ worker'[n.cmd] = worker[n.cmd]
    BY <2>2, <2>3, RequestTypes DEF TypeInv
  <2>5. QED  BY <2>3, <2>4, RequestsShrink DEF TypeInv
<1>2. CASE SetupFails(c) \/ Finish(c) \/ Terminate(c) \/ StraySpawns(c) \/ StrayEnds(c) \/ OrphanEnds(c)
  <2>1. net' = net /\ cancels' = cancels /\ \A x \in Commands \ {c} : worker'[x] = worker[x]
    BY <1>0, <1>2 DEF SetupFails, Finish, Terminate, StraySpawns, StrayEnds, OrphanEnds, StartExit, loopVars
  <2>2. worker'[c] # "idle" => worker[c] # "idle"
    BY <1>0, <1>2 DEF SetupFails, Finish, Terminate, StraySpawns, StrayEnds, OrphanEnds, StartExit
  <2>3. \A n \in net : n.waiting => worker'[n.cmd] = worker[n.cmd]
    BY <1>0, <1>2, <2>1, RequestTypes DEF SetupFails, Finish, Terminate, StraySpawns, StrayEnds, OrphanEnds, Pending,
       WorkerInv, OneRequest, Stage, TypeInv
  <2>4. QED  BY <2>1, <2>2, <2>3, RequestsShrink DEF TypeInv
<1>3. CASE Spawn(c) \/ Output(c) \/ PostExit(c)
  <2>1. PICK r \in {ReportReq(c, "started"), ReportReq(c, "output"), ExitReq(c, outcome[c])} :
            net' = net \cup {r} /\ r.cmd = c /\ r.waiting /\ worker'[c] = Stage(r.type)
    <3>1. CASE Spawn(c)
      BY <1>0, <3>1 DEF Spawn, ReportReq, WorkReq, Stage
    <3>2. CASE Output(c)
      BY <1>0, <3>2 DEF Output, ReportReq, WorkReq, Stage, workVars
    <3>3. CASE PostExit(c)
      BY <1>0, <3>3 DEF PostExit, ExitReq, WorkReq, Stage, workVars
    <3>4. QED  BY <1>3, <3>1, <3>2, <3>3
  <2>2. \A n \in net : n.waiting => n.cmd # c
    BY <1>3, RequestTypes DEF Spawn, Output, PostExit, Pending, WorkerInv, OneRequest, Stage, TypeInv
  <2>3. worker[c] # "idle" /\ cancels' = cancels /\ \A x \in Commands \ {c} : worker'[x] = worker[x]
    BY <1>0, <1>3 DEF Spawn, Output, PostExit, loopVars, workVars
  <2>4. c \in cancels'[Target[c]]  BY <2>3 DEF WorkerInv, Listed
  <2>5. QED  BY <2>1, <2>2, <2>3, <2>4, RequestSent DEF TypeInv
<1>4. QED  BY <1>1, <1>2, <1>3 DEF Worker

\* Every step keeps the workers' invariant.
LEMMA WorkerNext == TypeInv /\ LogShape /\ WorkerInv /\ [Next]_vars => WorkerInv'
<1> SUFFICES ASSUME TypeInv, LogShape, WorkerInv, [Next]_vars PROVE WorkerInv'
  OBVIOUS
<1>1. CASE UNCHANGED <<worker, cancels, net>>  BY <1>1, RequestsShrink DEF TypeInv
<1>2. ASSUME NEW c \in Commands, Initiator(c) PROVE UNCHANGED <<worker, cancels, net>>
  BY <1>2 DEF Initiator, Create, CancelQueued, CancelRunning, loopVars, workVars
<1>3. ASSUME NEW m \in recons, HandleReconcile(m) PROVE UNCHANGED <<worker, cancels, net>>
  BY <1>3 DEF HandleReconcile, workVars
<1>4. CASE Time \/ Reap \/ UNCHANGED vars
  BY <1>1, <1>4 DEF Time, BecomeOverdue, BecomeStale, Reap, vars, loopVars, workVars
<1>5. QED  BY <1>1, <1>2, <1>3, <1>4, WorkerHandle, WorkerLoop, WorkerWorker DEF Next

-----------------------------------------------------------------------------
(* A client that has connected waits on one reconcile at a time.           *)

OneReconcile ==
    \A m \in recons : m.waiting =>
        /\ conn[m.client] = "reconciling"
        /\ \A n \in recons : n.waiting /\ n.client = m.client => n = m

\* Steps that only take reconciles away, and move the clients of those.
LEMMA ReconcilesShrink ==
  ASSUME OneReconcile, \A n \in recons' : n.waiting => n \in recons /\ conn'[n.client] = conn[n.client]
  PROVE  OneReconcile'
  BY DEF OneReconcile

\* Every step keeps one reconcile per client that reconciles.
LEMMA ReconcileNext == TypeInv /\ OneReconcile /\ [Next]_vars => OneReconcile'
<1> SUFFICES ASSUME TypeInv, OneReconcile, [Next]_vars PROVE OneReconcile'
  OBVIOUS
<1>0. \A n \in recons : n.client \in Clients  BY DEF TypeInv, NetTypes, ReconcileRequests
<1>1. CASE UNCHANGED <<recons, conn>>  BY <1>1, ReconcilesShrink
<1>2. ASSUME NEW c \in Commands, Initiator(c) \/ Worker(c) PROVE UNCHANGED <<recons, conn>>
  BY <1>2 DEF Initiator, Create, CancelQueued, CancelRunning, Worker, ClaimFails, SetupFails, Spawn,
     Output, Finish, Terminate, ReportFails, PostExit, ExitFails, StraySpawns, StrayEnds, OrphanEnds, loopVars
<1>3. ASSUME NEW m \in net, Handle(m) PROVE UNCHANGED <<recons, conn>>
  BY <1>3 DEF Handle, GrantClaim, RefuseClaim, HandleReport, HandleExit, loopVars
<1>4. ASSUME NEW m \in recons, HandleReconcile(m) PROVE OneReconcile'
  <2>1. recons' = recons \ {m} /\ conn' = IF m.waiting THEN [conn EXCEPT ![m.client] = "reading"] ELSE conn
    BY <1>4 DEF HandleReconcile
  <2>2. \A n \in recons' : n.waiting => n \in recons /\ (m.waiting => n.client # m.client)
    BY <2>1 DEF OneReconcile
  <2>3. QED  BY <1>0, <2>1, <2>2, ReconcilesShrink DEF TypeInv, LoopTypes
<1>5. CASE Time \/ Reap \/ UNCHANGED vars
  BY <1>1, <1>5 DEF Time, BecomeOverdue, BecomeStale, Reap, vars, loopVars
<1>6. ASSUME NEW k \in Clients, Poll(k) \/ Loop(k) PROVE OneReconcile'
  <2>1. CASE Poll(k) \/ Heartbeat(k) \/ Restart(k) \/ DispatchStart(k) \/ DispatchCancel(k)
    BY <1>1, <2>1 DEF Poll, Heartbeat, Restart, DispatchStart, DispatchCancel, Consume, loopVars
  <2>2. CASE Connect(k)
    <3>1. PICK r : recons' = recons \cup {r} /\ r = ReconcileReq(k, ActiveCommands(k), TRUE)
      BY <2>2 DEF Connect
    <3>2. conn[k] = "down" /\ conn' = [conn EXCEPT ![k] = "reconciling"]  BY <2>2 DEF Connect
    <3>3. \A n \in recons : n.waiting => n.client # k  BY <3>2 DEF OneReconcile
    <3>4. r.client = k  BY <3>1 DEF ReconcileReq
    <3>5. \A n \in recons' : n.waiting => n = r \/ (n \in recons /\ n.client # k)  BY <3>1, <3>3
    <3>6. conn'[k] = "reconciling" /\ \A j \in Clients : j # k => conn'[j] = conn[j]
      BY <3>2 DEF TypeInv, LoopTypes
    <3>7. QED  BY <1>0, <3>4, <3>5, <3>6 DEF OneReconcile
  <2>3. CASE ReconcileFails(k)
    <3>1. PICK m \in recons : ReconcileFails(k)!(m)  BY <2>3 DEF ReconcileFails
    <3>2. \A n \in recons' : n.waiting => n \in recons \ {m}  BY <3>1 DEF ReconcileReq
    <3>3. \A n \in recons' : n.waiting => n.client # k  BY <3>1, <3>2 DEF OneReconcile
    <3>4. QED  BY <1>0, <3>1, <3>2, <3>3, ReconcilesShrink DEF TypeInv, LoopTypes
  <2>4. CASE StreamBreaks(k)
    <3>1. recons' = recons /\ conn[k] = "reading" /\ conn' = [conn EXCEPT ![k] = "down"]
      BY <2>4 DEF StreamBreaks
    <3>2. QED  BY <1>0, <3>1, ReconcilesShrink DEF OneReconcile, TypeInv, LoopTypes
  <2>5. CASE Crash(k) \/ Swap(k)
    <3> DEFINE rcut == {m \in recons : m.client = k /\ m.waiting}
    <3>1. PICK rlate \in SUBSET rcut :
            recons' = (recons \ rcut) \cup {ReconcileReq(k, m.active, FALSE) : m \in rlate}
      BY <2>5 DEF Crash, Swap, Forget
    <3>2. \A n \in recons' : n.waiting => n \in recons /\ n.client # k
      BY <3>1 DEF ReconcileReq
    <3>3. \A j \in Clients : j # k => conn'[j] = conn[j]
      BY <2>5 DEF Crash, Swap, TypeInv, LoopTypes
    <3>4. QED  BY <1>0, <3>2, <3>3, ReconcilesShrink DEF TypeInv, LoopTypes
  <2>6. QED  BY <1>6, <2>1, <2>2, <2>3, <2>4, <2>5 DEF Loop
<1>7. QED  BY <1>1, <1>2, <1>3, <1>4, <1>5, <1>6 DEF Next

-----------------------------------------------------------------------------
(* Delivery.  An event the client has behind it (Last-Event-ID), or that   *)
(* the hub has sent on the present connection, was taken by the client or  *)
(* is in flight - as far as it still matters: the start of a queued        *)
(* command, the cancel of one that a worker executes.                      *)

CursorShape ==
    \A k \in Clients :
        /\ cursor[k] <= Len(control[k]) /\ lastId[k] <= Len(control[k])
        /\ \A i \in stream[k] : i <= cursor[k]

InLog(k, e) == \E i \in 1 .. Len(control[k]) : control[k][i] = e

Logged ==
    \A c \in Commands : LET k == Target[c] IN
        /\ status[c] = "queued" => InLog(k, ControlEvent("start", c))
        /\ status[c] = "running" /\ cancelAsked[c] => InLog(k, ControlEvent("cancel", c))
        /\ status[c] \in {"none", "queued"} => ~cancelAsked[c]

Taken(k, i, got) ==
    /\ i <= lastId[k] => got
    /\ conn[k] # "down" /\ i <= cursor[k] => got \/ i \in stream[k]

StartsTaken ==
    \A c \in Commands : LET k == Target[c] IN
        \A i \in 1 .. Len(control[k]) :
            control[k][i] = ControlEvent("start", c) /\ status[c] = "queued" =>
                Taken(k, i, c \in cancels[k])

CancelsTaken ==
    \A c \in Commands : LET k == Target[c] IN
        \A i \in 1 .. Len(control[k]) :
            control[k][i] = ControlEvent("cancel", c) /\ worker[c] \in {"leased", "executing"} =>
                Taken(k, i, c \in cancelSet[k])

DeliveryInv == LogShape /\ CursorShape /\ Logged /\ StartsTaken /\ CancelsTaken

\* What is known of the logs and of the events a stream carries.
LEMMA LogTypes ==
  ASSUME TypeInv, NEW k \in Clients
  PROVE  /\ Len(control[k]) \in Nat /\ cursor[k] \in Nat /\ lastId[k] \in Nat
         /\ stream[k] \subseteq 1 .. Len(control[k])
         /\ \A i \in 1 .. Len(control[k]) :
                control[k][i].cmd \in Commands /\ control[k][i].kind \in {"start", "cancel"}
                /\ control[k][i] = ControlEvent(control[k][i].kind, control[k][i].cmd)
<1> DEFINE E == [kind : {"start", "cancel"}, cmd : Commands]
<1>1. control \in [Clients -> Seq(E)]  BY DEF TypeInv, HubTypes
<1>2. \A e \in E : /\ e.cmd \in Commands /\ e.kind \in {"start", "cancel"}
                   /\ e = ControlEvent(e.kind, e.cmd)
  BY DEF ControlEvent
<1> HIDE DEF E
<1>3. \A i \in 1 .. Len(control[k]) : control[k][i] \in E  BY <1>1
<1>4. Len(control[k]) \in Nat  BY <1>1
<1>5. QED  BY <1>2, <1>3, <1>4 DEF TypeInv, StreamTypes, LoopTypes, StreamInLog

\* The steps that neither write a log nor move a stream.
QuietStep ==
    /\ UNCHANGED <<control, cursor, stream, lastId>>
    /\ \A k \in Clients : conn'[k] # "down" => conn[k] # "down"
    /\ \A c \in Commands :
        /\ status'[c] = "queued" => status[c] = "queued"
        /\ status'[c] = "none" => status[c] = "none"
        /\ status'[c] = "running" => status[c] \in {"queued", "running"}
        /\ cancelAsked'[c] => cancelAsked[c] \/ status'[c] \in Terminal
        /\ c \in cancels[Target[c]] /\ status'[c] = "queued" => c \in cancels'[Target[c]]
        /\ worker'[c] \in {"leased", "executing"} =>
              /\ worker[c] \in {"leased", "executing"} \/ status[c] = "queued"
              /\ c \in cancelSet[Target[c]] => c \in cancelSet'[Target[c]]

\* A quiet step keeps the delivery invariant.
LEMMA DeliveryQuiet == ASSUME TypeInv, DeliveryInv, QuietStep PROVE DeliveryInv'
<1>1. LogShape'
  BY LogTypes DEF DeliveryInv, LogShape, QuietStep
<1>2. CursorShape'  BY DEF DeliveryInv, CursorShape, QuietStep
<1>3. Logged'
  BY DEF DeliveryInv, Logged, InLog, QuietStep, Terminal
<1>4. StartsTaken'
  BY TargetAssumption DEF DeliveryInv, StartsTaken, Taken, QuietStep
<1>5. CancelsTaken'
  <2>1. \A c \in Commands : \A i \in 1 .. Len(control[Target[c]]) :
          control[Target[c]][i] = ControlEvent("cancel", c) => status[c] # "queued"
    BY TargetAssumption DEF DeliveryInv, LogShape, ControlEvent
  <2>2. QED
    BY <2>1, TargetAssumption DEF DeliveryInv, CancelsTaken, Taken, QuietStep
<1>6. QED  BY <1>1, <1>2, <1>3, <1>4, <1>5 DEF DeliveryInv

\* Appending an event leaves the others where they were.
LEMMA LogAppended ==
  ASSUME TypeInv, NEW k \in Clients, NEW e \in [kind : {"start", "cancel"}, cmd : Commands],
         control' = [control EXCEPT ![k] = Append(@, e)]
  PROVE  /\ Len(control'[k]) = Len(control[k]) + 1 /\ control'[k][Len(control[k]) + 1] = e
         /\ \A j \in Clients : j # k => control'[j] = control[j]
         /\ \A i \in 1 .. Len(control[k]) : control'[k][i] = control[k][i]
<1> DEFINE E == [kind : {"start", "cancel"}, cmd : Commands]
<1>1. control \in [Clients -> Seq(E)]  BY DEF TypeInv, HubTypes
<1>2. e \in E  OBVIOUS
<1> HIDE DEF E
<1>3. QED  BY <1>1, <1>2

\* Appending an event keeps the delivery invariant, if the event is a start of
\* a command that is created, or a cancel of one that runs.
LEMMA DeliveryAppend ==
  ASSUME TypeInv, DeliveryInv, NEW c \in Commands, NEW kind \in {"start", "cancel"},
         control' = [control EXCEPT ![Target[c]] = Append(@, ControlEvent(kind, c))],
         UNCHANGED <<cursor, stream, lastId, conn, cancels, cancelSet, worker>>,
         \/ /\ kind = "start" /\ status[c] = "none" /\ status' = [status EXCEPT ![c] = "queued"]
            /\ cancelAsked' = cancelAsked
         \/ /\ kind = "cancel" /\ status[c] = "running" /\ status' = status
            /\ cancelAsked' = [cancelAsked EXCEPT ![c] = TRUE]
  PROVE  DeliveryInv'
<1> DEFINE k == Target[c]
           e == ControlEvent(kind, c)
           n == Len(control[k]) + 1
<1>0. k \in Clients /\ e \in [kind : {"start", "cancel"}, cmd : Commands] /\ e.cmd = c /\ e.kind = kind
  BY TargetAssumption DEF ControlEvent
<1>1. /\ Len(control[k]) \in Nat /\ Len(control'[k]) = n /\ control'[k][n] = e
      /\ \A j \in Clients : j # k => control'[j] = control[j]
      /\ \A i \in 1 .. Len(control[k]) : control'[k][i] = control[k][i]
  BY <1>0, LogAppended, LogTypes
<1>2. \A j \in Clients : \A i \in 1 .. Len(control'[j]) :
        \/ i \in 1 .. Len(control[j]) /\ control'[j][i] = control[j][i]
        \/ j = k /\ i = n /\ control'[j][i] = e
  BY <1>0, <1>1
<1>3. \A j \in Clients : 1 .. Len(control[j]) \subseteq 1 .. Len(control'[j])
  BY <1>0, <1>1
<1>4. \A x \in Commands : x # c => status'[x] = status[x] /\ cancelAsked'[x] = cancelAsked[x]
  BY DEF TypeInv, HubTypes
<1>5. \/ kind = "start" /\ status[c] = "none" /\ status'[c] = "queued" /\ cancelAsked'[c] = cancelAsked[c]
      \/ kind = "cancel" /\ status[c] = "running" /\ status'[c] = "running" /\ cancelAsked'[c]
  BY DEF TypeInv, HubTypes
<1> HIDE DEF e, n, k
<1>6. LogShape'
  <2>1. SUFFICES ASSUME NEW j \in Clients, NEW i \in 1 .. Len(control'[j])
                 PROVE  /\ Target[control'[j][i].cmd] = j
                        /\ status'[control'[j][i].cmd] # "none"
                        /\ control'[j][i].kind = "cancel" => status'[control'[j][i].cmd] # "queued"
    BY DEF LogShape
  <2>2. CASE i \in 1 .. Len(control[j]) /\ control'[j][i] = control[j][i]
    <3>1. control[j][i].cmd \in Commands  BY <2>2, LogTypes
    <3>2. QED  BY <1>4, <1>5, <2>2, <3>1 DEF DeliveryInv, LogShape
  <2>3. CASE j = k /\ control'[j][i] = e
    BY <1>0, <1>5, <2>3 DEF k
  <2>4. QED  BY <1>2, <2>2, <2>3
<1>7. CursorShape'
  <2>1. \A j \in Clients : Len(control[j]) \in Nat /\ Len(control'[j]) \in Nat
                           /\ Len(control[j]) <= Len(control'[j])
                           /\ cursor[j] \in Nat /\ lastId[j] \in Nat
    BY <1>0, <1>1, LogTypes DEF n
  <2>2. QED  BY <2>1 DEF DeliveryInv, CursorShape
<1>8. Logged'
  <2>1. \A j \in Clients : n \in 1 .. Len(control'[k])  BY <1>1 DEF n
  <2>2. \A j \in Clients : \A f : InLog(j, f) => InLog(j, f)'
    BY <1>0, <1>1, <1>3 DEF InLog
  <2>3. InLog(k, e)'  BY <1>0, <1>1, <2>1 DEF InLog
  <2>4. \A x \in Commands : Target[x] \in Clients  BY TargetAssumption
  <2>5. ASSUME NEW x \in Commands
        PROVE  /\ status'[x] = "queued" => InLog(Target[x], ControlEvent("start", x))'
               /\ status'[x] = "running" /\ cancelAsked'[x] => InLog(Target[x], ControlEvent("cancel", x))'
               /\ status'[x] \in {"none", "queued"} => ~cancelAsked'[x]
    <3>1. CASE x # c  BY <1>4, <2>2, <2>4, <3>1 DEF DeliveryInv, Logged
    <3>2. CASE x = c  BY <1>5, <2>3, <3>2 DEF DeliveryInv, Logged, e, k
    <3>3. QED  BY <3>1, <3>2
  <2>6. QED  BY <2>5 DEF Logged
<1>9. \A i : i > Len(control[k]) /\ i \in Nat => ~(i <= lastId[k]) /\ ~(i <= cursor[k])
  BY <1>0, LogTypes DEF DeliveryInv, CursorShape
<1>10. StartsTaken'
  <2>1. SUFFICES ASSUME NEW x \in Commands, NEW i \in 1 .. Len(control'[Target[x]]),
                        control'[Target[x]][i] = ControlEvent("start", x), status'[x] = "queued"
                 PROVE  Taken(Target[x], i, x \in cancels[Target[x]])
    BY DEF StartsTaken, Taken
  <2>2. Target[x] \in Clients  BY TargetAssumption
  <2>3. CASE i \in 1 .. Len(control[Target[x]]) /\ control'[Target[x]][i] = control[Target[x]][i]
    <3>1. status[x] # "none"
      <4>1. ControlEvent("start", x).cmd = x  BY DEF ControlEvent
      <4>2. QED  BY <2>1, <2>2, <2>3, <4>1 DEF DeliveryInv, LogShape
    <3>2. status[x] = "queued"  BY <1>4, <1>5, <2>1, <3>1
    <3>3. QED  BY <2>1, <2>3, <3>2 DEF DeliveryInv, StartsTaken
  <2>4. CASE Target[x] = k /\ i = n
    BY <1>1, <1>9, <2>4 DEF n, Taken
  <2>5. QED  BY <1>2, <2>2, <2>3, <2>4
<1>11. CancelsTaken'
  <2>1. SUFFICES ASSUME NEW x \in Commands, NEW i \in 1 .. Len(control'[Target[x]]),
                        control'[Target[x]][i] = ControlEvent("cancel", x),
                        worker[x] \in {"leased", "executing"}
                 PROVE  Taken(Target[x], i, x \in cancelSet[Target[x]])
    BY DEF CancelsTaken, Taken
  <2>2. Target[x] \in Clients  BY TargetAssumption
  <2>3. CASE i \in 1 .. Len(control[Target[x]]) /\ control'[Target[x]][i] = control[Target[x]][i]
    BY <2>1, <2>3 DEF DeliveryInv, CancelsTaken
  <2>4. CASE Target[x] = k /\ i = n
    BY <1>1, <1>9, <2>4 DEF n, Taken
  <2>5. QED  BY <1>2, <2>2, <2>3, <2>4
<1>12. QED  BY <1>6, <1>7, <1>8, <1>10, <1>11 DEF DeliveryInv

\* What the delivery invariant says of one event of a command's log.
LEMMA EventTaken ==
  ASSUME TypeInv, DeliveryInv, NEW k \in Clients, NEW i \in 1 .. Len(control[k]),
         NEW c \in Commands, Target[c] = k
  PROVE  /\ control[k][i] = ControlEvent("start", c) /\ status[c] = "queued" => Taken(k, i, c \in cancels[k])
         /\ control[k][i] = ControlEvent("cancel", c) /\ worker[c] \in {"leased", "executing"} =>
                Taken(k, i, c \in cancelSet[k])
  BY DEF DeliveryInv, StartsTaken, CancelsTaken

\* Steps of one connection: the log, the records and the other clients stay.
ConnectionStep(k) ==
    /\ UNCHANGED <<control, status, cancelAsked>>
    /\ \A j \in Clients \ {k} :
        /\ cursor'[j] = cursor[j] /\ lastId'[j] = lastId[j] /\ stream'[j] = stream[j]
        /\ conn'[j] = conn[j] /\ cancels'[j] = cancels[j] /\ cancelSet'[j] = cancelSet[j]
    /\ \A c \in Commands : Target[c] # k => worker'[c] = worker[c]

\* Such a step keeps the delivery invariant if it does for that connection.
LEMMA DeliveryConnection ==
  ASSUME TypeInv, DeliveryInv, NEW k \in Clients, ConnectionStep(k),
         cursor'[k] <= Len(control[k]), lastId'[k] <= Len(control[k]),
         \A i \in stream'[k] : i <= cursor'[k],
         \A c \in Commands, i \in 1 .. Len(control[k]) : Target[c] = k =>
            /\ control[k][i] = ControlEvent("start", c) /\ status[c] = "queued" =>
                  Taken(k, i, c \in cancels[k])'
            /\ control[k][i] = ControlEvent("cancel", c) /\ worker'[c] \in {"leased", "executing"} =>
                  Taken(k, i, c \in cancelSet[k])'
  PROVE  DeliveryInv'
<1>1. LogShape' /\ Logged'
  BY DEF DeliveryInv, LogShape, Logged, InLog, ConnectionStep
<1>2. CursorShape'  BY DEF DeliveryInv, CursorShape, ConnectionStep
<1>3. ASSUME NEW c \in Commands, NEW i \in 1 .. Len(control[Target[c]]), Target[c] # k
      PROVE  /\ control[Target[c]][i] = ControlEvent("start", c) /\ status[c] = "queued" =>
                  Taken(Target[c], i, c \in cancels[Target[c]])'
             /\ control[Target[c]][i] = ControlEvent("cancel", c) /\ worker'[c] \in {"leased", "executing"} =>
                  Taken(Target[c], i, c \in cancelSet[Target[c]])'
  <2>1. Target[c] \in Clients  BY TargetAssumption
  <2>2. QED  BY <1>3, <2>1, EventTaken DEF ConnectionStep, Taken
<1>4. StartsTaken'  BY <1>3 DEF StartsTaken, ConnectionStep
<1>5. CancelsTaken'  BY <1>3 DEF CancelsTaken, ConnectionStep
<1>6. QED  BY <1>1, <1>2, <1>4, <1>5 DEF DeliveryInv

\* A turn of the hub's stream sends every start that still matters.
LEMMA DeliveryPoll == ASSUME TypeInv, DeliveryInv, NEW k \in Clients, Poll(k) PROVE DeliveryInv'
<1>1. /\ ConnectionStep(k)
      /\ conn' = conn /\ lastId' = lastId /\ cancels' = cancels /\ cancelSet' = cancelSet /\ worker' = worker
      /\ cursor'[k] = Len(control[k])
      /\ stream'[k] = stream[k] \cup {i \in cursor[k] + 1 .. Len(control[k]) : Live(control[k][i])}
  BY DEF Poll, ConnectionStep, hubVars, loopVars, workVars, TypeInv, StreamTypes
<1>2. Len(control[k]) \in Nat /\ cursor[k] \in Nat /\ stream[k] \subseteq 1 .. Len(control[k])
  BY LogTypes
<1>3. \A i \in stream'[k] : i <= cursor'[k]  BY <1>1, <1>2
<1>4. ASSUME NEW c \in Commands, NEW i \in 1 .. Len(control[k]), Target[c] = k
      PROVE  /\ control[k][i] = ControlEvent("start", c) /\ status[c] = "queued" =>
                  Taken(k, i, c \in cancels[k])'
             /\ control[k][i] = ControlEvent("cancel", c) /\ worker'[c] \in {"leased", "executing"} =>
                  Taken(k, i, c \in cancelSet[k])'
  <2>1. i > cursor[k] /\ Live(control[k][i]) => i \in stream'[k]  BY <1>1, <1>2
  <2>2. control[k][i] = ControlEvent("start", c) /\ status[c] = "queued" => Live(control[k][i])
    BY DEF Live, ControlEvent
  <2>3. control[k][i] = ControlEvent("cancel", c) => Live(control[k][i])
    BY DEF Live, ControlEvent
  <2>4. i > cursor[k] \/ i <= cursor[k]  BY <1>2
  <2>5. stream[k] \subseteq stream'[k]  BY <1>1
  <2>6. QED  BY <1>1, <1>4, <2>1, <2>2, <2>3, <2>4, <2>5, EventTaken DEF Taken
<1>5. lastId[k] <= Len(control[k])  BY DEF DeliveryInv, CursorShape
<1>6. QED  BY <1>1, <1>2, <1>3, <1>4, <1>5, DeliveryConnection

\* A connection resumes after the last event the client has taken.
LEMMA DeliveryConnect == ASSUME TypeInv, DeliveryInv, NEW k \in Clients, Connect(k) PROVE DeliveryInv'
<1>1. /\ ConnectionStep(k)
      /\ lastId' = lastId /\ cancels' = cancels /\ cancelSet' = cancelSet /\ worker' = worker
      /\ cursor'[k] = lastId[k] /\ stream'[k] = {}
  BY DEF Connect, ConnectionStep, ResumeFrom, workVars, TypeInv, StreamTypes, LoopTypes
<1>2. lastId[k] <= Len(control[k])  BY DEF DeliveryInv, CursorShape
<1>3. ASSUME NEW c \in Commands, NEW i \in 1 .. Len(control[k]), Target[c] = k
      PROVE  /\ control[k][i] = ControlEvent("start", c) /\ status[c] = "queued" =>
                  Taken(k, i, c \in cancels[k])'
             /\ control[k][i] = ControlEvent("cancel", c) /\ worker'[c] \in {"leased", "executing"} =>
                  Taken(k, i, c \in cancelSet[k])'
  BY <1>1, <1>3, EventTaken DEF Taken
<1>4. QED  BY <1>1, <1>2, <1>3, DeliveryConnection

\* A broken stream promises nothing; a dead process or a new service has taken
\* nothing and resumes from the start of its log.
LEMMA DeliveryDown ==
  ASSUME TypeInv, DeliveryInv, NEW k \in Clients, StreamBreaks(k) \/ Crash(k) \/ Swap(k)
  PROVE  DeliveryInv'
<1>1. /\ ConnectionStep(k) /\ conn'[k] = "down" /\ cursor' = cursor /\ stream'[k] \subseteq stream[k]
      /\ \/ lastId' = lastId /\ cancels' = cancels /\ cancelSet' = cancelSet /\ worker' = worker
         \/ lastId'[k] = 0
  <2>1. CASE StreamBreaks(k)
    BY <2>1 DEF StreamBreaks, ConnectionStep, hubVars, workVars, TypeInv, StreamTypes, LoopTypes
  <2>2. CASE Crash(k) \/ Swap(k)
    <3>1. /\ cursor' = cursor /\ control' = control /\ status' = status /\ cancelAsked' = cancelAsked
          /\ lastId' = [lastId EXCEPT ![k] = 0]
          /\ conn' = [conn EXCEPT ![k] = "down"] \/ (conn[k] = "down" /\ conn' = conn)
          /\ stream' = [stream EXCEPT ![k] = {}] \/ stream' = stream
          /\ cancels' = [cancels EXCEPT ![k] = {}] /\ cancelSet' = [cancelSet EXCEPT ![k] = {}]
          /\ worker' = [c \in Commands |-> IF Target[c] = k THEN "idle" ELSE worker[c]]
      BY <2>2 DEF Crash, Swap, Forget, hubVars, streamVars
    <3>2. QED  BY <3>1 DEF ConnectionStep, TypeInv, StreamTypes, LoopTypes
  <2>3. QED  BY <2>1, <2>2
<1>2. /\ cursor[k] <= Len(control[k]) /\ lastId'[k] <= Len(control[k])
      /\ \A i \in stream'[k] : i <= cursor[k]
      /\ \A i \in 1 .. Len(control[k]) : ~(i <= 0)
  BY <1>1, LogTypes DEF DeliveryInv, CursorShape
<1>3. ASSUME NEW c \in Commands, NEW i \in 1 .. Len(control[k]), Target[c] = k
      PROVE  /\ control[k][i] = ControlEvent("start", c) /\ status[c] = "queued" =>
                  Taken(k, i, c \in cancels[k])'
             /\ control[k][i] = ControlEvent("cancel", c) /\ worker'[c] \in {"leased", "executing"} =>
                  Taken(k, i, c \in cancelSet[k])'
  BY <1>1, <1>2, <1>3, EventTaken DEF Taken
<1>4. QED  BY <1>1, <1>2, <1>3, DeliveryConnection

\* The client takes the oldest event in flight, so nothing is left behind it.
LEMMA DeliveryConsume ==
  ASSUME TypeInv, DeliveryInv, NEW k \in Clients, NEW i \in stream[k], Consume(k, i),
         ConnectionStep(k),
         \A c \in Commands : Target[c] = k =>
            /\ c \in cancels[k] \/ control[k][i] = ControlEvent("start", c) => c \in cancels'[k]
            /\ worker'[c] \in {"leased", "executing"} =>
                  /\ worker[c] \in {"leased", "executing"}
                  /\ c \in cancelSet[k] \/ control[k][i] = ControlEvent("cancel", c) => c \in cancelSet'[k]
  PROVE  DeliveryInv'
<1>1. /\ conn' = conn /\ conn[k] # "down" /\ cursor' = cursor /\ stream'[k] = stream[k] \ {i}
      /\ lastId'[k] = IF lastId[k] < i THEN i ELSE lastId[k]
      /\ \A j \in stream[k] : i <= j
  BY DEF Consume, NextEvent, TypeInv, StreamTypes, LoopTypes
<1>2. /\ Len(control[k]) \in Nat /\ cursor[k] \in Nat /\ lastId[k] \in Nat
      /\ i \in 1 .. Len(control[k]) /\ i <= cursor[k]
      /\ cursor[k] <= Len(control[k]) /\ lastId[k] <= Len(control[k])
      /\ \A j \in stream[k] : j <= cursor[k]
  BY LogTypes DEF DeliveryInv, CursorShape
<1>3. ASSUME NEW c \in Commands, NEW n \in 1 .. Len(control[k]), Target[c] = k
      PROVE  /\ control[k][n] = ControlEvent("start", c) /\ status[c] = "queued" =>
                  Taken(k, n, c \in cancels[k])'
             /\ control[k][n] = ControlEvent("cancel", c) /\ worker'[c] \in {"leased", "executing"} =>
                  Taken(k, n, c \in cancelSet[k])'
  <2>1. n \in stream[k] => n = i \/ (n \in stream'[k] /\ ~(n <= i))
    BY <1>1, <1>2
  <2>2. n <= lastId'[k] => n <= lastId[k] \/ n <= i
    BY <1>1, <1>2
  <2>3. n <= i => n <= cursor[k]  BY <1>2
  <2>4. ASSUME NEW got, NEW got2 \in BOOLEAN, Taken(k, n, got), got => got2, n = i => got2
        PROVE  /\ n <= lastId'[k] => got2
               /\ conn'[k] # "down" /\ n <= cursor'[k] => got2 \/ n \in stream'[k]
    BY <1>1, <2>1, <2>2, <2>3, <2>4 DEF Taken
  <2>5. control[k][n] = ControlEvent("start", c) /\ status[c] = "queued" =>
                  Taken(k, n, c \in cancels[k])'
    <3>1. SUFFICES ASSUME control[k][n] = ControlEvent("start", c), status[c] = "queued"
                   PROVE  Taken(k, n, c \in cancels[k])'
      OBVIOUS
    <3>2. Taken(k, n, c \in cancels[k])  BY <1>3, <3>1, EventTaken
    <3>3. c \in cancels[k] => c \in cancels'[k]  BY <1>3
    <3>4. n = i => c \in cancels'[k]  BY <1>3, <3>1
    <3>5. QED  BY <2>4, <3>2, <3>3, <3>4 DEF Taken
  <2>6. control[k][n] = ControlEvent("cancel", c) /\ worker'[c] \in {"leased", "executing"} =>
                  Taken(k, n, c \in cancelSet[k])'
    <3>1. SUFFICES ASSUME control[k][n] = ControlEvent("cancel", c), worker'[c] \in {"leased", "executing"}
                   PROVE  Taken(k, n, c \in cancelSet[k])'
      OBVIOUS
    <3>2. Taken(k, n, c \in cancelSet[k])  BY <1>3, <3>1, EventTaken
    <3>3. c \in cancelSet[k] => c \in cancelSet'[k]  BY <1>3, <3>1
    <3>4. n = i => c \in cancelSet'[k]  BY <1>3, <3>1
    <3>5. QED  BY <2>4, <3>2, <3>3, <3>4 DEF Taken
  <2>7. QED  BY <2>5, <2>6
<1>4. \A j \in stream'[k] : j <= cursor'[k]  BY <1>1, <1>2
<1>5. lastId'[k] <= Len(control[k]) /\ cursor'[k] <= Len(control[k])  BY <1>1, <1>2
<1>6. QED  BY <1>3, <1>4, <1>5, DeliveryConnection

\* Dispatching the event leaves nothing behind.
LEMMA DeliveryDispatch ==
  ASSUME TypeInv, DeliveryInv, WorkerInv, NEW k \in Clients, DispatchStart(k) \/ DispatchCancel(k)
  PROVE  DeliveryInv'
<1>1. CASE DispatchStart(k)
  <2>1. PICK i \in stream[k] : DispatchStart(k)!(i)  BY <1>1 DEF DispatchStart
  <2> DEFINE x == control[k][i].cmd
  <2>2. x \in Commands /\ Target[x] = k /\ i \in 1 .. Len(control[k])
    BY LogTypes DEF DeliveryInv, LogShape
  <2>3. /\ Consume(k, i) /\ cancelSet' = cancelSet
        /\ cancels'[k] = cancels[k] \cup {x}
        /\ \A j \in Clients : j # k => cancels'[j] = cancels[j]
        /\ worker' = worker \/ worker' = [worker EXCEPT ![x] = "claiming"]
    BY <2>1 DEF TypeInv, LoopTypes
  <2> HIDE DEF x
  <2>4. ConnectionStep(k)
    BY <2>2, <2>3 DEF ConnectionStep, Consume, hubVars, TypeInv, StreamTypes, LoopTypes, WorkInv, WorkTypes
  <2>5. \A c \in Commands : worker'[c] \in {"leased", "executing"} => worker[c] \in {"leased", "executing"}
    BY <2>2, <2>3 DEF TypeInv, WorkInv, WorkTypes
  <2>6. \A c \in Commands : control[k][i] = ControlEvent("start", c) => c = x
    BY DEF x, ControlEvent
  <2>7. \A c \in Commands : control[k][i] # ControlEvent("cancel", c)
    BY <2>1 DEF ControlEvent
  <2>8. QED  BY <2>3, <2>4, <2>5, <2>6, <2>7, DeliveryConsume
<1>2. CASE DispatchCancel(k)
  <2>1. PICK i \in stream[k] : DispatchCancel(k)!(i)  BY <1>2 DEF DispatchCancel
  <2> DEFINE x == control[k][i].cmd
  <2>2. x \in Commands /\ Target[x] = k /\ i \in 1 .. Len(control[k])
    BY LogTypes DEF DeliveryInv, LogShape
  <2>3. /\ Consume(k, i) /\ worker' = worker /\ cancels' = cancels
        /\ cancelSet'[k] = IF x \in cancels[k] THEN cancelSet[k] \cup {x} ELSE cancelSet[k]
        /\ \A j \in Clients : j # k => cancelSet'[j] = cancelSet[j]
    BY <2>1 DEF TypeInv, LoopTypes
  <2>4. worker[x] # "idle" => x \in cancels[k]
    BY <2>2 DEF WorkerInv, Listed
  <2> HIDE DEF x
  <2>5. ConnectionStep(k)
    BY <2>2, <2>3 DEF ConnectionStep, Consume, hubVars, TypeInv, StreamTypes, LoopTypes
  <2>6. \A c \in Commands : control[k][i] = ControlEvent("cancel", c) => c = x
    BY DEF x, ControlEvent
  <2>7. \A c \in Commands : control[k][i] # ControlEvent("start", c)
    BY <2>1 DEF ControlEvent
  <2>8. QED  BY <2>3, <2>4, <2>5, <2>6, <2>7, DeliveryConsume
<1>3. QED  BY <1>1, <1>2

\* Resolving records makes them terminal and leaves the others alone.
LEMMA ResolvedStatus ==
  ASSUME TypeInv, NEW S \in SUBSET Commands, Resolved(S), NEW c \in Commands
  PROVE  \/ c \in S /\ status'[c] \in Terminal
         \/ c \notin S /\ status'[c] = status[c] /\ reason'[c] = reason[c]
<1>1. PICK st \in Terminal, why \in [S -> Reasons] : Resolve(S, st, why)  BY DEF Resolved
<1>2. QED  BY <1>1 DEF Resolve

\* A step that leaves the clients alone and resolves records is quiet.
LEMMA QuietRecords ==
  ASSUME TypeInv,
         UNCHANGED <<control, cursor, stream, conn, lastId, cancels, cancelSet, worker>>,
         \/ UNCHANGED <<status, cancelAsked>>
         \/ \E S \in SUBSET Commands :
              /\ Resolved(S)
              /\ \A c \in Commands : cancelAsked'[c] => cancelAsked[c] \/ c \in S
  PROVE  QuietStep
<1>1. CASE UNCHANGED <<status, cancelAsked>>
  BY <1>1 DEF QuietStep, TypeInv, HubTypes
<1>2. ASSUME NEW S \in SUBSET Commands, Resolved(S),
             \A c \in Commands : cancelAsked'[c] => cancelAsked[c] \/ c \in S
      PROVE  QuietStep
  <2>1. \A c \in Commands : \/ c \in S /\ status'[c] \in Terminal
                            \/ c \notin S /\ status'[c] = status[c]
    <3>1. TAKE c \in Commands
    <3>2. QED  BY <1>2, ResolvedStatus
  <2>2. QED  BY <1>2, <2>1 DEF QuietStep, Terminal, TypeInv, HubTypes
<1>3. QED  BY <1>1, <1>2

\* Handling a worker's request is a quiet step.
LEMMA QuietHandle == ASSUME TypeInv, WorkerInv, NEW m \in net, Handle(m) PROVE QuietStep
<1> DEFINE c == m.cmd
<1>0. c \in Commands /\ Target[c] \in Clients
      /\ \A x \in Commands : Target[x] \in Clients
  BY RequestTypes, TargetAssumption DEF TypeInv
<1>1. UNCHANGED <<control, cursor, stream, lastId, conn, cancelAsked>>
  BY DEF Handle, GrantClaim, RefuseClaim, HandleReport, HandleExit, hubVars, streamVars, loopVars
<1>2. \/ status' = status
      \/ status[c] = "queued" /\ status' = [status EXCEPT ![c] = "running"]
      \/ status[c] \in Open /\ status' = [status EXCEPT ![c] = m.body] /\ m.body \in Terminal
  <2>1. CASE HandleExit(m)
    <3>1. m.body \in Terminal  BY <2>1, RequestTypes DEF HandleExit, TypeInv
    <3>2. QED  BY <1>0, <2>1, <3>1 DEF HandleExit, ApplyExit, Resolve, TypeInv, HubTypes
  <2>2. QED
    BY <2>1 DEF Handle, GrantClaim, Claimable, RefuseClaim, HandleReport, hubVars
<1>3. \A x \in Commands :
        /\ status'[x] = "queued" => status[x] = "queued"
        /\ status'[x] = "none" => status[x] = "none"
        /\ status'[x] = "running" => status[x] \in {"queued", "running"}
  BY <1>0, <1>2 DEF Terminal, TypeInv, HubTypes
<1>4. ASSUME NEW x \in Commands
      PROVE  /\ x \in cancels[Target[x]] /\ status'[x] = "queued" => x \in cancels'[Target[x]]
             /\ worker'[x] \in {"leased", "executing"} =>
                  /\ worker[x] \in {"leased", "executing"} \/ status[x] = "queued"
                  /\ x \in cancelSet[Target[x]] => x \in cancelSet'[Target[x]]
  <2>1. CASE GrantClaim(m)
    BY <1>0, <2>1 DEF GrantClaim, Claimable, ThreadDies, TypeInv, WorkInv, WorkTypes
  <2>2. CASE RefuseClaim(m)
    BY <1>0, <2>2 DEF RefuseClaim, Claimable, Refused, ThreadEnds, ThreadDies, hubVars, TypeInv,
       WorkInv, WorkTypes, LoopTypes
  <2>3. CASE HandleReport(m)
    BY <1>0, <2>3 DEF HandleReport, StartExit, loopVars, TypeInv, WorkInv, WorkTypes
  <2>4. CASE HandleExit(m)
    <3>1. x = c => status'[x] # "queued"
      <4>1. m.body \in Terminal  BY <2>4, RequestTypes DEF HandleExit, TypeInv
      <4>2. QED  BY <1>0, <2>4, <4>1 DEF HandleExit, ApplyExit, Resolve, Open, Terminal
    <3>2. QED
      BY <1>0, <2>4, <3>1 DEF HandleExit, ThreadEnds, ExitRetried, TypeInv, WorkInv, WorkTypes, LoopTypes
  <2>5. QED  BY <2>1, <2>2, <2>3, <2>4 DEF Handle
<1>5. QED  BY <1>1, <1>3, <1>4 DEF QuietStep

\* A step of a worker thread is quiet.
LEMMA QuietWorker == ASSUME TypeInv, NEW c \in Commands, Worker(c) PROVE QuietStep
<1>1. UNCHANGED <<control, cursor, stream, lastId, conn, cancelAsked, status, cancels, cancelSet>>
  BY DEF Worker, ClaimFails, SetupFails, Spawn, Output, Finish, Terminate, ReportFails, PostExit,
     ExitFails, ExitRetried, StraySpawns, StrayEnds, OrphanEnds, ThreadDies, hubVars, streamVars, loopVars
<1>2. \A x \in Commands : worker'[x] \in {"leased", "executing"} => worker[x] \in {"leased", "executing"}
  BY DEF Worker, ClaimFails, SetupFails, Spawn, Output, Finish, Terminate, ReportFails, PostExit,
     ExitFails, ExitRetried, StraySpawns, StrayEnds, OrphanEnds, ThreadDies, StartExit, workVars, TypeInv, WorkInv, WorkTypes
<1>3. QED  BY <1>1, <1>2 DEF QuietStep, TypeInv, HubTypes

\* Every step keeps the delivery invariant.
LEMMA DeliveryNext == TypeInv /\ WorkerInv /\ OneReconcile /\ DeliveryInv /\ [Next]_vars => DeliveryInv'
<1> SUFFICES ASSUME TypeInv, WorkerInv, OneReconcile, DeliveryInv, [Next]_vars PROVE DeliveryInv'
  OBVIOUS
<1>1. ASSUME NEW c \in Commands, Initiator(c) PROVE DeliveryInv'
  <2>1. CASE Create(c)
    BY <2>1, DeliveryAppend DEF Create, streamVars, loopVars, workVars
  <2>2. CASE CancelRunning(c)
    BY <2>2, DeliveryAppend DEF CancelRunning, streamVars, loopVars, workVars
  <2>3. CASE CancelQueued(c)
    <3> DEFINE why == [x \in {c} |-> "canceled"]
    <3>1. Resolve({c}, "canceled", why) /\ UNCHANGED started /\ status[c] = "queued"
      BY <2>3 DEF CancelQueued
    <3>2. why \in [{c} -> Reasons] /\ "canceled" \in Terminal  BY DEF Reasons, Terminal
    <3> HIDE DEF why
    <3>3. Resolved({c})  BY <3>1, <3>2 DEF Resolved, Open
    <3>4. \A x \in Commands : cancelAsked'[x] => cancelAsked[x] \/ x \in {c}
      BY <2>3 DEF CancelQueued, TypeInv, HubTypes
    <3>5. UNCHANGED <<control, cursor, stream, conn, lastId, cancels, cancelSet, worker>>
      BY <2>3 DEF CancelQueued, streamVars, loopVars, workVars
    <3>6. QED  BY <3>3, <3>4, <3>5, QuietRecords, DeliveryQuiet
  <2>4. QED  BY <1>1, <2>1, <2>2, <2>3 DEF Initiator
<1>2. ASSUME NEW m \in recons, HandleReconcile(m) PROVE DeliveryInv'
  <2> DEFINE S == Unlisted(m)
             why == [c \in S |-> "client_restarted"]
  <2>1. Resolve(S, "failed", why) /\ UNCHANGED <<started, cancelAsked>>  BY <1>2 DEF HandleReconcile
  <2>2. S \in SUBSET Commands /\ \A c \in S : status[c] \in Open
    BY DEF Unlisted, Open
  <2>3. why \in [S -> Reasons] /\ "failed" \in Terminal  BY DEF Reasons, Terminal
  <2> HIDE DEF S, why
  <2>4. Resolved(S)  BY <2>1, <2>2, <2>3 DEF Resolved
  <2>5. \A c \in Commands : \/ c \in S /\ status'[c] \in Terminal
                            \/ c \notin S /\ status'[c] = status[c]
    <3>1. TAKE c \in Commands
    <3>2. QED  BY <2>2, <2>4, ResolvedStatus
  <2>6. UNCHANGED <<control, cursor, stream, lastId, cancels, cancelSet, worker, cancelAsked>>
    BY <1>2 DEF HandleReconcile, streamVars, workVars
  <2>7. \A k \in Clients : conn'[k] # "down" => conn[k] # "down"
    BY <1>2 DEF HandleReconcile, OneReconcile, TypeInv, LoopTypes
  <2>8. QuietStep
    BY <2>1, <2>5, <2>6, <2>7 DEF QuietStep, Terminal, TypeInv, HubTypes
  <2>9. QED  BY <2>8, DeliveryQuiet
<1>3. CASE Time
  BY <1>3, QuietRecords, DeliveryQuiet
    DEF Time, BecomeOverdue, BecomeStale, streamVars, loopVars, workVars
<1>4. CASE Reap
  <2> DEFINE S == {c \in Commands : Lost(c) \/ Unclaimed(c)}
             why == [c \in S |-> IF Lost(c) THEN "client_lost" ELSE "unclaimed"]
  <2>1. Resolve(S, "failed", why) /\ UNCHANGED <<started, cancelAsked>>  BY <1>4 DEF Reap
  <2>2. S \in SUBSET Commands /\ \A c \in S : status[c] \in Open
    BY DEF Lost, Unclaimed, Open
  <2>3. why \in [S -> Reasons] /\ "failed" \in Terminal  BY DEF Reasons, Terminal
  <2> HIDE DEF S, why
  <2>4. Resolved(S)  BY <2>1, <2>2, <2>3 DEF Resolved
  <2>5. UNCHANGED <<control, cursor, stream, conn, lastId, cancels, cancelSet, worker>>
    BY <1>4 DEF Reap, streamVars, loopVars, workVars
  <2>6. QED  BY <2>1, <2>2, <2>4, <2>5, QuietRecords, DeliveryQuiet
<1>5. ASSUME NEW k \in Clients, Poll(k) \/ Loop(k) PROVE DeliveryInv'
  <2>1. CASE Heartbeat(k) \/ Restart(k)
    BY <2>1, QuietRecords, DeliveryQuiet DEF Heartbeat, Restart, hubVars, streamVars, loopVars, workVars
  <2>2. CASE ReconcileFails(k)
    <3>1. PICK m \in recons : ReconcileFails(k)!(m)  BY <2>2 DEF ReconcileFails
    <3>2. UNCHANGED <<control, cursor, stream, lastId, cancels, cancelSet, worker, cancelAsked, status>>
      BY <3>1 DEF hubVars, streamVars, workVars
    <3>3. \A j \in Clients : conn'[j] # "down" => conn[j] # "down"
      BY <3>1 DEF OneReconcile, TypeInv, LoopTypes
    <3>4. QuietStep  BY <3>2, <3>3 DEF QuietStep, TypeInv, HubTypes
    <3>5. QED  BY <3>4, DeliveryQuiet
  <2>3. QED  BY <1>5, <2>1, <2>2, DeliveryPoll, DeliveryConnect, DeliveryDown, DeliveryDispatch DEF Loop
<1>6. CASE UNCHANGED vars
  BY <1>6, QuietRecords, DeliveryQuiet DEF vars, hubVars, streamVars, loopVars, workVars
<1>7. QED
  BY <1>1, <1>2, <1>3, <1>4, <1>5, <1>6, QuietHandle, QuietWorker, DeliveryQuiet DEF Next

\* The workers', the reconciles' and the delivery invariants hold always.
LEMMA DeliveryAlways == Spec => [](TypeInv /\ WorkerInv /\ OneReconcile /\ DeliveryInv)
<1>1. Init => WorkerInv /\ OneReconcile /\ DeliveryInv
  <2> SUFFICES ASSUME Init PROVE WorkerInv /\ OneReconcile /\ DeliveryInv
    OBVIOUS
  <2>1. WorkerInv /\ OneReconcile
    BY DEF Init, WorkerInv, OneRequest, Listed, OneReconcile
  <2>2. \A k \in Clients : Len(control[k]) = 0 /\ lastId[k] = 0 /\ cursor[k] = 0 /\ stream[k] = {}
    BY DEF Init
  <2>3. \A c \in Commands : Len(control[Target[c]]) = 0 /\ status[c] = "none" /\ ~cancelAsked[c]
    BY <2>2, TargetAssumption DEF Init
  <2>4. QED
    BY <2>1, <2>2, <2>3 DEF DeliveryInv, LogShape, CursorShape, Logged, StartsTaken, CancelsTaken
<1>2. TypeInv /\ WorkerInv /\ OneReconcile /\ DeliveryInv /\ [Next]_vars
        => (TypeInv /\ WorkerInv /\ OneReconcile /\ DeliveryInv)'
  BY TypeNext, WorkerNext, ReconcileNext, DeliveryNext DEF DeliveryInv
<1>3. QED  BY <1>1, <1>2, TypeInit, PTL DEF Spec

\* However the stream breaks, resumes and filters, and whatever crashes, the
\* start of a waiting command and the cancel of an executing one are never
\* skipped on their way to the client.
THEOREM NothingIsSkipped == Spec => []NothingSkipped
<1>1. TypeInv /\ DeliveryInv => NothingSkipped
  <2> SUFFICES ASSUME TypeInv, DeliveryInv PROVE NothingSkipped
    OBVIOUS
  <2>1. StartNotSkipped
    <3>1. SUFFICES ASSUME NEW c \in Commands, status[c] = "queued", conn[Target[c]] # "down"
                   PROVE  c \in cancels[Target[c]] \/ StillToCome(Target[c], ControlEvent("start", c))
      BY DEF StartNotSkipped
    <3>2. PICK i \in 1 .. Len(control[Target[c]]) : control[Target[c]][i] = ControlEvent("start", c)
      BY <3>1 DEF DeliveryInv, Logged, InLog
    <3>3. Target[c] \in Clients  BY TargetAssumption
    <3>4. Taken(Target[c], i, c \in cancels[Target[c]])  BY <3>1, <3>2, <3>3, EventTaken
    <3>5. i <= cursor[Target[c]] \/ i > cursor[Target[c]]  BY <3>3, LogTypes
    <3>6. QED  BY <3>1, <3>2, <3>4, <3>5 DEF Taken, StillToCome
  <2>2. CancelReachesWorker
    <3>1. SUFFICES ASSUME NEW c \in Commands, status[c] = "running", cancelAsked[c],
                          worker[c] \in {"leased", "executing"}, conn[Target[c]] # "down"
                   PROVE  c \in cancelSet[Target[c]] \/ StillToCome(Target[c], ControlEvent("cancel", c))
      BY DEF CancelReachesWorker
    <3>2. PICK i \in 1 .. Len(control[Target[c]]) : control[Target[c]][i] = ControlEvent("cancel", c)
      BY <3>1 DEF DeliveryInv, Logged, InLog
    <3>3. Target[c] \in Clients  BY TargetAssumption
    <3>4. Taken(Target[c], i, c \in cancelSet[Target[c]])  BY <3>1, <3>2, <3>3, EventTaken
    <3>5. i <= cursor[Target[c]] \/ i > cursor[Target[c]]  BY <3>3, LogTypes
    <3>6. QED  BY <3>1, <3>2, <3>4, <3>5 DEF Taken, StillToCome
  <2>3. QED  BY <2>1, <2>2 DEF NothingSkipped
<1>2. QED  BY <1>1, DeliveryAlways, PTL

-----------------------------------------------------------------------------
(* Reconciles that are on time.  If no request is handled after its sender *)
(* gave up, a reconcile the hub handles lists everything its client still  *)
(* works on: the client dispatches nothing until it is answered.           *)

NoLateRequests == "late_request" \notin Faults

OnTime == (\A m \in net : m.waiting) /\ (\A m \in recons : m.waiting)

ListCovers == \A m \in recons : cancels[m.client] \subseteq m.active

ReasonFinal == \A c \in Commands : reason[c] # "none" => status[c] \in Terminal

Busy == {"leased", "executing", "exiting"}

\* What a reconcile failed has no worker of the present service.
WorkersSpared == \A c \in Commands : reason[c] = "client_restarted" => worker[c] \notin Busy

OnTimeInv == OnTime /\ ListCovers /\ ReasonFinal /\ WorkersSpared

\* Every step leaves only requests whose sender waits.
LEMMA OnTimeNext == NoLateRequests /\ TypeInv /\ OnTime /\ [Next]_vars => OnTime'
<1> SUFFICES ASSUME NoLateRequests, TypeInv, OnTime, [Next]_vars PROVE OnTime'
  OBVIOUS
<1>0. ~Commit("late_request")  BY DEF Commit, NoLateRequests
<1>1. CASE net' \subseteq net /\ recons' \subseteq recons
  BY <1>1 DEF OnTime
<1>2. ASSUME NEW c \in Commands, Initiator(c) \/ Worker(c) PROVE OnTime'
  <2>1. recons' = recons
    BY <1>2 DEF Initiator, Create, CancelQueued, CancelRunning, Worker, ClaimFails, SetupFails, Spawn,
       Output, Finish, Terminate, ReportFails, PostExit, ExitFails, StraySpawns, StrayEnds, OrphanEnds
  <2>2. \A m \in net' : m \in net \/ m.waiting
    BY <1>0, <1>2 DEF Initiator, Create, CancelQueued, CancelRunning, Worker, ClaimFails, SetupFails, Spawn,
       Output, Finish, Terminate, ReportFails, PostExit, ExitFails, StraySpawns, StrayEnds, OrphanEnds, GiveUp,
       ReportReq, ExitReq, WorkReq
  <2>3. QED  BY <2>1, <2>2 DEF OnTime
<1>3. ASSUME NEW m \in net, Handle(m) PROVE OnTime'
  BY <1>1, <1>3 DEF Handle, GrantClaim, RefuseClaim, HandleReport, HandleExit
<1>4. ASSUME NEW m \in recons, HandleReconcile(m) PROVE OnTime'
  BY <1>1, <1>4 DEF HandleReconcile
<1>5. CASE Time \/ Reap \/ UNCHANGED vars
  BY <1>1, <1>5 DEF Time, BecomeOverdue, BecomeStale, Reap, vars
<1>6. ASSUME NEW k \in Clients, Poll(k) \/ Loop(k) PROVE OnTime'
  <2>1. CASE Crash(k) \/ Swap(k)
    <3>1. Forget(k)  BY <2>1, GoneDown
    <3>2. QED  BY <1>1, <3>1 DEF Forget, NoLateRequests
  <2>2. CASE ReconcileFails(k)
    BY <1>0, <1>1, <2>2 DEF ReconcileFails
  <2>3. CASE DispatchStart(k)
    BY <2>3 DEF DispatchStart, Consume, OnTime, ClaimReq, WorkReq
  <2>4. CASE Connect(k)
    BY <2>4 DEF Connect, OnTime, ReconcileReq
  <2>5. QED
    BY <1>1, <1>6, <2>1, <2>2, <2>3, <2>4 DEF Loop, Poll, StreamBreaks, Heartbeat, DispatchCancel, Consume, Restart
<1>7. QED  BY <1>2, <1>3, <1>4, <1>5, <1>6 DEF Next

\* Every step keeps the lists of the reconciles on their way complete.
LEMMA ListNext ==
  TypeInv /\ OneReconcile /\ OnTime /\ ListCovers /\ OnTime' /\ [Next]_vars => ListCovers'
<1> SUFFICES ASSUME TypeInv, OneReconcile, OnTime, ListCovers, OnTime', [Next]_vars PROVE ListCovers'
  OBVIOUS
<1>0. \A n \in recons : n.client \in Clients  BY DEF TypeInv, NetTypes, ReconcileRequests
<1>1. CASE recons' \subseteq recons /\ \A k \in Clients : cancels'[k] \subseteq cancels[k]
  BY <1>0, <1>1 DEF ListCovers
<1>2. ASSUME NEW c \in Commands, Initiator(c) \/ Worker(c) PROVE ListCovers'
  BY <1>1, <1>2 DEF Initiator, Create, CancelQueued, CancelRunning, Worker, ClaimFails, SetupFails, Spawn,
     Output, Finish, Terminate, ReportFails, PostExit, ExitFails, ExitRetried, ThreadDies, StraySpawns, StrayEnds, OrphanEnds, loopVars
<1>3. ASSUME NEW m \in net, Handle(m) PROVE ListCovers'
  <2>1. m.cmd \in Commands  BY RequestTypes DEF TypeInv
  <2>2. recons' = recons
    BY <1>3 DEF Handle, GrantClaim, RefuseClaim, HandleReport, HandleExit
  <2>3. \/ cancels' = cancels
        \/ cancels' = [cancels EXCEPT ![Target[m.cmd]] = @ \ {m.cmd}]
    BY <1>3 DEF Handle, GrantClaim, RefuseClaim, Refused, HandleReport, HandleExit, ThreadEnds, ThreadDies,
       ExitRetried, loopVars
  <2>4. QED  BY <1>1, <2>1, <2>2, <2>3 DEF TypeInv, LoopTypes
<1>4. ASSUME NEW m \in recons, HandleReconcile(m) PROVE ListCovers'
  BY <1>1, <1>4 DEF HandleReconcile
<1>5. CASE Time \/ Reap \/ UNCHANGED vars
  BY <1>1, <1>5 DEF Time, BecomeOverdue, BecomeStale, Reap, vars, loopVars
<1>6. ASSUME NEW k \in Clients, Poll(k) \/ Loop(k) PROVE ListCovers'
  <2>1. CASE Crash(k) \/ Swap(k)
    <3>1. \A n \in recons' : n.waiting => n \in recons  BY <2>1 DEF Crash, Swap, Forget, ReconcileReq
    <3>2. \A j \in Clients : cancels'[j] \subseteq cancels[j]
      BY <2>1 DEF Crash, Swap, Forget, TypeInv, LoopTypes
    <3>3. QED  BY <1>1, <3>1, <3>2 DEF OnTime
  <2>2. CASE ReconcileFails(k)
    <3>1. \A n \in recons' : n.waiting => n \in recons  BY <2>2 DEF ReconcileFails, ReconcileReq
    <3>2. QED  BY <1>1, <2>2, <3>1 DEF OnTime, ReconcileFails
  <2>3. CASE DispatchStart(k)
    <3>1. conn[k] = "reading" /\ recons' = recons  BY <2>3 DEF DispatchStart, Consume
    <3>2. \A j \in Clients : j # k => cancels'[j] = cancels[j]
      BY <2>3 DEF DispatchStart, TypeInv, LoopTypes
    <3>3. \A n \in recons : n.client # k  BY <3>1 DEF OnTime, OneReconcile
    <3>4. QED  BY <1>0, <3>1, <3>2, <3>3 DEF ListCovers
  <2>4. CASE Connect(k)
    <3>1. cancels' = cancels /\ recons' = recons \cup {ReconcileReq(k, cancels[k], TRUE)}
      BY <2>4 DEF Connect, ActiveCommands
    <3>2. QED  BY <3>1 DEF ListCovers, ReconcileReq
  <2>5. QED
    BY <1>1, <1>6, <2>1, <2>2, <2>3, <2>4
      DEF Loop, Poll, StreamBreaks, Heartbeat, DispatchCancel, Consume, Restart, loopVars
<1>7. QED  BY <1>2, <1>3, <1>4, <1>5, <1>6 DEF Next

\* A failure code belongs to a terminal record.
LEMMA ReasonNext == TypeInv /\ ReasonFinal /\ [Next]_vars => ReasonFinal'
<1> SUFFICES ASSUME TypeInv, ReasonFinal, [Next]_vars PROVE ReasonFinal'
  OBVIOUS
<1>1. RecordStep  BY RecordSteps
<1>2. ASSUME NEW S \in SUBSET Commands, Resolved(S) PROVE ReasonFinal'
  <2>1. SUFFICES ASSUME NEW c \in Commands, reason'[c] # "none" PROVE status'[c] \in Terminal
    BY DEF ReasonFinal
  <2>2. QED  BY <1>2, <2>1, ResolvedStatus DEF ReasonFinal
<1>3. ASSUME NEW x \in Commands, Created(x) \/ Claimed(x) \/ Reported(x) PROVE ReasonFinal'
  BY <1>3 DEF Created, Claimed, Reported, ReasonFinal, Terminal, TypeInv, HubTypes
<1>4. QED  BY <1>1, <1>2, <1>3 DEF RecordStep, ReasonFinal

\* A worker gets to work only by a claim of a queued command.
LEMMA BusyStep ==
  ASSUME TypeInv, WorkerInv, [Next]_vars, NEW c \in Commands, worker'[c] \in Busy
  PROVE  worker[c] \in Busy \/ status[c] = "queued"
<1>0. worker \in [Commands -> {"idle", "claiming", "leased", "executing", "exiting"}]
  BY DEF TypeInv, WorkInv, WorkTypes
<1>1. ASSUME NEW x \in Commands, Initiator(x) PROVE worker' = worker
  BY <1>1 DEF Initiator, Create, CancelQueued, CancelRunning, workVars
<1>2. ASSUME NEW x \in Commands, Worker(x) PROVE worker[c] \in Busy
  <2>1. CASE ReportFails(x)
    <3>1. worker[x] = "executing"
      BY <2>1 DEF ReportFails, Pending, WorkerInv, OneRequest, Stage
    <3>2. QED  BY <1>0, <2>1, <3>1 DEF ReportFails, StartExit, Busy
  <2>2. QED
    BY <1>0, <1>2, <2>1 DEF Worker, ClaimFails, SetupFails, Spawn, Output, Finish, Terminate, PostExit,
       ExitFails, ExitRetried, StraySpawns, StrayEnds, OrphanEnds, ThreadDies, StartExit, workVars, Busy
<1>3. ASSUME NEW m \in net, Handle(m) PROVE worker[c] \in Busy \/ status[c] = "queued"
  <2>0. m.cmd \in Commands  BY RequestTypes DEF TypeInv
  <2>1. CASE HandleReport(m)
    <3>1. m.waiting => worker[m.cmd] = "executing"
      BY <2>1 DEF HandleReport, WorkerInv, OneRequest, Stage
    <3>2. QED  BY <1>0, <2>0, <2>1, <3>1 DEF HandleReport, StartExit, Busy
  <2>2. QED
    BY <1>0, <1>3, <2>0, <2>1 DEF Handle, GrantClaim, Claimable, RefuseClaim, Refused, HandleExit, ThreadEnds,
       ThreadDies, ExitRetried, Busy
<1>4. ASSUME NEW m \in recons, HandleReconcile(m) PROVE worker' = worker
  BY <1>4 DEF HandleReconcile, workVars
<1>5. CASE Time \/ Reap \/ UNCHANGED vars
  BY <1>5 DEF Time, BecomeOverdue, BecomeStale, Reap, vars, workVars
<1>6. ASSUME NEW k \in Clients, Poll(k) \/ Loop(k) PROVE worker[c] \in Busy
  <2>1. CASE DispatchStart(k)
    <3>1. PICK i \in stream[k] : DispatchStart(k)!(i)  BY <2>1 DEF DispatchStart
    <3>2. worker'[c] \in {worker[c], "claiming"}  BY <1>0, <3>1
    <3>3. QED  BY <1>0, <3>2 DEF Busy
  <2>2. CASE Crash(k) \/ Swap(k)  BY <1>0, <2>2 DEF Crash, Swap, Forget, Busy
  <2>3. CASE \/ Poll(k) \/ Connect(k) \/ ReconcileFails(k) \/ StreamBreaks(k) \/ Heartbeat(k)
             \/ Restart(k) \/ DispatchCancel(k)
    BY <1>0, <2>3 DEF Poll, Connect, ReconcileFails, StreamBreaks, Heartbeat, Restart, DispatchCancel,
       workVars, Busy
  <2>4. QED  BY <1>6, <2>1, <2>2, <2>3 DEF Loop
<1>7. QED  BY <1>1, <1>2, <1>3, <1>4, <1>5, <1>6 DEF Next

\* Only a reconcile fails a command as client_restarted.
LEMMA RestartedStep ==
  ASSUME TypeInv, [Next]_vars, NEW c \in Commands, reason'[c] = "client_restarted"
  PROVE  \/ reason[c] = "client_restarted"
         \/ \E m \in recons : HandleReconcile(m) /\ c \in Unlisted(m)
<1>1. ASSUME NEW x \in Commands, Initiator(x) PROVE reason[c] = "client_restarted"
  BY <1>1 DEF Initiator, Create, CancelQueued, CancelRunning, Resolve
<1>2. ASSUME NEW x \in Commands, Worker(x) PROVE reason' = reason
  BY <1>2 DEF Worker, ClaimFails, SetupFails, Spawn, Output, Finish, Terminate, ReportFails, PostExit,
     ExitFails, StraySpawns, StrayEnds, OrphanEnds, hubVars
<1>3. ASSUME NEW m \in net, Handle(m) PROVE reason[c] = "client_restarted"
  BY <1>3 DEF Handle, GrantClaim, RefuseClaim, HandleReport, HandleExit, ApplyExit, Resolve, hubVars
<1>4. ASSUME NEW m \in recons, HandleReconcile(m), c \notin Unlisted(m) PROVE reason[c] = "client_restarted"
  BY <1>4 DEF HandleReconcile, Resolve
<1>5. CASE Reap
  <2>1. c \in {x \in Commands : Lost(x) \/ Unclaimed(x)} =>
          reason'[c] \in {"client_lost", "unclaimed"}
    BY <1>5 DEF Reap, Resolve
  <2>2. c \notin {x \in Commands : Lost(x) \/ Unclaimed(x)} => reason'[c] = reason[c]
    BY <1>5 DEF Reap, Resolve
  <2>3. QED  BY <2>1, <2>2
<1>6. CASE Time \/ UNCHANGED vars
  BY <1>6 DEF Time, BecomeOverdue, BecomeStale, vars, hubVars
<1>7. ASSUME NEW k \in Clients, Poll(k) \/ Loop(k) PROVE reason' = reason
  BY <1>7 DEF Loop, Poll, Connect, ReconcileFails, StreamBreaks, Heartbeat, DispatchStart,
     DispatchCancel, Consume, Crash, Swap, Restart, hubVars
<1>8. QED  BY <1>1, <1>2, <1>3, <1>4, <1>5, <1>6, <1>7 DEF Next

\* A reconcile on time fails nothing its client works on.
LEMMA SparesNext ==
  TypeInv /\ WorkerInv /\ OnTimeInv /\ [Next]_vars => WorkersSpared'
<1> SUFFICES ASSUME TypeInv, WorkerInv, OnTimeInv, [Next]_vars,
                    NEW c \in Commands, reason'[c] = "client_restarted", worker'[c] \in Busy
             PROVE  FALSE
  BY DEF WorkersSpared
<1>1. worker[c] \in Busy \/ status[c] = "queued"  BY BusyStep
<1>2. CASE reason[c] = "client_restarted"
  <2>1. status[c] \in Terminal  BY <1>2 DEF OnTimeInv, ReasonFinal
  <2>2. worker[c] \notin Busy  BY <1>2 DEF OnTimeInv, WorkersSpared
  <2>3. QED  BY <1>1, <2>1, <2>2 DEF Terminal
<1>3. ASSUME NEW m \in recons, HandleReconcile(m), c \in Unlisted(m) PROVE FALSE
  <2>1. Target[c] = m.client /\ c \notin m.active  BY <1>3 DEF Unlisted
  <2>2. worker[c] = "idle"  BY <2>1 DEF OnTimeInv, ListCovers, WorkerInv, Listed
  <2>3. worker' = worker  BY <1>3 DEF HandleReconcile, workVars
  <2>4. QED  BY <2>2, <2>3 DEF Busy
<1>4. QED  BY <1>2, <1>3, RestartedStep

\* The invariants of reconciles that are on time.
LEMMA OnTimeAlways ==
  ASSUME NoLateRequests
  PROVE  Spec => [](TypeInv /\ WorkerInv /\ OneReconcile /\ OnTimeInv)
<1>1. Init => OnTimeInv
  BY DEF Init, OnTimeInv, OnTime, ListCovers, ReasonFinal, WorkersSpared
<1>2. TypeInv /\ WorkerInv /\ OneReconcile /\ OnTimeInv /\ [Next]_vars => OnTimeInv'
  BY OnTimeNext, ListNext, ReasonNext, SparesNext DEF OnTimeInv
<1>3. QED  BY <1>1, <1>2, DeliveryAlways, PTL DEF Spec

\* When no request is handled after its sender gave up, the reconcile of a
\* client fails no command that a thread of the client has the lease of, for
\* every crash, break, lost request and lost answer - save the commands of the
\* threads that a swap of the credentials left behind.
THEOREM ReconcileSpares ==
  ASSUME NoLateRequests
  PROVE  Spec => []ReconcileSparesWork
<1>1. OnTimeInv => ReconcileSparesWork
  BY DEF OnTimeInv, WorkersSpared, ReconcileSparesWork, Working, Busy
<1>2. QED  BY <1>1, OnTimeAlways, PTL

-----------------------------------------------------------------------------
(* Exits that come last.  If moreover no live client's heartbeats fail,    *)
(* a record whose worker may still report is running, and stays so until   *)
(* its own exit.                                                           *)

NoOutages == "outage" \notin Faults

\* A client that is connected or works runs, and its row is fresh.
Fresh ==
    /\ \A k \in Clients : conn[k] # "down" => up[k] /\ lastSeen[k] = "fresh"
    /\ \A c \in Commands : worker[c] # "idle" => up[Target[c]] /\ lastSeen[Target[c]] = "fresh"

WorksOnRunning == \A c \in Commands : worker[c] \in {"leased", "executing"} => status[c] = "running"

\* A worker thread starts only when its client dispatches a start.
LEMMA WakeStep ==
  ASSUME TypeInv, WorkerInv, LogShape, [Next]_vars, NEW c \in Commands,
         worker'[c] # "idle", worker[c] = "idle"
  PROVE  \E k \in Clients : DispatchStart(k) /\ Target[c] = k
<1>0. worker \in [Commands -> {"idle", "claiming", "leased", "executing", "exiting"}]
  BY DEF TypeInv, WorkInv, WorkTypes
<1>1. ASSUME NEW x \in Commands, Initiator(x) PROVE FALSE
  BY <1>1 DEF Initiator, Create, CancelQueued, CancelRunning, workVars
<1>2. ASSUME NEW x \in Commands, Worker(x) PROVE FALSE
  <2>1. CASE ReportFails(x)
    <3>1. worker[x] = "executing"
      BY <2>1 DEF ReportFails, Pending, WorkerInv, OneRequest, Stage
    <3>2. QED  BY <1>0, <2>1, <3>1 DEF ReportFails, StartExit
  <2>2. QED
    BY <1>0, <1>2, <2>1 DEF Worker, ClaimFails, SetupFails, Spawn, Output, Finish, Terminate, PostExit,
       ExitFails, ExitRetried, StraySpawns, StrayEnds, OrphanEnds, ThreadDies, StartExit, workVars
<1>3. ASSUME NEW m \in net, Handle(m) PROVE FALSE
  <2>0. m.cmd \in Commands  BY RequestTypes DEF TypeInv
  <2>1. m.waiting => worker[m.cmd] = Stage(m.type)  BY DEF WorkerInv, OneRequest
  <2>2. QED
    BY <1>0, <1>3, <2>0, <2>1 DEF Handle, GrantClaim, RefuseClaim, Refused, HandleReport, HandleExit, ThreadEnds,
       ThreadDies, ExitRetried, StartExit, Stage
<1>4. ASSUME NEW m \in recons, HandleReconcile(m) PROVE FALSE
  BY <1>4 DEF HandleReconcile, workVars
<1>5. CASE Time \/ Reap \/ UNCHANGED vars
  BY <1>5 DEF Time, BecomeOverdue, BecomeStale, Reap, vars, workVars
<1>6. ASSUME NEW k \in Clients, Poll(k) \/ Loop(k), ~DispatchStart(k) PROVE FALSE
  <2>1. CASE Crash(k) \/ Swap(k)  BY <1>0, <2>1 DEF Crash, Swap, Forget
  <2>2. CASE \/ Poll(k) \/ Connect(k) \/ ReconcileFails(k) \/ StreamBreaks(k) \/ Heartbeat(k)
             \/ Restart(k) \/ DispatchCancel(k)
    BY <1>0, <2>2 DEF Poll, Connect, ReconcileFails, StreamBreaks, Heartbeat, Restart, DispatchCancel,
       workVars
  <2>3. QED  BY <1>6, <2>1, <2>2 DEF Loop
<1>7. ASSUME NEW k \in Clients, DispatchStart(k) PROVE Target[c] = k
  <2>1. PICK i \in stream[k] : DispatchStart(k)!(i)  BY <1>7 DEF DispatchStart
  <2>2. i \in 1 .. Len(control[k])  BY LogTypes
  <2>3. Target[control[k][i].cmd] = k  BY <2>2 DEF LogShape
  <2>4. control[k][i].cmd = c  BY <1>0, <2>1
  <2>5. QED  BY <2>3, <2>4
<1>8. QED  BY <1>1, <1>2, <1>3, <1>4, <1>5, <1>6, <1>7 DEF Next

\* Every step keeps the clients that work fresh.
LEMMA FreshNext == NoOutages /\ TypeInv /\ WorkerInv /\ OneReconcile /\ LogShape /\ Fresh /\ [Next]_vars => Fresh'
<1> SUFFICES ASSUME NoOutages, TypeInv, WorkerInv, OneReconcile, LogShape, Fresh, [Next]_vars PROVE Fresh'
  OBVIOUS
<1>0. /\ \A c \in Commands : Target[c] \in Clients
      /\ lastSeen \in [Clients -> {"none", "fresh", "stale"}] /\ up \in [Clients -> BOOLEAN]
  BY TargetAssumption DEF TypeInv, HubTypes, LoopTypes
<1>1. ASSUME NEW c \in Commands, worker'[c] # "idle"
      PROVE  up[Target[c]] /\ lastSeen[Target[c]] = "fresh"
  <2>1. ASSUME NEW k \in Clients, DispatchStart(k) PROVE conn[k] = "reading"
    BY <2>1 DEF DispatchStart, Consume
  <2>2. QED  BY <1>1, <2>1, WakeStep DEF Fresh
<1>2. CASE \A k \in Clients :
             /\ up[k] /\ lastSeen[k] = "fresh" => up'[k] /\ lastSeen'[k] = "fresh"
             /\ conn'[k] # "down" => conn[k] # "down"
  BY <1>0, <1>1, <1>2 DEF Fresh
<1>3. ASSUME NEW c \in Commands, Initiator(c) \/ Worker(c) PROVE UNCHANGED <<conn, up, lastSeen>>
  BY <1>3 DEF Initiator, Create, CancelQueued, CancelRunning, Worker, ClaimFails, SetupFails, Spawn,
     Output, Finish, Terminate, ReportFails, PostExit, ExitFails, StraySpawns, StrayEnds, OrphanEnds, hubVars, loopVars
<1>4. ASSUME NEW m \in net, Handle(m) PROVE Fresh'
  <2>1. m.cmd \in Commands  BY RequestTypes DEF TypeInv
  <2>2. UNCHANGED <<conn, up>> /\ (lastSeen' = lastSeen \/ Seen(Target[m.cmd]))
    BY <1>4 DEF Handle, GrantClaim, RefuseClaim, HandleReport, HandleExit, hubVars, loopVars
  <2>3. QED  BY <1>0, <1>2, <2>1, <2>2 DEF Seen
<1>5. ASSUME NEW m \in recons, HandleReconcile(m) PROVE Fresh'
  <2>1. m.client \in Clients  BY DEF TypeInv, NetTypes, ReconcileRequests
  <2>2. up' = up /\ Seen(m.client)  BY <1>5 DEF HandleReconcile
  <2>3. \A k \in Clients : conn'[k] # "down" => conn[k] # "down"
    BY <1>5 DEF HandleReconcile, OneReconcile, TypeInv, LoopTypes
  <2>4. QED  BY <1>0, <1>2, <2>1, <2>2, <2>3 DEF Seen
<1>6. CASE Time
  <2>1. ASSUME NEW k \in Clients, BecomeStale(k) PROVE Fresh'
    <3>1. ~up[k]  BY <2>1 DEF BecomeStale, Commit, NoOutages
    <3>2. UNCHANGED <<conn, up>> /\ lastSeen' = [lastSeen EXCEPT ![k] = "stale"]
      BY <2>1 DEF BecomeStale, loopVars
    <3>3. QED  BY <1>0, <1>2, <3>1, <3>2
  <2>2. ASSUME NEW c \in Commands, BecomeOverdue(c) PROVE Fresh'
    BY <1>2, <2>2 DEF BecomeOverdue, loopVars
  <2>3. QED  BY <1>6, <2>1, <2>2 DEF Time
<1>7. CASE Reap \/ UNCHANGED vars
  BY <1>2, <1>7 DEF Reap, vars, hubVars, loopVars
<1>8. ASSUME NEW k \in Clients, Poll(k) \/ Loop(k) PROVE Fresh'
  <2>0. conn \in [Clients -> {"down", "reconciling", "reading"}]  BY DEF TypeInv, LoopTypes
  <2>1. CASE Connect(k)
    <3>1. /\ up[k] /\ up' = up /\ conn' = [conn EXCEPT ![k] = "reconciling"]
          /\ lastSeen' = [lastSeen EXCEPT ![k] = "fresh"]
      BY <2>1 DEF Connect, Seen
    <3>2. QED  BY <1>0, <1>1, <2>0, <3>1 DEF Fresh
  <2>2. CASE Crash(k) \/ Swap(k)
    <3>0. /\ Forget(k) /\ lastSeen' = lastSeen /\ conn'[k] = "down"
          /\ \A j \in Clients \ {k} : conn'[j] = conn[j] /\ up'[j] = up[j]
      BY <2>2, GoneDown
    <3>1. /\ \A j \in Clients : j # k => up'[j] = up[j] /\ conn'[j] = conn[j]
          /\ conn'[k] = "down" /\ lastSeen' = lastSeen
          /\ \A c \in Commands : Target[c] = k => worker'[c] = "idle"
      BY <3>0 DEF Forget
    <3>2. QED  BY <1>0, <1>1, <2>0, <3>1 DEF Fresh
  <2>3. CASE Heartbeat(k)
    BY <1>0, <1>2, <2>3 DEF Heartbeat, Seen, loopVars
  <2>4. CASE Restart(k)
    BY <1>0, <1>2, <2>4 DEF Restart, hubVars
  <2>5. CASE ReconcileFails(k)
    <3>1. PICK m \in recons : ReconcileFails(k)!(m)  BY <2>5 DEF ReconcileFails
    <3>2. \A j \in Clients : conn'[j] # "down" => conn[j] # "down"
      BY <2>0, <3>1 DEF OneReconcile
    <3>3. QED  BY <1>2, <3>1, <3>2 DEF hubVars
  <2>6. CASE StreamBreaks(k)
    BY <1>2, <2>0, <2>6 DEF StreamBreaks, hubVars
  <2>7. CASE Poll(k) \/ DispatchStart(k) \/ DispatchCancel(k)
    BY <1>2, <2>7 DEF Poll, DispatchStart, DispatchCancel, Consume, hubVars, loopVars
  <2>8. QED  BY <1>8, <2>1, <2>2, <2>3, <2>4, <2>5, <2>6, <2>7 DEF Loop
<1>9. QED  BY <1>2, <1>3, <1>4, <1>5, <1>6, <1>7, <1>8 DEF Next

\* A running record of a working client is resolved by its own exit only.
LEMMA RunningStep ==
  ASSUME TypeInv, WorkerInv, OneReconcile, OnTimeInv, Fresh, [Next]_vars,
         NEW c \in Commands, worker[c] \in {"leased", "executing"}, status[c] = "running"
  PROVE  status'[c] = "running"
<1>0. worker[c] # "idle" /\ lastSeen[Target[c]] = "fresh"  BY DEF Fresh
<1>1. ASSUME NEW x \in Commands, Initiator(x) \/ Worker(x) PROVE status'[c] = "running"
  BY <1>1 DEF Initiator, Create, CancelQueued, CancelRunning, Resolve, Worker, ClaimFails, SetupFails, Spawn,
     Output, Finish, Terminate, ReportFails, PostExit, ExitFails, StraySpawns, StrayEnds, OrphanEnds, hubVars, TypeInv, HubTypes
<1>2. ASSUME NEW m \in net, Handle(m) PROVE status'[c] = "running"
  <2>1. CASE HandleExit(m)
    <3>1. m.waiting  BY DEF OnTimeInv, OnTime
    <3>2. worker[m.cmd] = "exiting"  BY <2>1, <3>1 DEF HandleExit, WorkerInv, OneRequest, Stage
    <3>3. QED  BY <2>1, <3>2 DEF HandleExit, ApplyExit, Resolve
  <2>2. QED
    BY <1>2, <2>1 DEF Handle, GrantClaim, RefuseClaim, HandleReport, hubVars, TypeInv, HubTypes
<1>3. ASSUME NEW m \in recons, HandleReconcile(m) PROVE status'[c] = "running"
  <2>1. c \notin Unlisted(m)  BY <1>0 DEF Unlisted, OnTimeInv, ListCovers, WorkerInv, Listed
  <2>2. QED  BY <1>3, <2>1 DEF HandleReconcile, Resolve
<1>4. CASE Reap
  <2>1. ~Lost(c) /\ ~Unclaimed(c)  BY <1>0 DEF Lost, Unclaimed
  <2>2. QED  BY <1>4, <2>1 DEF Reap, Resolve
<1>5. CASE Time \/ UNCHANGED vars
  BY <1>5 DEF Time, BecomeOverdue, BecomeStale, vars, hubVars
<1>6. ASSUME NEW k \in Clients, Poll(k) \/ Loop(k) PROVE status'[c] = "running"
  BY <1>6 DEF Loop, Poll, Connect, ReconcileFails, StreamBreaks, Heartbeat, DispatchStart,
     DispatchCancel, Consume, Crash, Swap, Restart, hubVars
<1>7. QED  BY <1>1, <1>2, <1>3, <1>4, <1>5, <1>6 DEF Next

\* Every step keeps the records of working workers running.
LEMMA RunningNext ==
  TypeInv /\ WorkerInv /\ OneReconcile /\ OnTimeInv /\ Fresh /\ WorksOnRunning /\ [Next]_vars
    => WorksOnRunning'
<1> SUFFICES ASSUME TypeInv, WorkerInv, OneReconcile, OnTimeInv, Fresh, WorksOnRunning, [Next]_vars,
                    NEW c \in Commands, worker'[c] \in {"leased", "executing"}
             PROVE  status'[c] = "running"
  BY DEF WorksOnRunning
<1>0. worker \in [Commands -> {"idle", "claiming", "leased", "executing", "exiting"}]
  BY DEF TypeInv, WorkInv, WorkTypes
<1>1. CASE worker[c] \in {"leased", "executing"}
  BY <1>1, RunningStep DEF WorksOnRunning
<1>2. ASSUME NEW m \in net, Handle(m), worker[c] \notin {"leased", "executing"}
      PROVE  status'[c] = "running"
  <2>1. m.cmd \in Commands  BY RequestTypes DEF TypeInv
  <2>2. CASE GrantClaim(m)
    BY <1>0, <1>2, <2>1, <2>2 DEF GrantClaim, ThreadDies, TypeInv, HubTypes
  <2>3. QED
    BY <1>0, <1>2, <2>1, <2>2 DEF Handle, RefuseClaim, Refused, HandleReport, HandleExit, ThreadEnds,
       ThreadDies, ExitRetried, StartExit
<1>3. ASSUME NEW x \in Commands, Initiator(x) \/ Worker(x) PROVE worker[c] \in {"leased", "executing"}
  BY <1>0, <1>3 DEF Initiator, Create, CancelQueued, CancelRunning, Worker, ClaimFails, SetupFails, Spawn,
     Output, Finish, Terminate, ReportFails, PostExit, ExitFails, ExitRetried, StraySpawns, StrayEnds, OrphanEnds, ThreadDies,
     StartExit, workVars
<1>4. ASSUME NEW m \in recons, HandleReconcile(m) PROVE worker' = worker
  BY <1>4 DEF HandleReconcile, workVars
<1>5. CASE Time \/ Reap \/ UNCHANGED vars
  BY <1>1, <1>5 DEF Time, BecomeOverdue, BecomeStale, Reap, vars, workVars
<1>6. ASSUME NEW k \in Clients, Poll(k) \/ Loop(k) PROVE worker[c] \in {"leased", "executing"}
  BY <1>0, <1>6 DEF Loop, Poll, Connect, ReconcileFails, StreamBreaks, Heartbeat, DispatchStart,
     DispatchCancel, Crash, Swap, Forget, Restart, workVars
<1>7. QED  BY <1>1, <1>2, <1>3, <1>4, <1>5, <1>6 DEF Next

\* Nothing is appended to the events of a resolved command.
LEMMA TerminalEvents ==
  ASSUME TypeInv, WorkerInv, OnTimeInv, WorksOnRunning, [Next]_vars,
         NEW c \in Commands, status[c] \in Terminal
  PROVE  events'[c] = events[c]
<1>0. events \in [Commands -> Seq({"started", "output", "exit"})]
      /\ status[c] \notin {"none", "queued", "running"}
  BY DEF TypeInv, HubTypes, Terminal
<1>1. ASSUME NEW x \in Commands, Initiator(x) \/ Worker(x) PROVE events'[c] = events[c]
  BY <1>0, <1>1 DEF Initiator, Create, CancelQueued, CancelRunning, Resolve, Worker, ClaimFails, SetupFails,
     Spawn, Output, Finish, Terminate, ReportFails, PostExit, ExitFails, StraySpawns, StrayEnds, OrphanEnds, hubVars
<1>2. ASSUME NEW m \in net, Handle(m) PROVE events'[c] = events[c]
  <2>1. CASE HandleReport(m)
    <3>1. m.waiting  BY DEF OnTimeInv, OnTime
    <3>2. worker[m.cmd] = "executing"  BY <2>1, <3>1 DEF HandleReport, WorkerInv, OneRequest, Stage
    <3>3. m.cmd \in Commands  BY RequestTypes DEF TypeInv
    <3>4. m.cmd # c  BY <1>0, <3>2, <3>3 DEF WorksOnRunning
    <3>5. QED  BY <1>0, <2>1, <3>4 DEF HandleReport
  <2>2. QED
    BY <1>0, <1>2, <2>1 DEF Handle, GrantClaim, RefuseClaim, HandleExit, ApplyExit, Resolve, Open, hubVars
<1>3. ASSUME NEW m \in recons, HandleReconcile(m) PROVE events'[c] = events[c]
  <2>1. c \notin Unlisted(m)  BY <1>0 DEF Unlisted
  <2>2. QED  BY <1>3, <2>1 DEF HandleReconcile, Resolve
<1>4. CASE Reap
  <2>1. ~Lost(c) /\ ~Unclaimed(c)  BY <1>0 DEF Lost, Unclaimed
  <2>2. QED  BY <1>4, <2>1 DEF Reap, Resolve
<1>5. CASE Time \/ UNCHANGED vars
  BY <1>5 DEF Time, BecomeOverdue, BecomeStale, vars, hubVars
<1>6. ASSUME NEW k \in Clients, Poll(k) \/ Loop(k) PROVE events'[c] = events[c]
  BY <1>6 DEF Loop, Poll, Connect, ReconcileFails, StreamBreaks, Heartbeat, DispatchStart,
     DispatchCancel, Consume, Crash, Swap, Restart, hubVars
<1>7. QED  BY <1>1, <1>2, <1>3, <1>4, <1>5, <1>6 DEF Next

\* Every step keeps the exit the last event.
LEMMA LastNext ==
  TypeInv /\ ExitOnce /\ WorkerInv /\ OnTimeInv /\ WorksOnRunning /\ ExitIsLast /\ [Next]_vars => ExitIsLast'
<1> SUFFICES ASSUME TypeInv, ExitOnce, WorkerInv, OnTimeInv, WorksOnRunning, ExitIsLast, [Next]_vars,
                    NEW c \in Commands, NEW i \in ExitsAt(c)'
             PROVE  i = Len(events'[c])
  BY DEF ExitIsLast
<1>1. CASE status[c] \in Terminal
  <2>1. events'[c] = events[c]  BY <1>1, TerminalEvents
  <2>2. i \in ExitsAt(c)  BY <2>1 DEF ExitsAt
  <2>3. QED  BY <2>1, <2>2 DEF ExitIsLast
<1>2. CASE status[c] \notin Terminal
  <2>1. ExitsAt(c) = {}  BY <1>2 DEF ExitOnce
  <2>2. RecordStep  BY RecordSteps
  <2>3. CASE UNCHANGED <<status, reason, started, events>>
    BY <2>1, <2>3 DEF ExitsAt
  <2>4. ASSUME NEW x \in Commands, Created(x) \/ Claimed(x) \/ Reported(x) PROVE FALSE
    BY <2>1, <2>4, ExitsStep
  <2>5. ASSUME NEW S \in SUBSET Commands, Resolved(S) PROVE i = Len(events'[c])
    <3>1. c \in S /\ i = Len(events[c]) + 1  BY <2>1, <2>5, ExitsStep
    <3>2. events'[c] = Append(events[c], "exit")  BY <2>5, <3>1 DEF Resolved, Resolve
    <3>3. events[c] \in Seq({"started", "output", "exit"})  BY DEF TypeInv, HubTypes
    <3>4. Len(Append(events[c], "exit")) = Len(events[c]) + 1  BY <3>3
    <3>5. QED  BY <3>1, <3>2, <3>4
  <2>6. QED  BY <2>2, <2>3, <2>4, <2>5 DEF RecordStep
<1>3. QED  BY <1>1, <1>2

\* When no request is handled late and no live client's heartbeats fail, the
\* exit of a command is its last event: an initiator's stream, which ends
\* with it, has shown all of the output.
THEOREM ExitLast ==
  ASSUME NoLateRequests, NoOutages
  PROVE  Spec => []ExitIsLast
<1> DEFINE Calm == TypeInv /\ WorkerInv /\ OneReconcile /\ OnTimeInv /\ LogShape /\ ExitOnce
<1>1. Spec => []Calm
  <2>1. DeliveryInv => LogShape  BY DEF DeliveryInv
  <2>2. QED  BY <2>1, OnTimeAlways, DeliveryAlways, ExitOnceAlways, PTL
<1>2. Init => Fresh /\ WorksOnRunning /\ ExitIsLast
  BY DEF Init, Fresh, WorksOnRunning, ExitIsLast, ExitsAt
<1>3. Calm /\ Fresh /\ WorksOnRunning /\ ExitIsLast /\ [Next]_vars
        => Fresh' /\ WorksOnRunning' /\ ExitIsLast'
  BY FreshNext, RunningNext, LastNext
<1> HIDE DEF Calm
<1>4. QED  BY <1>1, <1>2, <1>3, PTL DEF Spec
-----------------------------------------------------------------------------
(* Records that are held.  Only three faults orphan a running record: a    *)
(* request handled late, a lost answer to a claim, a lost reconcile.       *)

NoLostLeases     == "lost_lease" \notin Faults
NoLostReconciles == "lost_reconcile" \notin Faults

\* A disconnected client will not list c; a reconcile on its way does not.
Unheld(c) ==
    LET k == Target[c] IN
    \/ conn[k] = "down" /\ c \notin cancels[k]
    \/ \E m \in recons : m.client = k /\ m.waiting /\ c \notin m.active

\* A claim that starts a record is answered, and the worker goes to work.
LEMMA GrantedStep ==
  ASSUME NoLostLeases, TypeInv, OnTime, [Next]_vars,
         NEW c \in Commands, status[c] # "running", status'[c] = "running"
  PROVE  worker'[c] \in Busy
<1>0. /\ worker \in [Commands -> {"idle", "claiming", "leased", "executing", "exiting"}]
      /\ status \in [Commands -> {"none"} \cup Open \cup Terminal]
  BY DEF TypeInv, WorkInv, WorkTypes, HubTypes
<1>1. ASSUME NEW x \in Commands, Initiator(x) \/ Worker(x) PROVE FALSE
  BY <1>0, <1>1 DEF Initiator, Create, CancelQueued, CancelRunning, Resolve, Worker, ClaimFails, SetupFails,
     Spawn, Output, Finish, Terminate, ReportFails, PostExit, ExitFails, StraySpawns, StrayEnds, OrphanEnds, hubVars
<1>2. ASSUME NEW m \in net, Handle(m) PROVE worker'[c] \in Busy
  <2>1. m.waiting /\ m.cmd \in Commands  BY RequestTypes DEF OnTime, TypeInv
  <2>2. CASE GrantClaim(m)
    <3>1. m.cmd = c  BY <1>0, <2>1, <2>2 DEF GrantClaim
    <3>2. worker' = [worker EXCEPT ![c] = "leased"]
      BY <2>1, <2>2, <3>1 DEF GrantClaim, Commit, NoLostLeases
    <3>3. QED  BY <1>0, <3>2 DEF Busy
  <2>3. CASE HandleExit(m)
    <3>1. m.body \in Terminal  BY <2>3, RequestTypes DEF HandleExit, TypeInv
    <3>2. QED  BY <1>0, <2>3, <3>1 DEF HandleExit, ApplyExit, Resolve, Terminal
  <2>4. CASE RefuseClaim(m) \/ HandleReport(m)
    BY <2>4 DEF RefuseClaim, HandleReport, hubVars
  <2>5. QED  BY <1>2, <2>2, <2>3, <2>4 DEF Handle
<1>3. ASSUME NEW m \in recons, HandleReconcile(m) PROVE FALSE
  BY <1>0, <1>3 DEF HandleReconcile, Resolve
<1>4. CASE Time \/ Reap \/ UNCHANGED vars
  BY <1>0, <1>4 DEF Time, BecomeOverdue, BecomeStale, Reap, Resolve, vars, hubVars
<1>5. ASSUME NEW k \in Clients, Poll(k) \/ Loop(k) PROVE FALSE
  BY <1>5 DEF Loop, Poll, Connect, ReconcileFails, StreamBreaks, Heartbeat, DispatchStart,
     DispatchCancel, Consume, Crash, Swap, Restart, hubVars
<1>6. QED  BY <1>1, <1>2, <1>3, <1>4, <1>5 DEF Next

\* A worker leaves a running record only when its process dies: it retries
\* its exit report until the hub has applied it.
LEMMA LeavingStep ==
  ASSUME TypeInv, WorkerInv, LogShape, OnTime, [Next]_vars, NEW c \in Commands,
         worker[c] \in Busy, status[c] = "running", status'[c] = "running", worker'[c] \notin Busy
  PROVE  Unheld(c)'
<1>0. /\ worker \in [Commands -> {"idle", "claiming", "leased", "executing", "exiting"}]
      /\ status \in [Commands -> {"none"} \cup Open \cup Terminal]
      /\ conn \in [Clients -> {"down", "reconciling", "reading"}] /\ cancels \in [Clients -> SUBSET Commands]
      /\ Target[c] \in Clients
  BY TargetAssumption DEF TypeInv, WorkInv, WorkTypes, HubTypes, LoopTypes
<1>1. ASSUME NEW x \in Commands, Initiator(x) PROVE FALSE
  BY <1>1 DEF Initiator, Create, CancelQueued, CancelRunning, workVars
<1>2. ASSUME NEW x \in Commands, Worker(x) PROVE FALSE
  <2>1. CASE ClaimFails(x)
    <3>1. worker[x] = "claiming"
      BY <2>1 DEF ClaimFails, Pending, WorkerInv, OneRequest, Stage
    <3>2. QED  BY <1>0, <2>1, <3>1 DEF ClaimFails, ThreadDies, Busy
  <2>2. QED
    BY <1>0, <1>2, <2>1 DEF Worker, SetupFails, Spawn, Output, Finish, Terminate, ReportFails, PostExit,
       ExitFails, ExitRetried, StraySpawns, StrayEnds, OrphanEnds, StartExit, workVars, Busy
<1>3. ASSUME NEW m \in net, Handle(m) PROVE FALSE
  <2>1. /\ m.waiting /\ m.cmd \in Commands /\ worker[m.cmd] = Stage(m.type)
        /\ m.type = "exit" => m.body \in Terminal
    BY RequestTypes DEF OnTime, WorkerInv, OneRequest, TypeInv
  <2>2. CASE HandleExit(m)
    <3>1. m.cmd = c
      BY <1>0, <2>1, <2>2 DEF HandleExit, ThreadEnds, ExitRetried
    <3>2. QED  BY <1>0, <2>1, <2>2, <3>1 DEF HandleExit, ApplyExit, Resolve, Open, Terminal
  <2>3. CASE GrantClaim(m) \/ RefuseClaim(m)
    <3>1. worker[m.cmd] = "claiming"  BY <2>1, <2>3 DEF GrantClaim, RefuseClaim, Stage
    <3>2. QED
      BY <1>0, <2>1, <2>3, <3>1 DEF GrantClaim, RefuseClaim, Refused, ThreadEnds, ThreadDies, Busy
  <2>4. CASE HandleReport(m)
    BY <1>0, <2>1, <2>4 DEF HandleReport, StartExit, Busy
  <2>5. QED  BY <1>3, <2>2, <2>3, <2>4 DEF Handle
<1>4. ASSUME NEW m \in recons, HandleReconcile(m) PROVE FALSE
  BY <1>4 DEF HandleReconcile, workVars
<1>5. CASE Time \/ Reap \/ UNCHANGED vars
  BY <1>5 DEF Time, BecomeOverdue, BecomeStale, Reap, vars, workVars
<1>6. ASSUME NEW k \in Clients, Poll(k) \/ Loop(k) PROVE Unheld(c)'
  <2>1. CASE DispatchStart(k)
    <3>1. PICK i \in stream[k] : DispatchStart(k)!(i)  BY <2>1 DEF DispatchStart
    <3> DEFINE x == control[k][i].cmd
    <3>2. x \notin cancels[k] /\ worker' = [worker EXCEPT ![x] = "claiming"]  BY <3>1
    <3>3. c = x  BY <1>0, <3>2
    <3>4. c \in cancels[Target[c]]  BY DEF WorkerInv, Listed, Busy
    <3>5. Target[x] = k
      <4>1. i \in 1 .. Len(control[k])  BY LogTypes
      <4>2. QED  BY <4>1 DEF LogShape
    <3>6. QED  BY <3>2, <3>3, <3>4, <3>5
  <2>2. CASE Crash(k) \/ Swap(k)
    <3>1. /\ conn'[k] = "down" /\ cancels' = [cancels EXCEPT ![k] = {}]
          /\ worker' = [x \in Commands |-> IF Target[x] = k THEN "idle" ELSE worker[x]]
      BY <2>2, GoneDown DEF Forget
    <3>2. Target[c] = k  BY <3>1
    <3>3. QED  BY <1>0, <3>1, <3>2 DEF Unheld
  <2>3. QED
    BY <1>6, <2>1, <2>2 DEF Loop, Poll, Connect, ReconcileFails, StreamBreaks, Heartbeat,
       DispatchCancel, Restart, workVars
<1>7. QED  BY <1>1, <1>2, <1>3, <1>4, <1>5, <1>6 DEF Next

\* A record its client does not list stays so, until a reconcile fails it: the
\* next connection sends one, and nothing is dispatched before its answer.
LEMMA UnheldStep ==
  ASSUME NoLateRequests, NoLostReconciles, TypeInv, WorkerInv, OneReconcile, [Next]_vars,
         NEW c \in Commands, status[c] = "running", status'[c] = "running", Unheld(c)
  PROVE  Unheld(c)'
<1> DEFINE k == Target[c]
<1>0. /\ conn \in [Clients -> {"down", "reconciling", "reading"}] /\ cancels \in [Clients -> SUBSET Commands]
      /\ k \in Clients /\ \A x \in Commands : Target[x] \in Clients
      /\ \A n \in recons : n.client \in Clients
  BY TargetAssumption DEF TypeInv, LoopTypes, NetTypes, ReconcileRequests
<1> HIDE DEF k
<1>1. CASE /\ conn'[k] = conn[k]
           /\ c \in cancels'[k] => c \in cancels[k]
           /\ recons \subseteq recons'
  BY <1>1 DEF Unheld, k
<1>2. ASSUME NEW x \in Commands, Initiator(x) \/ Worker(x) PROVE Unheld(c)'
  BY <1>1, <1>2 DEF Initiator, Create, CancelQueued, CancelRunning, Worker, ClaimFails, SetupFails, Spawn,
     Output, Finish, Terminate, ReportFails, PostExit, ExitFails, ExitRetried, ThreadDies, StraySpawns, StrayEnds, OrphanEnds, loopVars
<1>3. ASSUME NEW m \in net, Handle(m) PROVE Unheld(c)'
  <2>1. m.cmd \in Commands  BY RequestTypes DEF TypeInv
  <2>2. conn' = conn /\ recons' = recons
    BY <1>3 DEF Handle, GrantClaim, RefuseClaim, HandleReport, HandleExit, loopVars
  <2>3. \/ cancels' = cancels
        \/ cancels' = [cancels EXCEPT ![Target[m.cmd]] = @ \ {m.cmd}]
    BY <1>3 DEF Handle, GrantClaim, RefuseClaim, Refused, HandleReport, HandleExit, ThreadEnds, ThreadDies,
       ExitRetried, loopVars
  <2>4. QED  BY <1>0, <1>1, <2>1, <2>2, <2>3
<1>4. ASSUME NEW m \in recons, HandleReconcile(m) PROVE Unheld(c)'
  <2>1. c \notin Unlisted(m)
    BY <1>4 DEF HandleReconcile, Resolve
  <2>2. m.client = k => c \in m.active  BY <2>1 DEF Unlisted, k
  <2>3. /\ recons' = recons \ {m} /\ cancels' = cancels
        /\ conn' = IF m.waiting THEN [conn EXCEPT ![m.client] = "reading"] ELSE conn
    BY <1>4 DEF HandleReconcile
  <2>4. m.waiting => conn[m.client] = "reconciling"  BY DEF OneReconcile
  <2>5. conn[k] = "down" => conn'[k] = "down"  BY <1>0, <2>3, <2>4
  <2>6. QED  BY <2>2, <2>3, <2>5 DEF Unheld, k
<1>5. CASE Time \/ Reap \/ UNCHANGED vars
  BY <1>1, <1>5 DEF Time, BecomeOverdue, BecomeStale, Reap, vars, loopVars
<1>6. ASSUME NEW j \in Clients, Poll(j) \/ Loop(j) PROVE Unheld(c)'
  <2>1. CASE Crash(j) \/ Swap(j)
    <3>0. /\ Forget(j) /\ conn'[j] = "down"
          /\ \A i \in Clients \ {j} : conn'[i] = conn[i] /\ up'[i] = up[i]
      BY <2>1, GoneDown
    <3>1. /\ conn'[j] = "down" /\ \A i \in Clients : i # j => conn'[i] = conn[i]
          /\ cancels' = [cancels EXCEPT ![j] = {}]
      BY <3>0 DEF Forget
    <3>2. CASE j = k  BY <1>0, <3>1, <3>2 DEF Unheld, k
    <3>3. CASE j # k
      <4>1. \A n \in recons : n.client = k => n \in recons'  BY <2>1, <3>3 DEF Crash, Swap, Forget
      <4>2. conn'[k] = conn[k] /\ cancels'[k] = cancels[k]  BY <1>0, <3>1, <3>3
      <4>3. QED  BY <4>1, <4>2 DEF Unheld, k
    <3>4. QED  BY <3>2, <3>3
  <2>2. CASE ReconcileFails(j)
    BY <2>2 DEF ReconcileFails, Commit, NoLateRequests, NoLostReconciles
  <2>3. CASE DispatchStart(j)
    <3>1. /\ conn[j] = "reading" /\ conn' = conn /\ recons' = recons
          /\ \A i \in Clients : i # j => cancels'[i] = cancels[i]
      BY <1>0, <2>3 DEF DispatchStart, Consume
    <3>2. conn[k] = "down" => cancels'[k] = cancels[k]  BY <1>0, <3>1
    <3>3. QED  BY <3>1, <3>2 DEF Unheld, k
  <2>4. CASE Connect(j)
    <3>1. /\ conn[j] = "down" /\ conn' = [conn EXCEPT ![j] = "reconciling"] /\ cancels' = cancels
          /\ recons' = recons \cup {ReconcileReq(j, cancels[j], TRUE)}
      BY <2>4 DEF Connect, ActiveCommands
    <3>2. CASE conn[k] = "down" /\ c \notin cancels[k] /\ j = k
      <4> DEFINE r == ReconcileReq(j, cancels[j], TRUE)
      <4>1. r.client = k /\ r.waiting /\ r.active = cancels[k]  BY <3>2 DEF ReconcileReq
      <4>2. r \in recons'  BY <3>1
      <4> HIDE DEF r
      <4>3. QED  BY <3>2, <4>1, <4>2 DEF Unheld, k
    <3>3. CASE conn[k] = "down" /\ c \notin cancels[k] /\ j # k
      BY <1>0, <3>1, <3>3 DEF Unheld, k
    <3>4. QED  BY <3>1, <3>2, <3>3 DEF Unheld, k
  <2>5. CASE StreamBreaks(j)
    <3>1. conn[j] = "reading" /\ conn' = [conn EXCEPT ![j] = "down"] /\ cancels' = cancels /\ recons' = recons
      BY <2>5 DEF StreamBreaks
    <3>2. conn[k] = "down" => conn'[k] = "down"  BY <1>0, <3>1
    <3>3. QED  BY <3>1, <3>2 DEF Unheld, k
  <2>6. CASE Poll(j) \/ Heartbeat(j) \/ Restart(j) \/ DispatchCancel(j)
    BY <1>1, <2>6 DEF Poll, Heartbeat, Restart, DispatchCancel, Consume, loopVars
  <2>7. QED  BY <1>6, <2>1, <2>2, <2>3, <2>4, <2>5, <2>6 DEF Loop
<1>7. QED  BY <1>2, <1>3, <1>4, <1>5, <1>6 DEF Next

\* When no request is handled late, no answer to a claim is lost and no
\* reconcile is lost, every running record is held: a worker works on it and
\* will report its exit, or the reconcile of its client will fail it.  Crashes,
\* breaks, outages, lost reports and lost answers to them orphan nothing.
THEOREM RunningHeld ==
  ASSUME NoLateRequests, NoLostLeases, NoLostReconciles
  PROVE  Spec => []RunningIsHeld
<1> DEFINE Calm == TypeInv /\ WorkerInv /\ OneReconcile /\ LogShape /\ OnTime
           Held == \A c \in Commands : status[c] = "running" => worker[c] \in Busy \/ Unheld(c)
<1>1. Spec => []Calm
  <2>1. (OnTimeInv => OnTime) /\ (DeliveryInv => LogShape)  BY DEF OnTimeInv, DeliveryInv
  <2>2. QED  BY <2>1, OnTimeAlways, DeliveryAlways, PTL
<1>2. Init => Held  BY DEF Init
<1>3. Calm /\ Held /\ [Next]_vars => Held'
  <2> SUFFICES ASSUME Calm, Held, [Next]_vars, NEW c \in Commands, status'[c] = "running"
               PROVE  worker'[c] \in Busy \/ Unheld(c)'
    OBVIOUS
  <2>1. CASE status[c] # "running"  BY <2>1, GrantedStep
  <2>2. CASE status[c] = "running" /\ worker[c] \in Busy  BY <2>2, LeavingStep
  <2>3. CASE status[c] = "running" /\ Unheld(c)  BY <2>3, UnheldStep
  <2>4. QED  BY <2>1, <2>2, <2>3
<1>4. Held <=> RunningIsHeld  BY DEF RunningIsHeld, Unheld, Busy, ActiveCommands
<1> HIDE DEF Calm, Held
<1>5. QED  BY <1>1, <1>2, <1>3, <1>4, PTL DEF Spec
=============================================================================
