--------------------------- MODULE CommandsProofs ---------------------------
(***************************************************************************)
(* Proofs about Commands, for every set of commands and clients, every     *)
(* assignment of commands to clients, every set of faults and every bound. *)
(***************************************************************************)
EXTENDS Commands, FiniteSetTheorems, TLAPS

-----------------------------------------------------------------------------
(* Type correctness.  TypeOK is not inductive: the command an event names  *)
(* is known only for events the log holds, and an exit report carries the  *)
(* outcome of a worker that has one.                                       *)

StreamInLog  == \A k \in Clients : stream[k] \subseteq 1 .. Len(control[k])
OutcomeKnown == \A c \in Commands : worker[c] = "exiting" => outcome[c] \in Terminal

WorkInv == WorkTypes /\ OutcomeKnown
TypeInv == HubTypes /\ StreamTypes /\ StreamInLog /\ LoopTypes /\ WorkInv /\ NetTypes

\* The initial state has the right types.
LEMMA TypeInit == Init => TypeInv
  BY DEF Init, TypeInv, HubTypes, StreamTypes, LoopTypes, WorkTypes, WorkInv, NetTypes,
     StreamInLog, OutcomeKnown, Terminal, Open, Reasons

\* What an action leaves alone keeps its type.
LEMMA HubFrame == HubTypes /\ UNCHANGED hubVars => HubTypes'
  BY DEF HubTypes, hubVars
\* The stream keeps its type when it does not change.
LEMMA StreamFrame == StreamTypes /\ UNCHANGED streamVars => StreamTypes'
  BY DEF StreamTypes, streamVars
\* The consume loop keeps its type when it does not change.
LEMMA LoopFrame == LoopTypes /\ UNCHANGED loopVars => LoopTypes'
  BY DEF LoopTypes, loopVars
\* The workers keep their type when they do not change.
LEMMA WorkFrame == WorkInv /\ UNCHANGED workVars => WorkInv'
  BY DEF WorkInv, WorkTypes, OutcomeKnown, workVars
\* The requests keep their type when they do not change.
LEMMA NetFrame == NetTypes /\ net' = net /\ recons' = recons /\ faults' = faults => NetTypes'
  BY DEF NetTypes
\* Events in flight stay in a control log that does not change.
LEMMA LogFrame == StreamInLog /\ control' = control /\ UNCHANGED streamVars => StreamInLog'
  BY DEF StreamInLog, streamVars
\* Events in flight stay in the log when the hub does not move.
LEMMA LogFrameHub == StreamInLog /\ UNCHANGED hubVars /\ stream' = stream => StreamInLog'
  BY DEF StreamInLog, hubVars

\* A control log only grows, so the events in flight stay in it.
LEMMA LogGrows ==
  ASSUME HubTypes, StreamInLog, UNCHANGED streamVars, NEW k \in Clients,
         NEW e \in [kind : {"start", "cancel"}, cmd : Commands],
         control' = [control EXCEPT ![k] = Append(@, e)]
  PROVE  /\ control' \in [Clients -> Seq([kind : {"start", "cancel"}, cmd : Commands])]
         /\ StreamInLog'
<1> DEFINE E == [kind : {"start", "cancel"}, cmd : Commands]
<1>1. control \in [Clients -> Seq(E)]  BY DEF HubTypes
<1>e. e \in E  OBVIOUS
<1> HIDE DEF E
<1>2. Append(control[k], e) \in Seq(E) /\ Len(Append(control[k], e)) = Len(control[k]) + 1
  BY <1>1, <1>e
<1>3. control' \in [Clients -> Seq(E)]  BY <1>1, <1>2
<1>4. \A j \in Clients : Len(control[j]) \in Nat /\ Len(control'[j]) >= Len(control[j])
  BY <1>1, <1>2
<1>5. \A j \in Clients : stream'[j] \subseteq 1 .. Len(control'[j])
  <2>1. SUFFICES ASSUME NEW j \in Clients, NEW i \in stream[j]
                 PROVE  i \in 1 .. Len(control'[j])
    BY DEF streamVars
  <2>2. i \in 1 .. Len(control[j])  BY DEF StreamInLog
  <2>3. QED  BY <1>4, <2>2
<1>6. QED  BY <1>3, <1>5 DEF E, StreamInLog

\* Requests of a command's worker are well-formed, given up or not.
LEMMA RequestTypes ==
  ASSUME NetTypes, NEW m \in net
  PROVE  /\ m.cmd \in Commands /\ Target[m.cmd] \in Clients
         /\ m.type \in {"claim", "report", "exit"}
         /\ m.type = "report" => m.body \in {"started", "output"}
         /\ m.type = "exit" => m.body \in Terminal
         /\ Abandoned(m) \in WorkRequests
  BY TargetAssumption DEF NetTypes, WorkRequests, Abandoned, WorkReq

\* The requests a client sends are well-formed.
LEMMA WorkReqTypes ==
  ASSUME NEW c \in Commands
  PROVE  /\ ClaimReq(c) \in WorkRequests
         /\ \A b \in {"started", "output"} : ReportReq(c, b) \in WorkRequests
         /\ \A st \in Terminal : ExitReq(c, st) \in WorkRequests
  BY DEF ClaimReq, ReportReq, ExitReq, WorkReq, WorkRequests
\* The reconcile request a client sends is well-formed.
LEMMA ReconcileReqTypes ==
  ASSUME NEW k \in Clients, NEW A \in SUBSET Commands, NEW w \in BOOLEAN
  PROVE  ReconcileReq(k, A, w) \in ReconcileRequests
  BY DEF ReconcileReq, ReconcileRequests

\* Counting a fault.
LEMMA CommitTypes == ASSUME NetTypes, NEW f, Commit(f) PROVE faults' \in Nat
  BY DEF NetTypes, Commit

\* Resolving records keeps the tables' types.
LEMMA ResolveTypes ==
  ASSUME HubTypes, NEW S, NEW st \in Terminal, NEW why \in [S -> Reasons], Resolve(S, st, why),
         UNCHANGED <<started, cancelAsked, overdue, control>>,
         lastSeen' \in [Clients -> {"none", "fresh", "stale"}]
  PROVE  HubTypes'
<1>1. status' \in [Commands -> {"none"} \cup Open \cup Terminal]
  BY DEF HubTypes, Resolve
<1>2. reason' \in [Commands -> Reasons]
  BY DEF HubTypes, Resolve
<1>3. events' \in [Commands -> Seq({"started", "output", "exit"})]
  BY DEF HubTypes, Resolve
<1>4. QED  BY <1>1, <1>2, <1>3 DEF HubTypes

-----------------------------------------------------------------------------
\* POST /api/commands keeps the types.
LEMMA TypeCreate == ASSUME TypeInv, NEW c \in Commands, Create(c) PROVE TypeInv'
<1> DEFINE e == ControlEvent("start", c)
<1>1. e \in [kind : {"start", "cancel"}, cmd : Commands]  BY DEF ControlEvent
<1>2. /\ control' \in [Clients -> Seq([kind : {"start", "cancel"}, cmd : Commands])]
      /\ StreamInLog'
  BY <1>1, LogGrows, TargetAssumption DEF TypeInv, Create
<1>3. HubTypes'  BY <1>2 DEF TypeInv, HubTypes, Create, Open
<1>4. QED  BY <1>2, <1>3, StreamFrame, LoopFrame, WorkFrame, NetFrame DEF TypeInv, Create

\* A cancel of a queued command keeps the types.
LEMMA TypeCancelQueued == ASSUME TypeInv, NEW c \in Commands, CancelQueued(c) PROVE TypeInv'
<1>1. status' \in [Commands -> {"none"} \cup Open \cup Terminal]
  BY DEF TypeInv, HubTypes, CancelQueued, Resolve, Terminal
<1>2. reason' \in [Commands -> Reasons]
  BY DEF TypeInv, HubTypes, CancelQueued, Resolve, Reasons
<1>3. events' \in [Commands -> Seq({"started", "output", "exit"})]
  BY DEF TypeInv, HubTypes, CancelQueued, Resolve
<1>4. HubTypes'  BY <1>1, <1>2, <1>3 DEF TypeInv, HubTypes, CancelQueued
<1>5. QED  BY <1>4, LogFrame, StreamFrame, LoopFrame, WorkFrame, NetFrame DEF TypeInv, CancelQueued

\* A cancel of a running command keeps the types.
LEMMA TypeCancelRunning == ASSUME TypeInv, NEW c \in Commands, CancelRunning(c) PROVE TypeInv'
<1> DEFINE e == ControlEvent("cancel", c)
<1>1. e \in [kind : {"start", "cancel"}, cmd : Commands]  BY DEF ControlEvent
<1>2. /\ control' \in [Clients -> Seq([kind : {"start", "cancel"}, cmd : Commands])]
      /\ StreamInLog'
  BY <1>1, LogGrows, TargetAssumption DEF TypeInv, CancelRunning
<1>3. HubTypes'  BY <1>2 DEF TypeInv, HubTypes, CancelRunning
<1>4. QED  BY <1>2, <1>3, StreamFrame, LoopFrame, WorkFrame, NetFrame DEF TypeInv, CancelRunning

\* The passing of timeouts keeps the types.
LEMMA TypeTime == ASSUME TypeInv, Time PROVE TypeInv'
<1>1. ASSUME NEW c \in Commands, BecomeOverdue(c) PROVE TypeInv'
  <2>1. HubTypes'  BY <1>1 DEF TypeInv, HubTypes, BecomeOverdue
  <2>2. QED  BY <1>1, <2>1, LogFrame, StreamFrame, LoopFrame, WorkFrame, NetFrame
               DEF TypeInv, BecomeOverdue
<1>2. ASSUME NEW k \in Clients, BecomeStale(k) PROVE TypeInv'
  <2>1. HubTypes'  BY <1>2 DEF TypeInv, HubTypes, BecomeStale
  <2>2. NetTypes'  BY <1>2 DEF TypeInv, NetTypes, BecomeStale, Commit
  <2>3. QED  BY <1>2, <2>1, <2>2, LogFrame, StreamFrame, LoopFrame, WorkFrame
               DEF TypeInv, BecomeStale
<1>3. QED  BY <1>1, <1>2 DEF Time

\* A pass of the reaper keeps the types.
LEMMA TypeReap == ASSUME TypeInv, Reap PROVE TypeInv'
<1> DEFINE S == {c \in Commands : Lost(c) \/ Unclaimed(c)}
           why == [c \in S |-> IF Lost(c) THEN "client_lost" ELSE "unclaimed"]
<1>1. Resolve(S, "failed", why) /\ UNCHANGED <<started, cancelAsked, overdue, control, lastSeen>>
  BY DEF Reap
<1>2. why \in [S -> Reasons] /\ "failed" \in Terminal  BY DEF Reasons, Terminal
<1>3. lastSeen' \in [Clients -> {"none", "fresh", "stale"}]  BY <1>1 DEF TypeInv, HubTypes
<1> HIDE DEF S, why
<1>4. HubTypes'  BY <1>1, <1>2, <1>3, ResolveTypes DEF TypeInv
<1>5. QED  BY <1>4, LogFrame, StreamFrame, LoopFrame, WorkFrame, NetFrame DEF TypeInv, Reap

-----------------------------------------------------------------------------
(* Requests the hub handles *)

\* A granted claim keeps the types.
LEMMA TypeGrantClaim == ASSUME TypeInv, NEW m \in net, GrantClaim(m) PROVE TypeInv'
<1> DEFINE c == m.cmd
<1>0. c \in Commands  BY RequestTypes DEF TypeInv
<1>1. HubTypes'  BY <1>0 DEF TypeInv, HubTypes, GrantClaim, Open
<1>2. WorkInv'
  BY <1>0 DEF TypeInv, WorkInv, WorkTypes, OutcomeKnown, GrantClaim, ThreadDies
<1>3. LoopTypes'  BY <1>0 DEF TypeInv, LoopTypes, GrantClaim, ThreadDies
<1>4. NetTypes'  BY CommitTypes DEF TypeInv, NetTypes, GrantClaim
<1>5. control' = control /\ UNCHANGED streamVars  BY DEF GrantClaim
<1>6. QED  BY <1>1, <1>2, <1>3, <1>4, <1>5, LogFrame, StreamFrame DEF TypeInv

\* A refused claim keeps the types.
LEMMA TypeRefuseClaim == ASSUME TypeInv, NEW m \in net, RefuseClaim(m) PROVE TypeInv'
<1> DEFINE c == m.cmd
<1>0. c \in Commands /\ Target[c] \in Clients  BY RequestTypes DEF TypeInv
<1>1. WorkInv'
  BY <1>0 DEF TypeInv, WorkInv, WorkTypes, OutcomeKnown, RefuseClaim, Refused, ThreadEnds, ThreadDies
<1>2. LoopTypes'
  BY <1>0 DEF TypeInv, LoopTypes, RefuseClaim, Refused, ThreadEnds, ThreadDies
<1>3. NetTypes'  BY CommitTypes DEF TypeInv, NetTypes, RefuseClaim
<1>4. UNCHANGED hubVars /\ UNCHANGED streamVars  BY DEF RefuseClaim
<1>5. stream' = stream  BY <1>4 DEF streamVars
<1>6. QED  BY <1>1, <1>2, <1>3, <1>4, <1>5, HubFrame, LogFrameHub, StreamFrame DEF TypeInv

\* A start or output report keeps the types.
LEMMA TypeHandleReport == ASSUME TypeInv, NEW m \in net, HandleReport(m) PROVE TypeInv'
<1> DEFINE c == m.cmd
<1>0. c \in Commands /\ Target[c] \in Clients /\ m.body \in {"started", "output"}
  BY RequestTypes DEF TypeInv, HandleReport
<1>1. HubTypes'  BY <1>0 DEF TypeInv, HubTypes, HandleReport, Seen
<1>2. WorkInv'
  BY <1>0 DEF TypeInv, WorkInv, WorkTypes, OutcomeKnown, HandleReport, StartExit, Terminal
<1>3. NetTypes'  BY CommitTypes DEF TypeInv, NetTypes, HandleReport
<1>4. control' = control /\ UNCHANGED streamVars /\ UNCHANGED loopVars  BY DEF HandleReport
<1>5. QED  BY <1>1, <1>2, <1>3, <1>4, LogFrame, StreamFrame, LoopFrame DEF TypeInv

\* An exit report keeps the types.
LEMMA TypeHandleExit == ASSUME TypeInv, NEW m \in net, HandleExit(m) PROVE TypeInv'
<1> DEFINE c == m.cmd
<1>0. c \in Commands /\ Target[c] \in Clients /\ m.body \in Terminal
  BY RequestTypes DEF TypeInv, HandleExit
<1>1. HubTypes'
  <2>1. lastSeen' \in [Clients -> {"none", "fresh", "stale"}]
    BY <1>0 DEF TypeInv, HubTypes, HandleExit, Seen
  <2>2. UNCHANGED <<started, cancelAsked, overdue, control>>  BY DEF HandleExit
  <2>3. CASE status[c] \in Open
    <3> DEFINE why == [x \in {c} |-> "reported"]
    <3>1. Resolve({c}, m.body, why)  BY <2>3 DEF HandleExit, ApplyExit
    <3>2. why \in [{c} -> Reasons]  BY DEF Reasons
    <3> HIDE DEF why
    <3>3. QED  BY <1>0, <2>1, <2>2, <3>1, <3>2, ResolveTypes DEF TypeInv
  <2>4. CASE status[c] \notin Open
    BY <2>1, <2>2, <2>4 DEF HandleExit, ApplyExit, TypeInv, HubTypes
  <2>5. QED  BY <2>3, <2>4
<1>2. WorkInv'
  BY <1>0 DEF TypeInv, WorkInv, WorkTypes, OutcomeKnown, HandleExit, ThreadEnds, ExitRetried
<1>3. LoopTypes'  BY <1>0 DEF TypeInv, LoopTypes, HandleExit, ThreadEnds, ExitRetried
<1>4. NetTypes'  BY CommitTypes DEF TypeInv, NetTypes, HandleExit
<1>5. control' = control /\ UNCHANGED streamVars  BY DEF HandleExit
<1>6. QED  BY <1>1, <1>2, <1>3, <1>4, <1>5, LogFrame, StreamFrame DEF TypeInv

\* A reconcile keeps the types.
LEMMA TypeHandleReconcile == ASSUME TypeInv, NEW m \in recons, HandleReconcile(m) PROVE TypeInv'
<1> DEFINE S == Unlisted(m)
           why == [c \in S |-> "client_restarted"]
<1>0. m.client \in Clients  BY DEF TypeInv, NetTypes, ReconcileRequests
<1>1. Resolve(S, "failed", why)  BY DEF HandleReconcile
<1>2. why \in [S -> Reasons] /\ "failed" \in Terminal  BY DEF Reasons, Terminal
<1>3. lastSeen' \in [Clients -> {"none", "fresh", "stale"}]
  BY <1>0 DEF TypeInv, HubTypes, HandleReconcile, Seen
<1>4. UNCHANGED <<started, cancelAsked, overdue, control>>  BY DEF HandleReconcile
<1> HIDE DEF S, why
<1>5. HubTypes'  BY <1>1, <1>2, <1>3, <1>4, ResolveTypes DEF TypeInv
<1>6. LoopTypes'  BY <1>0 DEF TypeInv, LoopTypes, HandleReconcile
<1>7. NetTypes'  BY DEF TypeInv, NetTypes, HandleReconcile
<1>8. UNCHANGED streamVars /\ UNCHANGED workVars  BY DEF HandleReconcile
<1>9. QED  BY <1>4, <1>5, <1>6, <1>7, <1>8, LogFrame, StreamFrame, WorkFrame DEF TypeInv

-----------------------------------------------------------------------------
(* The stream and the consume loop *)

\* A turn of the hub's stream keeps the types.
LEMMA TypePoll == ASSUME TypeInv, NEW k \in Clients, Poll(k) PROVE TypeInv'
<1>1. Len(control[k]) \in Nat /\ cursor[k] \in Nat
  BY DEF TypeInv, HubTypes, StreamTypes
<1>2. StreamTypes'  BY <1>1 DEF TypeInv, StreamTypes, Poll
<1>3. StreamInLog'  BY <1>1 DEF TypeInv, StreamTypes, StreamInLog, Poll, hubVars
<1>4. UNCHANGED hubVars /\ UNCHANGED loopVars /\ UNCHANGED workVars /\ UNCHANGED <<net, recons, faults>>
  BY DEF Poll
<1>5. QED  BY <1>2, <1>3, <1>4, HubFrame, LoopFrame, WorkFrame, NetFrame DEF TypeInv

\* A connection keeps the types.
LEMMA TypeConnect == ASSUME TypeInv, NEW k \in Clients, Connect(k) PROVE TypeInv'
<1>1. HubTypes'  BY DEF TypeInv, HubTypes, Connect, Seen
<1>2. StreamTypes' /\ StreamInLog'
  BY DEF TypeInv, StreamTypes, StreamInLog, LoopTypes, Connect, ResumeFrom
<1>3. LoopTypes'  BY DEF TypeInv, LoopTypes, Connect
<1>4. NetTypes'
  <2>1. ReconcileReq(k, ActiveCommands(k), TRUE) \in ReconcileRequests
    BY ReconcileReqTypes DEF TypeInv, LoopTypes, ActiveCommands
  <2>2. QED  BY <2>1 DEF TypeInv, NetTypes, Connect
<1>5. UNCHANGED workVars  BY DEF Connect
<1>6. QED  BY <1>1, <1>2, <1>3, <1>4, <1>5, WorkFrame DEF TypeInv

\* A failed reconcile keeps the types.
LEMMA TypeReconcileFails == ASSUME TypeInv, NEW k \in Clients, ReconcileFails(k) PROVE TypeInv'
<1>1. UNCHANGED hubVars /\ UNCHANGED streamVars /\ UNCHANGED workVars /\ net' = net
  BY DEF ReconcileFails
<1>2. LoopTypes'  BY DEF TypeInv, LoopTypes, ReconcileFails
<1>3. NetTypes'
  <2>1. PICK m \in recons : ReconcileFails(k)!(m)  BY DEF ReconcileFails
  <2>2. m.active \in SUBSET Commands  BY DEF TypeInv, NetTypes, ReconcileRequests
  <2>3. ReconcileReq(k, m.active, FALSE) \in ReconcileRequests  BY <2>2, ReconcileReqTypes
  <2>4. faults' \in Nat  BY <2>1, CommitTypes DEF TypeInv
  <2>5. recons' \subseteq ReconcileRequests  BY <2>1, <2>3 DEF TypeInv, NetTypes
  <2>6. QED  BY <1>1, <2>4, <2>5 DEF TypeInv, NetTypes
<1>4. stream' = stream  BY <1>1 DEF streamVars
<1>5. QED  BY <1>1, <1>2, <1>3, <1>4, HubFrame, StreamFrame, LogFrameHub, WorkFrame DEF TypeInv

\* Consuming an event keeps the types.
LEMMA TypeConsume ==
  ASSUME TypeInv, NEW k \in Clients, NEW i \in stream[k], Consume(k, i)
  PROVE  /\ HubTypes' /\ StreamTypes' /\ StreamInLog'
         /\ control[k][i].cmd \in Commands
         /\ up' \in [Clients -> BOOLEAN] /\ lastId' \in [Clients -> Nat]
         /\ conn' \in [Clients -> {"down", "reconciling", "reading"}]
<1>1. UNCHANGED hubVars  BY DEF Consume
<1>2. i \in 1 .. Len(control[k]) /\ i \in Nat
  BY DEF TypeInv, StreamInLog, StreamTypes
<1>3. control[k][i] \in [kind : {"start", "cancel"}, cmd : Commands]
  <2> DEFINE E == [kind : {"start", "cancel"}, cmd : Commands]
  <2>1. control \in [Clients -> Seq(E)]  BY DEF TypeInv, HubTypes
  <2> HIDE DEF E
  <2>2. control[k][i] \in E  BY <1>2, <2>1
  <2>3. QED  BY <2>2 DEF E
<1>4. StreamTypes' /\ StreamInLog'
  BY <1>1 DEF TypeInv, StreamTypes, StreamInLog, Consume, hubVars
<1>5. up' \in [Clients -> BOOLEAN] /\ lastId' \in [Clients -> Nat]
      /\ conn' \in [Clients -> {"down", "reconciling", "reading"}]
  BY <1>2 DEF TypeInv, LoopTypes, Consume
<1>6. QED  BY <1>1, <1>3, <1>4, <1>5, HubFrame DEF TypeInv

\* Dispatching a start or a cancel keeps the types.
LEMMA TypeDispatch ==
  ASSUME TypeInv, NEW k \in Clients, DispatchStart(k) \/ DispatchCancel(k)
  PROVE  TypeInv'
<1>1. CASE DispatchStart(k)
  <2>1. PICK i \in stream[k] : DispatchStart(k)!(i)  BY <1>1 DEF DispatchStart
  <2> DEFINE c == control[k][i].cmd
  <2>2. /\ HubTypes' /\ StreamTypes' /\ StreamInLog' /\ c \in Commands
        /\ up' \in [Clients -> BOOLEAN] /\ lastId' \in [Clients -> Nat]
        /\ conn' \in [Clients -> {"down", "reconciling", "reading"}]
    BY <2>1, TypeConsume
  <2>3. UNCHANGED <<outcome, proc, runs, stray, recons, faults>>  BY <2>1 DEF Consume
  <2>4. LoopTypes'  BY <2>1, <2>2 DEF TypeInv, LoopTypes
  <2>5. WorkInv'  BY <2>1, <2>2, <2>3 DEF TypeInv, WorkInv, WorkTypes, OutcomeKnown
  <2>6. NetTypes'
    BY <2>1, <2>2, <2>3, WorkReqTypes DEF TypeInv, NetTypes
  <2>7. QED  BY <2>2, <2>4, <2>5, <2>6 DEF TypeInv
<1>2. CASE DispatchCancel(k)
  <2>1. PICK i \in stream[k] : DispatchCancel(k)!(i)  BY <1>2 DEF DispatchCancel
  <2> DEFINE c == control[k][i].cmd
  <2>2. /\ HubTypes' /\ StreamTypes' /\ StreamInLog' /\ c \in Commands
        /\ up' \in [Clients -> BOOLEAN] /\ lastId' \in [Clients -> Nat]
        /\ conn' \in [Clients -> {"down", "reconciling", "reading"}]
    BY <2>1, TypeConsume
  <2>3. UNCHANGED <<outcome, proc, runs, stray, recons, faults, net, worker>>  BY <2>1 DEF Consume
  <2>4. LoopTypes'  BY <2>1, <2>2 DEF TypeInv, LoopTypes
  <2>5. UNCHANGED workVars  BY <2>3 DEF workVars
  <2>6. QED  BY <2>2, <2>3, <2>4, <2>5, WorkFrame, NetFrame DEF TypeInv
<1>3. QED  BY <1>1, <1>2
\* The small steps of the loop keep the types.
LEMMA TypeRest ==
  ASSUME TypeInv, NEW k \in Clients, StreamBreaks(k) \/ Heartbeat(k) \/ Restart(k)
  PROVE  TypeInv'
<1>1. CASE StreamBreaks(k)
  <2>1. UNCHANGED hubVars /\ UNCHANGED workVars /\ net' = net /\ recons' = recons
    BY <1>1 DEF StreamBreaks
  <2>2. StreamTypes' /\ StreamInLog'
    BY <1>1, <2>1 DEF TypeInv, StreamTypes, StreamInLog, StreamBreaks, hubVars
  <2>3. LoopTypes'  BY <1>1 DEF TypeInv, LoopTypes, StreamBreaks
  <2>4. NetTypes'  BY <1>1, <2>1, CommitTypes DEF TypeInv, NetTypes, StreamBreaks
  <2>5. QED  BY <2>1, <2>2, <2>3, <2>4, HubFrame, WorkFrame DEF TypeInv
<1>2. CASE Heartbeat(k)
  <2>1. HubTypes'  BY <1>2 DEF TypeInv, HubTypes, Heartbeat, Seen
  <2>2. QED  BY <1>2, <2>1, LogFrame, StreamFrame, LoopFrame, WorkFrame, NetFrame
               DEF TypeInv, Heartbeat
<1>3. CASE Restart(k)
  <2>1. LoopTypes'  BY <1>3 DEF TypeInv, LoopTypes, Restart
  <2>2. UNCHANGED hubVars /\ UNCHANGED streamVars /\ UNCHANGED workVars
        /\ net' = net /\ recons' = recons /\ faults' = faults
    BY <1>3 DEF Restart
  <2>3. stream' = stream  BY <2>2 DEF streamVars
  <2>4. QED  BY <2>1, <2>2, <2>3, HubFrame, LogFrameHub, StreamFrame, WorkFrame, NetFrame
               DEF TypeInv
<1>4. QED  BY <1>1, <1>2, <1>3

\* What a client forgets leaves well-formed requests.
LEMMA TypeForget ==
  ASSUME TypeInv, NEW k \in Clients, Forget(k), faults' \in Nat
  PROVE  NetTypes'
<1> DEFINE cut  == {m \in net : Target[m.cmd] = k /\ m.waiting}
           rcut == {m \in recons : m.client = k /\ m.waiting}
<1>1. PICK late \in SUBSET cut, rlate \in SUBSET rcut :
        /\ net' = (net \ cut) \cup {Abandoned(m) : m \in late}
        /\ recons' = (recons \ rcut) \cup {ReconcileReq(k, m.active, FALSE) : m \in rlate}
  BY DEF Forget
<1>2. \A m \in late : Abandoned(m) \in WorkRequests
  BY RequestTypes DEF TypeInv
<1>3. \A m \in rlate : ReconcileReq(k, m.active, FALSE) \in ReconcileRequests
  <2>1. TAKE m \in rlate
  <2>2. m.active \in SUBSET Commands  BY DEF TypeInv, NetTypes, ReconcileRequests
  <2>3. QED  BY <2>2, ReconcileReqTypes
<1>4. net' \subseteq WorkRequests  BY <1>1, <1>2 DEF TypeInv, NetTypes
<1>5. recons' \subseteq ReconcileRequests  BY <1>1, <1>3 DEF TypeInv, NetTypes
<1>6. QED  BY <1>4, <1>5 DEF NetTypes

\* The death of the process and the swap of its service keep the types.
LEMMA TypeCrash == ASSUME TypeInv, NEW k \in Clients, Crash(k) \/ Swap(k) PROVE TypeInv'
<1>1. UNCHANGED hubVars /\ UNCHANGED <<cursor, proc, runs>> /\ Forget(k)
  BY DEF Crash, Swap, streamVars
<1>2. StreamTypes' /\ StreamInLog'
  BY <1>1 DEF TypeInv, StreamTypes, StreamInLog, Crash, Swap, hubVars, streamVars
<1>3. LoopTypes'
  <2>1. up' \in [Clients -> BOOLEAN] /\ conn' \in [Clients -> {"down", "reconciling", "reading"}]
    BY DEF TypeInv, LoopTypes, Crash, Swap
  <2>2. QED  BY <1>1, <2>1 DEF TypeInv, LoopTypes, Forget
<1>4. WorkInv'
  <2>1. stray' \in [Commands -> {"none", "leased", "executing"}]
    BY DEF TypeInv, WorkInv, WorkTypes, Crash, Swap, GoesOn
  <2>2. QED  BY <1>1, <2>1 DEF TypeInv, WorkInv, WorkTypes, OutcomeKnown, Forget
<1>5. NetTypes'
  <2>1. faults' \in Nat  BY CommitTypes DEF TypeInv, Crash, Swap
  <2>2. QED  BY <1>1, <2>1, TypeForget
<1>6. QED  BY <1>1, <1>2, <1>3, <1>4, <1>5, HubFrame DEF TypeInv

-----------------------------------------------------------------------------
(* The worker threads *)

\* A request given up leaves well-formed requests.
LEMMA TypeGiveUp ==
  ASSUME NetTypes, NEW m \in net, GiveUp(m), recons' = recons
  PROVE  NetTypes'
<1>1. faults' \in Nat  BY CommitTypes DEF GiveUp
<1>2. net' \subseteq WorkRequests  BY RequestTypes DEF GiveUp, NetTypes
<1>3. QED  BY <1>1, <1>2 DEF NetTypes

\* Every step of a worker thread keeps the types.
LEMMA TypeWorker == ASSUME TypeInv, NEW c \in Commands, Worker(c) PROVE TypeInv'
<1>1. CASE ClaimFails(c)
  <2>1. PICK m \in Pending(c) : ClaimFails(c)!(m)  BY <1>1 DEF ClaimFails
  <2>2. UNCHANGED <<hubVars, streamVars, up, conn, lastId, outcome, proc, runs, stray, recons>>
        /\ ThreadDies(c) /\ m \in net /\ GiveUp(m)
    BY <2>1 DEF Pending
  <2>3. NetTypes'  BY <2>2, TypeGiveUp DEF TypeInv
  <2>4. LoopTypes'  BY <2>2 DEF TypeInv, LoopTypes, ThreadDies
  <2>5. WorkInv'  BY <2>2 DEF TypeInv, WorkInv, WorkTypes, OutcomeKnown, ThreadDies
  <2>6. stream' = stream  BY <2>2 DEF streamVars
  <2>7. QED  BY <2>2, <2>3, <2>4, <2>5, <2>6, HubFrame, StreamFrame, LogFrameHub DEF TypeInv
<1>2. CASE Spawn(c)
  <2>1. WorkInv'  BY <1>2 DEF TypeInv, WorkInv, WorkTypes, OutcomeKnown, Spawn
  <2>2. NetTypes'  BY <1>2, WorkReqTypes DEF TypeInv, NetTypes, Spawn
  <2>3. UNCHANGED <<hubVars, streamVars, loopVars>>  BY <1>2 DEF Spawn
  <2>4. stream' = stream  BY <2>3 DEF streamVars
  <2>5. QED  BY <2>1, <2>2, <2>3, <2>4, HubFrame, StreamFrame, LogFrameHub, LoopFrame DEF TypeInv
<1>3. CASE Output(c) \/ PostExit(c)
  <2>1. NetTypes'
    BY <1>3, WorkReqTypes DEF TypeInv, NetTypes, Output, PostExit, WorkInv, OutcomeKnown
  <2>2. UNCHANGED <<hubVars, streamVars, loopVars, workVars>>  BY <1>3 DEF Output, PostExit
  <2>3. stream' = stream  BY <2>2 DEF streamVars
  <2>4. QED  BY <2>1, <2>2, <2>3, HubFrame, StreamFrame, LogFrameHub, LoopFrame, WorkFrame
               DEF TypeInv
<1>4. CASE \/ SetupFails(c) \/ Finish(c) \/ Terminate(c) \/ StraySpawns(c) \/ StrayEnds(c)
           \/ OrphanEnds(c)
  <2>1. WorkInv'
    BY <1>4 DEF TypeInv, WorkInv, WorkTypes, OutcomeKnown, SetupFails, Finish, Terminate,
       StraySpawns, StrayEnds, OrphanEnds, StartExit, Terminal
  <2>2. UNCHANGED <<hubVars, streamVars, loopVars>> /\ net' = net /\ recons' = recons
        /\ faults' = faults
    BY <1>4 DEF SetupFails, Finish, Terminate, StraySpawns, StrayEnds, OrphanEnds
  <2>3. stream' = stream  BY <2>2 DEF streamVars
  <2>4. QED  BY <2>1, <2>2, <2>3, HubFrame, StreamFrame, LogFrameHub, LoopFrame, NetFrame
               DEF TypeInv
<1>5. CASE ReportFails(c)
  <2>1. PICK m \in Pending(c) : ReportFails(c)!(m)  BY <1>5 DEF ReportFails
  <2>2. UNCHANGED <<hubVars, streamVars, loopVars, proc, runs, stray, recons>>
        /\ StartExit(c, "failed") /\ m \in net /\ GiveUp(m)
    BY <2>1 DEF Pending
  <2>3. NetTypes'  BY <2>2, TypeGiveUp DEF TypeInv
  <2>4. WorkInv'  BY <2>2 DEF TypeInv, WorkInv, WorkTypes, OutcomeKnown, StartExit, Terminal
  <2>5. stream' = stream  BY <2>2 DEF streamVars
  <2>6. QED  BY <2>2, <2>3, <2>4, <2>5, HubFrame, StreamFrame, LogFrameHub, LoopFrame DEF TypeInv
<1>6. CASE ExitFails(c)
  <2>1. PICK m \in Pending(c) : ExitFails(c)!(m)  BY <1>6 DEF ExitFails
  <2>2. UNCHANGED <<hubVars, streamVars, loopVars, workVars, recons>> /\ m \in net /\ GiveUp(m)
    BY <2>1 DEF Pending, ExitRetried, loopVars, workVars
  <2>3. NetTypes'  BY <2>2, TypeGiveUp DEF TypeInv
  <2>4. stream' = stream  BY <2>2 DEF streamVars
  <2>5. QED  BY <2>2, <2>3, <2>4, HubFrame, StreamFrame, LogFrameHub, LoopFrame, WorkFrame
               DEF TypeInv
<1>7. QED  BY <1>1, <1>2, <1>3, <1>4, <1>5, <1>6 DEF Worker

-----------------------------------------------------------------------------
\* Every step of the specification keeps the types.
LEMMA TypeNext == TypeInv /\ [Next]_vars => TypeInv'
<1> SUFFICES ASSUME TypeInv, [Next]_vars PROVE TypeInv'
  OBVIOUS
<1>1. ASSUME NEW c \in Commands, Initiator(c) PROVE TypeInv'
  BY <1>1, TypeCreate, TypeCancelQueued, TypeCancelRunning DEF Initiator
<1>2. ASSUME NEW c \in Commands, Worker(c) PROVE TypeInv'
  BY <1>2, TypeWorker
<1>3. ASSUME NEW k \in Clients, Poll(k) \/ Loop(k) PROVE TypeInv'
  BY <1>3, TypePoll, TypeConnect, TypeReconcileFails, TypeDispatch, TypeRest, TypeCrash DEF Loop
<1>4. ASSUME NEW m \in net, Handle(m) PROVE TypeInv'
  BY <1>4, TypeGrantClaim, TypeRefuseClaim, TypeHandleReport, TypeHandleExit DEF Handle
<1>5. ASSUME NEW m \in recons, HandleReconcile(m) PROVE TypeInv'
  BY <1>5, TypeHandleReconcile
<1>6. CASE Time  BY <1>6, TypeTime
<1>7. CASE Reap  BY <1>7, TypeReap
<1>8. CASE UNCHANGED vars
  <2>1. UNCHANGED <<hubVars, streamVars, loopVars, workVars>> /\ net' = net
        /\ recons' = recons /\ faults' = faults
    BY <1>8 DEF vars
  <2>2. stream' = stream  BY <2>1 DEF streamVars
  <2>3. QED  BY <2>1, <2>2, HubFrame, StreamFrame, LogFrameHub, LoopFrame, WorkFrame, NetFrame
               DEF TypeInv
<1>9. QED  BY <1>1, <1>2, <1>3, <1>4, <1>5, <1>6, <1>7, <1>8 DEF Next

\* The tables, the streams, the clients and the network always hold values of
\* their types: no dispatched event names an unknown command, and no exit
\* report leaves a worker without a terminal status in it.
THEOREM TypeCorrect == Spec => []TypeOK
<1>1. Spec => []TypeInv  BY TypeInit, TypeNext, PTL DEF Spec
<1>2. TypeInv => TypeOK  BY DEF TypeInv, TypeOK, WorkInv
<1>3. QED  BY <1>1, <1>2, PTL

-----------------------------------------------------------------------------
(* What a step can do to the records.  The safety theorems about exits,    *)
(* final records and the refinement all follow from this case split.       *)

Created(c) ==
    /\ status[c] = "none" /\ status' = [status EXCEPT ![c] = "queued"]
    /\ UNCHANGED <<reason, started, events>>

Claimed(c) ==
    /\ status[c] = "queued" /\ status' = [status EXCEPT ![c] = "running"]
    /\ started' = [started EXCEPT ![c] = TRUE]
    /\ UNCHANGED <<reason, events>>

Reported(c) ==
    /\ \E e \in {"started", "output"} : events' = [events EXCEPT ![c] = Append(@, e)]
    /\ UNCHANGED <<status, reason, started>>

Resolved(S) ==
    /\ \A c \in S : status[c] \in Open
    /\ \E st \in Terminal, why \in [S -> Reasons] : Resolve(S, st, why)
    /\ UNCHANGED started

RecordStep ==
    \/ UNCHANGED <<status, reason, started, events>>
    \/ \E c \in Commands : Created(c) \/ Claimed(c) \/ Reported(c)
    \/ \E S \in SUBSET Commands : Resolved(S)

\* Every step creates one record, hands one out, appends one report, resolves
\* open records, or leaves the records alone.
LEMMA RecordSteps == TypeInv /\ [Next]_vars => RecordStep
<1> SUFFICES ASSUME TypeInv, [Next]_vars PROVE RecordStep
  OBVIOUS
<1>1. ASSUME NEW c \in Commands, Initiator(c) PROVE RecordStep
  <2>1. CASE Create(c)  BY <2>1 DEF Create, RecordStep, Created
  <2>2. CASE CancelQueued(c)
    <3> DEFINE why == [x \in {c} |-> "canceled"]
    <3>1. Resolve({c}, "canceled", why) /\ UNCHANGED started /\ status[c] = "queued"
      BY <2>2 DEF CancelQueued
    <3>2. why \in [{c} -> Reasons] /\ "canceled" \in Terminal  BY DEF Reasons, Terminal
    <3> HIDE DEF why
    <3>3. Resolved({c})  BY <3>1, <3>2 DEF Resolved, Open
    <3>4. QED  BY <3>3 DEF RecordStep
  <2>3. CASE CancelRunning(c)  BY <2>3 DEF CancelRunning, RecordStep
  <2>4. QED  BY <1>1, <2>1, <2>2, <2>3 DEF Initiator
<1>2. ASSUME NEW c \in Commands, Worker(c) PROVE RecordStep
  BY <1>2 DEF Worker, ClaimFails, SetupFails, Spawn, Output, Finish, Terminate, ReportFails, PostExit,
     ExitFails, StraySpawns, StrayEnds, OrphanEnds, hubVars, RecordStep
<1>3. ASSUME NEW k \in Clients, Poll(k) \/ Loop(k) PROVE RecordStep
  BY <1>3 DEF Poll, Loop, Connect, ReconcileFails, StreamBreaks, Heartbeat, DispatchStart,
     DispatchCancel, Consume, Crash, Swap, Restart, hubVars, RecordStep
<1>4. ASSUME NEW m \in net, Handle(m) PROVE RecordStep
  <2> DEFINE c == m.cmd
  <2>0. c \in Commands /\ (m.type = "report" => m.body \in {"started", "output"})
        /\ (m.type = "exit" => m.body \in Terminal)
    BY RequestTypes DEF TypeInv
  <2>1. CASE GrantClaim(m)
    BY <2>0, <2>1 DEF GrantClaim, Claimable, RecordStep, Claimed
  <2>2. CASE RefuseClaim(m)  BY <2>2 DEF RefuseClaim, hubVars, RecordStep
  <2>3. CASE HandleReport(m)
    <3>1. Reported(c)  BY <2>0, <2>3 DEF HandleReport, Reported
    <3>2. QED  BY <2>0, <3>1 DEF RecordStep
  <2>4. CASE HandleExit(m)
    <3>1. CASE status[c] \in Open
      <4> DEFINE why == [x \in {c} |-> "reported"]
      <4>1. Resolve({c}, m.body, why) /\ UNCHANGED started
        BY <2>4, <3>1 DEF HandleExit, ApplyExit
      <4>2. why \in [{c} -> Reasons] /\ m.body \in Terminal
        BY <2>0, <2>4 DEF Reasons, HandleExit
      <4> HIDE DEF why
      <4>3. Resolved({c})  BY <3>1, <4>1, <4>2 DEF Resolved
      <4>4. QED  BY <2>0, <4>3 DEF RecordStep
    <3>2. CASE status[c] \notin Open
      BY <2>4, <3>2 DEF HandleExit, ApplyExit, RecordStep
    <3>3. QED  BY <3>1, <3>2
  <2>5. QED  BY <1>4, <2>1, <2>2, <2>3, <2>4 DEF Handle
<1>5. ASSUME NEW m \in recons, HandleReconcile(m) PROVE RecordStep
  <2> DEFINE S == Unlisted(m)
             why == [c \in S |-> "client_restarted"]
  <2>1. Resolve(S, "failed", why) /\ UNCHANGED started  BY <1>5 DEF HandleReconcile
  <2>2. S \in SUBSET Commands /\ \A c \in S : status[c] \in Open
    BY DEF Unlisted, Open
  <2>3. why \in [S -> Reasons] /\ "failed" \in Terminal  BY DEF Reasons, Terminal
  <2> HIDE DEF S, why
  <2>4. Resolved(S)  BY <2>1, <2>2, <2>3 DEF Resolved
  <2>5. QED  BY <2>2, <2>4 DEF RecordStep
<1>6. CASE Time  BY <1>6 DEF Time, BecomeOverdue, BecomeStale, RecordStep
<1>7. CASE Reap
  <2> DEFINE S == {c \in Commands : Lost(c) \/ Unclaimed(c)}
             why == [c \in S |-> IF Lost(c) THEN "client_lost" ELSE "unclaimed"]
  <2>1. Resolve(S, "failed", why) /\ UNCHANGED started  BY <1>7 DEF Reap
  <2>2. S \in SUBSET Commands /\ \A c \in S : status[c] \in Open
    BY DEF Lost, Unclaimed, Open
  <2>3. why \in [S -> Reasons] /\ "failed" \in Terminal  BY DEF Reasons, Terminal
  <2> HIDE DEF S, why
  <2>4. Resolved(S)  BY <2>1, <2>2, <2>3 DEF Resolved
  <2>5. QED  BY <2>2, <2>4 DEF RecordStep
<1>8. CASE UNCHANGED vars  BY <1>8 DEF vars, hubVars, RecordStep
<1>9. QED  BY <1>1, <1>2, <1>3, <1>4, <1>5, <1>6, <1>7, <1>8 DEF Next

\* A terminal record is final, for every number of clients and every fault:
\* no step changes the status or the failure code of a resolved command.
THEOREM TerminalFinal == Spec => TerminalIsFinal
<1>1. TypeInv /\ [Next]_vars =>
        [\A c \in Commands : status[c] \in Terminal =>
            status'[c] = status[c] /\ reason'[c] = reason[c]]_vars
  <2> SUFFICES ASSUME TypeInv, [Next]_vars, NEW c \in Commands, status[c] \in Terminal
               PROVE  status'[c] = status[c] /\ reason'[c] = reason[c]
    OBVIOUS
  <2>1. RecordStep  BY RecordSteps
  <2>2. ASSUME NEW S \in SUBSET Commands, Resolved(S)
        PROVE  status'[c] = status[c] /\ reason'[c] = reason[c]
    <3>1. c \notin S  BY <2>2 DEF Resolved, Terminal, Open
    <3>2. QED  BY <2>2, <3>1 DEF Resolved, Resolve
  <2>3. ASSUME NEW x \in Commands, Created(x) \/ Claimed(x) \/ Reported(x)
        PROVE  status'[c] = status[c] /\ reason'[c] = reason[c]
    BY <2>3 DEF Created, Claimed, Reported, Terminal, TypeInv, HubTypes
  <2>4. QED  BY <2>1, <2>2, <2>3 DEF RecordStep
<1>2. Spec => []TypeInv  BY TypeInit, TypeNext, PTL DEF Spec
<1>3. QED  BY <1>1, <1>2, PTL DEF Spec, TerminalIsFinal

-----------------------------------------------------------------------------
(* One exit event per command *)

\* Appending to a log of events adds its own index to the exits, or nothing.
LEMMA ExitsOfAppend ==
  ASSUME NEW s \in Seq({"started", "output", "exit"}), NEW e \in {"started", "output", "exit"}
  PROVE  /\ Len(s) \in Nat
         /\ {i \in 1 .. Len(Append(s, e)) : Append(s, e)[i] = "exit"} =
              {i \in 1 .. Len(s) : s[i] = "exit"} \cup (IF e = "exit" THEN {Len(s) + 1} ELSE {})
  OBVIOUS

\* How a step changes the exits of a command: only resolving it adds one.
LEMMA ExitsStep ==
  ASSUME TypeInv, ExitOnce, NEW c \in Commands
  PROVE  /\ \A x \in Commands : Created(x) \/ Claimed(x) \/ Reported(x) => ExitsAt(c)' = ExitsAt(c)
         /\ \A S \in SUBSET Commands : Resolved(S) =>
              ExitsAt(c)' = IF c \in S THEN {Len(events[c]) + 1} ELSE ExitsAt(c)
         /\ c \in Commands /\ status[c] \in Open => ExitsAt(c) = {}
         /\ Len(events[c]) \in Nat
<1>0. events[c] \in Seq({"started", "output", "exit"})  BY DEF TypeInv, HubTypes
<1>1. ASSUME NEW x \in Commands, Created(x) \/ Claimed(x) \/ Reported(x)
      PROVE  ExitsAt(c)' = ExitsAt(c)
  <2>1. CASE events' = events  BY <2>1 DEF ExitsAt
  <2>2. CASE Reported(x) /\ x = c
    <3>1. PICK e \in {"started", "output"} : events' = [events EXCEPT ![c] = Append(@, e)]
      BY <2>2 DEF Reported
    <3>2. events'[c] = Append(events[c], e)  BY <3>1 DEF TypeInv, HubTypes
    <3>3. QED  BY <1>0, <3>1, <3>2, ExitsOfAppend DEF ExitsAt
  <2>3. CASE Reported(x) /\ x # c
    <3>1. events'[c] = events[c]  BY <2>3 DEF Reported, TypeInv, HubTypes
    <3>2. QED  BY <3>1 DEF ExitsAt
  <2>4. QED  BY <1>1, <2>1, <2>2, <2>3 DEF Created, Claimed
<1>2. status[c] \in Open => ExitsAt(c) = {}  BY DEF ExitOnce, Open, Terminal
<1>3. ASSUME NEW S \in SUBSET Commands, Resolved(S)
      PROVE  ExitsAt(c)' = IF c \in S THEN {Len(events[c]) + 1} ELSE ExitsAt(c)
  <2>1. CASE c \in S
    <3>1. events'[c] = Append(events[c], "exit")  BY <1>3, <2>1 DEF Resolved, Resolve
    <3>2. ExitsAt(c) = {}  BY <1>2, <1>3, <2>1 DEF Resolved
    <3>3. QED  BY <1>0, <2>1, <3>1, <3>2, ExitsOfAppend DEF ExitsAt
  <2>2. CASE c \notin S
    <3>1. events'[c] = events[c]  BY <1>3, <2>2 DEF Resolved, Resolve
    <3>2. QED  BY <2>2, <3>1 DEF ExitsAt
  <2>3. QED  BY <2>1, <2>2
<1>4. QED  BY <1>0, <1>1, <1>2, <1>3, ExitsOfAppend

\* Every step keeps one exit event per resolved command.
LEMMA ExitOnceNext == TypeInv /\ ExitOnce /\ [Next]_vars => ExitOnce'
<1> SUFFICES ASSUME TypeInv, ExitOnce, [Next]_vars, NEW c \in Commands
             PROVE  /\ \A i, j \in ExitsAt(c)' : i = j
                    /\ status'[c] \in Terminal <=> ExitsAt(c)' # {}
  BY DEF ExitOnce
<1>1. RecordStep  BY RecordSteps
<1>2. /\ \A i, j \in ExitsAt(c) : i = j
      /\ status[c] \in Terminal <=> ExitsAt(c) # {}
  BY DEF ExitOnce
<1>3. CASE UNCHANGED <<status, reason, started, events>>
  BY <1>2, <1>3 DEF ExitsAt
<1>4. ASSUME NEW x \in Commands, Created(x) \/ Claimed(x) \/ Reported(x)
      PROVE  /\ \A i, j \in ExitsAt(c)' : i = j
             /\ status'[c] \in Terminal <=> ExitsAt(c)' # {}
  <2>1. status'[c] \in Terminal <=> status[c] \in Terminal
    BY <1>4 DEF Created, Claimed, Reported, Terminal, TypeInv, HubTypes
  <2>2. QED  BY <1>2, <1>4, <2>1, ExitsStep
<1>5. ASSUME NEW S \in SUBSET Commands, Resolved(S)
      PROVE  /\ \A i, j \in ExitsAt(c)' : i = j
             /\ status'[c] \in Terminal <=> ExitsAt(c)' # {}
  <2>1. ExitsAt(c)' = IF c \in S THEN {Len(events[c]) + 1} ELSE ExitsAt(c)
    BY <1>5, ExitsStep
  <2>2. c \in S => status'[c] \in Terminal  BY <1>5 DEF Resolved, Resolve
  <2>3. c \notin S => status'[c] = status[c]  BY <1>5 DEF Resolved, Resolve
  <2>4. QED  BY <1>2, <2>1, <2>2, <2>3
<1>6. QED  BY <1>1, <1>3, <1>4, <1>5 DEF RecordStep

\* One exit event per resolved command, with the types it needs.
LEMMA ExitOnceAlways == Spec => [](TypeInv /\ ExitOnce)
<1>1. Init => ExitOnce  BY DEF Init, ExitOnce, ExitsAt, Terminal
<1>2. QED  BY <1>1, TypeInit, TypeNext, ExitOnceNext, PTL DEF Spec

\* Initiators read one command.exit per command, and one exactly when the
\* record is terminal, whatever exits, reconciles, cancels, reaper passes and
\* faults race for it.
THEOREM OneExit == Spec => []ExitOnce
  BY ExitOnceAlways, PTL

-----------------------------------------------------------------------------
(* At most one run per command.  The claim is the only way from queued to  *)
(* a worker that may start the program, and started_at records it: every   *)
(* worker past its claim, and every report it sent, belongs to a record    *)
(* that was started and can never be claimed again.                        *)

WorkStarted ==
    /\ \A c \in Commands : worker[c] \in {"leased", "executing", "exiting"} => started[c]
    /\ \A m \in net : m.type \in {"report", "exit"} => started[m.cmd]

StartedIsOut == \A c \in Commands : started[c] => status[c] \notin {"none", "queued"}

LeaseUnused == \A c \in Commands : worker[c] = "leased" => runs[c] = 0

\* A thread of an earlier service with a lease is the only one that has it.
StrayLease ==
    \A c \in Commands : stray[c] # "none" =>
        started[c] /\ (stray[c] = "leased" => runs[c] = 0 /\ worker[c] # "leased")

RunInv == WorkStarted /\ StartedIsOut /\ LeaseUnused /\ StrayLease /\ RunOnce /\ RunClaimed

\* A command once claimed stays claimed.
LEMMA StartedStays ==
  ASSUME TypeInv, StartedIsOut, RecordStep
  PROVE  StartedIsOut' /\ \A c \in Commands : started[c] => started'[c]
<1>1. ASSUME NEW S \in SUBSET Commands, Resolved(S)
      PROVE  StartedIsOut' /\ \A c \in Commands : started[c] => started'[c]
  BY <1>1 DEF Resolved, Resolve, StartedIsOut, Terminal
<1>2. ASSUME NEW x \in Commands, Created(x) \/ Claimed(x) \/ Reported(x)
      PROVE  StartedIsOut' /\ \A c \in Commands : started[c] => started'[c]
  BY <1>2 DEF Created, Claimed, Reported, StartedIsOut, TypeInv, HubTypes
<1>3. QED  BY <1>1, <1>2 DEF RecordStep, StartedIsOut

\* Giving up a request leaves only requests of commands that were claimed.
LEMMA GiveUpKeepsStarted ==
  ASSUME NEW m \in net, GiveUp(m), UNCHANGED started, WorkStarted
  PROVE  \A x \in net' : x.type \in {"report", "exit"} => started'[x.cmd]
  BY DEF GiveUp, Abandoned, WorkReq, WorkStarted

\* The steps that leave workers, runs and started_at alone, and send nothing.
LEMMA RunFrame ==
  ASSUME RunInv, TypeInv, RecordStep, UNCHANGED <<started, worker, runs, stray>>, net' \subseteq net
  PROVE  RunInv'
<1>1. StartedIsOut'  BY StartedStays DEF RunInv
<1>2. QED  BY <1>1 DEF RunInv, WorkStarted, LeaseUnused, StrayLease, RunOnce, RunClaimed

\* Handling a worker request keeps the run invariant.
LEMMA RunHandle == ASSUME TypeInv, RunInv, RecordStep, NEW m \in net, Handle(m) PROVE RunInv'
<1> DEFINE c == m.cmd
<1>0. c \in Commands /\ StartedIsOut' /\ \A x \in Commands : started[x] => started'[x]
  BY RequestTypes, StartedStays DEF TypeInv, RunInv
<1>1. CASE GrantClaim(m)
  <2>1. runs[c] = 0 /\ stray[c] = "none"
    BY <1>0, <1>1 DEF GrantClaim, Claimable, RunInv, RunClaimed, StrayLease, StartedIsOut, TypeInv,
       WorkInv, WorkTypes
  <2>2. started'[c] /\ net' \subseteq net /\ UNCHANGED <<runs, stray>>
        /\ \A x \in Commands : x # c => worker'[x] = worker[x]
        /\ worker'[c] \in {worker[c], "leased", "idle"}
    BY <1>0, <1>1 DEF GrantClaim, ThreadDies, TypeInv, HubTypes, WorkInv, WorkTypes
  <2>3. WorkStarted'
    <3>1. \A x \in net : x.cmd \in Commands  BY RequestTypes DEF TypeInv
    <3>2. QED  BY <1>0, <2>2, <3>1 DEF RunInv, WorkStarted
  <2>4. LeaseUnused' /\ StrayLease' /\ RunOnce' /\ RunClaimed'
    BY <1>0, <2>1, <2>2 DEF RunInv, LeaseUnused, StrayLease, RunOnce, RunClaimed
  <2>5. QED  BY <1>0, <2>3, <2>4 DEF RunInv
<1>2. CASE RefuseClaim(m)
  <2>1. UNCHANGED <<started, runs, stray>> /\ net' \subseteq net
        /\ \A x \in Commands : worker'[x] = worker[x] \/ worker'[x] = "idle"
    BY <1>0, <1>2 DEF RefuseClaim, Refused, ThreadEnds, ThreadDies, hubVars, TypeInv, WorkInv, WorkTypes
  <2>2. QED  BY <1>0, <2>1 DEF RunInv, WorkStarted, LeaseUnused, StrayLease, RunOnce, RunClaimed
<1>3. CASE HandleReport(m)
  <2>1. UNCHANGED <<started, runs, stray>> /\ net' \subseteq net /\ started[c]
        /\ \A x \in Commands : worker'[x] = worker[x] \/ (x = c /\ worker'[x] = "exiting")
    BY <1>0, <1>3 DEF HandleReport, StartExit, RunInv, WorkStarted, TypeInv, WorkInv, WorkTypes
  <2>2. QED  BY <1>0, <2>1 DEF RunInv, WorkStarted, LeaseUnused, StrayLease, RunOnce, RunClaimed
<1>4. CASE HandleExit(m)
  <2>1. UNCHANGED <<started, runs, stray>> /\ net' \subseteq net
        /\ \A x \in Commands : worker'[x] = worker[x] \/ worker'[x] = "idle"
    BY <1>0, <1>4 DEF HandleExit, ThreadEnds, ExitRetried, TypeInv, WorkInv, WorkTypes
  <2>2. QED  BY <1>0, <2>1 DEF RunInv, WorkStarted, LeaseUnused, StrayLease, RunOnce, RunClaimed
<1>5. QED  BY <1>1, <1>2, <1>3, <1>4 DEF Handle

\* Every step of the loop keeps the run invariant.
LEMMA RunLoop ==
  ASSUME TypeInv, RunInv, RecordStep, NEW k \in Clients, Poll(k) \/ Loop(k)
  PROVE  RunInv'
<1>0. StartedIsOut'  BY StartedStays DEF RunInv
<1>1. CASE DispatchStart(k)
  <2>1. PICK i \in stream[k] : DispatchStart(k)!(i)  BY <1>1 DEF DispatchStart
  <2> DEFINE c == control[k][i].cmd
  <2>2. c \in Commands /\ UNCHANGED <<started, runs, stray>>
    BY <2>1, TypeConsume DEF Consume, hubVars
  <2>3. \A x \in Commands : worker'[x] = worker[x] \/ worker'[x] = "claiming"
    BY <2>1 DEF TypeInv, WorkInv, WorkTypes
  <2>4. \A x \in net' : x.type \in {"report", "exit"} => x \in net
    BY <2>1 DEF ClaimReq, WorkReq
  <2>5. QED  BY <1>0, <2>2, <2>3, <2>4 DEF RunInv, WorkStarted, LeaseUnused, StrayLease, RunOnce, RunClaimed
<1>2. CASE DispatchCancel(k)
  BY <1>2, RunFrame DEF DispatchCancel, Consume, hubVars
<1>3. CASE Crash(k) \/ Swap(k)
  <2>1. /\ UNCHANGED <<started, runs>> /\ Forget(k)
        /\ \A x \in Commands : worker'[x] = IF Target[x] = k THEN "idle" ELSE worker[x]
    BY <1>3 DEF Crash, Swap, Forget, hubVars
  <2>2. \A x \in net' : \E m \in net : x.type = m.type /\ x.cmd = m.cmd
    BY <2>1 DEF Forget, Abandoned, WorkReq
  <2>3. WorkStarted'
    BY <2>1, <2>2 DEF RunInv, WorkStarted
  <2>4. \A x \in Commands : \/ stray'[x] \in {"none", stray[x]}
                            \/ Target[x] = k /\ stray'[x] = worker[x] /\ worker[x] \in {"leased", "executing"}
    BY <1>3 DEF Crash, Swap, GoesOn
  <2>5. StrayLease'
    BY <2>1, <2>4 DEF RunInv, StrayLease, WorkStarted, LeaseUnused
  <2>6. QED  BY <1>0, <2>1, <2>3, <2>5 DEF RunInv, LeaseUnused, RunOnce, RunClaimed
<1>4. CASE Poll(k) \/ Connect(k) \/ ReconcileFails(k) \/ StreamBreaks(k) \/ Heartbeat(k) \/ Restart(k)
  BY <1>4, RunFrame DEF Poll, Connect, ReconcileFails, StreamBreaks, Heartbeat, Restart,
     hubVars, workVars
<1>5. QED  BY <1>1, <1>2, <1>3, <1>4 DEF Loop

\* Every step of a worker thread keeps the run invariant.
LEMMA RunWorker ==
  ASSUME TypeInv, RunInv, RecordStep, NEW c \in Commands, Worker(c)
  PROVE  RunInv'
<1>0. StartedIsOut'  BY StartedStays DEF RunInv
<1>1. CASE ClaimFails(c)
  <2>1. PICK m \in net : GiveUp(m) /\ ThreadDies(c) /\ UNCHANGED <<hubVars, runs, stray>>
    BY <1>1 DEF ClaimFails, Pending
  <2>2. UNCHANGED <<started, runs, stray>>  BY <2>1 DEF hubVars
  <2>3. \A x \in Commands : worker'[x] = worker[x] \/ worker'[x] = "idle"
    BY <2>1 DEF ThreadDies, TypeInv, WorkInv, WorkTypes
  <2>4. \A x \in net' : x.type \in {"report", "exit"} => started'[x.cmd]
    BY <2>1, <2>2, GiveUpKeepsStarted DEF RunInv
  <2>5. QED  BY <1>0, <2>2, <2>3, <2>4 DEF RunInv, WorkStarted, LeaseUnused, StrayLease, RunOnce, RunClaimed
<1>2. CASE Spawn(c)
  <2>1. started[c] /\ runs[c] = 0 /\ stray[c] # "leased" /\ UNCHANGED <<started, stray>>
    BY <1>2 DEF Spawn, RunInv, WorkStarted, LeaseUnused, StrayLease, hubVars
  <2>2. \A x \in Commands : worker'[x] = IF x = c THEN "executing" ELSE worker[x]
    BY <1>2 DEF Spawn, TypeInv, WorkInv, WorkTypes
  <2>3. \A x \in Commands : runs'[x] = runs[x] \/ (x = c /\ runs'[x] = 1)
    BY <1>2, <2>1 DEF Spawn, TypeInv, WorkInv, WorkTypes
  <2>4. \A x \in net' : x.type \in {"report", "exit"} => started'[x.cmd]
    BY <1>2, <2>1 DEF Spawn, ReportReq, WorkReq, RunInv, WorkStarted
  <2>5. QED  BY <1>0, <2>1, <2>2, <2>3, <2>4
               DEF RunInv, WorkStarted, LeaseUnused, StrayLease, RunOnce, RunClaimed
<1>3. CASE Output(c) \/ PostExit(c)
  <2>1. UNCHANGED <<started, worker, runs, stray>> /\ started[c]
    BY <1>3 DEF Output, PostExit, hubVars, workVars, RunInv, WorkStarted
  <2>2. \A x \in net' : x.type \in {"report", "exit"} => started'[x.cmd]
    BY <1>3, <2>1 DEF Output, PostExit, ReportReq, ExitReq, WorkReq, RunInv, WorkStarted
  <2>3. QED  BY <1>0, <2>1, <2>2 DEF RunInv, WorkStarted, LeaseUnused, StrayLease, RunOnce, RunClaimed
<1>4. CASE SetupFails(c) \/ Finish(c) \/ Terminate(c)
  <2>1. UNCHANGED <<started, runs, stray, net>> /\ started[c]
    BY <1>4 DEF SetupFails, Finish, Terminate, hubVars, RunInv, WorkStarted
  <2>2. \A x \in Commands : worker'[x] = IF x = c THEN "exiting" ELSE worker[x]
    BY <1>4 DEF SetupFails, Finish, Terminate, StartExit, TypeInv, WorkInv, WorkTypes
  <2>3. QED  BY <1>0, <2>1, <2>2 DEF RunInv, WorkStarted, LeaseUnused, StrayLease, RunOnce, RunClaimed
<1>5. CASE ReportFails(c)
  <2>1. PICK m \in net : GiveUp(m) /\ m.type = "report" /\ m.cmd = c /\ StartExit(c, "failed")
                         /\ UNCHANGED <<hubVars, runs, stray>>
    BY <1>5 DEF ReportFails, Pending
  <2>2. UNCHANGED <<started, runs, stray>> /\ started[c]  BY <2>1 DEF hubVars, RunInv, WorkStarted
  <2>3. \A x \in Commands : worker'[x] = IF x = c THEN "exiting" ELSE worker[x]
    BY <2>1 DEF StartExit, TypeInv, WorkInv, WorkTypes
  <2>4. \A x \in net' : x.type \in {"report", "exit"} => started'[x.cmd]
    BY <2>1, <2>2, GiveUpKeepsStarted DEF RunInv
  <2>5. QED  BY <1>0, <2>2, <2>3, <2>4 DEF RunInv, WorkStarted, LeaseUnused, StrayLease, RunOnce, RunClaimed
<1>6. CASE ExitFails(c)
  <2>1. PICK m \in net : GiveUp(m) /\ ExitRetried(c) /\ UNCHANGED <<hubVars, runs, stray>>
    BY <1>6 DEF ExitFails, Pending
  <2>2. UNCHANGED <<started, runs, stray, worker>>  BY <2>1 DEF hubVars, ExitRetried
  <2>3. \A x \in net' : x.type \in {"report", "exit"} => started'[x.cmd]
    BY <2>1, <2>2, GiveUpKeepsStarted DEF RunInv
  <2>4. QED  BY <1>0, <2>2, <2>3 DEF RunInv, WorkStarted, LeaseUnused, StrayLease, RunOnce, RunClaimed
<1>7. CASE OrphanEnds(c)
  BY <1>7, RunFrame DEF OrphanEnds, hubVars
<1>8. CASE StraySpawns(c)
  <2>1. started[c] /\ runs[c] = 0 /\ worker[c] # "leased" /\ UNCHANGED <<started, worker, net>>
    BY <1>8 DEF StraySpawns, RunInv, StrayLease, hubVars
  <2>2. \A x \in Commands : stray'[x] = IF x = c THEN "none" ELSE stray[x]
    BY <1>8 DEF StraySpawns, TypeInv, WorkInv, WorkTypes
  <2>3. \A x \in Commands : runs'[x] = runs[x] \/ (x = c /\ runs'[x] = 1)
    BY <1>8, <2>1 DEF StraySpawns, TypeInv, WorkInv, WorkTypes
  <2>4. QED  BY <1>0, <2>1, <2>2, <2>3
               DEF RunInv, WorkStarted, LeaseUnused, StrayLease, RunOnce, RunClaimed
<1>9. CASE StrayEnds(c)
  <2>1. UNCHANGED <<started, worker, runs, net>>  BY <1>9 DEF StrayEnds, hubVars
  <2>2. \A x \in Commands : stray'[x] \in {"none", stray[x]}
    BY <1>9 DEF StrayEnds, TypeInv, WorkInv, WorkTypes
  <2>3. QED  BY <1>0, <2>1, <2>2
               DEF RunInv, WorkStarted, LeaseUnused, StrayLease, RunOnce, RunClaimed
<1>10. QED  BY <1>1, <1>2, <1>3, <1>4, <1>5, <1>6, <1>7, <1>8, <1>9 DEF Worker

\* Every step keeps the run invariant.
LEMMA RunNext == TypeInv /\ RunInv /\ [Next]_vars => RunInv'
<1> SUFFICES ASSUME TypeInv, RunInv, [Next]_vars PROVE RunInv'
  OBVIOUS
<1>0. RecordStep  BY RecordSteps
<1>1. ASSUME NEW c \in Commands, Initiator(c) PROVE RunInv'
  BY <1>0, <1>1, RunFrame DEF Initiator, Create, CancelQueued, CancelRunning, workVars
<1>2. ASSUME NEW m \in recons, HandleReconcile(m) PROVE RunInv'
  BY <1>0, <1>2, RunFrame DEF HandleReconcile, workVars
<1>3. CASE Time \/ Reap
  BY <1>0, <1>3, RunFrame DEF Time, BecomeOverdue, BecomeStale, Reap, workVars
<1>4. CASE UNCHANGED vars
  BY <1>0, <1>4, RunFrame DEF vars, hubVars, workVars
<1>5. QED  BY <1>0, <1>1, <1>2, <1>3, <1>4, RunHandle, RunLoop, RunWorker DEF Next

\* The run invariant holds always.
LEMMA RunAlways == Spec => [](TypeInv /\ RunInv)
<1>1. Init => RunInv
  BY DEF Init, RunInv, WorkStarted, StartedIsOut, LeaseUnused, StrayLease, RunOnce, RunClaimed
<1>2. QED  BY <1>1, TypeInit, TypeNext, RunNext, PTL DEF Spec

\* A command's program is started at most once, and never before the command
\* was claimed - across crashes, restarts, replayed start events, lost answers
\* and claims that the hub handles late.
THEOREM AtMostOneRun == Spec => [](RunOnce /\ RunClaimed)
<1>1. RunInv => RunOnce /\ RunClaimed  BY DEF RunInv
<1>2. QED  BY <1>1, RunAlways, PTL

-----------------------------------------------------------------------------
(* The log in order.  What the reports on their way say agrees with the    *)
(* log: a command that no worker has spawned has none of either, a start   *)
(* is reported once and not yet logged, output is reported after the start *)
(* was logged, and a worker that executes has its start in the log or on   *)
(* its way.                                                                *)

Unspawned(c)    == ~started[c] \/ worker[c] = "leased"
ReportsOf(c, b) == {m \in net : m.cmd = c /\ m.type = "report" /\ m.body = b}
StartLogged(c)  == Holds(events[c], "started")

OrderOf(c) ==
    /\ StartedFirst(events[c])
    /\ Unspawned(c) => ReportsOf(c, "started") = {} /\ ReportsOf(c, "output") = {} /\ ~StartLogged(c)
    /\ ReportsOf(c, "started") # {} => ~StartLogged(c)
    /\ \A m, n \in ReportsOf(c, "started") : m = n
    /\ ReportsOf(c, "output") # {} => StartLogged(c)
    /\ worker[c] = "executing" => StartLogged(c) \/ ReportReq(c, "started") \in net

OrderInv == \A c \in Commands : OrderOf(c)

\* What appending does to the events a log holds.
LEMMA HoldsAppend ==
  ASSUME NEW log \in Seq({"started", "output", "exit"}), NEW e \in {"started", "output", "exit"}
  PROVE  \A x : Holds(Append(log, e), x) <=> Holds(log, x) \/ x = e
<1>1. Len(log) \in Nat /\ Len(Append(log, e)) = Len(log) + 1 /\ Append(log, e)[Len(log) + 1] = e
      /\ \A i \in 1 .. Len(log) : Append(log, e)[i] = log[i]
  OBVIOUS
<1>2. TAKE x
<1>3. ASSUME Holds(log, x) PROVE Holds(Append(log, e), x)  BY <1>1, <1>3 DEF Holds
<1>4. ASSUME x = e PROVE Holds(Append(log, e), x)  BY <1>1, <1>4 DEF Holds
<1>5. ASSUME Holds(Append(log, e), x), x # e PROVE Holds(log, x)
  <2>1. PICK i \in 1 .. Len(log) + 1 : Append(log, e)[i] = x  BY <1>1, <1>5 DEF Holds
  <2>2. i \in 1 .. Len(log)  BY <1>1, <1>5, <2>1
  <2>3. QED  BY <1>1, <2>1, <2>2 DEF Holds
<1>6. QED  BY <1>3, <1>4, <1>5

\* An exit may always be logged, a start into a log that has none, output
\* into one that has its start.
LEMMA OrderAppend ==
  ASSUME NEW log \in Seq({"started", "output", "exit"}), NEW e \in {"started", "output", "exit"},
         StartedFirst(log),
         e = "started" => ~Holds(log, "started"),
         e = "output" => Holds(log, "started")
  PROVE  StartedFirst(Append(log, e))
<1> DEFINE n == Len(log) + 1
           new == Append(log, e)
<1>1. Len(log) \in Nat /\ Len(new) = n /\ new[n] = e /\ \A i \in 1 .. Len(log) : new[i] = log[i]
  OBVIOUS
<1>2. \A i \in 1 .. n : i = n \/ i \in 1 .. Len(log)  BY <1>1
<1> HIDE DEF n, new
<1>3. ASSUME NEW i \in 1 .. n, NEW j \in 1 .. n, new[i] = "started", new[j] = "started" PROVE i = j
  BY <1>1, <1>2, <1>3 DEF StartedFirst, Holds
<1>4. ASSUME NEW i \in 1 .. n, new[i] = "output" PROVE \E j \in 1 .. i - 1 : new[j] = "started"
  <2>1. PICK j \in 1 .. Len(log) : j < i /\ log[j] = "started"
    <3>1. CASE i = n
      <4>1. PICK j \in 1 .. Len(log) : log[j] = "started"  BY <1>1, <1>4, <3>1 DEF Holds
      <4>2. j < n  BY <1>1 DEF n
      <4>3. QED  BY <3>1, <4>1, <4>2
    <3>2. CASE i \in 1 .. Len(log)
      <4>1. PICK j \in 1 .. i - 1 : log[j] = "started"  BY <1>1, <1>4, <3>2 DEF StartedFirst
      <4>2. j \in 1 .. Len(log) /\ j < i  BY <1>1, <3>2
      <4>3. QED  BY <4>1, <4>2
    <3>3. QED  BY <1>2, <3>1, <3>2
  <2>2. j \in 1 .. i - 1  BY <1>1, <2>1 DEF n
  <2>3. new[j] = "started"  BY <1>1, <2>1
  <2>4. QED  BY <2>2, <2>3
<1>5. StartedFirst(new)  BY <1>1, <1>3, <1>4 DEF StartedFirst
<1>6. QED  BY <1>5 DEF new

\* What a step may do with the reports and the log of a command: spawn and
\* report the start, report output, log a report, or only give reports up.
SpawnReported(c) ==
    /\ worker[c] = "leased" /\ worker'[c] = "executing"
    /\ net' = net \cup {ReportReq(c, "started")}
    /\ started[c] /\ started'[c] /\ events'[c] = events[c]

OutputReported(c) ==
    /\ worker[c] = "executing" /\ worker'[c] = "executing"
    /\ ReportReq(c, "started") \notin net
    /\ net' = net \cup {ReportReq(c, "output")}
    /\ started'[c] = started[c] /\ events'[c] = events[c]

ReportLogged(c) ==
    /\ \E m \in net : /\ m.type = "report" /\ m.cmd = c /\ net' = net \ {m}
                      /\ events'[c] = Append(events[c], m.body)
    /\ worker'[c] \in {worker[c], "exiting"} /\ started'[c] = started[c]

NothingReported(c) ==
    /\ events'[c] \in {events[c], Append(events[c], "exit")}
    /\ Unspawned(c)' => Unspawned(c)
    /\ \A m \in net' : m.cmd = c /\ m.type = "report" =>
         m \in net \/ \E n \in net \ net' : m = Abandoned(n)
    /\ worker'[c] = "executing" =>
         /\ worker[c] = "executing"
         /\ ReportReq(c, "started") \in net => ReportReq(c, "started") \in net'

LogStep(c) == SpawnReported(c) \/ OutputReported(c) \/ ReportLogged(c) \/ NothingReported(c)

\* Each kind of step keeps a command's log and reports in order.
LEMMA OrderStep == ASSUME TypeInv, NEW c \in Commands, OrderOf(c), LogStep(c) PROVE OrderOf(c)'
<1>0. events[c] \in Seq({"started", "output", "exit"})  BY DEF TypeInv, HubTypes
<1> DEFINE SR == ReportReq(c, "started")
           OR == ReportReq(c, "output")
<1>r. /\ SR.cmd = c /\ SR.type = "report" /\ SR.body = "started"
      /\ OR.cmd = c /\ OR.type = "report" /\ OR.body = "output"
  BY DEF ReportReq, WorkReq
<1> HIDE DEF SR, OR
<1>1. CASE SpawnReported(c)
  <2>1. /\ ReportsOf(c, "started")' = ReportsOf(c, "started") \cup {SR}
        /\ ReportsOf(c, "output")' = ReportsOf(c, "output")
    BY <1>1, <1>r DEF SpawnReported, ReportsOf, SR
  <2>2. Unspawned(c)  BY <1>1 DEF SpawnReported, Unspawned
  <2>3. ReportsOf(c, "started") = {} /\ ReportsOf(c, "output") = {} /\ ~StartLogged(c)
    BY <2>2 DEF OrderOf
  <2>4. QED
    BY <1>1, <2>1, <2>3 DEF SpawnReported, OrderOf, Unspawned, StartLogged, SR
<1>2. CASE OutputReported(c)
  <2>1. /\ ReportsOf(c, "started")' = ReportsOf(c, "started")
        /\ ReportsOf(c, "output")' = ReportsOf(c, "output") \cup {OR}
    BY <1>2, <1>r DEF OutputReported, ReportsOf, OR
  <2>2. StartLogged(c)  BY <1>2 DEF OutputReported, OrderOf
  <2>3. ~Unspawned(c) /\ ~Unspawned(c)' /\ StartLogged(c)'
    BY <1>2, <2>2 DEF OutputReported, OrderOf, Unspawned, StartLogged
  <2>4. QED  BY <1>2, <2>1, <2>2, <2>3 DEF OutputReported, OrderOf
<1>3. CASE ReportLogged(c)
  <2>1. PICK m \in net : /\ m.type = "report" /\ m.cmd = c /\ net' = net \ {m}
                         /\ events'[c] = Append(events[c], m.body)
    BY <1>3 DEF ReportLogged
  <2>2. m.body \in {"started", "output"}  BY <2>1, RequestTypes DEF TypeInv
  <2>3. \A b : ReportsOf(c, b)' = ReportsOf(c, b) \ {m}  BY <2>1 DEF ReportsOf
  <2>4. m \in ReportsOf(c, m.body)  BY <2>1 DEF ReportsOf
  <2>5. \A x : Holds(events'[c], x) <=> Holds(events[c], x) \/ x = m.body
    BY <1>0, <2>1, <2>2, HoldsAppend
  <2>6. ~Unspawned(c)  BY <2>2, <2>4 DEF OrderOf
  <2>7. ~Unspawned(c)' /\ StartLogged(c)'
    BY <1>3, <2>2, <2>4, <2>5, <2>6 DEF ReportLogged, Unspawned, OrderOf, StartLogged
  <2>8. StartedFirst(events'[c])
    BY <1>0, <2>1, <2>2, <2>4, OrderAppend DEF OrderOf, StartLogged
  <2>9. ReportsOf(c, "started")' = {}
    <3>1. CASE m.body = "started"  BY <2>3, <2>4, <3>1 DEF OrderOf
    <3>2. CASE m.body = "output"
      <4>1. StartLogged(c)  BY <2>4, <3>2 DEF OrderOf
      <4>2. QED  BY <2>3, <4>1 DEF OrderOf
    <3>3. QED  BY <2>2, <3>1, <3>2
  <2>10. QED  BY <2>7, <2>8, <2>9 DEF OrderOf
<1>4. CASE NothingReported(c)
  <2>1. events'[c] \in Seq({"started", "output", "exit"}) /\ StartedFirst(events'[c])
        /\ \A x \in {"started", "output"} : Holds(events'[c], x) <=> Holds(events[c], x)
    <3>1. CASE events'[c] = events[c]  BY <1>0, <3>1 DEF OrderOf
    <3>2. CASE events'[c] = Append(events[c], "exit")
      <4>1. Append(events[c], "exit") \in Seq({"started", "output", "exit"})  BY <1>0
      <4>2. StartedFirst(Append(events[c], "exit"))  BY <1>0, OrderAppend DEF OrderOf
      <4>3. \A x : Holds(Append(events[c], "exit"), x) <=> Holds(events[c], x) \/ x = "exit"
        BY <1>0, HoldsAppend
      <4>4. QED  BY <3>2, <4>1, <4>2, <4>3
    <3>3. QED  BY <1>4, <3>1, <3>2 DEF NothingReported
  <2>2. StartLogged(c)' <=> StartLogged(c)  BY <2>1 DEF StartLogged
  <2>3. ASSUME NEW b, NEW m \in ReportsOf(c, b)'
        PROVE  \/ m \in ReportsOf(c, b)
               \/ \E n \in ReportsOf(c, b) : n \notin net' /\ m = Abandoned(n)
    <3>1. m \in net' /\ m.cmd = c /\ m.type = "report" /\ m.body = b  BY <2>3 DEF ReportsOf
    <3>2. CASE m \in net  BY <3>1, <3>2 DEF ReportsOf
    <3>3. ASSUME NEW n \in net, n \notin net', m = Abandoned(n) PROVE n \in ReportsOf(c, b)
      BY <3>1, <3>3 DEF ReportsOf, Abandoned, WorkReq
    <3>4. QED  BY <1>4, <3>1, <3>2, <3>3 DEF NothingReported
  <2>4. \A b : ReportsOf(c, b) = {} => ReportsOf(c, b)' = {}  BY <2>3
  <2>5. ASSUME NEW m \in ReportsOf(c, "started")', NEW n \in ReportsOf(c, "started")'
        PROVE  m = n
    <3>1. PICK o \in ReportsOf(c, "started") : m = o \/ (o \notin net' /\ m = Abandoned(o))
      BY <2>3
    <3>2. PICK p \in ReportsOf(c, "started") : n = p \/ (p \notin net' /\ n = Abandoned(p))
      BY <2>3
    <3>3. o = p  BY DEF OrderOf
    <3>4. m \in net' /\ n \in net'  BY DEF ReportsOf
    <3>5. QED  BY <3>1, <3>2, <3>3, <3>4
  <2>6. QED  BY <1>4, <2>1, <2>2, <2>4, <2>5 DEF NothingReported, OrderOf
<1>5. QED  BY <1>1, <1>2, <1>3, <1>4 DEF LogStep

\* The steps that leave workers and requests alone, and log nothing or an exit.
LEMMA SilentStep ==
  ASSUME NEW c \in Commands, UNCHANGED <<started, worker, net>>,
         events'[c] \in {events[c], Append(events[c], "exit")}
  PROVE  NothingReported(c)
  BY DEF NothingReported, Unspawned

\* The exits a set of records gets.
LEMMA ResolvedLog ==
  ASSUME NEW c \in Commands, NEW S, NEW st, NEW why, Resolve(S, st, why)
  PROVE  events'[c] \in {events[c], Append(events[c], "exit")}
  BY DEF Resolve

\* A handled request of a worker: only a report logs more than an exit.
LEMMA LogHandle ==
  ASSUME TypeInv, RunInv, NEW m \in net, Handle(m), NEW c \in Commands
  PROVE  LogStep(c)
<1>0. m.cmd \in Commands /\ (m.type = "report" => m.body \in {"started", "output"})
  BY RequestTypes DEF TypeInv
<1>1. net' = net \ {m}
  BY DEF Handle, GrantClaim, RefuseClaim, HandleReport, HandleExit
<1>2. \A n \in net' : n \in net  BY <1>1
<1>3. m.type # "report" \/ m.cmd # c => (ReportReq(c, "started") \in net => ReportReq(c, "started") \in net')
  BY <1>1 DEF ReportReq, WorkReq
<1>4. CASE GrantClaim(m)
  <2>1. events' = events /\ m.type = "claim"  BY <1>4 DEF GrantClaim
  <2>2. Unspawned(c)' => Unspawned(c)
    BY <1>0, <1>4 DEF GrantClaim, Claimable, ThreadDies, Unspawned, RunInv, StartedIsOut, TypeInv,
       HubTypes, WorkInv, WorkTypes
  <2>3. worker'[c] = "executing" => worker[c] = "executing"
    BY <1>0, <1>4 DEF GrantClaim, ThreadDies, TypeInv, WorkInv, WorkTypes
  <2>4. QED  BY <1>2, <1>3, <2>1, <2>2, <2>3 DEF NothingReported, LogStep
<1>5. CASE RefuseClaim(m)
  <2>1. events' = events /\ started' = started /\ m.type = "claim"
    BY <1>5 DEF RefuseClaim, hubVars
  <2>2. worker'[c] \in {worker[c], "idle"}
    BY <1>0, <1>5 DEF RefuseClaim, Refused, ThreadEnds, ThreadDies, TypeInv, WorkInv, WorkTypes
  <2>3. QED  BY <1>2, <1>3, <2>1, <2>2 DEF NothingReported, LogStep, Unspawned
<1>6. CASE HandleReport(m)
  <2>1. /\ events' = [events EXCEPT ![m.cmd] = Append(@, m.body)] /\ started' = started
        /\ m.type = "report"
    BY <1>6 DEF HandleReport
  <2>2. worker'[c] \in {worker[c], "exiting"} /\ (m.cmd # c => worker'[c] = worker[c])
    BY <1>0, <1>6 DEF HandleReport, StartExit, TypeInv, WorkInv, WorkTypes
  <2>3. CASE m.cmd = c
    <3>1. events'[c] = Append(events[c], m.body)  BY <2>1, <2>3 DEF TypeInv, HubTypes
    <3>2. QED  BY <1>1, <2>1, <2>2, <2>3, <3>1 DEF ReportLogged, LogStep
  <2>4. CASE m.cmd # c
    <3>1. events'[c] = events[c]  BY <2>1, <2>4 DEF TypeInv, HubTypes
    <3>2. QED  BY <1>2, <1>3, <2>1, <2>2, <2>4, <3>1 DEF NothingReported, LogStep, Unspawned
  <2>5. QED  BY <2>3, <2>4
<1>7. CASE HandleExit(m)
  <2>1. started' = started /\ m.type = "exit"  BY <1>7 DEF HandleExit
  <2>2. worker'[c] \in {worker[c], "idle"}
    BY <1>0, <1>7 DEF HandleExit, ThreadEnds, ExitRetried, TypeInv, WorkInv, WorkTypes
  <2>3. events'[c] \in {events[c], Append(events[c], "exit")}
    BY <1>7, ResolvedLog DEF HandleExit, ApplyExit
  <2>4. QED  BY <1>2, <1>3, <2>1, <2>2, <2>3 DEF NothingReported, LogStep, Unspawned
<1>8. QED  BY <1>4, <1>5, <1>6, <1>7 DEF Handle

\* The consume loop logs nothing; a crash only gives reports up.
LEMMA LogLoop ==
  ASSUME TypeInv, NEW k \in Clients, Poll(k) \/ Loop(k), NEW c \in Commands
  PROVE  NothingReported(c)
<1>1. CASE DispatchStart(k)
  <2>1. PICK i \in stream[k] : DispatchStart(k)!(i)  BY <1>1 DEF DispatchStart
  <2> DEFINE x == control[k][i].cmd
  <2>2. UNCHANGED <<started, events>>  BY <2>1 DEF Consume, hubVars
  <2>3. worker'[c] \in {worker[c], "claiming"} /\ net' \subseteq net \cup {ClaimReq(x)} /\ net \subseteq net'
    BY <2>1 DEF TypeInv, WorkInv, WorkTypes
  <2>4. ClaimReq(x).type = "claim"  BY DEF ClaimReq, WorkReq
  <2> HIDE DEF x
  <2>5. QED  BY <2>2, <2>3, <2>4 DEF NothingReported, Unspawned
<1>2. CASE Crash(k) \/ Swap(k)
  <2> DEFINE cut == {m \in net : Target[m.cmd] = k /\ m.waiting}
  <2>1. UNCHANGED <<started, events>>
        /\ worker'[c] = IF Target[c] = k THEN "idle" ELSE worker[c]
    BY <1>2 DEF Crash, Swap, Forget, hubVars
  <2>2. PICK late \in SUBSET cut : net' = (net \ cut) \cup {Abandoned(m) : m \in late}
    BY <1>2 DEF Crash, Swap, Forget
  <2>3. \A m : ~Abandoned(m).waiting  BY DEF Abandoned, WorkReq
  <2>4. \A m \in cut : m \in net \ net'  BY <2>2, <2>3
  <2>5. \A m \in net' : m \in net \/ \E n \in net \ net' : m = Abandoned(n)
    BY <2>2, <2>4
  <2>6. Target[c] # k /\ ReportReq(c, "started") \in net => ReportReq(c, "started") \in net'
    <3>1. ReportReq(c, "started").cmd = c  BY DEF ReportReq, WorkReq
    <3>2. QED  BY <2>2, <3>1
  <2>7. QED  BY <2>1, <2>5, <2>6 DEF NothingReported, Unspawned
<1>3. CASE \/ Poll(k) \/ Connect(k) \/ ReconcileFails(k) \/ StreamBreaks(k) \/ Heartbeat(k)
           \/ Restart(k) \/ DispatchCancel(k)
  BY <1>3, SilentStep DEF Poll, Connect, ReconcileFails, StreamBreaks, Heartbeat, Restart,
     DispatchCancel, Consume, hubVars, workVars
<1>4. QED  BY <1>1, <1>2, <1>3 DEF Loop

\* A worker reports its start when it spawns, its output when that is logged.
LEMMA LogWorker ==
  ASSUME TypeInv, RunInv, NEW x \in Commands, Worker(x), NEW c \in Commands
  PROVE  LogStep(c)
<1>0. worker \in [Commands -> {"idle", "claiming", "leased", "executing", "exiting"}]
  BY DEF TypeInv, WorkInv, WorkTypes
<1>1. UNCHANGED <<started, events>>
  BY DEF Worker, ClaimFails, SetupFails, Spawn, Output, Finish, Terminate, ReportFails, PostExit,
     ExitFails, StraySpawns, StrayEnds, OrphanEnds, hubVars
<1>2. CASE Spawn(x)
  <2>1. /\ worker[x] = "leased" /\ worker' = [worker EXCEPT ![x] = "executing"]
        /\ net' = net \cup {ReportReq(x, "started")} /\ started[x]
    BY <1>2 DEF Spawn, RunInv, WorkStarted
  <2>2. CASE c = x  BY <1>0, <1>1, <2>1, <2>2 DEF SpawnReported, LogStep
  <2>3. CASE c # x
    <3>1. ReportReq(x, "started").cmd = x  BY DEF ReportReq, WorkReq
    <3>2. QED  BY <1>0, <1>1, <2>1, <2>3, <3>1 DEF NothingReported, Unspawned, LogStep
  <2>4. QED  BY <2>2, <2>3
<1>3. CASE Output(x)
  <2>1. /\ worker[x] = "executing" /\ worker' = worker /\ Pending(x) = {}
        /\ net' = net \cup {ReportReq(x, "output")}
    BY <1>3 DEF Output, workVars
  <2>2. CASE c = x
    <3>1. ReportReq(x, "started") \notin net  BY <2>1 DEF Pending, ReportReq, WorkReq
    <3>2. QED  BY <1>1, <2>1, <2>2, <3>1 DEF OutputReported, LogStep
  <2>3. CASE c # x
    <3>1. ReportReq(x, "output").cmd = x  BY DEF ReportReq, WorkReq
    <3>2. QED  BY <1>1, <2>1, <2>3, <3>1 DEF NothingReported, Unspawned, LogStep
  <2>4. QED  BY <2>2, <2>3
<1>4. CASE PostExit(x)
  <2>1. worker' = worker /\ net' = net \cup {ExitReq(x, outcome[x])}
    BY <1>4 DEF PostExit, workVars
  <2>2. ExitReq(x, outcome[x]).type = "exit"  BY DEF ExitReq, WorkReq
  <2>3. QED  BY <1>1, <2>1, <2>2 DEF NothingReported, Unspawned, LogStep
<1>5. CASE \/ SetupFails(x) \/ Finish(x) \/ Terminate(x) \/ StraySpawns(x) \/ StrayEnds(x)
           \/ OrphanEnds(x)
  <2>1. net' = net /\ worker'[c] \in {worker[c], "exiting"}
    BY <1>0, <1>5 DEF SetupFails, Finish, Terminate, StraySpawns, StrayEnds, OrphanEnds, StartExit
  <2>2. QED  BY <1>1, <2>1 DEF NothingReported, Unspawned, LogStep
<1>6. CASE ClaimFails(x) \/ ReportFails(x) \/ ExitFails(x)
  <2>1. PICK m \in net : /\ m.cmd = x /\ m.waiting /\ GiveUp(m)
                         /\ \/ m.type \in {"claim", "exit"} /\ worker'[c] \in {worker[c], "idle"}
                            \/ worker' = [worker EXCEPT ![x] = "exiting"]
    BY <1>0, <1>6 DEF ClaimFails, ReportFails, ExitFails, Pending, ThreadDies, StartExit, ExitRetried
  <2>2. Abandoned(m) # m  BY <2>1 DEF Abandoned, WorkReq
  <2>3. \A n \in net' : n \in net \/ (n = Abandoned(m) /\ m \in net \ net')
    BY <2>1, <2>2 DEF GiveUp
  <2>4. \A n \in net : n # m => n \in net'  BY <2>1 DEF GiveUp
  <2>5. worker'[c] \in {worker[c], "idle", "exiting"}  BY <1>0, <2>1
  <2>6. worker'[c] = "executing" => m # ReportReq(c, "started")
    BY <1>0, <2>1 DEF ReportReq, WorkReq
  <2>7. QED  BY <1>1, <2>3, <2>4, <2>5, <2>6 DEF NothingReported, Unspawned, LogStep
<1>7. QED  BY <1>2, <1>3, <1>4, <1>5, <1>6 DEF Worker

\* Every step keeps every log in order.
LEMMA OrderNext == TypeInv /\ RunInv /\ OrderInv /\ [Next]_vars => OrderInv'
<1> SUFFICES ASSUME TypeInv, RunInv, OrderInv, [Next]_vars, NEW c \in Commands
             PROVE  LogStep(c)
  BY OrderStep DEF OrderInv
<1>1. ASSUME NEW x \in Commands, Initiator(x) PROVE NothingReported(c)
  BY <1>1, SilentStep, ResolvedLog DEF Initiator, Create, CancelQueued, CancelRunning, workVars
<1>2. ASSUME NEW m \in recons, HandleReconcile(m) PROVE NothingReported(c)
  BY <1>2, SilentStep, ResolvedLog DEF HandleReconcile, workVars
<1>3. CASE Time \/ Reap
  BY <1>3, SilentStep, ResolvedLog DEF Time, BecomeOverdue, BecomeStale, Reap, workVars, LogStep
<1>4. CASE UNCHANGED vars
  BY <1>4, SilentStep DEF vars, hubVars, workVars, LogStep
<1>5. QED  BY <1>1, <1>2, <1>3, <1>4, LogHandle, LogLoop, LogWorker DEF Next, LogStep

\* The logs an initiator reads are in order, under every fault: one start
\* before any output however many answers are lost and reports handled late,
\* and one exit exactly when the record is terminal.
THEOREM LogOrdered == Spec => []LogInOrder
<1>1. Init => OrderInv
  BY DEF Init, OrderInv, OrderOf, Unspawned, ReportsOf, StartLogged, Holds, StartedFirst
<1>2. Spec => []OrderInv  BY <1>1, RunAlways, OrderNext, PTL DEF Spec
<1>3. ExitOnce /\ OrderInv => LogInOrder  BY DEF LogInOrder, OrderInv, OrderOf
<1>4. QED  BY <1>2, <1>3, OneExit, PTL

-----------------------------------------------------------------------------
(* Commands implements CommandLife *)

ProgramStart(c) ==
    /\ started[c] /\ runs[c] = 0 /\ runs' = [runs EXCEPT ![c] = 1]
    /\ UNCHANGED hubVars

\* A step that counts a run is the first start of a claimed command.
LEMMA RunSteps ==
  ASSUME TypeInv, RunInv, [Next]_vars
  PROVE  runs' = runs \/ \E c \in Commands : ProgramStart(c)
<1>1. ASSUME NEW c \in Commands, Spawn(c) \/ StraySpawns(c), runs' # runs PROVE ProgramStart(c)
  BY <1>1 DEF Spawn, StraySpawns, ProgramStart, RunInv, StrayLease, WorkStarted, LeaseUnused, TypeInv, WorkInv, WorkTypes
<1>2. ASSUME NEW c \in Commands, Worker(c), ~Spawn(c), ~StraySpawns(c) PROVE runs' = runs
  BY <1>2 DEF Worker, ClaimFails, SetupFails, Output, Finish, Terminate, ReportFails, PostExit, ExitFails,
     StrayEnds, OrphanEnds, workVars
<1>3. ASSUME NEW c \in Commands, Initiator(c) PROVE runs' = runs
  BY <1>3 DEF Initiator, Create, CancelQueued, CancelRunning, workVars
<1>4. ASSUME NEW k \in Clients, Poll(k) \/ Loop(k) PROVE runs' = runs
  BY <1>4 DEF Poll, Loop, Connect, ReconcileFails, StreamBreaks, Heartbeat, DispatchStart,
     DispatchCancel, Consume, Crash, Swap, Restart, workVars
<1>5. ASSUME NEW m \in net, Handle(m) PROVE runs' = runs
  BY <1>5 DEF Handle, GrantClaim, RefuseClaim, HandleReport, HandleExit
<1>6. ASSUME NEW m \in recons, HandleReconcile(m) PROVE runs' = runs
  BY <1>6 DEF HandleReconcile, workVars
<1>7. CASE Time \/ Reap \/ UNCHANGED vars
  BY <1>7 DEF Time, BecomeOverdue, BecomeStale, Reap, vars, workVars
<1>8. QED  BY <1>1, <1>2, <1>3, <1>4, <1>5, <1>6, <1>7 DEF Next

Exits == [c \in Commands |-> Cardinality(ExitsAt(c))]

\* The count of exits depends on the log of events only.
LEMMA ExitsUnchanged ==
  ASSUME TypeInv, ExitOnce,
         \/ UNCHANGED events
         \/ \E x \in Commands : Created(x) \/ Claimed(x) \/ Reported(x)
  PROVE  Exits' = Exits
<1>1. CASE UNCHANGED events  BY <1>1 DEF Exits, ExitsAt
<1>2. CASE \E x \in Commands : Created(x) \/ Claimed(x) \/ Reported(x)
  <2>1. \A c \in Commands : ExitsAt(c)' = ExitsAt(c)  BY <1>2, ExitsStep
  <2>2. QED  BY <2>1 DEF Exits
<1>3. QED  BY <1>1, <1>2

\* Resolving records raises their count of exits by one.
LEMMA ExitsCounted ==
  ASSUME TypeInv, ExitOnce, NEW S \in SUBSET Commands, Resolved(S)
  PROVE  Exits' = [c \in Commands |-> IF c \in S THEN Exits[c] + 1 ELSE Exits[c]]
<1>1. SUFFICES ASSUME NEW c \in Commands
               PROVE  Cardinality(ExitsAt(c)') = IF c \in S THEN Cardinality(ExitsAt(c)) + 1
                                                ELSE Cardinality(ExitsAt(c))
  BY DEF Exits
<1>2. CASE c \in S
  <2>1. ExitsAt(c) = {} /\ ExitsAt(c)' = {Len(events[c]) + 1}
    BY <1>2, ExitsStep DEF Resolved
  <2>2. Cardinality(ExitsAt(c)) = 0
    <3>1. Cardinality({}) = 0  BY FS_EmptySet
    <3>2. QED  BY <2>1, <3>1
  <2>3. Cardinality(ExitsAt(c)') = 1
    <3>1. Cardinality({Len(events[c]) + 1}) = 1  BY FS_Singleton
    <3>2. QED  BY <2>1, <3>1
  <2>4. QED  BY <1>2, <2>2, <2>3
<1>3. CASE c \notin S  BY <1>3, ExitsStep
<1>4. QED  BY <1>2, <1>3

\* Every step is a step of CommandLife or leaves its variables alone.
LEMMA LifeStep ==
  ASSUME TypeInv, ExitOnce, RunInv, [Next]_vars
  PROVE  [Life!LifeNext]_(Life!lifeVars)
<1> USE DEF Life!lifeVars
<1>0. RecordStep /\ (runs' = runs \/ \E c \in Commands : ProgramStart(c))
  BY RecordSteps, RunSteps
<1>1. ASSUME NEW c \in Commands, ProgramStart(c) PROVE Life!LifeNext
  <2>1. Exits' = Exits  BY <1>1, ExitsUnchanged DEF ProgramStart, hubVars
  <2>2. Life!LifeRun(c)
    BY <1>1, <2>1 DEF ProgramStart, hubVars, Life!LifeRun, Exits
  <2>3. QED  BY <2>2 DEF Life!LifeNext
<1>2. CASE UNCHANGED <<status, reason, started, events>> /\ runs' = runs
  BY <1>2, ExitsUnchanged DEF Exits
<1>3. ASSUME NEW c \in Commands, Created(c) \/ Claimed(c) \/ Reported(c), runs' = runs
      PROVE  [Life!LifeNext]_(Life!lifeVars)
  <2>1. Exits' = Exits  BY <1>3, ExitsUnchanged
  <2>2. Created(c) => Life!LifeCreate(c)
    BY <1>3, <2>1 DEF Created, Life!LifeCreate, Exits
  <2>3. Claimed(c) => Life!LifeClaim(c)
    BY <1>3, <2>1 DEF Claimed, Life!LifeClaim, Exits
  <2>4. Reported(c) => UNCHANGED Life!lifeVars
    BY <1>3, <2>1 DEF Reported, Exits
  <2>5. QED  BY <1>3, <2>2, <2>3, <2>4 DEF Life!LifeNext
<1>4. ASSUME NEW S \in SUBSET Commands, Resolved(S), runs' = runs PROVE Life!LifeNext
  <2>1. Exits' = [c \in Commands |-> IF c \in S THEN Exits[c] + 1 ELSE Exits[c]]
    BY <1>4, ExitsCounted
  <2>2. PICK st \in Terminal, why \in [S -> Reasons] : Resolve(S, st, why)
    BY <1>4 DEF Resolved
  <2>3. \E f \in [S -> Life!Terminal] :
          status' = [c \in Commands |-> IF c \in S THEN f[c] ELSE status[c]]
    <3>1. [c \in S |-> st] \in [S -> Life!Terminal]  BY DEF Terminal, Life!Terminal
    <3>2. status' = [c \in Commands |-> IF c \in S THEN [x \in S |-> st][c] ELSE status[c]]
      BY <2>2 DEF Resolve
    <3>3. QED  BY <3>1, <3>2
  <2>4. \A c \in S : status[c] \in Life!Open  BY <1>4 DEF Resolved, Open, Life!Open
  <2>5. started' = started  BY <1>4 DEF Resolved
  <2>6. Life!LifeResolve(S)  BY <1>4, <2>1, <2>3, <2>4, <2>5 DEF Life!LifeResolve, Exits
  <2>7. QED  BY <2>6 DEF Life!LifeNext
<1>5. QED  BY <1>0, <1>1, <1>2, <1>3, <1>4 DEF RecordStep

\* The initial state is an initial state of CommandLife.
LEMMA LifeStart == Init => Life!LifeInit
<1> SUFFICES ASSUME Init PROVE Life!LifeInit
  OBVIOUS
<1>1. \A c \in Commands : ExitsAt(c) = {}  BY DEF Init, ExitsAt
<1>2. Exits = [c \in Commands |-> 0]  BY <1>1, FS_EmptySet DEF Exits
<1>3. QED  BY <1>2 DEF Init, Life!LifeInit, Exits

\* Whatever the faults, the hub's records, the events of a command and the
\* programs started for it behave as the abstract life of a command says:
\* queued, claimed once, run at most once, resolved once with one exit.
THEOREM LifeImplemented == Spec => ImplementsLife
<1>1. TypeInv /\ ExitOnce /\ RunInv /\ [Next]_vars => [Life!LifeNext]_(Life!lifeVars)
  BY LifeStep
<1>2. Spec => [](TypeInv /\ ExitOnce /\ RunInv)
  BY ExitOnceAlways, RunAlways, PTL
<1>3. QED  BY <1>1, <1>2, LifeStart, PTL DEF Spec, ImplementsLife, Life!LifeSpec
=============================================================================
