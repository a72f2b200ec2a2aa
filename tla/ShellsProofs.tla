---------------------------- MODULE ShellsProofs ----------------------------
(***************************************************************************)
(* Proofs about Shells, for every set of sessions and faults, every bound. *)
(***************************************************************************)
EXTENDS Shells, FiniteSetTheorems, SequenceTheorems, TLAPS

-----------------------------------------------------------------------------
(* Types.  TypeOK is not inductive: a terminal event carries the outcome   *)
(* of a thread that has one.                                               *)

OutcomeKnown == \A s \in Sessions : worker[s] = "ending" => outcome[s] \in Over
TypeInv == TypeOK /\ OutcomeKnown

\* The initial state has the right types.
LEMMA TypeInit == Init => TypeInv
  BY DEF Init, TypeInv, TypeOK, HubTypes, ConnTypes, CtlTypes, WorkTypes, OsTypes, NetTypes,
     OutcomeKnown, Over, Open

\* What a request of a thread is made of.
LEMMA RequestTypes ==
  ASSUME TypeInv, NEW m \in net
  PROVE  /\ m.session \in Sessions
         /\ m.type \in {"claim", "report", "end"}
         /\ m.type = "report" => m.body \in {"started", "output"}
         /\ m.type = "end" => m.body \in Over
  BY DEF TypeInv, TypeOK, NetTypes, Requests

\* The requests a thread sends are well-formed.
LEMMA RequestIn ==
  ASSUME NEW s \in Sessions
  PROVE  /\ Request("claim", s, "none") \in Requests
         /\ \A b \in {"started", "output"} : Request("report", s, b) \in Requests
         /\ \A st \in Over : Request("end", s, st) \in Requests
  BY DEF Request, Requests, Over

\* The events of a control log are well-formed.
LEMMA EventIn ==
  ASSUME TypeInv, NEW i \in 1 .. Len(control)
  PROVE  /\ control[i] \in ControlEvents /\ control[i].session \in Sessions
         /\ control[i].input \in Nat
<1>1. control \in Seq(ControlEvents)  BY DEF TypeInv, TypeOK, HubTypes
<1>2. control[i] \in ControlEvents  BY <1>1
<1>3. QED  BY <1>2 DEF ControlEvents

\* A control log that takes another event stays well-formed.
LEMMA LogGrows ==
  ASSUME TypeInv, NEW e \in ControlEvents, control' = Append(control, e)
  PROVE  /\ control' \in Seq(ControlEvents)
         /\ Len(control') = Len(control) + 1 /\ Len(control) \in Nat
         /\ control'[Len(control) + 1] = e
         /\ \A i \in 1 .. Len(control) : control'[i] = control[i]
         /\ \A i \in 1 .. Len(control') : i \in 1 .. Len(control) \/ i = Len(control) + 1
<1>1. control \in Seq(ControlEvents)  BY DEF TypeInv, TypeOK, HubTypes
<1>2. QED  BY <1>1

\* The events that initiators' requests append are well-formed.
LEMMA ControlEventIn ==
  ASSUME NEW s \in Sessions, NEW n \in Nat, NEW k \in {"start", "stdin", "resize", "close"}
  PROVE  /\ ControlEvent(k, s, n) \in ControlEvents
         /\ ControlEvent(k, s, n).kind = k /\ ControlEvent(k, s, n).session = s
         /\ ControlEvent(k, s, n).input = n
  BY DEF ControlEvent, ControlEvents

\* Resolving records keeps the types of the records and of their logs.
LEMMA ResolveTypes ==
  ASSUME TypeInv, NEW S, NEW st \in Over, Resolve(S, st)
  PROVE  /\ status' \in [Sessions -> {"none"} \cup Open \cup Over]
         /\ events' \in [Sessions -> Seq({"started", "output", "end"})]
  BY DEF TypeInv, TypeOK, HubTypes, Resolve

\* A thread that ends leaves well-typed controls.
LEMMA ThreadEndsTypes == ASSUME TypeInv, NEW s \in Sessions, ThreadEnds(s) PROVE CtlTypes'
<1>1. <<>> \in Seq(Nat)  OBVIOUS
<1>2. inputs' \in [Sessions -> Seq(Nat)]
  BY <1>1 DEF ThreadEnds, TypeInv, TypeOK, CtlTypes
<1>3. QED  BY <1>2 DEF ThreadEnds, TypeInv, TypeOK, CtlTypes

\* The tables of the hub keep their types.
LEMMA HubTypesStep == ASSUME TypeInv, Next PROVE HubTypes'
<1>1. ASSUME NEW s \in Sessions,
             ClaimFails(s) \/ Spawn(s) \/ SpawnFails(s) \/ Serve(s) \/ CloseShell(s)
             \/ GoOn(s) \/ Poll(s) \/ Output(s) \/ ReportFails(s) \/ PostEnd(s)
             \/ EndFails(s) \/ ShellEnds(s)
      PROVE  HubTypes'
  BY <1>1 DEF HubTypes, TypeInv, TypeOK, ClaimFails, Spawn, SpawnFails, Serve,
     CloseShell, GoOn, Poll, Output, ReportFails, PostEnd, EndFails, ShellEnds, hubVars
<1>2. ASSUME NEW m \in net,
             RefuseClaim(m)
      PROVE  HubTypes'
  BY <1>2 DEF HubTypes, TypeInv, TypeOK, RefuseClaim, hubVars
<1>3. CASE ReconcileFails \/ DispatchStart \/ DispatchInput \/ DispatchResize
          \/ DispatchClose \/ StreamBreaks \/ Crash \/ Restart
  BY <1>3 DEF HubTypes, TypeInv, TypeOK, ReconcileFails, DispatchStart, DispatchInput,
     DispatchResize, DispatchClose, StreamBreaks, Crash, Restart, Consume, hubVars
<1>4. ASSUME NEW s \in Sessions, Create(s) PROVE HubTypes'
  <2>1. ControlEvent("start", s, 0) \in ControlEvents  BY ControlEventIn
  <2>2. control' \in Seq(ControlEvents)  BY <1>4, <2>1, LogGrows DEF Create
  <2>3. QED  BY <1>4, <2>2 DEF Create, TypeInv, TypeOK, HubTypes, Open
<1>5. ASSUME NEW s \in Sessions, Type(s) PROVE HubTypes'
  <2>1. typed[s] + 1 \in Nat  BY DEF TypeInv, TypeOK, HubTypes
  <2>2. ControlEvent("stdin", s, typed[s] + 1) \in ControlEvents  BY <2>1, ControlEventIn
  <2>3. control' \in Seq(ControlEvents)  BY <1>5, <2>2, LogGrows DEF Type
  <2>4. QED  BY <1>5, <2>1, <2>3 DEF Type, TypeInv, TypeOK, HubTypes
<1>6. ASSUME NEW s \in Sessions, Resize(s) PROVE HubTypes'
  <2>1. ControlEvent("resize", s, 0) \in ControlEvents  BY ControlEventIn
  <2>2. control' \in Seq(ControlEvents)  BY <1>6, <2>1, LogGrows DEF Resize
  <2>3. QED  BY <1>6, <2>2 DEF Resize, TypeInv, TypeOK, HubTypes, Open
<1>7. ASSUME NEW s \in Sessions, CloseQueued(s) PROVE HubTypes'
  BY <1>7, ResolveTypes DEF CloseQueued, TypeInv, TypeOK, HubTypes, Over
<1>8. ASSUME NEW s \in Sessions, CloseRunning(s) PROVE HubTypes'
  <2>1. ControlEvent("close", s, 0) \in ControlEvents  BY ControlEventIn
  <2>2. control' \in Seq(ControlEvents)  BY <1>8, <2>1, LogGrows DEF CloseRunning
  <2>3. QED  BY <1>8, <2>2 DEF CloseRunning, TypeInv, TypeOK, HubTypes, Open
<1>9. ASSUME NEW s \in Sessions, BecomeOverdue(s) PROVE HubTypes'
  BY <1>9 DEF HubTypes, TypeInv, TypeOK, BecomeOverdue, hubVars
<1>10. ASSUME NEW m \in net, GrantClaim(m) PROVE HubTypes'
  BY <1>10, RequestTypes DEF GrantClaim, TypeInv, TypeOK, HubTypes, Open
<1>11. ASSUME NEW m \in net, HandleReport(m) PROVE HubTypes'
  <2>1. m.session \in Sessions /\ m.body \in {"started", "output"}
    BY <1>11, RequestTypes DEF HandleReport
  <2>2. Logged(events[m.session], m.body) \in Seq({"started", "output", "end"})
    BY <2>1 DEF Logged, TypeInv, TypeOK, HubTypes
  <2>3. QED  BY <1>11, <2>1, <2>2 DEF HandleReport, TypeInv, TypeOK, HubTypes
<1>12. ASSUME NEW m \in net, HandleEnd(m) PROVE HubTypes'
  <2>1. m.session \in Sessions /\ m.body \in Over  BY <1>12, RequestTypes DEF HandleEnd
  <2>2. CASE status[m.session] \in Open
    BY <1>12, <2>1, <2>2, ResolveTypes DEF HandleEnd, ApplyEnd, TypeInv, TypeOK, HubTypes
  <2>3. CASE status[m.session] \notin Open
    BY <1>12, <2>3 DEF HandleEnd, ApplyEnd, TypeInv, TypeOK, HubTypes
  <2>4. QED  BY <2>2, <2>3
<1>13. ASSUME NEW A \in recons, HandleReconcile(A) PROVE HubTypes'
  BY <1>13, ResolveTypes DEF HandleReconcile, TypeInv, TypeOK, HubTypes, Over
<1>14. CASE Connect
  BY <1>14 DEF HubTypes, TypeInv, TypeOK, Connect, ResumeFrom, ActiveSessions,
     hubVars
<1>15. CASE Heartbeat
  BY <1>15 DEF HubTypes, TypeInv, TypeOK, Heartbeat, hubVars
<1>16. CASE BecomeStale
  BY <1>16 DEF HubTypes, TypeInv, TypeOK, BecomeStale, Commit, hubVars
<1>17. CASE Reap
  BY <1>17, ResolveTypes DEF Reap, TypeInv, TypeOK, HubTypes, Over
<1>18. ASSUME NEW s \in Sessions,
             Drained(s) \/ DrainOutput(s) \/ StraySpawns(s) \/ StrayServes(s) \/ StrayEnds(s)
      PROVE  HubTypes'
  BY <1>18 DEF HubTypes, TypeInv, TypeOK, Drained, DrainOutput, StraySpawns,
     StrayServes, StrayEnds, hubVars
<1>19. CASE Swap
  BY <1>19 DEF HubTypes, TypeInv, TypeOK, Swap, hubVars
<1>20. QED  BY <1>1, <1>2, <1>3, <1>4, <1>5, <1>6, <1>7, <1>8, <1>9, <1>10, <1>11,
     <1>12, <1>13, <1>14, <1>15, <1>16, <1>17, <1>18, <1>19 DEF Next, Initiator, Handle,
     Dispatch, Loop, Turn, Thread, Stray

\* The consume loop keeps its types.
LEMMA ConnTypesStep == ASSUME TypeInv, Next PROVE ConnTypes'
<1>1. ASSUME NEW s \in Sessions,
             Create(s) \/ Type(s) \/ Resize(s) \/ CloseQueued(s) \/ CloseRunning(s)
             \/ BecomeOverdue(s) \/ ClaimFails(s) \/ Spawn(s) \/ SpawnFails(s)
             \/ Serve(s) \/ CloseShell(s) \/ GoOn(s) \/ Poll(s) \/ Output(s)
             \/ ReportFails(s) \/ PostEnd(s) \/ EndFails(s) \/ ShellEnds(s)
      PROVE  ConnTypes'
  BY <1>1 DEF ConnTypes, TypeInv, TypeOK, Create, Type, Resize, CloseQueued,
     CloseRunning, BecomeOverdue, ClaimFails, Spawn, SpawnFails, Serve, CloseShell, GoOn,
     Poll, Output, ReportFails, PostEnd, EndFails, ShellEnds, connVars
<1>2. ASSUME NEW m \in net,
             GrantClaim(m) \/ RefuseClaim(m) \/ HandleReport(m) \/ HandleEnd(m)
      PROVE  ConnTypes'
  BY <1>2 DEF ConnTypes, TypeInv, TypeOK, GrantClaim, RefuseClaim, HandleReport,
     HandleEnd, connVars
<1>3. CASE Heartbeat \/ BecomeStale \/ Reap
  BY <1>3 DEF ConnTypes, TypeInv, TypeOK, Heartbeat, BecomeStale, Reap, connVars
<1>4. ASSUME NEW A \in recons, HandleReconcile(A) PROVE ConnTypes'
  BY <1>4 DEF ConnTypes, TypeInv, TypeOK, HandleReconcile, Resolve, Unlisted,
     connVars
<1>5. CASE Connect
  BY <1>5 DEF ConnTypes, TypeInv, TypeOK, Connect, ResumeFrom, ActiveSessions,
     connVars
<1>6. CASE ReconcileFails
  BY <1>6 DEF ConnTypes, TypeInv, TypeOK, ReconcileFails, Commit, connVars
<1>7. CASE DispatchStart
  BY <1>7 DEF ConnTypes, TypeInv, TypeOK, DispatchStart, Consume, Request, connVars
<1>8. CASE DispatchInput
  BY <1>8 DEF ConnTypes, TypeInv, TypeOK, DispatchInput, Consume, TakesInput,
     connVars
<1>9. CASE DispatchResize
  BY <1>9 DEF ConnTypes, TypeInv, TypeOK, DispatchResize, Consume, connVars
<1>10. CASE DispatchClose
  BY <1>10 DEF ConnTypes, TypeInv, TypeOK, DispatchClose, Consume, connVars
<1>11. CASE StreamBreaks
  BY <1>11 DEF ConnTypes, TypeInv, TypeOK, StreamBreaks, Commit, connVars
<1>12. CASE Crash
  BY <1>12 DEF ConnTypes, TypeInv, TypeOK, Crash, Commit, connVars
<1>13. CASE Restart
  BY <1>13 DEF ConnTypes, TypeInv, TypeOK, Restart, connVars
<1>14. ASSUME NEW s \in Sessions,
             Drained(s) \/ DrainOutput(s) \/ StraySpawns(s) \/ StrayServes(s) \/ StrayEnds(s)
      PROVE  ConnTypes'
  BY <1>14 DEF ConnTypes, TypeInv, TypeOK, Drained, DrainOutput, StraySpawns,
     StrayServes, StrayEnds, connVars
<1>15. CASE Swap
  BY <1>15 DEF ConnTypes, TypeInv, TypeOK, Swap
<1>16. QED  BY <1>1, <1>2, <1>3, <1>4, <1>5, <1>6, <1>7, <1>8, <1>9, <1>10, <1>11,
     <1>12, <1>13, <1>14, <1>15 DEF Next, Initiator, Handle, Dispatch, Loop, Turn,
     Thread, Stray

\* What a thread and the consume loop share keeps its types.
LEMMA CtlTypesStep == ASSUME TypeInv, Next PROVE CtlTypes'
<1>1. ASSUME NEW s \in Sessions,
             Create(s) \/ Type(s) \/ Resize(s) \/ CloseQueued(s) \/ CloseRunning(s)
             \/ BecomeOverdue(s) \/ ClaimFails(s) \/ Spawn(s) \/ SpawnFails(s)
             \/ CloseShell(s) \/ GoOn(s) \/ Poll(s) \/ Output(s) \/ ReportFails(s)
             \/ PostEnd(s) \/ EndFails(s) \/ ShellEnds(s)
      PROVE  CtlTypes'
  BY <1>1 DEF CtlTypes, TypeInv, TypeOK, Create, Type, Resize, CloseQueued,
     CloseRunning, BecomeOverdue, ClaimFails, Spawn, SpawnFails, CloseShell, GoOn, Poll,
     Output, ReportFails, PostEnd, EndFails, ShellEnds, EndRetried, ThreadDies, ctlVars
<1>2. ASSUME NEW m \in net,
             GrantClaim(m) \/ HandleReport(m)
      PROVE  CtlTypes'
  BY <1>2 DEF CtlTypes, TypeInv, TypeOK, GrantClaim, HandleReport, ThreadDies,
     ctlVars
<1>3. ASSUME NEW A \in recons,
             HandleReconcile(A)
      PROVE  CtlTypes'
  BY <1>3 DEF CtlTypes, TypeInv, TypeOK, HandleReconcile, ctlVars
<1>4. CASE Connect \/ ReconcileFails \/ StreamBreaks \/ Heartbeat \/ Restart
          \/ BecomeStale \/ Reap
  BY <1>4 DEF CtlTypes, TypeInv, TypeOK, Connect, ReconcileFails, StreamBreaks,
     Heartbeat, Restart, BecomeStale, Reap, ctlVars
<1>5. ASSUME NEW s \in Sessions, Serve(s) PROVE CtlTypes'
  BY <1>5 DEF CtlTypes, TypeInv, TypeOK, Serve, Write, PtyTakes, Commit, LoopRaises,
     StartEnd, CloseMaster, ctlVars
<1>6. ASSUME NEW m \in net, RefuseClaim(m) PROVE CtlTypes'
  BY RequestTypes, ThreadEndsTypes, <1>6 DEF RefuseClaim, ThreadDies, CtlTypes, TypeInv, TypeOK, ctlVars
<1>7. ASSUME NEW m \in net, HandleEnd(m) PROVE CtlTypes'
  BY RequestTypes, ThreadEndsTypes, <1>7 DEF HandleEnd, EndRetried, CtlTypes, TypeInv, TypeOK, ctlVars
<1>8. CASE DispatchStart
  BY <1>8, EventIn DEF DispatchStart, Consume, CtlTypes, TypeInv, TypeOK, ctlVars
<1>9. CASE DispatchInput
  BY <1>9, EventIn DEF DispatchInput, Consume, TakesInput, CtlTypes, TypeInv, TypeOK
<1>10. CASE DispatchResize
  BY <1>10, EventIn DEF DispatchResize, Consume, CtlTypes, TypeInv, TypeOK
<1>11. CASE DispatchClose
  BY <1>11, EventIn DEF DispatchClose, Consume, CtlTypes, TypeInv, TypeOK
<1>12. CASE Crash
  BY <1>12 DEF CtlTypes, TypeInv, TypeOK, Crash, Commit, ctlVars
<1>13. ASSUME NEW s \in Sessions,
             Drained(s) \/ DrainOutput(s) \/ StraySpawns(s) \/ StrayServes(s) \/ StrayEnds(s)
      PROVE  CtlTypes'
  BY <1>13 DEF CtlTypes, TypeInv, TypeOK, Drained, DrainOutput, StraySpawns,
     StrayServes, StrayEnds, ctlVars
<1>14. CASE Swap
  BY <1>14 DEF CtlTypes, TypeInv, TypeOK, Swap
<1>15. QED  BY <1>1, <1>2, <1>3, <1>4, <1>5, <1>6, <1>7, <1>8, <1>9, <1>10, <1>11,
     <1>12, <1>13, <1>14 DEF Next, Initiator, Handle, Dispatch, Loop, Turn, Thread,
     Stray

\* The threads keep their types, and an ending one has an outcome.
LEMMA WorkTypesStep == ASSUME TypeInv, Next PROVE (WorkTypes /\ OutcomeKnown)'
<1>1. ASSUME NEW s \in Sessions,
             Create(s) \/ Type(s) \/ Resize(s) \/ CloseQueued(s) \/ CloseRunning(s)
             \/ BecomeOverdue(s) \/ PostEnd(s) \/ EndFails(s)
             \/ ShellEnds(s)
      PROVE  (WorkTypes /\ OutcomeKnown)'
  BY <1>1 DEF WorkTypes, TypeInv, TypeOK, OutcomeKnown,
     Looping, Over, Create, Type, Resize, CloseQueued, CloseRunning, BecomeOverdue,
     PostEnd, EndFails, ShellEnds, EndRetried, workVars
<1>2. ASSUME NEW A \in recons,
             HandleReconcile(A)
      PROVE  (WorkTypes /\ OutcomeKnown)'
  BY <1>2 DEF WorkTypes, TypeInv, TypeOK, OutcomeKnown,
     Looping, Over, HandleReconcile, workVars
<1>3. CASE Connect \/ ReconcileFails \/ DispatchInput \/ DispatchResize \/ DispatchClose
          \/ StreamBreaks \/ Heartbeat \/ Restart \/ BecomeStale \/ Reap
  BY <1>3 DEF WorkTypes, TypeInv, TypeOK, OutcomeKnown,
     Looping, Over, Connect, ReconcileFails, DispatchInput, DispatchResize,
     DispatchClose, StreamBreaks, Heartbeat, Restart, BecomeStale, Reap, Consume,
     workVars
<1>4. ASSUME NEW s \in Sessions, ClaimFails(s) PROVE (WorkTypes /\ OutcomeKnown)'
  BY <1>4 DEF WorkTypes, TypeInv, TypeOK, OutcomeKnown,
     Looping, Over, ClaimFails, Pending, Commit, ThreadDies, workVars
<1>5. ASSUME NEW s \in Sessions, Spawn(s) PROVE (WorkTypes /\ OutcomeKnown)'
  BY <1>5 DEF WorkTypes, TypeInv, TypeOK, OutcomeKnown,
     Looping, Over, Spawn, Request, workVars
<1>6. ASSUME NEW s \in Sessions, SpawnFails(s) PROVE (WorkTypes /\ OutcomeKnown)'
  BY <1>6 DEF WorkTypes, TypeInv, TypeOK, OutcomeKnown,
     Looping, Over, SpawnFails, NoShell, Commit, StartEnd, workVars
<1>7. ASSUME NEW s \in Sessions, Serve(s) PROVE (WorkTypes /\ OutcomeKnown)'
  BY <1>7 DEF WorkTypes, TypeInv, TypeOK, OutcomeKnown,
     Looping, Over, Serve, Write, PtyTakes, Commit, LoopRaises, StartEnd, CloseMaster,
     workVars
<1>8. ASSUME NEW s \in Sessions, CloseShell(s) PROVE (WorkTypes /\ OutcomeKnown)'
  BY <1>8 DEF WorkTypes, TypeInv, TypeOK, OutcomeKnown,
     Looping, Over, CloseShell, StartEnd, CloseMaster, workVars
<1>9. ASSUME NEW s \in Sessions, GoOn(s) PROVE (WorkTypes /\ OutcomeKnown)'
  BY <1>9 DEF WorkTypes, TypeInv, TypeOK, OutcomeKnown,
     Looping, Over, GoOn, workVars
<1>10. ASSUME NEW s \in Sessions, Poll(s) PROVE (WorkTypes /\ OutcomeKnown)'
  BY <1>10 DEF WorkTypes, TypeInv, TypeOK, OutcomeKnown,
     Looping, Over, Poll, Pending, StartEnd, CloseMaster, workVars
<1>11. ASSUME NEW s \in Sessions, ReportFails(s) PROVE (WorkTypes /\ OutcomeKnown)'
  BY <1>11 DEF WorkTypes, TypeInv, TypeOK, OutcomeKnown,
     Looping, Over, ReportFails, Pending, Commit, ReportRaises, LoopRaises, StartEnd,
     CloseMaster, workVars
<1>12. ASSUME NEW m \in net, GrantClaim(m) PROVE (WorkTypes /\ OutcomeKnown)'
  BY RequestTypes, <1>12 DEF WorkTypes, TypeInv, TypeOK,
     OutcomeKnown, Looping, Over, GrantClaim, Claimable, Commit, ThreadDies, workVars
<1>13. ASSUME NEW m \in net, RefuseClaim(m) PROVE (WorkTypes /\ OutcomeKnown)'
  BY RequestTypes, <1>13 DEF WorkTypes, TypeInv, TypeOK,
     OutcomeKnown, Looping, Over, RefuseClaim, Claimable, Commit, ThreadEnds, ThreadDies,
     workVars
<1>14. ASSUME NEW m \in net, HandleReport(m) PROVE (WorkTypes /\ OutcomeKnown)'
  BY RequestTypes, <1>14 DEF WorkTypes, TypeInv, TypeOK,
     OutcomeKnown, Looping, Over, HandleReport, Commit, ReportRaises, LoopRaises,
     StartEnd, CloseMaster, workVars
<1>15. ASSUME NEW m \in net, HandleEnd(m) PROVE (WorkTypes /\ OutcomeKnown)'
  BY RequestTypes, <1>15 DEF WorkTypes, TypeInv, TypeOK,
     OutcomeKnown, Looping, Over, HandleEnd, ApplyEnd, Resolve, ThreadEnds, Commit,
     EndRetried, workVars
<1>16. CASE DispatchStart
  BY <1>16, EventIn DEF DispatchStart, Consume, WorkTypes, TypeInv, TypeOK, OutcomeKnown, workVars
<1>17. CASE Crash
  BY <1>17 DEF WorkTypes, TypeInv, TypeOK, OutcomeKnown,
     Looping, Over, Crash, Commit, workVars
<1>18. ASSUME NEW s \in Sessions,
             DrainOutput(s) \/ StraySpawns(s) \/ StrayServes(s) \/ StrayEnds(s)
      PROVE  (WorkTypes /\ OutcomeKnown)'
  BY <1>18 DEF WorkTypes, TypeInv, TypeOK, OutcomeKnown, Looping, Over, DrainOutput,
     StraySpawns, StrayServes, StrayEnds, workVars
<1>19. ASSUME NEW s \in Sessions, Output(s) PROVE (WorkTypes /\ OutcomeKnown)'
  BY <1>19 DEF WorkTypes, TypeInv, TypeOK, OutcomeKnown, Looping, Over, Output
<1>20. ASSUME NEW s \in Sessions, Drained(s) PROVE (WorkTypes /\ OutcomeKnown)'
  BY <1>20 DEF WorkTypes, TypeInv, TypeOK, OutcomeKnown, Looping, Over, Drained,
     StartEnd
<1>21. CASE Swap
  BY <1>21 DEF WorkTypes, TypeInv, TypeOK, OutcomeKnown, Looping, Over, Swap
<1>22. QED  BY <1>1, <1>2, <1>3, <1>4, <1>5, <1>6, <1>7, <1>8, <1>9, <1>10, <1>11,
     <1>12, <1>13, <1>14, <1>15, <1>16, <1>17, <1>18, <1>19, <1>20, <1>21 DEF Next,
     Initiator, Handle, Dispatch, Loop, Turn, Thread, Stray

\* What is written to a pty, in whole or in part, is a sequence of inputs.
LEMMA WriteTypes ==
  ASSUME TypeInv, NEW s \in Sessions, NEW q \in Seq(Nat), NEW n \in 0 .. Len(q), Write(s, q, n)
  PROVE  written' \in [Sessions -> Seq(Nat)] /\ cut' \in [Sessions -> SUBSET Nat]
<1>1. written[s] \in Seq(Nat)  BY DEF TypeInv, TypeOK, OsTypes
<1>2. SubSeq(q, 1, n) \in Seq(Nat)  OBVIOUS
<1>3. written[s] \o SubSeq(q, 1, n) \in Seq(Nat)  BY <1>1, <1>2
<1>4. \A i \in 1 .. n : q[i] \in Nat  OBVIOUS
<1>5. PICK short \in SUBSET {q[i] : i \in 1 .. n} : cut' = [cut EXCEPT ![s] = @ \cup short]
  BY DEF Write
<1>6. short \in SUBSET Nat  BY <1>4, <1>5
<1>7. QED  BY <1>3, <1>5, <1>6 DEF Write, TypeInv, TypeOK, OsTypes

\* Ptys and shells keep their types.
LEMMA OsTypesStep == ASSUME TypeInv, Next PROVE OsTypes'
<1>1. ASSUME NEW s \in Sessions,
             Create(s) \/ Type(s) \/ Resize(s) \/ CloseQueued(s) \/ CloseRunning(s)
             \/ BecomeOverdue(s) \/ ClaimFails(s) \/ GoOn(s)
             \/ Output(s) \/ PostEnd(s) \/ EndFails(s)
      PROVE  OsTypes'
  BY <1>1 DEF OsTypes, TypeInv, TypeOK, Create, Type, Resize, CloseQueued,
     CloseRunning, BecomeOverdue, ClaimFails, GoOn, Output, PostEnd,
     EndFails, osVars, strayVars
<1>2. ASSUME NEW m \in net,
             GrantClaim(m) \/ RefuseClaim(m) \/ HandleEnd(m)
      PROVE  OsTypes'
  BY <1>2 DEF OsTypes, TypeInv, TypeOK, GrantClaim, RefuseClaim, HandleEnd, osVars, strayVars
<1>3. ASSUME NEW A \in recons,
             HandleReconcile(A)
      PROVE  OsTypes'
  BY <1>3 DEF OsTypes, TypeInv, TypeOK, HandleReconcile, osVars, strayVars
<1>4. CASE Connect \/ ReconcileFails \/ DispatchStart \/ DispatchInput \/ DispatchResize
          \/ DispatchClose \/ StreamBreaks \/ Heartbeat \/ Restart \/ BecomeStale
          \/ Reap
  BY <1>4 DEF OsTypes, TypeInv, TypeOK, Connect, ReconcileFails, DispatchStart,
     DispatchInput, DispatchResize, DispatchClose, StreamBreaks, Heartbeat, Restart,
     BecomeStale, Reap, Consume, osVars, strayVars
<1>5. ASSUME NEW s \in Sessions, Spawn(s) PROVE OsTypes'
  BY <1>5 DEF OsTypes, TypeInv, TypeOK, Spawn, Request, osVars, strayVars
<1>6. ASSUME NEW s \in Sessions, Serve(s) PROVE OsTypes'
  <2>1. inputs[s] \in Seq(Nat)  BY DEF TypeInv, TypeOK, CtlTypes
  <2>2. PICK n \in 0 .. Len(inputs[s]) : Write(s, inputs[s], n)  BY <1>6 DEF Serve
  <2>3. written' \in [Sessions -> Seq(Nat)] /\ cut' \in [Sessions -> SUBSET Nat]
    BY <2>1, <2>2, WriteTypes
  <2>4. pty' \in [Sessions -> {"none", "open", "closed"}]
    BY <1>6 DEF Serve, LoopRaises, CloseMaster, TypeInv, TypeOK, OsTypes
  <2>5. QED  BY <1>6, <2>3, <2>4 DEF Serve, OsTypes, TypeInv, TypeOK, strayVars
<1>7. ASSUME NEW s \in Sessions, CloseShell(s) PROVE OsTypes'
  BY <1>7 DEF OsTypes, TypeInv, TypeOK, CloseShell, StartEnd, CloseMaster, osVars, strayVars
<1>8. ASSUME NEW s \in Sessions, Poll(s) PROVE OsTypes'
  BY <1>8 DEF OsTypes, TypeInv, TypeOK, Poll, Pending, StartEnd, CloseMaster, osVars, strayVars
<1>9. ASSUME NEW s \in Sessions, ReportFails(s) PROVE OsTypes'
  BY <1>9 DEF OsTypes, TypeInv, TypeOK, ReportFails, Pending, Commit, ReportRaises,
     LoopRaises, StartEnd, CloseMaster, osVars, strayVars
<1>10. ASSUME NEW s \in Sessions, ShellEnds(s) PROVE OsTypes'
  BY <1>10 DEF OsTypes, TypeInv, TypeOK, ShellEnds, osVars, strayVars
<1>11. ASSUME NEW m \in net, HandleReport(m) PROVE OsTypes'
  <2>1. m.session \in Sessions  BY RequestTypes, <1>11 DEF TypeInv, TypeOK
  <2>2. UNCHANGED <<proc, spawned, written, cut, stray, left>>  BY <1>11 DEF HandleReport, strayVars
  <2>3. \/ UNCHANGED <<pty, abandoned>>
        \/ pty' = pty /\ abandoned' = abandoned \cup {m.session}
        \/ pty' = [pty EXCEPT ![m.session] = "closed"] /\ abandoned' = abandoned
    BY <1>11 DEF HandleReport, ReportRaises, LoopRaises, CloseMaster
  <2>4. QED  BY <2>1, <2>2, <2>3 DEF OsTypes, TypeInv, TypeOK
<1>12. CASE Crash
  BY <1>12 DEF OsTypes, TypeInv, TypeOK, Crash, Commit, osVars, strayVars
<1>13. ASSUME NEW s \in Sessions, SpawnFails(s) PROVE OsTypes'
  BY <1>13 DEF OsTypes, TypeInv, TypeOK, SpawnFails, NoShell, strayVars
<1>14. ASSUME NEW s \in Sessions, DrainOutput(s) PROVE OsTypes'
  BY <1>14 DEF OsTypes, TypeInv, TypeOK, DrainOutput, osVars, strayVars
<1>15. ASSUME NEW s \in Sessions, Drained(s) PROVE OsTypes'
  BY <1>15 DEF OsTypes, TypeInv, TypeOK, Drained, CloseMaster, strayVars
<1>16. ASSUME NEW s \in Sessions, StraySpawns(s) PROVE OsTypes'
  <2>1. <<>> \in Seq(Nat)  OBVIOUS
  <2>2. left' \in [Sessions -> Seq(Nat)]  BY <1>16, <2>1 DEF OsTypes, TypeInv, TypeOK, StraySpawns
  <2>3. proc' \in [Sessions -> {"none", "alive", "ended"}] /\ spawned' \in [Sessions -> Nat]
    <3>1. /\ proc \in [Sessions -> {"none", "alive", "ended"}] /\ spawned \in [Sessions -> Nat]
          /\ spawned[s] + 1 \in Nat
      BY DEF OsTypes, TypeInv, TypeOK
    <3>2. \/ /\ proc' = [proc EXCEPT ![s] = "alive"]
             /\ spawned' = [spawned EXCEPT ![s] = @ + 1]
          \/ UNCHANGED <<proc, spawned>>
      BY <1>16 DEF StraySpawns
    <3>3. QED  BY <3>1, <3>2
  <2>4. pty' \in [Sessions -> {"none", "open", "closed"}] /\ abandoned' \subseteq Sessions
    BY <1>16 DEF OsTypes, TypeInv, TypeOK, StraySpawns, NoShell
  <2>5. stray' \in [Sessions -> {"none", "leased", "looping"}] /\ UNCHANGED <<written, cut>>
    BY <1>16 DEF OsTypes, TypeInv, TypeOK, StraySpawns
  <2>6. QED  BY <2>2, <2>3, <2>4, <2>5 DEF OsTypes, TypeInv, TypeOK
<1>17. ASSUME NEW s \in Sessions, StrayServes(s) PROVE OsTypes'
  <2>1. left[s] \in Seq(Nat) /\ <<>> \in Seq(Nat)  BY DEF TypeInv, TypeOK, OsTypes
  <2>2. PICK n \in 0 .. Len(left[s]) : Write(s, left[s], n)  BY <1>17 DEF StrayServes
  <2>3. written' \in [Sessions -> Seq(Nat)] /\ cut' \in [Sessions -> SUBSET Nat]
    BY <2>1, <2>2, WriteTypes
  <2>4. left' \in [Sessions -> Seq(Nat)]  BY <1>17, <2>1 DEF StrayServes, TypeInv, TypeOK, OsTypes
  <2>5. \/ UNCHANGED <<stray, pty>>
        \/ /\ stray' = [stray EXCEPT ![s] = "none"]
           /\ pty' = [pty EXCEPT ![s] = "closed"]
    BY <1>17 DEF StrayServes, StrayLeaves
  <2>6. UNCHANGED <<proc, spawned, abandoned>>  BY <1>17 DEF StrayServes
  <2>7. QED  BY <2>3, <2>4, <2>5, <2>6 DEF TypeInv, TypeOK, OsTypes
<1>18. ASSUME NEW s \in Sessions, StrayEnds(s) PROVE OsTypes'
  <2>1. left' \in [Sessions -> Seq(Nat)]
    <3>1. <<>> \in Seq(Nat)  OBVIOUS
    <3>2. QED  BY <1>18, <3>1 DEF StrayEnds, TypeInv, TypeOK, OsTypes
  <2>2. QED  BY <1>18, <2>1 DEF StrayEnds, StrayLeaves, TypeInv, TypeOK, OsTypes
<1>19. CASE Swap
  <2>1. \A s \in Sessions : Unwritten(s) \in Seq(Nat) /\ left[s] \in Seq(Nat)
    BY DEF Unwritten, TypeInv, TypeOK, CtlTypes, OsTypes
  <2>2. left' \in [Sessions -> Seq(Nat)]  BY <1>19, <2>1 DEF Swap
  <2>3. stray' \in [Sessions -> {"none", "leased", "looping"}]
    BY <1>19 DEF Swap, TypeInv, TypeOK, OsTypes
  <2>4. pty' \in [Sessions -> {"none", "open", "closed"}]
    BY <1>19 DEF Swap, TypeInv, TypeOK, OsTypes
  <2>5. abandoned' \subseteq Sessions  BY <1>19 DEF Swap, TypeInv, TypeOK, OsTypes
  <2>6. UNCHANGED <<proc, spawned, written, cut>>  BY <1>19 DEF Swap
  <2>7. QED  BY <2>2, <2>3, <2>4, <2>5, <2>6 DEF TypeInv, TypeOK, OsTypes
<1>20. QED  BY <1>1, <1>2, <1>3, <1>4, <1>5, <1>6, <1>7, <1>8, <1>9, <1>10, <1>11,
     <1>12, <1>13, <1>14, <1>15, <1>16, <1>17, <1>18, <1>19 DEF Next, Initiator, Handle,
     Dispatch, Loop, Turn, Thread, Stray

\* Requests on their way keep their types.
LEMMA NetTypesStep == ASSUME TypeInv, Next PROVE NetTypes'
<1>1. ASSUME NEW s \in Sessions,
             Create(s) \/ Type(s) \/ Resize(s) \/ CloseQueued(s) \/ CloseRunning(s)
             \/ BecomeOverdue(s) \/ CloseShell(s) \/ GoOn(s) \/ Poll(s) \/ ShellEnds(s)
      PROVE  NetTypes'
  BY <1>1 DEF NetTypes, TypeInv, TypeOK, Create, Type, Resize, CloseQueued,
     CloseRunning, BecomeOverdue, CloseShell, GoOn, Poll, ShellEnds, netVars
<1>2. CASE DispatchInput \/ DispatchResize \/ DispatchClose \/ Heartbeat \/ Restart
          \/ Reap
  BY <1>2 DEF NetTypes, TypeInv, TypeOK, DispatchInput, DispatchResize, DispatchClose,
     Heartbeat, Restart, Reap, Consume, netVars
<1>3. ASSUME NEW s \in Sessions, ClaimFails(s) PROVE NetTypes'
  BY <1>3 DEF NetTypes, TypeInv, TypeOK, ClaimFails, Pending, Commit, ThreadDies,
     netVars
<1>4. ASSUME NEW s \in Sessions, Spawn(s) PROVE NetTypes'
  BY RequestIn, <1>4 DEF NetTypes, TypeInv, TypeOK, Spawn, Request, netVars
<1>5. ASSUME NEW s \in Sessions, SpawnFails(s) PROVE NetTypes'
  BY <1>5 DEF NetTypes, TypeInv, TypeOK, SpawnFails, NoShell, Commit, StartEnd, netVars
<1>6. ASSUME NEW s \in Sessions, Serve(s) PROVE NetTypes'
  BY <1>6 DEF NetTypes, TypeInv, TypeOK, Serve, Write, PtyTakes, Commit, LoopRaises,
     StartEnd, CloseMaster, netVars
<1>7. ASSUME NEW s \in Sessions, Output(s) PROVE NetTypes'
  BY RequestIn, <1>7 DEF NetTypes, TypeInv, TypeOK, Output, Pending, Request, netVars
<1>8. ASSUME NEW s \in Sessions, ReportFails(s) PROVE NetTypes'
  BY <1>8 DEF NetTypes, TypeInv, TypeOK, ReportFails, Pending, Commit, ReportRaises,
     LoopRaises, StartEnd, CloseMaster, netVars
<1>9. ASSUME NEW s \in Sessions, PostEnd(s) PROVE NetTypes'
  BY <1>9, RequestIn DEF PostEnd, NetTypes, TypeInv, TypeOK, OutcomeKnown
<1>10. ASSUME NEW s \in Sessions, EndFails(s) PROVE NetTypes'
  BY <1>10 DEF NetTypes, TypeInv, TypeOK, EndFails, Pending, Commit, EndRetried,
     netVars
<1>11. ASSUME NEW m \in net, GrantClaim(m) PROVE NetTypes'
  BY <1>11 DEF NetTypes, TypeInv, TypeOK, GrantClaim, Claimable, Commit, ThreadDies,
     netVars
<1>12. ASSUME NEW m \in net, RefuseClaim(m) PROVE NetTypes'
  BY <1>12 DEF NetTypes, TypeInv, TypeOK, RefuseClaim, Claimable, Commit, ThreadEnds,
     ThreadDies, netVars
<1>13. ASSUME NEW m \in net, HandleReport(m) PROVE NetTypes'
  BY <1>13 DEF NetTypes, TypeInv, TypeOK, HandleReport, Commit, ReportRaises,
     LoopRaises, StartEnd, CloseMaster, netVars
<1>14. ASSUME NEW m \in net, HandleEnd(m) PROVE NetTypes'
  BY <1>14 DEF NetTypes, TypeInv, TypeOK, HandleEnd, ApplyEnd, Resolve, ThreadEnds,
     Commit, EndRetried, netVars
<1>15. ASSUME NEW A \in recons, HandleReconcile(A) PROVE NetTypes'
  BY <1>15 DEF NetTypes, TypeInv, TypeOK, HandleReconcile, Resolve, Unlisted, netVars
<1>16. CASE Connect
  BY <1>16 DEF Connect, ActiveSessions, NetTypes, CtlTypes, TypeInv, TypeOK
<1>17. CASE ReconcileFails
  BY <1>17 DEF NetTypes, TypeInv, TypeOK, ReconcileFails, Commit, netVars
<1>18. CASE DispatchStart
  BY <1>18, EventIn, RequestIn DEF DispatchStart, Consume, NetTypes, TypeInv, TypeOK
<1>19. CASE StreamBreaks
  BY <1>19 DEF NetTypes, TypeInv, TypeOK, StreamBreaks, Commit, netVars
<1>20. CASE Crash
  BY <1>20 DEF NetTypes, TypeInv, TypeOK, Crash, Commit, netVars
<1>21. CASE BecomeStale
  BY <1>21 DEF NetTypes, TypeInv, TypeOK, BecomeStale, Commit, netVars
<1>22. ASSUME NEW s \in Sessions,
             Drained(s) \/ StrayEnds(s)
      PROVE  NetTypes'
  BY <1>22 DEF NetTypes, TypeInv, TypeOK, Drained, StrayEnds, netVars
<1>23. ASSUME NEW s \in Sessions, DrainOutput(s) PROVE NetTypes'
  BY RequestIn, <1>23 DEF NetTypes, TypeInv, TypeOK, DrainOutput
<1>24. ASSUME NEW s \in Sessions, StraySpawns(s) PROVE NetTypes'
  BY <1>24 DEF NetTypes, TypeInv, TypeOK, StraySpawns, NoShell, Commit
<1>25. ASSUME NEW s \in Sessions, StrayServes(s) PROVE NetTypes'
  BY <1>25 DEF NetTypes, TypeInv, TypeOK, StrayServes, Write, PtyTakes, Commit
<1>26. CASE Swap
  BY <1>26 DEF NetTypes, TypeInv, TypeOK, Swap, Commit
<1>27. QED  BY <1>1, <1>2, <1>3, <1>4, <1>5, <1>6, <1>7, <1>8, <1>9, <1>10, <1>11,
     <1>12, <1>13, <1>14, <1>15, <1>16, <1>17, <1>18, <1>19, <1>20, <1>21, <1>22, <1>23,
     <1>24, <1>25, <1>26 DEF Next, Initiator, Handle, Dispatch, Loop, Turn, Thread,
     Stray

\* Steps keep the types.
LEMMA TypeStep == ASSUME TypeInv, Next PROVE TypeInv'
  BY HubTypesStep, ConnTypesStep, CtlTypesStep, WorkTypesStep, OsTypesStep, NetTypesStep
     DEF TypeInv, TypeOK

\* Stuttering keeps the types.
LEMMA TypeStutter == ASSUME TypeInv, UNCHANGED vars PROVE TypeInv'
  BY DEF TypeInv, TypeOK, HubTypes, ConnTypes, CtlTypes, WorkTypes, OsTypes, NetTypes, OutcomeKnown,
     vars, hubVars, connVars, ctlVars, osVars, strayVars, workVars, netVars

-----------------------------------------------------------------------------
(* The control log: a session's start comes first and once, its inputs are *)
(* numbered in the order of the log.                                       *)

IsInput(i, s) == control[i].kind = "stdin" /\ control[i].session = s
IsStart(i, s) == control[i].kind = "start" /\ control[i].session = s

StartFirst ==
    /\ \A i \in 1 .. Len(control) : status[control[i].session] # "none"
    /\ \A s \in Sessions : status[s] # "none" => \E i \in 1 .. Len(control) : IsStart(i, s)
    /\ \A i, j \in 1 .. Len(control) : IsStart(j, control[i].session) => j <= i

InputsInOrder ==
    /\ \A i \in 1 .. Len(control) :
          control[i].kind = "stdin" => control[i].input \in 1 .. typed[control[i].session]
    /\ \A s \in Sessions : \A n \in 1 .. typed[s] :
          \E i \in 1 .. Len(control) : IsInput(i, s) /\ control[i].input = n
    /\ \A s \in Sessions : \A i, j \in 1 .. Len(control) :
          IsInput(i, s) /\ IsInput(j, s) /\ i < j => control[i].input < control[j].input

(* The consume loop: what it read is a part of the log, and only what it   *)
(* read has a thread's controls.  The list of a reconcile is not out of    *)
(* date, for nothing is dispatched until the hub has answered it.          *)
Reading ==
    /\ lastId <= Len(control)
    /\ conn # "down" => up /\ position = lastId
    /\ \A A \in recons : conn = "reconciling" /\ controls \subseteq A
    /\ \A A, B \in recons : A = B
    /\ \A s \in controls : up /\ \E i \in 1 .. lastId : IsStart(i, s)

(* The threads: each has controls, waits for one request, and serves a     *)
(* session that was claimed once.  A thread of a swapped service is alone  *)
(* with its session: nobody can claim that again.                          *)
HasControls ==
    \A s \in Sessions : s \notin controls => worker[s] = "idle" /\ inputs[s] = <<>>

Awaits(s, m) ==
    \/ worker[s] = "claiming" /\ m = Request("claim", s, "none")
    \/ worker[s] = "starting" /\ m = Request("report", s, "started")
    \/ worker[s] \in {"polling", "draining"} /\ m = Request("report", s, "output")
    \/ worker[s] = "ending" /\ m = Request("end", s, outcome[s])

Awaited == \A m \in net : Awaits(m.session, m)

Claimed ==
    \A s \in Sessions :
        /\ status[s] \in {"none", "queued"} =>
              ~started[s] /\ spawned[s] = 0 /\ worker[s] \in {"idle", "claiming"}
        /\ worker[s] = "leased" \/ spawned[s] # 0 => started[s]
        /\ worker[s] \in {"starting"} \cup Looping => spawned[s] = 1
        /\ spawned[s] = 0 => written[s] = <<>>
        /\ worker[s] = "leased" => spawned[s] = 0
        /\ stray[s] # "none" =>
              status[s] \notin {"none", "queued"} /\ started[s] /\ worker[s] \in {"idle", "claiming"}
        /\ stray[s] = "leased" => spawned[s] = 0
        /\ stray[s] = "looping" => spawned[s] = 1

(* The inputs on the client: a thread's queue continues what its shell has *)
(* got, and the loop has still to read the inputs that follow.             *)
QueueFollows(s, n) ==
    /\ n + Len(inputs[s]) <= typed[s]
    /\ \A i \in 1 .. Len(inputs[s]) : inputs[s][i] = n + i
    /\ \A i \in 1 .. Len(control) :
          IsInput(i, s) => (i <= lastId <=> control[i].input <= n + Len(inputs[s]))

Serving == {"claiming", "leased", "starting"} \cup Looping

\* How much of the input has left the queue for the shell.
Got(s) == IF worker[s] = "claiming" THEN 0 ELSE Len(written[s])

Queued == \A s \in Sessions : worker[s] \in Serving => QueueFollows(s, Got(s))

Written ==
    \A s \in Sessions :
        /\ Len(written[s]) <= typed[s]
        /\ \A i \in 1 .. Len(written[s]) : written[s][i] = i

\* A queue that a swap left continues what the shell has got as well.
Leftover ==
    \A s \in Sessions : stray[s] = "looping" =>
        /\ Len(written[s]) + Len(left[s]) <= typed[s]
        /\ \A i \in 1 .. Len(left[s]) : left[s][i] = Len(written[s]) + i

Base == TypeInv /\ StartFirst /\ InputsInOrder /\ Reading /\ HasControls /\ Awaited /\ Claimed
Inv  == Base /\ Queued /\ Written /\ Leftover

\* The initial state satisfies the invariant.
LEMMA InvInit == Init => Inv
  BY TypeInit DEF Init, Inv, Base, StartFirst, InputsInOrder, Reading, HasControls, Awaited,
     Claimed, Queued, Written, Leftover, Serving, Looping

\* What an initiator's request appends does not come before the start.
LEMMA StartFirstGrows ==
  ASSUME TypeInv, StartFirst, NEW e \in ControlEvents, control' = Append(control, e),
         \/ /\ e.kind = "start" /\ status[e.session] = "none"
            /\ status' = [status EXCEPT ![e.session] = "queued"]
         \/ e.kind # "start" /\ status[e.session] # "none" /\ status' = status
  PROVE  StartFirst'
<1> DEFINE N == Len(control)
<1>1. /\ Len(control') = N + 1 /\ N \in Nat /\ control'[N + 1] = e
      /\ \A i \in 1 .. N : control'[i] = control[i] /\ control[i].session \in Sessions
      /\ \A i \in 1 .. N + 1 : i \in 1 .. N \/ i = N + 1
  BY LogGrows, EventIn
<1>2. e.session \in Sessions /\ DOMAIN status = Sessions
  BY DEF ControlEvents, TypeInv, TypeOK, HubTypes
<1>3. \A i \in 1 .. N : status[control[i].session] # "none"  BY DEF StartFirst
<1>4. \A i \in 1 .. N + 1 : status'[control'[i].session] # "none"
  BY <1>1, <1>2, <1>3
<1>5. ASSUME NEW s \in Sessions, status'[s] # "none"
      PROVE  \E i \in 1 .. N + 1 : IsStart(i, s)'
  <2>1. CASE status[s] # "none"
    <3>1. PICK i \in 1 .. N : IsStart(i, s)  BY <2>1 DEF StartFirst
    <3>2. i \in 1 .. N + 1 /\ IsStart(i, s)'  BY <1>1, <3>1 DEF IsStart
    <3>3. QED  BY <3>2
  <2>2. CASE status[s] = "none"
    <3>1. s = e.session /\ e.kind = "start"  BY <1>2, <1>5, <2>2
    <3>2. N + 1 \in 1 .. N + 1 /\ control'[N + 1].kind = "start" /\ control'[N + 1].session = s
      BY <1>1, <3>1
    <3>3. QED  BY <3>2 DEF IsStart
  <2>3. QED  BY <2>1, <2>2
<1>6. ASSUME NEW i \in 1 .. N + 1, NEW j \in 1 .. N + 1, IsStart(j, control[i].session)'
      PROVE  j <= i
  <2>1. CASE i = N + 1  BY <1>1, <2>1
  <2>2. CASE i \in 1 .. N /\ j \in 1 .. N  BY <1>1, <1>6, <2>2 DEF StartFirst, IsStart
  <2>3. CASE i \in 1 .. N /\ j = N + 1  BY <1>1, <1>3, <1>6, <2>3 DEF IsStart
  <2>4. QED  BY <1>1, <2>1, <2>2, <2>3
<1>7. QED  BY <1>1, <1>4, <1>5, <1>6 DEF StartFirst

\* Resolving records makes none vanish.
LEMMA ResolveKeeps ==
  ASSUME TypeInv, StartFirst, control' = control, NEW S \in SUBSET Sessions, NEW st \in Over,
         \A s \in S : status[s] # "none", Resolve(S, st)
  PROVE  StartFirst'
<1>1. \A s \in Sessions : status'[s] # "none" <=> status[s] # "none"
  BY DEF Resolve, Over
<1>2. \A i \in 1 .. Len(control) : control[i].session \in Sessions  BY EventIn
<1>3. QED  BY <1>1, <1>2 DEF StartFirst, IsStart

\* The starts stay when log and records do.
LEMMA StartFirstFrame ==
  StartFirst /\ UNCHANGED <<control, status>> => StartFirst'
  BY DEF StartFirst, IsStart

\* A start stays the first event of its session.
LEMMA StartFirstStep == ASSUME TypeInv, StartFirst, Next PROVE StartFirst'
<1>1. ASSUME NEW s \in Sessions,
             BecomeOverdue(s) \/ ClaimFails(s) \/ Spawn(s) \/ SpawnFails(s) \/ Serve(s)
             \/ CloseShell(s) \/ GoOn(s) \/ Poll(s) \/ Output(s) \/ ReportFails(s)
             \/ PostEnd(s) \/ EndFails(s) \/ ShellEnds(s)
      PROVE  StartFirst'
  BY <1>1, StartFirstFrame DEF BecomeOverdue, ClaimFails, Spawn, SpawnFails, Serve,
     CloseShell, GoOn, Poll, Output, ReportFails, PostEnd, EndFails, ShellEnds, hubVars
<1>2. ASSUME NEW m \in net,
             RefuseClaim(m) \/ HandleReport(m)
      PROVE  StartFirst'
  BY <1>2, StartFirstFrame DEF RefuseClaim, HandleReport, hubVars
<1>3. CASE Connect \/ ReconcileFails \/ DispatchStart \/ DispatchInput \/ DispatchResize
          \/ DispatchClose \/ StreamBreaks \/ Heartbeat \/ Crash \/ Restart
          \/ BecomeStale
  BY <1>3, StartFirstFrame DEF Connect, ReconcileFails, DispatchStart, DispatchInput,
     DispatchResize, DispatchClose, StreamBreaks, Heartbeat, Crash, Restart, BecomeStale,
     Consume, hubVars
<1>4. ASSUME NEW s \in Sessions, Create(s) PROVE StartFirst'
  <2>1. /\ ControlEvent("start", s, 0) \in ControlEvents
        /\ ControlEvent("start", s, 0).kind = "start" /\ ControlEvent("start", s, 0).session = s
    BY ControlEventIn
  <2>2. QED  BY <1>4, <2>1, StartFirstGrows DEF Create
<1>5. ASSUME NEW s \in Sessions, Type(s) PROVE StartFirst'
  <2>1. typed[s] + 1 \in Nat  BY DEF TypeInv, TypeOK, HubTypes
  <2>2. QED  BY <1>5, <2>1, ControlEventIn, StartFirstGrows DEF Type
<1>6. ASSUME NEW s \in Sessions, Resize(s) PROVE StartFirst'
  BY <1>6, ControlEventIn, StartFirstGrows DEF Resize
<1>7. ASSUME NEW s \in Sessions, CloseQueued(s) PROVE StartFirst'
  BY <1>7, ResolveKeeps DEF CloseQueued, Over
<1>8. ASSUME NEW s \in Sessions, CloseRunning(s) PROVE StartFirst'
  BY <1>8, ControlEventIn, StartFirstGrows DEF CloseRunning
<1>9. ASSUME NEW m \in net, GrantClaim(m) PROVE StartFirst'
  <2>1. \A s \in Sessions : status'[s] # "none" <=> status[s] # "none"
    BY <1>9, RequestTypes DEF GrantClaim, Claimable, TypeInv, TypeOK, HubTypes
  <2>2. \A i \in 1 .. Len(control) : control[i].session \in Sessions  BY EventIn
  <2>3. control' = control  BY <1>9 DEF GrantClaim
  <2>4. QED  BY <2>1, <2>2, <2>3 DEF StartFirst, IsStart
<1>10. ASSUME NEW m \in net, HandleEnd(m) PROVE StartFirst'
  <2>1. CASE status[m.session] \in Open
    BY <1>10, <2>1, ResolveKeeps, RequestTypes DEF HandleEnd, ApplyEnd, Open
  <2>2. CASE status[m.session] \notin Open
    BY <1>10, <2>2, StartFirstFrame DEF HandleEnd, ApplyEnd
  <2>3. QED  BY <2>1, <2>2
<1>11. ASSUME NEW A \in recons, HandleReconcile(A) PROVE StartFirst'
  BY <1>11, ResolveKeeps DEF HandleReconcile, Unlisted, Over
<1>12. CASE Reap
  BY <1>12, ResolveKeeps DEF Reap, Lost, Unclaimed, Over
<1>13. ASSUME NEW s \in Sessions,
             Drained(s) \/ DrainOutput(s) \/ StraySpawns(s) \/ StrayServes(s) \/ StrayEnds(s)
      PROVE  StartFirst'
  BY <1>13, StartFirstFrame DEF Drained, DrainOutput, StraySpawns, StrayServes,
     StrayEnds, hubVars
<1>14. CASE Swap
  BY <1>14, StartFirstFrame DEF Swap, hubVars
<1>15. QED  BY <1>1, <1>2, <1>3, <1>4, <1>5, <1>6, <1>7, <1>8, <1>9, <1>10, <1>11,
     <1>12, <1>13, <1>14 DEF Next, Initiator, Handle, Dispatch, Loop, Turn, Thread,
     Stray

\* The number of inputs counts those that the log takes.
LEMMA InputsGrow ==
  ASSUME TypeInv, InputsInOrder, NEW e \in ControlEvents, control' = Append(control, e),
         \/ /\ e.kind = "stdin" /\ e.input = typed[e.session] + 1
            /\ typed' = [typed EXCEPT ![e.session] = @ + 1]
         \/ e.kind # "stdin" /\ typed' = typed
  PROVE  InputsInOrder'
<1> DEFINE N == Len(control)
<1>1. /\ Len(control') = N + 1 /\ N \in Nat /\ control'[N + 1] = e
      /\ \A i \in 1 .. N : control'[i] = control[i] /\ control[i].session \in Sessions
      /\ \A i \in 1 .. N + 1 : i \in 1 .. N \/ i = N + 1
  BY LogGrows, EventIn
<1>2. e.session \in Sessions /\ typed \in [Sessions -> Nat]
  BY DEF ControlEvents, TypeInv, TypeOK, HubTypes
<1>3. \A s \in Sessions : typed'[s] \in Nat /\ typed'[s] >= typed[s]
  BY <1>2
<1>4. ASSUME NEW i \in 1 .. N + 1, control'[i].kind = "stdin"
      PROVE  control'[i].input \in 1 .. typed'[control'[i].session]
  <2>1. CASE i = N + 1  BY <1>1, <1>2, <1>4, <2>1
  <2>2. CASE i \in 1 .. N
    <3>1. control[i].input \in 1 .. typed[control[i].session]
      BY <1>1, <1>4, <2>2 DEF InputsInOrder
    <3>2. QED  BY <1>1, <1>2, <1>3, <2>2, <3>1
  <2>3. QED  BY <1>1, <2>1, <2>2
<1>5. ASSUME NEW s \in Sessions, NEW n \in 1 .. typed'[s]
      PROVE  \E i \in 1 .. N + 1 : IsInput(i, s)' /\ control'[i].input = n
  <2>1. CASE n \in 1 .. typed[s]
    <3>1. PICK i \in 1 .. N : IsInput(i, s) /\ control[i].input = n
      BY <2>1 DEF InputsInOrder
    <3>2. i \in 1 .. N + 1 /\ control'[i] = control[i]  BY <1>1, <3>1
    <3>3. QED  BY <3>1, <3>2 DEF IsInput
  <2>2. CASE n \notin 1 .. typed[s]
    <3>1. e.kind = "stdin" /\ s = e.session /\ n = typed[s] + 1
      BY <1>2, <1>5, <2>2
    <3>2. /\ N + 1 \in 1 .. N + 1 /\ control'[N + 1].kind = "stdin"
          /\ control'[N + 1].session = s /\ control'[N + 1].input = n
      BY <1>1, <3>1
    <3>3. QED  BY <3>2 DEF IsInput
  <2>3. QED  BY <2>1, <2>2
<1>6. ASSUME NEW s \in Sessions, NEW i \in 1 .. N + 1, NEW j \in 1 .. N + 1,
             IsInput(i, s)', IsInput(j, s)', i < j
      PROVE  control'[i].input < control'[j].input
  <2>1. i \in 1 .. N  BY <1>1, <1>6
  <2>2. CASE j \in 1 .. N  BY <1>1, <1>6, <2>1, <2>2 DEF InputsInOrder, IsInput
  <2>3. CASE j = N + 1
    <3>1. control[i].input \in 1 .. typed[s]  BY <1>1, <1>6, <2>1 DEF InputsInOrder, IsInput
    <3>2. control'[j].input = typed[s] + 1  BY <1>1, <1>6, <2>3 DEF IsInput
    <3>3. QED  BY <1>1, <1>2, <2>1, <3>1, <3>2
  <2>4. QED  BY <1>1, <2>2, <2>3
<1>7. QED  BY <1>1, <1>4, <1>5, <1>6 DEF InputsInOrder

\* The inputs stay when the log does.
LEMMA InputsInOrderFrame ==
  InputsInOrder /\ UNCHANGED <<control, typed>> => InputsInOrder'
  BY DEF InputsInOrder, IsInput

\* The inputs stay numbered in order.
LEMMA InputsInOrderStep == ASSUME TypeInv, InputsInOrder, Next PROVE InputsInOrder'
<1>1. ASSUME NEW s \in Sessions,
             CloseQueued(s) \/ BecomeOverdue(s) \/ ClaimFails(s) \/ Spawn(s)
             \/ SpawnFails(s) \/ Serve(s) \/ CloseShell(s) \/ GoOn(s) \/ Poll(s)
             \/ Output(s) \/ ReportFails(s) \/ PostEnd(s) \/ EndFails(s) \/ ShellEnds(s)
      PROVE  InputsInOrder'
  BY <1>1, InputsInOrderFrame DEF CloseQueued, BecomeOverdue, ClaimFails, Spawn,
     SpawnFails, Serve, CloseShell, GoOn, Poll, Output, ReportFails, PostEnd, EndFails,
     ShellEnds, hubVars
<1>2. ASSUME NEW m \in net,
             GrantClaim(m) \/ RefuseClaim(m) \/ HandleReport(m) \/ HandleEnd(m)
      PROVE  InputsInOrder'
  BY <1>2, InputsInOrderFrame DEF GrantClaim, RefuseClaim, HandleReport, HandleEnd,
     hubVars
<1>3. ASSUME NEW A \in recons,
             HandleReconcile(A)
      PROVE  InputsInOrder'
  BY <1>3, InputsInOrderFrame DEF HandleReconcile, hubVars
<1>4. CASE Connect \/ ReconcileFails \/ DispatchStart \/ DispatchInput \/ DispatchResize
          \/ DispatchClose \/ StreamBreaks \/ Heartbeat \/ Crash \/ Restart
          \/ BecomeStale \/ Reap
  BY <1>4, InputsInOrderFrame DEF Connect, ReconcileFails, DispatchStart,
     DispatchInput, DispatchResize, DispatchClose, StreamBreaks, Heartbeat, Crash,
     Restart, BecomeStale, Reap, Consume, hubVars
<1>5. ASSUME NEW s \in Sessions, Create(s) PROVE InputsInOrder'
  BY <1>5, ControlEventIn, InputsGrow DEF Create
<1>6. ASSUME NEW s \in Sessions, Type(s) PROVE InputsInOrder'
  <2>1. typed[s] + 1 \in Nat  BY DEF TypeInv, TypeOK, HubTypes
  <2>2. ControlEvent("stdin", s, typed[s] + 1) \in ControlEvents  BY <2>1, ControlEventIn
  <2>3. /\ ControlEvent("stdin", s, typed[s] + 1).kind = "stdin"
        /\ ControlEvent("stdin", s, typed[s] + 1).session = s
        /\ ControlEvent("stdin", s, typed[s] + 1).input = typed[s] + 1
    BY DEF ControlEvent
  <2>4. QED  BY <1>6, <2>2, <2>3, InputsGrow DEF Type
<1>7. ASSUME NEW s \in Sessions, Resize(s) PROVE InputsInOrder'
  BY <1>7, ControlEventIn, InputsGrow DEF Resize
<1>8. ASSUME NEW s \in Sessions, CloseRunning(s) PROVE InputsInOrder'
  BY <1>8, ControlEventIn, InputsGrow DEF CloseRunning
<1>9. ASSUME NEW s \in Sessions,
             Drained(s) \/ DrainOutput(s) \/ StraySpawns(s) \/ StrayServes(s) \/ StrayEnds(s)
      PROVE  InputsInOrder'
  BY <1>9, InputsInOrderFrame DEF Drained, DrainOutput, StraySpawns, StrayServes,
     StrayEnds, hubVars
<1>10. CASE Swap
  BY <1>10, InputsInOrderFrame DEF Swap, hubVars
<1>11. QED  BY <1>1, <1>2, <1>3, <1>4, <1>5, <1>6, <1>7, <1>8, <1>9, <1>10 DEF Next,
     Initiator, Handle, Dispatch, Loop, Turn, Thread, Stray

\* What the loop has read does not change when the log grows.
LEMMA ReadingGrows ==
  ASSUME TypeInv, Reading, NEW e \in ControlEvents, control' = Append(control, e),
         UNCHANGED <<connVars, controls, recons>>
  PROVE  Reading'
<1>1. /\ Len(control') = Len(control) + 1 /\ Len(control) \in Nat
      /\ \A i \in 1 .. Len(control) : control'[i] = control[i]
  BY LogGrows
<1>2. lastId \in Nat /\ lastId <= Len(control)  BY DEF Reading, TypeInv, TypeOK, ConnTypes
<1>3. \A i \in 1 .. lastId : control'[i] = control[i]  BY <1>1, <1>2
<1>4. QED  BY <1>1, <1>2, <1>3 DEF Reading, IsStart, connVars

\* The loop reads one more event, and starts nothing.
LEMMA ReadingConsumes ==
  ASSUME TypeInv, Reading, NEW e, Consume(e), controls' = controls
  PROVE  Reading'
<1>1. lastId \in Nat /\ position = lastId /\ Len(control) \in Nat
  BY DEF Consume, Reading, TypeInv, TypeOK, ConnTypes, HubTypes
<1>2. lastId' = lastId + 1 /\ position' = lastId + 1 /\ lastId + 1 <= Len(control)
  BY <1>1 DEF Consume
<1>3. UNCHANGED <<control, conn, up, recons>>  BY DEF Consume, hubVars
<1>4. QED  BY <1>1, <1>2, <1>3 DEF Reading, IsStart

\* The loop's knowledge stays when it does nothing.
LEMMA ReadingFrame ==
  Reading /\ UNCHANGED <<lastId, control, conn, up, position, recons, controls>> => Reading'
  BY DEF Reading, IsStart

\* What the loop has read stays a part of the log.
LEMMA ReadingStep == ASSUME TypeInv, Reading, Next PROVE Reading'
<1>1. ASSUME NEW s \in Sessions,
             CloseQueued(s) \/ BecomeOverdue(s) \/ ClaimFails(s) \/ Spawn(s)
             \/ SpawnFails(s) \/ Serve(s) \/ CloseShell(s) \/ GoOn(s) \/ Poll(s)
             \/ Output(s) \/ ReportFails(s) \/ PostEnd(s) \/ EndFails(s) \/ ShellEnds(s)
      PROVE  Reading'
  BY <1>1, ReadingFrame DEF CloseQueued, BecomeOverdue, ClaimFails, Spawn, SpawnFails,
     Serve, CloseShell, GoOn, Poll, Output, ReportFails, PostEnd, EndFails, ShellEnds,
     EndRetried, ThreadDies, hubVars, connVars, ctlVars, netVars
<1>2. ASSUME NEW m \in net,
             GrantClaim(m) \/ HandleReport(m)
      PROVE  Reading'
  BY <1>2, ReadingFrame DEF GrantClaim, HandleReport, ThreadDies, hubVars, connVars,
     ctlVars, netVars
<1>3. CASE Heartbeat \/ BecomeStale \/ Reap
  BY <1>3, ReadingFrame DEF Heartbeat, BecomeStale, Reap, hubVars, connVars, ctlVars,
     netVars
<1>4. ASSUME NEW s \in Sessions, Create(s) PROVE Reading'
  BY <1>4, ControlEventIn, ReadingGrows DEF Create, ctlVars, netVars
<1>5. ASSUME NEW s \in Sessions, Type(s) PROVE Reading'
  <2>1. typed[s] + 1 \in Nat  BY DEF TypeInv, TypeOK, HubTypes
  <2>2. QED  BY <1>5, <2>1, ControlEventIn, ReadingGrows DEF Type, ctlVars, netVars
<1>6. ASSUME NEW s \in Sessions, Resize(s) PROVE Reading'
  BY <1>6, ControlEventIn, ReadingGrows DEF Resize, ctlVars, netVars
<1>7. ASSUME NEW s \in Sessions, CloseRunning(s) PROVE Reading'
  BY <1>7, ControlEventIn, ReadingGrows DEF CloseRunning, ctlVars, netVars
<1>8. ASSUME NEW m \in net, RefuseClaim(m) PROVE Reading'
  BY <1>8 DEF RefuseClaim, ThreadEnds, ThreadDies, EndRetried, Reading, IsStart, hubVars, ctlVars, connVars
<1>9. ASSUME NEW m \in net, HandleEnd(m) PROVE Reading'
  BY <1>9 DEF HandleEnd, ThreadEnds, ThreadDies, EndRetried, Reading, IsStart, hubVars, ctlVars, connVars
<1>10. ASSUME NEW A \in recons, HandleReconcile(A) PROVE Reading'
  BY <1>10 DEF HandleReconcile, Reading, IsStart, hubVars, ctlVars, connVars, netVars
<1>11. CASE Connect
  BY <1>11 DEF Connect, ResumeFrom, ActiveSessions, Reading, IsStart, hubVars, ctlVars, connVars, netVars
<1>12. CASE ReconcileFails
  BY <1>12 DEF ReconcileFails, Reading, IsStart, hubVars, ctlVars, connVars, netVars
<1>13. CASE DispatchStart
  <2>0. lastId \in Nat /\ Len(control) \in Nat  BY DEF TypeInv, TypeOK, ConnTypes, HubTypes
  <2>1. /\ lastId' = lastId + 1 /\ position' = lastId + 1 /\ lastId + 1 <= Len(control)
        /\ UNCHANGED <<control, conn, up, recons>> /\ conn = "reading"
    BY <1>13, <2>0 DEF DispatchStart, Consume, Reading, hubVars
  <2>2. \A r \in controls' : r \in controls \/ IsStart(lastId + 1, r)
    BY <1>13, <2>0 DEF DispatchStart, Consume, Reading, IsStart
  <2>3. up /\ recons = {}  BY <2>1 DEF Reading
  <2>4. \A r \in controls' : \E i \in 1 .. lastId + 1 : IsStart(i, r)
    BY <2>0, <2>2 DEF Reading
  <2>5. QED  BY <2>0, <2>1, <2>3, <2>4 DEF Reading, IsStart
<1>14. CASE DispatchInput
  BY <1>14, ReadingConsumes DEF DispatchInput
<1>15. CASE DispatchResize
  BY <1>15, ReadingConsumes DEF DispatchResize
<1>16. CASE DispatchClose
  BY <1>16, ReadingConsumes DEF DispatchClose
<1>17. CASE StreamBreaks
  BY <1>17 DEF StreamBreaks, Reading, IsStart, hubVars, ctlVars, connVars, netVars
<1>18. CASE Crash
  <2>1. /\ lastId' = 0 /\ conn' = "down" /\ recons' = {} /\ controls' = {}
        /\ control' = control /\ Len(control) \in Nat
    BY <1>18 DEF Crash, hubVars, TypeInv, TypeOK, HubTypes
  <2>2. QED  BY <2>1 DEF Reading
<1>19. CASE Restart
  BY <1>19 DEF Restart, Reading, IsStart, hubVars, ctlVars, connVars, netVars
<1>20. ASSUME NEW s \in Sessions,
             Drained(s) \/ DrainOutput(s) \/ StraySpawns(s) \/ StrayServes(s) \/ StrayEnds(s)
      PROVE  Reading'
  BY <1>20, ReadingFrame DEF Drained, DrainOutput, StraySpawns, StrayServes, StrayEnds,
     hubVars, connVars, ctlVars, netVars
<1>21. CASE Swap
  <2>1. /\ lastId' = 0 /\ conn' = "down" /\ controls' = {} /\ UNCHANGED <<control, recons>>
        /\ conn = "down" /\ Len(control) \in Nat
    BY <1>21 DEF Swap, hubVars, TypeInv, TypeOK, HubTypes
  <2>2. recons = {}  BY <2>1 DEF Reading
  <2>3. QED  BY <2>1, <2>2 DEF Reading
<1>22. QED  BY <1>1, <1>2, <1>3, <1>4, <1>5, <1>6, <1>7, <1>8, <1>9, <1>10, <1>11,
     <1>12, <1>13, <1>14, <1>15, <1>16, <1>17, <1>18, <1>19, <1>20, <1>21 DEF Next,
     Initiator, Handle, Dispatch, Loop, Turn, Thread, Stray

\* A thread has its controls as long as it runs.
LEMMA HasControlsStep == ASSUME TypeInv, HasControls, Awaited, Claimed, Next PROVE HasControls'
<1>1. ASSUME NEW s \in Sessions,
             Create(s) \/ Type(s) \/ Resize(s) \/ CloseQueued(s) \/ CloseRunning(s)
             \/ BecomeOverdue(s) \/ PostEnd(s) \/ EndFails(s)
             \/ ShellEnds(s)
      PROVE  HasControls'
  BY <1>1 DEF HasControls, Awaited, Awaits, Request, Claimed, Looping, TypeInv,
     TypeOK, CtlTypes, WorkTypes, Create, Type, Resize, CloseQueued, CloseRunning,
     BecomeOverdue, PostEnd, EndFails, ShellEnds, EndRetried, ctlVars, workVars
<1>2. ASSUME NEW A \in recons,
             HandleReconcile(A)
      PROVE  HasControls'
  BY <1>2 DEF HasControls, Awaited, Awaits, Request, Claimed, Looping, TypeInv,
     TypeOK, CtlTypes, WorkTypes, HandleReconcile, ctlVars, workVars
<1>3. CASE Connect \/ ReconcileFails \/ DispatchResize \/ DispatchClose \/ StreamBreaks
          \/ Heartbeat \/ Restart \/ BecomeStale \/ Reap
  BY <1>3 DEF HasControls, Awaited, Awaits, Request, Claimed, Looping, TypeInv,
     TypeOK, CtlTypes, WorkTypes, Connect, ReconcileFails, DispatchResize, DispatchClose,
     StreamBreaks, Heartbeat, Restart, BecomeStale, Reap, Consume, ctlVars, workVars
<1>4. ASSUME NEW s \in Sessions, ClaimFails(s) PROVE HasControls'
  BY <1>4 DEF HasControls, Awaited, Awaits, Request, Claimed, Looping, TypeInv,
     TypeOK, CtlTypes, WorkTypes, ClaimFails, Pending, Commit, ThreadDies, ctlVars,
     workVars
<1>5. ASSUME NEW s \in Sessions, Spawn(s) PROVE HasControls'
  BY <1>5 DEF HasControls, Awaited, Awaits, Request, Claimed, Looping, TypeInv,
     TypeOK, CtlTypes, WorkTypes, Spawn, Request, ctlVars, workVars
<1>6. ASSUME NEW s \in Sessions, SpawnFails(s) PROVE HasControls'
  BY <1>6 DEF HasControls, Awaited, Awaits, Request, Claimed, Looping, TypeInv,
     TypeOK, CtlTypes, WorkTypes, SpawnFails, NoShell, Commit, StartEnd, ctlVars, workVars
<1>7. ASSUME NEW s \in Sessions, Serve(s) PROVE HasControls'
  BY <1>7 DEF HasControls, Awaited, Awaits, Request, Claimed, Looping, TypeInv,
     TypeOK, CtlTypes, WorkTypes, Serve, Write, PtyTakes, Commit, LoopRaises, StartEnd,
     CloseMaster, ctlVars, workVars
<1>8. ASSUME NEW s \in Sessions, CloseShell(s) PROVE HasControls'
  BY <1>8 DEF HasControls, Awaited, Awaits, Request, Claimed, Looping, TypeInv,
     TypeOK, CtlTypes, WorkTypes, CloseShell, StartEnd, CloseMaster, ctlVars, workVars
<1>9. ASSUME NEW s \in Sessions, GoOn(s) PROVE HasControls'
  BY <1>9 DEF HasControls, Awaited, Awaits, Request, Claimed, Looping, TypeInv,
     TypeOK, CtlTypes, WorkTypes, GoOn, ctlVars, workVars
<1>10. ASSUME NEW s \in Sessions, Poll(s) PROVE HasControls'
  BY <1>10 DEF HasControls, Awaited, Awaits, Request, Claimed, Looping, TypeInv,
     TypeOK, CtlTypes, WorkTypes, Poll, Pending, StartEnd, CloseMaster, ctlVars,
     workVars
<1>11. ASSUME NEW s \in Sessions, ReportFails(s) PROVE HasControls'
  BY <1>11 DEF HasControls, Awaited, Awaits, Request, Claimed, Looping, TypeInv,
     TypeOK, CtlTypes, WorkTypes, ReportFails, Pending, Commit, ReportRaises, LoopRaises,
     StartEnd, CloseMaster, ctlVars, workVars
<1>12. ASSUME NEW m \in net, GrantClaim(m) PROVE HasControls'
  <2>1. m.session \in Sessions /\ worker[m.session] = "claiming" /\ m.session \in controls
    BY <1>12, RequestTypes DEF GrantClaim, Awaited, Awaits, Request, HasControls
  <2>2. UNCHANGED <<controls, inputs>> /\ \A r \in Sessions : r # m.session => worker'[r] = worker[r]
    BY <1>12 DEF GrantClaim, ThreadDies, ctlVars, TypeInv, TypeOK, WorkTypes
  <2>3. QED  BY <2>1, <2>2 DEF HasControls
<1>13. ASSUME NEW m \in net, RefuseClaim(m) PROVE HasControls'
  BY RequestTypes, <1>13 DEF HasControls, Awaited, Awaits, Request, Claimed, Looping,
     TypeInv, TypeOK, CtlTypes, WorkTypes, RefuseClaim, Claimable, Commit, ThreadEnds,
     ThreadDies, ctlVars, workVars
<1>14. ASSUME NEW m \in net, HandleReport(m) PROVE HasControls'
  <2>1. m.session \in Sessions /\ worker[m.session] # "idle"
    BY <1>14, RequestTypes DEF HandleReport, Awaited, Awaits, Request
  <2>2. UNCHANGED <<controls, inputs>>  BY <1>14 DEF HandleReport, ctlVars
  <2>3. \A r \in Sessions : r # m.session => worker'[r] = worker[r]
    BY <1>14, <2>1 DEF HandleReport, ReportRaises, LoopRaises, StartEnd, TypeInv, TypeOK, WorkTypes
  <2>4. QED  BY <2>1, <2>2, <2>3 DEF HasControls
<1>15. ASSUME NEW m \in net, HandleEnd(m) PROVE HasControls'
  BY RequestTypes, <1>15 DEF HasControls, Awaited, Awaits, Request, Claimed, Looping,
     TypeInv, TypeOK, CtlTypes, WorkTypes, HandleEnd, ApplyEnd, Resolve, ThreadEnds,
     Commit, EndRetried, ctlVars, workVars
<1>16. CASE DispatchStart
  BY EventIn, <1>16 DEF HasControls, Awaited, Awaits, Request, Claimed, Looping,
     TypeInv, TypeOK, CtlTypes, WorkTypes, DispatchStart, Consume, Request, ctlVars,
     workVars
<1>17. CASE DispatchInput
  BY EventIn, <1>17 DEF HasControls, Awaited, Awaits, Request, Claimed, Looping,
     TypeInv, TypeOK, CtlTypes, WorkTypes, DispatchInput, Consume, TakesInput, ctlVars,
     workVars
<1>18. CASE Crash
  BY <1>18 DEF HasControls, Awaited, Awaits, Request, Claimed, Looping, TypeInv,
     TypeOK, CtlTypes, WorkTypes, Crash, Commit, ctlVars, workVars
<1>19. ASSUME NEW s \in Sessions,
             DrainOutput(s) \/ StraySpawns(s) \/ StrayServes(s) \/ StrayEnds(s)
      PROVE  HasControls'
  BY <1>19 DEF HasControls, DrainOutput, StraySpawns, StrayServes, StrayEnds, ctlVars,
     workVars
<1>20. ASSUME NEW s \in Sessions, Output(s) PROVE HasControls'
  BY <1>20 DEF HasControls, TypeInv, TypeOK, CtlTypes, WorkTypes, Output, ctlVars
<1>21. ASSUME NEW s \in Sessions, Drained(s) PROVE HasControls'
  BY <1>21 DEF HasControls, TypeInv, TypeOK, CtlTypes, WorkTypes, Drained, StartEnd,
     ctlVars
<1>22. CASE Swap
  BY <1>22 DEF HasControls, TypeInv, TypeOK, CtlTypes, WorkTypes, Swap
<1>23. QED  BY <1>1, <1>2, <1>3, <1>4, <1>5, <1>6, <1>7, <1>8, <1>9, <1>10, <1>11,
     <1>12, <1>13, <1>14, <1>15, <1>16, <1>17, <1>18, <1>19, <1>20, <1>21, <1>22 DEF
     Next, Initiator, Handle, Dispatch, Loop, Turn, Thread, Stray

\* A thread waits for one request.
LEMMA AwaitedStep == ASSUME TypeInv, HasControls, Awaited, Next PROVE Awaited'
<1>1. ASSUME NEW s \in Sessions,
             Create(s) \/ Type(s) \/ Resize(s) \/ CloseQueued(s) \/ CloseRunning(s)
             \/ BecomeOverdue(s) \/ ShellEnds(s)
      PROVE  Awaited'
  BY <1>1 DEF Awaited, Awaits, Request, HasControls, TypeInv, TypeOK, WorkTypes,
     Looping, Create, Type, Resize, CloseQueued, CloseRunning, BecomeOverdue, ShellEnds,
     workVars, netVars
<1>2. ASSUME NEW A \in recons,
             HandleReconcile(A)
      PROVE  Awaited'
  BY <1>2 DEF Awaited, Awaits, Request, HasControls, TypeInv, TypeOK, WorkTypes,
     Looping, HandleReconcile, workVars, netVars
<1>3. CASE Connect \/ ReconcileFails \/ DispatchInput \/ DispatchResize \/ DispatchClose
          \/ StreamBreaks \/ Heartbeat \/ Restart \/ BecomeStale \/ Reap
  BY <1>3 DEF Awaited, Awaits, Request, HasControls, TypeInv, TypeOK, WorkTypes,
     Looping, Connect, ReconcileFails, DispatchInput, DispatchResize, DispatchClose,
     StreamBreaks, Heartbeat, Restart, BecomeStale, Reap, Consume, workVars, netVars
<1>4. ASSUME NEW s \in Sessions, ClaimFails(s) PROVE Awaited'
  BY RequestTypes, <1>4 DEF Awaited, Awaits, Request, HasControls, TypeInv, TypeOK,
     WorkTypes, Looping, ClaimFails, Pending, Commit, ThreadDies, workVars, netVars
<1>5. ASSUME NEW s \in Sessions, Spawn(s) PROVE Awaited'
  BY RequestTypes, <1>5 DEF Awaited, Awaits, Request, HasControls, TypeInv, TypeOK,
     WorkTypes, Looping, Spawn, Request, workVars, netVars
<1>6. ASSUME NEW s \in Sessions, SpawnFails(s) PROVE Awaited'
  BY RequestTypes, <1>6 DEF Awaited, Awaits, Request, HasControls, TypeInv, TypeOK,
     WorkTypes, Looping, SpawnFails, NoShell, Commit, StartEnd, workVars, netVars
<1>7. ASSUME NEW s \in Sessions, Serve(s) PROVE Awaited'
  BY RequestTypes, <1>7 DEF Awaited, Awaits, Request, HasControls, TypeInv, TypeOK,
     WorkTypes, Looping, Serve, Write, PtyTakes, Commit, LoopRaises, StartEnd, CloseMaster,
     workVars, netVars
<1>8. ASSUME NEW s \in Sessions, CloseShell(s) PROVE Awaited'
  BY RequestTypes, <1>8 DEF Awaited, Awaits, Request, HasControls, TypeInv, TypeOK,
     WorkTypes, Looping, CloseShell, StartEnd, CloseMaster, workVars, netVars
<1>9. ASSUME NEW s \in Sessions, GoOn(s) PROVE Awaited'
  BY RequestTypes, <1>9 DEF Awaited, Awaits, Request, HasControls, TypeInv, TypeOK,
     WorkTypes, Looping, GoOn, workVars, netVars
<1>10. ASSUME NEW s \in Sessions, Poll(s) PROVE Awaited'
  BY RequestTypes, <1>10 DEF Awaited, Awaits, Request, HasControls, TypeInv, TypeOK,
     WorkTypes, Looping, Poll, Pending, StartEnd, CloseMaster, workVars, netVars
<1>11. ASSUME NEW s \in Sessions, Output(s) PROVE Awaited'
  BY RequestTypes, <1>11 DEF Awaited, Awaits, Request, HasControls, TypeInv, TypeOK,
     WorkTypes, Looping, Output, Pending, Request, workVars, netVars
<1>12. ASSUME NEW s \in Sessions, ReportFails(s) PROVE Awaited'
  BY RequestTypes, <1>12 DEF Awaited, Awaits, Request, HasControls, TypeInv, TypeOK,
     WorkTypes, Looping, ReportFails, Pending, Commit, ReportRaises, LoopRaises,
     StartEnd, CloseMaster, workVars, netVars
<1>13. ASSUME NEW s \in Sessions, PostEnd(s) PROVE Awaited'
  BY RequestTypes, <1>13 DEF Awaited, Awaits, Request, HasControls, TypeInv, TypeOK,
     WorkTypes, Looping, PostEnd, Pending, Request, workVars, netVars
<1>14. ASSUME NEW s \in Sessions, EndFails(s) PROVE Awaited'
  BY RequestTypes, <1>14 DEF Awaited, Awaits, Request, HasControls, TypeInv, TypeOK,
     WorkTypes, Looping, EndFails, Pending, Commit, EndRetried, workVars, netVars
<1>15. ASSUME NEW m \in net, GrantClaim(m) PROVE Awaited'
  BY RequestTypes, <1>15 DEF Awaited, Awaits, Request, HasControls, TypeInv, TypeOK,
     WorkTypes, Looping, GrantClaim, Claimable, Commit, ThreadDies, workVars, netVars
<1>16. ASSUME NEW m \in net, RefuseClaim(m) PROVE Awaited'
  BY RequestTypes, <1>16 DEF Awaited, Awaits, Request, HasControls, TypeInv, TypeOK,
     WorkTypes, Looping, RefuseClaim, Claimable, Commit, ThreadEnds, ThreadDies,
     workVars, netVars
<1>17. ASSUME NEW m \in net, HandleReport(m) PROVE Awaited'
  BY RequestTypes, <1>17 DEF Awaited, Awaits, Request, HasControls, TypeInv, TypeOK,
     WorkTypes, Looping, HandleReport, Commit, ReportRaises, LoopRaises, StartEnd,
     CloseMaster, workVars, netVars
<1>18. ASSUME NEW m \in net, HandleEnd(m) PROVE Awaited'
  BY RequestTypes, <1>18 DEF Awaited, Awaits, Request, HasControls, TypeInv, TypeOK,
     WorkTypes, Looping, HandleEnd, ApplyEnd, Resolve, ThreadEnds, Commit, EndRetried,
     workVars, netVars
<1>19. CASE DispatchStart
  BY RequestTypes, EventIn, <1>19 DEF Awaited, Awaits, Request, HasControls, TypeInv,
     TypeOK, WorkTypes, Looping, DispatchStart, Consume, Request, workVars, netVars
<1>20. CASE Crash
  BY <1>20 DEF Awaited, Awaits, Request, HasControls, TypeInv, TypeOK, WorkTypes,
     Looping, Crash, Commit, workVars, netVars
<1>21. ASSUME NEW s \in Sessions,
             StraySpawns(s) \/ StrayServes(s) \/ StrayEnds(s)
      PROVE  Awaited'
  BY <1>21 DEF Awaited, Awaits, StraySpawns, StrayServes, StrayEnds, workVars, netVars
<1>22. ASSUME NEW s \in Sessions, DrainOutput(s) PROVE Awaited'
  BY RequestTypes, <1>22 DEF Awaited, Awaits, Request, TypeInv, TypeOK, WorkTypes,
     Looping, DrainOutput, workVars
<1>23. ASSUME NEW s \in Sessions, Drained(s) PROVE Awaited'
  BY RequestTypes, <1>23 DEF Awaited, Awaits, Request, TypeInv, TypeOK, WorkTypes,
     Looping, Drained, Pending, StartEnd, netVars
<1>24. CASE Swap
  BY <1>24 DEF Awaited, Swap
<1>25. QED  BY <1>1, <1>2, <1>3, <1>4, <1>5, <1>6, <1>7, <1>8, <1>9, <1>10, <1>11,
     <1>12, <1>13, <1>14, <1>15, <1>16, <1>17, <1>18, <1>19, <1>20, <1>21, <1>22, <1>23,
     <1>24 DEF Next, Initiator, Handle, Dispatch, Loop, Turn, Thread, Stray

\* Whoever serves a session has claimed it, and spawns one shell.
LEMMA ClaimedStep == ASSUME TypeInv, HasControls, Awaited, Claimed, Next PROVE Claimed'
<1>1. ASSUME NEW s \in Sessions,
             Type(s) \/ Resize(s) \/ CloseRunning(s) \/ BecomeOverdue(s)
             \/ PostEnd(s) \/ EndFails(s) \/ ShellEnds(s)
      PROVE  Claimed'
  BY <1>1 DEF Claimed, HasControls, Awaited, Awaits, Request, Looping, Over, Open,
     TypeInv, TypeOK, HubTypes, WorkTypes, OsTypes, Type, Resize, CloseRunning,
     BecomeOverdue, PostEnd, EndFails, ShellEnds, EndRetried, hubVars, osVars, strayVars,
     workVars
<1>2. CASE Connect \/ ReconcileFails \/ DispatchInput \/ DispatchResize \/ DispatchClose
          \/ StreamBreaks \/ Heartbeat \/ Restart \/ BecomeStale
  BY <1>2 DEF Claimed, HasControls, Awaited, Awaits, Request, Looping, Over, Open,
     TypeInv, TypeOK, HubTypes, WorkTypes, OsTypes, Connect, ReconcileFails,
     DispatchInput, DispatchResize, DispatchClose, StreamBreaks, Heartbeat, Restart,
     BecomeStale, Consume, hubVars, osVars, strayVars, workVars
<1>3. ASSUME NEW s \in Sessions, Create(s) PROVE Claimed'
  BY <1>3 DEF Claimed, HasControls, Awaited, Awaits, Request, Looping, Over, Open,
     TypeInv, TypeOK, HubTypes, WorkTypes, OsTypes, Create, ControlEvent, hubVars,
     osVars, strayVars, workVars
<1>4. ASSUME NEW s \in Sessions, CloseQueued(s) PROVE Claimed'
  BY <1>4 DEF Claimed, HasControls, Awaited, Awaits, Request, Looping, Over, Open,
     TypeInv, TypeOK, HubTypes, WorkTypes, OsTypes, CloseQueued, Resolve, hubVars,
     osVars, strayVars, workVars
<1>5. ASSUME NEW s \in Sessions, ClaimFails(s) PROVE Claimed'
  BY <1>5 DEF Claimed, HasControls, Awaited, Awaits, Request, Looping, Over, Open,
     TypeInv, TypeOK, HubTypes, WorkTypes, OsTypes, ClaimFails, Pending, Commit,
     ThreadDies, hubVars, osVars, strayVars, workVars
<1>6. ASSUME NEW s \in Sessions, Spawn(s) PROVE Claimed'
  BY <1>6 DEF Claimed, HasControls, Awaited, Awaits, Request, Looping, Over, Open,
     TypeInv, TypeOK, HubTypes, WorkTypes, OsTypes, Spawn, Request, hubVars, osVars, strayVars,
     workVars
<1>7. ASSUME NEW s \in Sessions, SpawnFails(s) PROVE Claimed'
  BY <1>7 DEF Claimed, HasControls, Awaited, Awaits, Request, Looping, Over, Open,
     TypeInv, TypeOK, HubTypes, WorkTypes, OsTypes, SpawnFails, NoShell, Commit, StartEnd,
     hubVars, osVars, strayVars, workVars
<1>8. ASSUME NEW s \in Sessions, Serve(s) PROVE Claimed'
  <2>1. worker[s] = "serving" /\ UNCHANGED <<status, started, spawned, stray>>
    BY <1>8 DEF Serve, hubVars, strayVars
  <2>2. \/ worker' = [worker EXCEPT ![s] = "checking"]
        \/ worker' = [worker EXCEPT ![s] = "ending"]
    BY <1>8 DEF Serve, LoopRaises, StartEnd
  <2>3. \A r \in Sessions : r # s => written'[r] = written[r]
    BY <1>8 DEF Serve, Write, TypeInv, TypeOK, OsTypes
  <2>4. spawned[s] = 1 /\ started[s] /\ stray[s] = "none" /\ status[s] \notin {"none", "queued"}
    BY <2>1 DEF Claimed, Looping
  <2>5. QED  BY <2>1, <2>2, <2>3, <2>4 DEF Claimed, Looping, TypeInv, TypeOK, WorkTypes
<1>9. ASSUME NEW s \in Sessions, CloseShell(s) PROVE Claimed'
  BY <1>9 DEF Claimed, HasControls, Awaited, Awaits, Request, Looping, Over, Open,
     TypeInv, TypeOK, HubTypes, WorkTypes, OsTypes, CloseShell, StartEnd, CloseMaster,
     hubVars, osVars, strayVars, workVars
<1>10. ASSUME NEW s \in Sessions, GoOn(s) PROVE Claimed'
  BY <1>10 DEF Claimed, HasControls, Awaited, Awaits, Request, Looping, Over, Open,
     TypeInv, TypeOK, HubTypes, WorkTypes, OsTypes, GoOn, hubVars, osVars, strayVars, workVars
<1>11. ASSUME NEW s \in Sessions, Poll(s) PROVE Claimed'
  BY <1>11 DEF Claimed, HasControls, Awaited, Awaits, Request, Looping, Over, Open,
     TypeInv, TypeOK, HubTypes, WorkTypes, OsTypes, Poll, Pending, StartEnd, CloseMaster,
     hubVars, osVars, strayVars, workVars
<1>12. ASSUME NEW s \in Sessions, ReportFails(s) PROVE Claimed'
  <2>1. worker[s] \in {"starting", "polling", "draining"}
    BY <1>12 DEF ReportFails, Pending, Awaited, Awaits, Request
  <2>2. UNCHANGED <<status, started, spawned, written, stray>>
    BY <1>12 DEF ReportFails, hubVars, strayVars
  <2>3. worker' = [worker EXCEPT ![s] = "ending"]
    BY <1>12 DEF ReportFails, ReportRaises, LoopRaises, StartEnd
  <2>4. QED  BY <2>1, <2>2, <2>3 DEF Claimed, Looping, TypeInv, TypeOK, WorkTypes
<1>13. ASSUME NEW m \in net, GrantClaim(m) PROVE Claimed'
  <2>1. m.session \in Sessions /\ status[m.session] = "queued"
    BY <1>13, RequestTypes DEF GrantClaim, Claimable
  <2>2. UNCHANGED <<spawned, written, stray>>  BY <1>13 DEF GrantClaim, osVars, strayVars
  <2>3. /\ status' = [status EXCEPT ![m.session] = "running"]
        /\ started' = [started EXCEPT ![m.session] = TRUE]
    BY <1>13 DEF GrantClaim
  <2>4. /\ worker'[m.session] \in {"leased", "idle"}
        /\ \A s \in Sessions : s # m.session => worker'[s] = worker[s]
    BY <1>13, <2>1 DEF GrantClaim, ThreadDies, TypeInv, TypeOK, WorkTypes
  <2>5. status \in [Sessions -> {"none"} \cup Open \cup Over] /\ started \in [Sessions -> BOOLEAN]
    BY DEF TypeInv, TypeOK, HubTypes
  <2>6. QED  BY <2>1, <2>2, <2>3, <2>4, <2>5 DEF Claimed, Looping
<1>14. ASSUME NEW m \in net, RefuseClaim(m) PROVE Claimed'
  <2>1. UNCHANGED <<status, started, spawned, written, stray>>
    BY <1>14 DEF RefuseClaim, hubVars, osVars, strayVars
  <2>2. \A s \in Sessions : worker'[s] = worker[s] \/ worker'[s] = "idle"
    BY <1>14, RequestTypes DEF RefuseClaim, ThreadEnds, ThreadDies, TypeInv, TypeOK, WorkTypes
  <2>3. QED  BY <2>1, <2>2 DEF Claimed, Looping
<1>15. ASSUME NEW m \in net, HandleReport(m) PROVE Claimed'
  <2>1. \A s \in Sessions : worker'[s] = worker[s] \/ worker'[s] = "ending"
                             \/ (worker[s] = "starting" /\ worker'[s] = "serving")
    BY <1>15, RequestTypes DEF HandleReport, ReportRaises, LoopRaises, StartEnd, TypeInv, TypeOK, WorkTypes
  <2>w. worker[m.session] \in {"starting", "polling", "draining"} /\ m.session \in Sessions
    BY <1>15, RequestTypes DEF HandleReport, Awaited, Awaits, Request
  <2>3. UNCHANGED <<status, started, spawned, written, stray>>
    BY <1>15 DEF HandleReport, strayVars
  <2>4. \A s \in Sessions : worker'[s] = worker[s] \/ worker[s] \in {"starting", "polling", "draining"}
    BY <1>15, <2>w DEF HandleReport, ReportRaises, LoopRaises, StartEnd, TypeInv, TypeOK, WorkTypes
  <2>5. QED  BY <2>1, <2>3, <2>4 DEF Claimed, Looping
<1>16. ASSUME NEW m \in net, HandleEnd(m) PROVE Claimed'
  <2>1. m.session \in Sessions /\ m.body \in Over
    BY <1>16, RequestTypes DEF HandleEnd
  <2>2. UNCHANGED <<spawned, written, started, stray>>  BY <1>16 DEF HandleEnd, osVars, strayVars
  <2>3. \A s \in Sessions : status'[s] = status[s] \/ status'[s] \in Over
    BY <1>16, <2>1 DEF HandleEnd, ApplyEnd, Resolve
  <2>4. \A s \in Sessions : worker'[s] = worker[s] \/ worker'[s] = "idle"
    BY <1>16, <2>1 DEF HandleEnd, ThreadEnds, EndRetried, TypeInv, TypeOK, WorkTypes
  <2>5. QED  BY <2>2, <2>3, <2>4 DEF Claimed, Looping, Over
<1>17. ASSUME NEW A \in recons, HandleReconcile(A) PROVE Claimed'
  BY <1>17 DEF Claimed, HasControls, Awaited, Awaits, Request, Looping, Over, Open,
     TypeInv, TypeOK, HubTypes, WorkTypes, OsTypes, HandleReconcile, Resolve, Unlisted,
     hubVars, osVars, strayVars, workVars
<1>18. CASE DispatchStart
  <2>1. \A s \in Sessions : worker'[s] = worker[s] \/ (worker[s] = "idle" /\ worker'[s] = "claiming")
    BY <1>18, EventIn DEF DispatchStart, HasControls, TypeInv, TypeOK, WorkTypes
  <2>2. UNCHANGED <<status, started, spawned, written, stray>>
    BY <1>18 DEF DispatchStart, Consume, hubVars, osVars, strayVars
  <2>3. QED  BY <2>1, <2>2 DEF Claimed, Looping
<1>19. CASE Crash
  BY <1>19 DEF Claimed, HasControls, Awaited, Awaits, Request, Looping, Over, Open,
     TypeInv, TypeOK, HubTypes, WorkTypes, OsTypes, Crash, Commit, hubVars, osVars, strayVars,
     workVars
<1>20. CASE Reap
  BY <1>20 DEF Claimed, HasControls, Awaited, Awaits, Request, Looping, Over, Open,
     TypeInv, TypeOK, HubTypes, WorkTypes, OsTypes, Reap, Resolve, Lost, Unclaimed,
     hubVars, osVars, strayVars, workVars
<1>21. ASSUME NEW s \in Sessions, DrainOutput(s) PROVE Claimed'
  BY <1>21 DEF Claimed, DrainOutput, hubVars, osVars, strayVars, workVars
<1>22. ASSUME NEW s \in Sessions, Output(s) PROVE Claimed'
  BY <1>22 DEF Claimed, Looping, TypeInv, TypeOK, HubTypes, WorkTypes, OsTypes, Output,
     hubVars, osVars, strayVars
<1>23. ASSUME NEW s \in Sessions, Drained(s) PROVE Claimed'
  BY <1>23 DEF Claimed, Looping, TypeInv, TypeOK, HubTypes, WorkTypes, OsTypes, Drained,
     StartEnd, hubVars, strayVars
<1>24. ASSUME NEW s \in Sessions, StraySpawns(s) PROVE Claimed'
  BY <1>24 DEF Claimed, Looping, TypeInv, TypeOK, HubTypes, WorkTypes, OsTypes,
     StraySpawns, NoShell, hubVars, workVars
<1>25. ASSUME NEW s \in Sessions, StrayServes(s) PROVE Claimed'
  <2>1. UNCHANGED <<status, started, spawned, worker>> /\ stray[s] = "looping"
    BY <1>25 DEF StrayServes, hubVars, workVars
  <2>2. \A r \in Sessions : r # s => written'[r] = written[r]
    BY <1>25 DEF StrayServes, Write, TypeInv, TypeOK, OsTypes
  <2>3. \A r \in Sessions : stray'[r] \in {stray[r], "none"}
    BY <1>25 DEF StrayServes, StrayLeaves, TypeInv, TypeOK, OsTypes
  <2>4. QED  BY <2>1, <2>2, <2>3 DEF Claimed, Looping
<1>26. ASSUME NEW s \in Sessions, StrayEnds(s) PROVE Claimed'
  BY <1>26 DEF Claimed, Looping, TypeInv, TypeOK, HubTypes, WorkTypes, OsTypes,
     StrayEnds, StrayLeaves, hubVars, workVars
<1>27. CASE Swap
  <2>1. UNCHANGED <<status, started, spawned, written>>  BY <1>27 DEF Swap, hubVars
  <2>2. \A s \in Sessions : worker'[s] = "idle"  BY <1>27 DEF Swap
  <2>3. \A s \in Sessions : \/ stray'[s] = stray[s]
                            \/ worker[s] = "leased" /\ stray'[s] = "leased"
                            \/ worker[s] \in Looping /\ stray'[s] = "looping"
    BY <1>27 DEF Swap, GoesOn
  <2>4. QED  BY <2>1, <2>2, <2>3 DEF Claimed, Looping
<1>28. QED  BY <1>1, <1>2, <1>3, <1>4, <1>5, <1>6, <1>7, <1>8, <1>9, <1>10, <1>11,
     <1>12, <1>13, <1>14, <1>15, <1>16, <1>17, <1>18, <1>19, <1>20, <1>21, <1>22, <1>23,
     <1>24, <1>25, <1>26, <1>27 DEF Next, Initiator, Handle, Dispatch, Loop, Turn,
     Thread, Stray

\* The loop reads the input that a thread's queue lacks next.
LEMMA NextInput ==
  ASSUME TypeInv, InputsInOrder, NEW s \in Sessions, NEW n \in Nat, QueueFollows(s, n),
         lastId + 1 \in 1 .. Len(control), IsInput(lastId + 1, s)
  PROVE  control[lastId + 1].input = n + Len(inputs[s]) + 1
<1> DEFINE l == lastId + 1
           k == n + Len(inputs[s])
<1>t. lastId \in Nat /\ k \in Nat /\ typed[s] \in Nat /\ control[l].session = s
  BY DEF TypeInv, TypeOK, ConnTypes, CtlTypes, HubTypes, IsInput
<1>1. control[l].input \in 1 .. typed[s]  BY <1>t DEF InputsInOrder, IsInput
<1>2. control[l].input > k  BY <1>1, <1>t DEF QueueFollows
<1>3. ASSUME control[l].input > k + 1 PROVE FALSE
  <2>0. k + 1 \in 1 .. typed[s]  BY <1>1, <1>t, <1>3
  <2>1. PICK i \in 1 .. Len(control) : IsInput(i, s) /\ control[i].input = k + 1
    BY <2>0 DEF InputsInOrder
  <2>2. ~ (i <= lastId)  BY <1>t, <2>1 DEF QueueFollows
  <2>3. l < i  BY <1>t, <1>3, <2>1, <2>2
  <2>4. control[l].input < control[i].input  BY <2>1, <2>3 DEF InputsInOrder
  <2>5. QED  BY <1>t, <1>1, <1>3, <2>1, <2>4
<1>4. QED  BY <1>t, <1>1, <1>2, <1>3

\* Queues go on to follow when only threads that leave their loop change theirs.
LEMMA QueuesKept ==
  ASSUME TypeInv, Queued, UNCHANGED <<control, lastId, typed>>,
         \A s \in Sessions : worker'[s] \in Serving =>
            worker[s] \in Serving /\ Got(s)' = Got(s) /\ inputs'[s] = inputs[s]
  PROVE  Queued'
<1>1. SUFFICES ASSUME NEW s \in Sessions, worker'[s] \in Serving
               PROVE  QueueFollows(s, Got(s))'
  BY DEF Queued, Serving, Looping
<1>2. QueueFollows(s, Got(s)) /\ Got(s)' = Got(s)  BY <1>1 DEF Queued
<1>3. QED  BY <1>1, <1>2 DEF QueueFollows, IsInput

\* Queues go on to follow when the log takes an event the loop has not read.
LEMMA QueuesGrow ==
  ASSUME TypeInv, Reading, Queued, NEW e \in ControlEvents, control' = Append(control, e),
         UNCHANGED <<lastId, inputs, worker, written>>,
         \/ e.kind # "stdin" /\ typed' = typed
         \/ e.input = typed[e.session] + 1 /\ typed' = [typed EXCEPT ![e.session] = @ + 1]
  PROVE  Queued'
<1> DEFINE N == Len(control)
<1>1. /\ Len(control') = N + 1 /\ N \in Nat /\ control'[N + 1] = e
      /\ \A i \in 1 .. N : control'[i] = control[i]
      /\ \A i \in 1 .. N + 1 : i \in 1 .. N \/ i = N + 1
  BY LogGrows
<1>2. SUFFICES ASSUME NEW s \in Sessions, worker[s] \in Serving
               PROVE  QueueFollows(s, Got(s))'
  BY DEF Queued
<1>3. QueueFollows(s, Got(s)) /\ Got(s)' = Got(s) /\ inputs'[s] = inputs[s]
  BY <1>2 DEF Queued, Got
<1>4. /\ lastId \in Nat /\ lastId <= N /\ typed \in [Sessions -> Nat]
      /\ Len(inputs[s]) \in Nat /\ Got(s) \in Nat /\ e.session \in Sessions
  <2>1. lastId \in Nat /\ lastId <= N  BY DEF Reading, TypeInv, TypeOK, ConnTypes
  <2>2. typed \in [Sessions -> Nat] /\ Len(inputs[s]) \in Nat
    BY DEF TypeInv, TypeOK, HubTypes, CtlTypes
  <2>3. Got(s) \in Nat  BY DEF TypeInv, TypeOK, OsTypes, Got
  <2>4. e.session \in Sessions  BY DEF ControlEvents
  <2>5. QED  BY <2>1, <2>2, <2>3, <2>4
<1> HIDE DEF N
<1>5. Got(s) + Len(inputs[s]) <= typed[s]  BY <1>3 DEF QueueFollows
<1>6. Got(s) + Len(inputs[s]) <= typed'[s]
  <2>1. typed'[s] \in Nat /\ typed[s] \in Nat /\ typed[s] <= typed'[s]  BY <1>4
  <2>2. QED  BY <1>4, <1>5, <2>1
<1>7. ASSUME NEW i \in 1 .. N + 1, IsInput(i, s)'
      PROVE  i <= lastId <=> control'[i].input <= Got(s) + Len(inputs[s])
  <2>1. CASE i \in 1 .. N  BY <1>1, <1>3, <1>7, <2>1 DEF QueueFollows, IsInput, N
  <2>2. CASE i = N + 1
    <3>1. control'[i].input = typed[s] + 1  BY <1>1, <1>7, <2>2 DEF IsInput
    <3>2. QED  BY <1>1, <1>4, <1>5, <2>2, <3>1
  <2>3. QED  BY <1>1, <2>1, <2>2
<1>8. \A i \in 1 .. Len(inputs[s]) : inputs[s][i] = Got(s) + i  BY <1>3 DEF QueueFollows
<1>9. \A i \in 1 .. Len(control') : IsInput(i, s)' =>
         (i <= lastId' <=> control'[i].input <= Got(s)' + Len(inputs'[s]))
  BY <1>1, <1>3, <1>7
<1>10. QED  BY <1>3, <1>6, <1>8, <1>9 DEF QueueFollows

\* A queue goes on to follow when the loop reads something else.
LEMMA QueueSkips ==
  ASSUME TypeInv, NEW s \in Sessions, NEW n \in Nat, QueueFollows(s, n),
         UNCHANGED <<control, typed>>, lastId' = lastId + 1, inputs'[s] = inputs[s],
         ~ IsInput(lastId + 1, s)
  PROVE  QueueFollows(s, n)'
<1>1. lastId \in Nat  BY DEF TypeInv, TypeOK, ConnTypes
<1>2. \A i \in 1 .. Len(control) : IsInput(i, s) => (i <= lastId + 1 <=> i <= lastId)
  BY <1>1
<1>3. QED  BY <1>2 DEF QueueFollows, IsInput

\* A queue goes on to follow when it takes the input the loop reads.
LEMMA QueueTakes ==
  ASSUME TypeInv, InputsInOrder, NEW s \in Sessions, NEW n \in Nat, QueueFollows(s, n),
         UNCHANGED <<control, typed>>, lastId' = lastId + 1, lastId + 1 \in 1 .. Len(control),
         IsInput(lastId + 1, s),
         inputs' = [inputs EXCEPT ![s] = Append(@, control[lastId + 1].input)]
  PROVE  QueueFollows(s, n)'
<1> DEFINE k == Len(inputs[s])
           x == control[lastId + 1].input
<1>1. /\ lastId \in Nat /\ k \in Nat /\ inputs[s] \in Seq(Nat) /\ inputs \in [Sessions -> Seq(Nat)]
      /\ typed[s] \in Nat /\ x \in Nat
  BY EventIn DEF TypeInv, TypeOK, ConnTypes, CtlTypes, HubTypes
<1>2. x = n + k + 1  BY NextInput
<1>3. x <= typed[s]  BY <1>1 DEF InputsInOrder, IsInput
<1>4. /\ Len(inputs'[s]) = k + 1 /\ inputs'[s][k + 1] = x
      /\ \A i \in 1 .. k : inputs'[s][i] = inputs[s][i]
      /\ \A i \in 1 .. k + 1 : i \in 1 .. k \/ i = k + 1
  BY <1>1
<1>5. \A i \in 1 .. k : inputs[s][i] = n + i  BY DEF QueueFollows
<1>6. ASSUME NEW i \in 1 .. k + 1 PROVE inputs'[s][i] = n + i
  <2>1. CASE i \in 1 .. k  BY <1>4, <1>5, <2>1
  <2>2. CASE i = k + 1  BY <1>1, <1>2, <1>4, <2>2
  <2>3. QED  BY <1>4, <2>1, <2>2
<1>7. ASSUME NEW i \in 1 .. Len(control), IsInput(i, s)
      PROVE  i <= lastId + 1 <=> control[i].input <= n + k + 1
  <2>0. control[i].input \in Nat  BY EventIn
  <2>1. i <= lastId <=> control[i].input <= n + k  BY <1>7 DEF QueueFollows
  <2>2. CASE i = lastId + 1  BY <1>1, <1>2, <2>2
  <2>3. CASE i <= lastId  BY <1>1, <2>0, <2>1, <2>3
  <2>4. CASE i > lastId + 1
    <3>1. x < control[i].input  BY <1>7, <2>4 DEF InputsInOrder
    <3>2. QED  BY <1>1, <1>2, <2>0, <2>4, <3>1
  <2>5. QED  BY <1>1, <2>2, <2>3, <2>4
<1>8. QED  BY <1>1, <1>2, <1>3, <1>4, <1>6, <1>7 DEF QueueFollows, IsInput

\* A thread writes the first n inputs of its queue behind what its shell has got.
LEMMA WritesPrefix ==
  ASSUME NEW a \in Seq(Nat), NEW b \in Seq(Nat), NEW n \in 0 .. Len(b)
  PROVE  /\ Len(a \o SubSeq(b, 1, n)) = Len(a) + n
         /\ \A i \in 1 .. Len(a) : (a \o SubSeq(b, 1, n))[i] = a[i]
         /\ \A i \in 1 .. n : (a \o SubSeq(b, 1, n))[Len(a) + i] = b[i]
<1>1. /\ SubSeq(b, 1, n) \in Seq(Nat) /\ Len(SubSeq(b, 1, n)) = n
      /\ \A i \in 1 .. n : SubSeq(b, 1, n)[i] = b[i]
  OBVIOUS
<1> DEFINE c == SubSeq(b, 1, n)
<1>2. c \in Seq(Nat) /\ Len(c) = n /\ \A i \in 1 .. n : c[i] = b[i]  BY <1>1
<1> HIDE DEF c
<1>3. /\ Len(a \o c) = Len(a) + Len(c)
      /\ \A i \in 1 .. Len(a) : (a \o c)[i] = a[i]
      /\ \A i \in 1 .. Len(c) : (a \o c)[Len(a) + i] = c[i]
  <2>1. Len(a) \in Nat /\ Len(c) \in Nat  BY <1>2
  <2>2. /\ Len(a \o c) = Len(a) + Len(c)
        /\ \A i \in 1 .. Len(a) + Len(c) : (a \o c)[i] =
              IF i <= Len(a) THEN a[i] ELSE c[i - Len(a)]
    BY <1>2, ConcatProperties, Zenon
  <2>3. \A i \in 1 .. Len(a) : i \in 1 .. Len(a) + Len(c) /\ i <= Len(a)  BY <2>1
  <2>4. \A i \in 1 .. Len(c) : /\ Len(a) + i \in 1 .. Len(a) + Len(c) /\ ~ (Len(a) + i <= Len(a))
                               /\ (Len(a) + i) - Len(a) = i
    BY <2>1
  <2>5. QED  BY <2>2, <2>3, <2>4, Zenon
<1>4. QED  BY <1>2, <1>3 DEF c

\* Writing a whole queue makes the terminal's text longer by the queue.
LEMMA WritesAll ==
  ASSUME NEW a \in Seq(Nat), NEW b \in Seq(Nat)
  PROVE  Len(a \o SubSeq(b, 1, Len(b))) = Len(a) + Len(b)
<1>1. Len(b) \in 0 .. Len(b)  OBVIOUS
<1>2. QED  BY <1>1, WritesPrefix

\* What the shell has got does not depend on the thread's progress.
LEMMA GotNat == ASSUME TypeInv, NEW s \in Sessions PROVE Got(s) \in Nat
  BY DEF Got, TypeInv, TypeOK, OsTypes

\* The queues stay when nothing they depend on changes.
LEMMA QueuedFrame ==
  Queued /\ UNCHANGED <<control, lastId, typed, inputs, worker, written>> => Queued'
  BY DEF Queued, QueueFollows, IsInput, Got

\* The queues go on to follow what the shells have got.
LEMMA QueuedStep ==
  ASSUME TypeInv, StartFirst, InputsInOrder, Reading, HasControls, Awaited, Claimed, Queued, Next
  PROVE Queued'
<1>1. ASSUME NEW s \in Sessions,
             CloseQueued(s) \/ BecomeOverdue(s) \/ PostEnd(s)
             \/ EndFails(s) \/ ShellEnds(s)
      PROVE  Queued'
  BY <1>1, QueuedFrame DEF CloseQueued, BecomeOverdue, PostEnd, EndFails,
     ShellEnds, EndRetried, hubVars, connVars, ctlVars, osVars, strayVars, workVars
<1>2. ASSUME NEW A \in recons,
             HandleReconcile(A)
      PROVE  Queued'
  BY <1>2, QueuedFrame DEF HandleReconcile, hubVars, connVars, ctlVars, osVars, strayVars,
     workVars
<1>3. CASE Connect \/ ReconcileFails \/ StreamBreaks \/ Heartbeat \/ Restart
          \/ BecomeStale \/ Reap
  BY <1>3, QueuedFrame DEF Connect, ReconcileFails, StreamBreaks, Heartbeat, Restart,
     BecomeStale, Reap, hubVars, connVars, ctlVars, osVars, strayVars, workVars
<1>4. ASSUME NEW s \in Sessions, Create(s) PROVE Queued'
  BY <1>4, ControlEventIn, QueuesGrow DEF Create, connVars, ctlVars, osVars, strayVars, workVars
<1>5. ASSUME NEW s \in Sessions, Type(s) PROVE Queued'
  <2>1. typed[s] + 1 \in Nat  BY DEF TypeInv, TypeOK, HubTypes
  <2>2. ControlEvent("stdin", s, typed[s] + 1) \in ControlEvents  BY <2>1, ControlEventIn
  <2>3. /\ ControlEvent("stdin", s, typed[s] + 1).session = s
        /\ ControlEvent("stdin", s, typed[s] + 1).input = typed[s] + 1
    BY DEF ControlEvent
  <2>4. QED  BY <1>5, <2>2, <2>3, QueuesGrow DEF Type, connVars, ctlVars, osVars, strayVars, workVars
<1>6. ASSUME NEW s \in Sessions, Resize(s) PROVE Queued'
  BY <1>6, ControlEventIn, QueuesGrow DEF Resize, connVars, ctlVars, osVars, strayVars, workVars
<1>7. ASSUME NEW s \in Sessions, CloseRunning(s) PROVE Queued'
  BY <1>7, ControlEventIn, QueuesGrow DEF CloseRunning, connVars, ctlVars, osVars, strayVars, workVars
<1>8. ASSUME NEW s \in Sessions, ClaimFails(s) PROVE Queued'
  <2>1. UNCHANGED <<control, lastId, typed>>  BY <1>8 DEF ClaimFails, hubVars, connVars
  <2>2. \A r \in Sessions : worker'[r] \in Serving =>
           worker[r] \in Serving /\ Got(r)' = Got(r) /\ inputs'[r] = inputs[r]
    BY <1>8 DEF ClaimFails, Pending, Commit, ThreadDies, Got, Serving, Looping, hubVars, ctlVars, osVars, strayVars,
       TypeInv, TypeOK, WorkTypes, CtlTypes
  <2>3. QED  BY <2>1, <2>2, QueuesKept
<1>9. ASSUME NEW s \in Sessions, Spawn(s) PROVE Queued'
  <2>1. UNCHANGED <<control, lastId, typed>>  BY <1>9 DEF Spawn, hubVars, connVars
  <2>2. \A r \in Sessions : worker'[r] \in Serving =>
           worker[r] \in Serving /\ Got(r)' = Got(r) /\ inputs'[r] = inputs[r]
    BY <1>9 DEF Spawn, Request, Got, Serving, Looping, hubVars, ctlVars, osVars, strayVars,
       TypeInv, TypeOK, WorkTypes, CtlTypes
  <2>3. QED  BY <2>1, <2>2, QueuesKept
<1>10. ASSUME NEW s \in Sessions, SpawnFails(s) PROVE Queued'
  <2>1. UNCHANGED <<control, lastId, typed>>  BY <1>10 DEF SpawnFails, hubVars, connVars
  <2>2. \A r \in Sessions : worker'[r] \in Serving =>
           worker[r] \in Serving /\ Got(r)' = Got(r) /\ inputs'[r] = inputs[r]
    BY <1>10 DEF SpawnFails, NoShell, Commit, StartEnd, Got, Serving, Looping, hubVars, ctlVars, osVars, strayVars,
       TypeInv, TypeOK, WorkTypes, CtlTypes
  <2>3. QED  BY <2>1, <2>2, QueuesKept
<1>11. ASSUME NEW s \in Sessions, Serve(s) PROVE Queued'
  <2>1. UNCHANGED <<control, lastId, typed>>  BY <1>11 DEF Serve, hubVars, connVars
  <2>i. \A r \in Sessions : r # s => inputs'[r] = inputs[r] /\ written'[r] = written[r]
    BY <1>11 DEF Serve, Write, TypeInv, TypeOK, CtlTypes, OsTypes
  <2>w. \A r \in Sessions : r # s => worker'[r] = worker[r]
    BY <1>11 DEF Serve, LoopRaises, StartEnd, TypeInv, TypeOK, WorkTypes
  <2>2. \A r \in Sessions : r # s =>
           worker'[r] = worker[r] /\ Got(r)' = Got(r) /\ inputs'[r] = inputs[r]
    BY <2>i, <2>w DEF Got
  <2>3. /\ inputs[s] \in Seq(Nat) /\ written[s] \in Seq(Nat) /\ Len(inputs[s]) \in Nat
        /\ Len(written[s]) \in Nat
    BY DEF TypeInv, TypeOK, CtlTypes, OsTypes
  <2>4. worker[s] = "serving" /\ QueueFollows(s, Len(written[s]))
    BY <1>11 DEF Serve, Queued, Serving, Looping, Got
  <2>5. ASSUME worker'[s] \in Serving PROVE QueueFollows(s, Got(s))'
    <3>1. worker'[s] = "checking" /\ written'[s] = written[s] \o SubSeq(inputs[s], 1, Len(inputs[s]))
      <4>1. PICK n \in 0 .. Len(inputs[s]) :
              /\ written' = [written EXCEPT ![s] = @ \o SubSeq(inputs[s], 1, n)]
              /\ IF n = Len(inputs[s]) THEN worker' = [worker EXCEPT ![s] = "checking"]
                 ELSE worker' = [worker EXCEPT ![s] = "ending"]
        BY <1>11 DEF Serve, Write, LoopRaises, StartEnd
      <4>2. worker'[s] # "ending"  BY <2>5 DEF Serving, Looping
      <4>3. n = Len(inputs[s])  BY <4>1, <4>2 DEF TypeInv, TypeOK, WorkTypes
      <4>4. QED  BY <4>1, <4>3 DEF TypeInv, TypeOK, WorkTypes, OsTypes
    <3>l. Len(written'[s]) = Len(written[s]) + Len(inputs[s])
      <4>1. Len(written[s] \o SubSeq(inputs[s], 1, Len(inputs[s]))) = Len(written[s]) + Len(inputs[s])
        BY <2>3, WritesAll
      <4>2. QED  BY <3>1, <4>1
    <3>i. inputs'[s] = <<>>  BY <1>11 DEF Serve, TypeInv, TypeOK, CtlTypes
    <3>3. Len(written'[s]) = Len(written[s]) + Len(inputs[s]) /\ inputs'[s] = <<>>
      BY <3>l, <3>i
    <3>4. Got(s)' = Len(written[s]) + Len(inputs[s]) /\ Len(inputs'[s]) = 0
      BY <3>1, <3>3 DEF Got
    <3>5. \A i \in 1 .. Len(inputs'[s]) : inputs'[s][i] = Got(s)' + i  BY <3>4
    <3>6. Got(s)' + Len(inputs'[s]) = Len(written[s]) + Len(inputs[s])  BY <2>3, <3>4
    <3>7. QED  BY <2>1, <2>4, <3>5, <3>6 DEF QueueFollows, IsInput
  <2>6. ASSUME NEW r \in Sessions, worker'[r] \in Serving, r # s PROVE QueueFollows(r, Got(r))'
    BY <2>1, <2>2, <2>6 DEF Queued, QueueFollows, IsInput
  <2>7. QED  BY <2>5, <2>6 DEF Queued
<1>12. ASSUME NEW s \in Sessions, CloseShell(s) PROVE Queued'
  <2>1. UNCHANGED <<control, lastId, typed>>  BY <1>12 DEF CloseShell, hubVars, connVars
  <2>2. \A r \in Sessions : worker'[r] \in Serving =>
           worker[r] \in Serving /\ Got(r)' = Got(r) /\ inputs'[r] = inputs[r]
    BY <1>12 DEF CloseShell, StartEnd, CloseMaster, Got, Serving, Looping, hubVars, ctlVars, osVars, strayVars,
       TypeInv, TypeOK, WorkTypes, CtlTypes
  <2>3. QED  BY <2>1, <2>2, QueuesKept
<1>13. ASSUME NEW s \in Sessions, GoOn(s) PROVE Queued'
  <2>1. UNCHANGED <<control, lastId, typed>>  BY <1>13 DEF GoOn, hubVars, connVars
  <2>2. \A r \in Sessions : worker'[r] \in Serving =>
           worker[r] \in Serving /\ Got(r)' = Got(r) /\ inputs'[r] = inputs[r]
    BY <1>13 DEF GoOn, Got, Serving, Looping, hubVars, ctlVars, osVars, strayVars,
       TypeInv, TypeOK, WorkTypes, CtlTypes
  <2>3. QED  BY <2>1, <2>2, QueuesKept
<1>14. ASSUME NEW s \in Sessions, Poll(s) PROVE Queued'
  <2>1. UNCHANGED <<control, lastId, typed>>  BY <1>14 DEF Poll, hubVars, connVars
  <2>2. \A r \in Sessions : worker'[r] \in Serving =>
           worker[r] \in Serving /\ Got(r)' = Got(r) /\ inputs'[r] = inputs[r]
    BY <1>14 DEF Poll, Pending, StartEnd, CloseMaster, Got, Serving, Looping, hubVars, ctlVars, osVars, strayVars,
       TypeInv, TypeOK, WorkTypes, CtlTypes
  <2>3. QED  BY <2>1, <2>2, QueuesKept
<1>15. ASSUME NEW s \in Sessions, ReportFails(s) PROVE Queued'
  <2>1. UNCHANGED <<control, lastId, typed>>  BY <1>15 DEF ReportFails, hubVars, connVars
  <2>2. \A r \in Sessions : worker'[r] \in Serving =>
           worker[r] \in Serving /\ Got(r)' = Got(r) /\ inputs'[r] = inputs[r]
    BY <1>15 DEF ReportFails, Pending, Commit, ReportRaises, LoopRaises, StartEnd, CloseMaster, Got, Serving, Looping, hubVars, ctlVars, osVars, strayVars,
       TypeInv, TypeOK, WorkTypes, CtlTypes
  <2>3. QED  BY <2>1, <2>2, QueuesKept
<1>16. ASSUME NEW m \in net, GrantClaim(m) PROVE Queued'
  <2>1. UNCHANGED <<control, lastId, typed>>  BY <1>16 DEF GrantClaim, connVars
  <2>s. m.session \in Sessions /\ worker[m.session] = "claiming" /\ written[m.session] = <<>>
    BY <1>16, RequestTypes DEF GrantClaim, Claimable, Claimed, Awaited, Awaits, Request
  <2>2. \A r \in Sessions : worker'[r] \in Serving =>
           worker[r] \in Serving /\ Got(r)' = Got(r) /\ inputs'[r] = inputs[r]
    BY <1>16, <2>s DEF GrantClaim, ThreadDies, Got, Serving, Looping, ctlVars, osVars, strayVars,
       TypeInv, TypeOK, WorkTypes
  <2>3. QED  BY <2>1, <2>2, QueuesKept
<1>17. ASSUME NEW m \in net, RefuseClaim(m) PROVE Queued'
  <2>1. UNCHANGED <<control, lastId, typed>>  BY <1>17 DEF RefuseClaim, hubVars, connVars
  <2>2. \A r \in Sessions : worker'[r] \in Serving =>
           worker[r] \in Serving /\ Got(r)' = Got(r) /\ inputs'[r] = inputs[r]
    BY <1>17, RequestTypes DEF RefuseClaim, Claimable, Commit, ThreadEnds, ThreadDies, Got, Serving, Looping, hubVars, ctlVars, osVars, strayVars,
       TypeInv, TypeOK, WorkTypes, CtlTypes
  <2>3. QED  BY <2>1, <2>2, QueuesKept
<1>18. ASSUME NEW m \in net, HandleReport(m) PROVE Queued'
  <2>1. UNCHANGED <<control, lastId, typed>>  BY <1>18 DEF HandleReport, hubVars, connVars
  <2>2. \A r \in Sessions : worker'[r] \in Serving =>
           worker[r] \in Serving /\ Got(r)' = Got(r) /\ inputs'[r] = inputs[r]
    BY <1>18, RequestTypes DEF HandleReport, Commit, ReportRaises, LoopRaises, StartEnd, CloseMaster, Got, Serving, Looping, hubVars, ctlVars, osVars, strayVars,
       TypeInv, TypeOK, WorkTypes, CtlTypes
  <2>3. QED  BY <2>1, <2>2, QueuesKept
<1>19. ASSUME NEW m \in net, HandleEnd(m) PROVE Queued'
  <2>1. UNCHANGED <<control, lastId, typed>>  BY <1>19 DEF HandleEnd, hubVars, connVars
  <2>2. \A r \in Sessions : worker'[r] \in Serving =>
           worker[r] \in Serving /\ Got(r)' = Got(r) /\ inputs'[r] = inputs[r]
    BY <1>19, RequestTypes DEF HandleEnd, ApplyEnd, Resolve, ThreadEnds, Commit, EndRetried, Got, Serving, Looping, hubVars, ctlVars, osVars, strayVars,
       TypeInv, TypeOK, WorkTypes, CtlTypes
  <2>3. QED  BY <2>1, <2>2, QueuesKept
<1>20. CASE DispatchStart
  <2>1. /\ lastId' = lastId + 1 /\ lastId \in Nat /\ lastId + 1 \in 1 .. Len(control)
        /\ UNCHANGED <<control, typed, written>>
    BY <1>20 DEF DispatchStart, Consume, Reading, TypeInv, TypeOK, ConnTypes, HubTypes, hubVars, osVars, strayVars
  <2>2. PICK s \in Sessions :
           /\ IsStart(lastId + 1, s) /\ inputs' = inputs
           /\ worker' = IF s \in controls THEN worker ELSE [worker EXCEPT ![s] = "claiming"]
    BY <1>20, <2>1, EventIn DEF DispatchStart, Consume, Reading, IsStart
  <2>3. ASSUME NEW r \in Sessions, worker'[r] \in Serving, worker'[r] = worker[r]
        PROVE  QueueFollows(r, Got(r))'
    <3>1. QueueFollows(r, Got(r)) /\ Got(r)' = Got(r) /\ Got(r) \in Nat
      BY <2>1, <2>3, GotNat DEF Queued, Got
    <3>2. ~ IsInput(lastId + 1, r)  BY <2>2 DEF IsInput, IsStart
    <3>3. QED  BY <2>1, <2>2, <3>1, <3>2, QueueSkips
  <2>4. ASSUME s \notin controls PROVE QueueFollows(s, Got(s))'
    <3>1. inputs'[s] = <<>> /\ Got(s)' = 0 /\ typed[s] \in Nat
      BY <2>2, <2>4 DEF HasControls, Got, TypeInv, TypeOK, WorkTypes, HubTypes
    <3>2. \A i \in 1 .. Len(control) : IsInput(i, s) => i > lastId + 1
      BY <2>1, <2>2 DEF StartFirst, IsInput, IsStart
    <3>3. \A i \in 1 .. Len(control) : IsInput(i, s) => control[i].input \in 1 .. typed[s]
      BY DEF InputsInOrder, IsInput
    <3>4. QED  BY <2>1, <3>1, <3>2, <3>3 DEF QueueFollows, IsInput
  <2>5. \A r \in Sessions : worker'[r] = worker[r] \/ (r = s /\ s \notin controls)
    BY <2>2 DEF TypeInv, TypeOK, WorkTypes
  <2>6. QED  BY <2>3, <2>4, <2>5 DEF Queued
<1>21. CASE DispatchInput
  <2>1. /\ lastId' = lastId + 1 /\ lastId \in Nat /\ lastId + 1 \in 1 .. Len(control)
        /\ UNCHANGED <<control, typed, written>>
    BY <1>21 DEF DispatchInput, Consume, Reading, TypeInv, TypeOK, ConnTypes, HubTypes, hubVars, osVars, strayVars
  <2>2. PICK s \in Sessions :
           /\ IsInput(lastId + 1, s) /\ worker' = worker
           /\ inputs' = IF s \in controls
                        THEN [inputs EXCEPT ![s] = Append(@, control[lastId + 1].input)] ELSE inputs
    BY <1>21, <2>1, EventIn DEF DispatchInput, Consume, Reading, TakesInput, IsInput
  <2>3. SUFFICES ASSUME NEW r \in Sessions, worker[r] \in Serving
                 PROVE  QueueFollows(r, Got(r))'
    BY <2>2 DEF Queued
  <2>4. QueueFollows(r, Got(r)) /\ Got(r)' = Got(r) /\ Got(r) \in Nat /\ r \in controls
    BY <2>1, <2>2, <2>3, GotNat DEF Queued, Got, HasControls, Serving, Looping
  <2>5. CASE r = s  BY <2>1, <2>2, <2>4, <2>5, QueueTakes
  <2>6. CASE r # s
    <3>1. inputs'[r] = inputs[r] /\ ~ IsInput(lastId + 1, r)  BY <2>2, <2>6 DEF IsInput
    <3>2. QED  BY <2>1, <2>4, <3>1, QueueSkips
  <2>7. QED  BY <2>5, <2>6
<1>22. CASE DispatchResize
  <2>1. /\ lastId' = lastId + 1 /\ lastId \in Nat /\ lastId + 1 \in 1 .. Len(control)
        /\ UNCHANGED <<control, typed, written>>
    BY <1>22 DEF DispatchResize, Consume, Reading, TypeInv, TypeOK, ConnTypes, HubTypes, hubVars, osVars, strayVars
  <2>2. UNCHANGED <<inputs, worker>> /\ control[lastId + 1].kind # "stdin"
    BY <1>22, <2>1 DEF DispatchResize, Consume, Reading
  <2>3. \A s \in Sessions : Got(s)' = Got(s)  BY <2>1, <2>2 DEF Got
  <2>4. QED  BY <2>1, <2>2, <2>3, QueueSkips, GotNat DEF Queued, IsInput
<1>23. CASE DispatchClose
  <2>1. /\ lastId' = lastId + 1 /\ lastId \in Nat /\ lastId + 1 \in 1 .. Len(control)
        /\ UNCHANGED <<control, typed, written>>
    BY <1>23 DEF DispatchClose, Consume, Reading, TypeInv, TypeOK, ConnTypes, HubTypes, hubVars, osVars, strayVars
  <2>2. UNCHANGED <<inputs, worker>> /\ control[lastId + 1].kind # "stdin"
    BY <1>23, <2>1 DEF DispatchClose, Consume, Reading
  <2>3. \A s \in Sessions : Got(s)' = Got(s)  BY <2>1, <2>2 DEF Got
  <2>4. QED  BY <2>1, <2>2, <2>3, QueueSkips, GotNat DEF Queued, IsInput
<1>24. CASE Crash
  <2>1. \A s \in Sessions : worker'[s] \notin Serving  BY <1>24 DEF Crash, Serving, Looping
  <2>2. QED  BY <2>1 DEF Queued
<1>25. ASSUME NEW s \in Sessions,
             DrainOutput(s) \/ StraySpawns(s) \/ StrayEnds(s)
      PROVE  Queued'
  BY <1>25, QueuedFrame DEF DrainOutput, StraySpawns, StrayEnds, hubVars, connVars,
     ctlVars, osVars, workVars
<1>26. ASSUME NEW s \in Sessions, Output(s) PROVE Queued'
  <2>1. UNCHANGED <<control, lastId, typed>>  BY <1>26 DEF Output, hubVars, connVars
  <2>2. \A r \in Sessions : worker'[r] \in Serving =>
           worker[r] \in Serving /\ Got(r)' = Got(r) /\ inputs'[r] = inputs[r]
    BY <1>26 DEF Output, Got, Serving, Looping, ctlVars, osVars,
       TypeInv, TypeOK, WorkTypes
  <2>3. QED  BY <2>1, <2>2, QueuesKept
<1>27. ASSUME NEW s \in Sessions, Drained(s) PROVE Queued'
  <2>1. UNCHANGED <<control, lastId, typed>>  BY <1>27 DEF Drained, hubVars, connVars
  <2>2. \A r \in Sessions : worker'[r] \in Serving =>
           worker[r] \in Serving /\ Got(r)' = Got(r) /\ inputs'[r] = inputs[r]
    BY <1>27 DEF Drained, StartEnd, Got, Serving, Looping, ctlVars, osVars,
       TypeInv, TypeOK, WorkTypes
  <2>3. QED  BY <2>1, <2>2, QueuesKept
<1>28. ASSUME NEW s \in Sessions, StrayServes(s) PROVE Queued'
  <2>1. UNCHANGED <<control, lastId, typed, worker, inputs>> /\ stray[s] = "looping"
    BY <1>28 DEF StrayServes, hubVars, connVars, workVars, ctlVars
  <2>2. worker[s] \in {"idle", "claiming"}  BY <2>1 DEF Claimed
  <2>3. \A r \in Sessions : r # s => written'[r] = written[r]
    BY <1>28 DEF StrayServes, Write, TypeInv, TypeOK, OsTypes
  <2>4. \A r \in Sessions : worker'[r] \in Serving => Got(r)' = Got(r)
    BY <2>1, <2>2, <2>3 DEF Got, Serving, Looping
  <2>5. QED  BY <2>1, <2>4, QueuesKept
<1>29. CASE Swap
  <2>1. \A s \in Sessions : worker'[s] \notin Serving  BY <1>29 DEF Swap, Serving, Looping
  <2>2. QED  BY <2>1 DEF Queued
<1>30. QED  BY <1>1, <1>2, <1>3, <1>4, <1>5, <1>6, <1>7, <1>8, <1>9, <1>10, <1>11,
     <1>12, <1>13, <1>14, <1>15, <1>16, <1>17, <1>18, <1>19, <1>20, <1>21, <1>22, <1>23,
     <1>24, <1>25, <1>26, <1>27, <1>28, <1>29 DEF Next, Initiator, Handle, Dispatch,
     Loop, Turn, Thread, Stray

\* What shells have got stays when nothing is written.
LEMMA WrittenFrame ==
  Written /\ UNCHANGED <<typed, written>> => Written'
  BY DEF Written

\* A queue that follows what the shell has got is written in order.
LEMMA WriteFollows ==
  ASSUME TypeInv, Written, NEW s \in Sessions, NEW q \in Seq(Nat), NEW n \in 0 .. Len(q),
         Len(written[s]) + Len(q) <= typed[s],
         \A i \in 1 .. Len(q) : q[i] = Len(written[s]) + i,
         Write(s, q, n), typed' = typed
  PROVE  Written' /\ Len(written'[s]) = Len(written[s]) + n
<1>1. \A r \in Sessions : r # s => written'[r] = written[r]
  BY DEF Write, TypeInv, TypeOK, OsTypes
<1>2. written'[s] = written[s] \o SubSeq(q, 1, n)  BY DEF Write, TypeInv, TypeOK, OsTypes
<1>3. /\ written[s] \in Seq(Nat) /\ typed[s] \in Nat /\ Len(q) \in Nat /\ Len(written[s]) \in Nat
      /\ n \in Nat /\ n <= Len(q)
  BY DEF TypeInv, TypeOK, OsTypes, HubTypes
<1>4. /\ Len(written'[s]) = Len(written[s]) + n
      /\ \A i \in 1 .. Len(written[s]) : written'[s][i] = written[s][i]
      /\ \A i \in 1 .. n : written'[s][Len(written[s]) + i] = q[i]
  <2>1. n \in 0 .. Len(q)  OBVIOUS
  <2>2. /\ Len(written[s] \o SubSeq(q, 1, n)) = Len(written[s]) + n
        /\ \A i \in 1 .. Len(written[s]) : (written[s] \o SubSeq(q, 1, n))[i] = written[s][i]
        /\ \A i \in 1 .. n : (written[s] \o SubSeq(q, 1, n))[Len(written[s]) + i] = q[i]
    BY <1>3, <2>1, WritesPrefix, Zenon
  <2>3. QED  BY <1>2, <2>2, Zenon
<1>5. Len(written'[s]) <= typed'[s]
  <2>1. \A a, b, c, k \in Nat : k <= b /\ a + b <= c => a + k <= c  OBVIOUS
  <2>2. Len(written[s]) + n <= typed[s]  BY <1>3, <2>1, Zenon
  <2>3. typed'[s] = typed[s]  OBVIOUS
  <2>4. QED  BY <1>4, <2>2, <2>3
<1>6. ASSUME NEW i \in 1 .. Len(written'[s]) PROVE written'[s][i] = i
  <2>1. CASE i <= Len(written[s])
    <3>1. i \in 1 .. Len(written[s])  BY <1>3, <1>4, <1>6, <2>1
    <3>2. QED  BY <1>4, <3>1 DEF Written
  <2>2. CASE i > Len(written[s])
    <3>1. PICK x \in 1 .. n : i = Len(written[s]) + x
      <4>1. i - Len(written[s]) \in 1 .. n /\ i = Len(written[s]) + (i - Len(written[s]))
        BY <1>3, <1>4, <1>6, <2>2
      <4>2. QED  BY <4>1
    <3>2. x \in 1 .. Len(q)  BY <1>3
    <3>3. written'[s][i] = q[x]  BY <1>4, <3>1
    <3>4. QED  BY <3>1, <3>2, <3>3
  <2>3. QED  BY <1>3, <1>4, <1>6, <2>1, <2>2
<1>7. QED  BY <1>1, <1>4, <1>5, <1>6 DEF Written

\* Shells get the input in order.
LEMMA WrittenStep == ASSUME TypeInv, Queued, Written, Leftover, Next PROVE Written'
<1>1. ASSUME NEW s \in Sessions,
             Create(s) \/ Resize(s) \/ CloseQueued(s) \/ CloseRunning(s)
             \/ BecomeOverdue(s) \/ ClaimFails(s) \/ Spawn(s) \/ SpawnFails(s)
             \/ CloseShell(s) \/ GoOn(s) \/ Poll(s) \/ Output(s) \/ ReportFails(s)
             \/ PostEnd(s) \/ EndFails(s) \/ ShellEnds(s)
      PROVE  Written'
  BY <1>1, WrittenFrame DEF Create, Resize, CloseQueued, CloseRunning, BecomeOverdue,
     ClaimFails, Spawn, SpawnFails, CloseShell, GoOn, Poll, Output, ReportFails, PostEnd,
     EndFails, ShellEnds, hubVars, osVars, strayVars
<1>2. ASSUME NEW m \in net,
             GrantClaim(m) \/ RefuseClaim(m) \/ HandleReport(m) \/ HandleEnd(m)
      PROVE  Written'
  BY <1>2, WrittenFrame DEF GrantClaim, RefuseClaim, HandleReport, HandleEnd, hubVars,
     osVars, strayVars
<1>3. ASSUME NEW A \in recons,
             HandleReconcile(A)
      PROVE  Written'
  BY <1>3, WrittenFrame DEF HandleReconcile, hubVars, osVars, strayVars
<1>4. CASE Connect \/ ReconcileFails \/ DispatchStart \/ DispatchInput \/ DispatchResize
          \/ DispatchClose \/ StreamBreaks \/ Heartbeat \/ Crash \/ Restart
          \/ BecomeStale \/ Reap
  BY <1>4, WrittenFrame DEF Connect, ReconcileFails, DispatchStart, DispatchInput,
     DispatchResize, DispatchClose, StreamBreaks, Heartbeat, Crash, Restart, BecomeStale,
     Reap, Consume, hubVars, osVars, strayVars
<1>5. ASSUME NEW s \in Sessions, Type(s) PROVE Written'
  BY <1>5 DEF Type, Written, osVars, strayVars, TypeInv, TypeOK, HubTypes, OsTypes
<1>6. ASSUME NEW s \in Sessions, Serve(s) PROVE Written'
  <2>1. typed' = typed  BY <1>6 DEF Serve, hubVars
  <2>2. inputs[s] \in Seq(Nat)  BY DEF TypeInv, TypeOK, CtlTypes
  <2>3. QueueFollows(s, Len(written[s]))
    BY <1>6 DEF Serve, Queued, Serving, Looping, Got
  <2>4. PICK n \in 0 .. Len(inputs[s]) : Write(s, inputs[s], n)  BY <1>6 DEF Serve
  <2>5. QED  BY <2>1, <2>2, <2>3, <2>4, WriteFollows DEF QueueFollows
<1>7. ASSUME NEW s \in Sessions,
             Drained(s) \/ DrainOutput(s) \/ StraySpawns(s) \/ StrayEnds(s)
      PROVE  Written'
  BY <1>7, WrittenFrame DEF Drained, DrainOutput, StraySpawns, StrayEnds, hubVars,
     osVars
<1>8. ASSUME NEW s \in Sessions, StrayServes(s) PROVE Written'
  <2>1. typed' = typed /\ stray[s] = "looping"  BY <1>8 DEF StrayServes, hubVars
  <2>2. left[s] \in Seq(Nat)  BY DEF TypeInv, TypeOK, OsTypes
  <2>3. /\ Len(written[s]) + Len(left[s]) <= typed[s]
        /\ \A i \in 1 .. Len(left[s]) : left[s][i] = Len(written[s]) + i
    BY <2>1 DEF Leftover
  <2>4. PICK n \in 0 .. Len(left[s]) : Write(s, left[s], n)  BY <1>8 DEF StrayServes
  <2>5. QED  BY <2>1, <2>2, <2>3, <2>4, WriteFollows
<1>9. CASE Swap
  BY <1>9, WrittenFrame DEF Swap, hubVars
<1>10. QED  BY <1>1, <1>2, <1>3, <1>4, <1>5, <1>6, <1>7, <1>8, <1>9 DEF Next, Initiator,
     Handle, Dispatch, Loop, Turn, Thread, Stray

\* What a swap left stays when neither it nor what was written changes.
LEMMA LeftoverFrame ==
  ASSUME Leftover, UNCHANGED <<typed, left>>,
         \A s \in Sessions : stray'[s] = "looping" => stray[s] = "looping" /\ written'[s] = written[s]
  PROVE  Leftover'
  BY DEF Leftover

\* The queues that swaps leave continue what the shells have got.
LEMMA LeftoverStep ==
  ASSUME TypeInv, TypeInv', Claimed, Queued, Leftover, Written', Next
  PROVE  Leftover'
<1>1. ASSUME NEW s \in Sessions,
             Create(s) \/ Resize(s) \/ CloseQueued(s) \/ CloseRunning(s) \/ BecomeOverdue(s)
             \/ ClaimFails(s) \/ Spawn(s) \/ SpawnFails(s) \/ CloseShell(s) \/ GoOn(s)
             \/ Poll(s) \/ Output(s) \/ DrainOutput(s) \/ Drained(s) \/ ReportFails(s)
             \/ PostEnd(s) \/ EndFails(s) \/ ShellEnds(s)
      PROVE  Leftover'
  BY <1>1, LeftoverFrame DEF Create, Resize, CloseQueued, CloseRunning, BecomeOverdue,
     ClaimFails, Spawn, SpawnFails, CloseShell, GoOn, Poll, Output, DrainOutput, Drained,
     ReportFails, PostEnd, EndFails, ShellEnds, hubVars, osVars, strayVars
<1>2. ASSUME NEW m \in net,
             GrantClaim(m) \/ RefuseClaim(m) \/ HandleReport(m) \/ HandleEnd(m)
      PROVE  Leftover'
  BY <1>2, LeftoverFrame DEF GrantClaim, RefuseClaim, HandleReport, HandleEnd, hubVars,
     osVars, strayVars
<1>3. ASSUME NEW A \in recons, HandleReconcile(A) PROVE Leftover'
  BY <1>3, LeftoverFrame DEF HandleReconcile, hubVars, osVars, strayVars
<1>4. CASE Connect \/ ReconcileFails \/ DispatchStart \/ DispatchInput \/ DispatchResize
          \/ DispatchClose \/ StreamBreaks \/ Heartbeat \/ Restart \/ BecomeStale \/ Reap
  BY <1>4, LeftoverFrame DEF Connect, ReconcileFails, DispatchStart, DispatchInput,
     DispatchResize, DispatchClose, StreamBreaks, Heartbeat, Restart, BecomeStale,
     Reap, Consume, hubVars, osVars, strayVars
<1>5. ASSUME NEW s \in Sessions, Type(s) PROVE Leftover'
  <2>1. UNCHANGED <<stray, left, written>>  BY <1>5 DEF Type, osVars, strayVars
  <2>2. \A r \in Sessions : typed[r] \in Nat /\ typed'[r] \in Nat /\ typed[r] <= typed'[r]
    BY <1>5 DEF Type, TypeInv, TypeOK, HubTypes
  <2>3. SUFFICES ASSUME NEW r \in Sessions, stray[r] = "looping"
                 PROVE  Len(written[r]) + Len(left[r]) <= typed'[r]
    BY <2>1 DEF Leftover
  <2>4. Len(written[r]) \in Nat /\ Len(left[r]) \in Nat  BY DEF TypeInv, TypeOK, OsTypes
  <2>5. Len(written[r]) + Len(left[r]) <= typed[r]  BY <2>3 DEF Leftover
  <2>6. \A a, b, c, d \in Nat : a + b <= c /\ c <= d => a + b <= d  OBVIOUS
  <2>7. QED  BY <2>2, <2>4, <2>5, <2>6, Zenon
<1>6. ASSUME NEW s \in Sessions, Serve(s) PROVE Leftover'
  <2>1. UNCHANGED <<typed, stray, left>> /\ worker[s] = "serving"
    BY <1>6 DEF Serve, hubVars, strayVars
  <2>2. \A r \in Sessions : r # s => written'[r] = written[r]
    BY <1>6 DEF Serve, Write, TypeInv, TypeOK, OsTypes
  <2>3. stray[s] = "none"  BY <2>1 DEF Claimed
  <2>4. QED  BY <2>1, <2>2, <2>3, LeftoverFrame
<1>7. ASSUME NEW s \in Sessions, StraySpawns(s) \/ StrayServes(s) \/ StrayEnds(s)
      PROVE  Leftover'
  <2>1. /\ typed' = typed /\ left'[s] = <<>>
        /\ \A r \in Sessions : r # s =>
              stray'[r] = stray[r] /\ left'[r] = left[r] /\ written'[r] = written[r]
    <3>1. CASE StraySpawns(s)
      BY <1>7, <3>1 DEF StraySpawns, hubVars, TypeInv, TypeOK, OsTypes
    <3>2. CASE StrayEnds(s)
      BY <1>7, <3>2 DEF StrayEnds, StrayLeaves, hubVars, TypeInv, TypeOK, OsTypes
    <3>3. CASE StrayServes(s)
      BY <1>7, <3>3 DEF StrayServes, StrayLeaves, Write, hubVars, TypeInv, TypeOK, OsTypes
    <3>4. QED  BY <1>7, <3>1, <3>2, <3>3
  <2>2. Len(written'[s]) <= typed'[s] /\ Len(written'[s]) \in Nat
    BY DEF Written, TypeInv, TypeOK, OsTypes
  <2>3. Len(left'[s]) = 0  BY <2>1
  <2>4. Len(written'[s]) + Len(left'[s]) <= typed'[s] /\ 1 .. Len(left'[s]) = {}  BY <2>2, <2>3
  <2>5. ASSUME NEW r \in Sessions, stray'[r] = "looping"
        PROVE  /\ Len(written'[r]) + Len(left'[r]) <= typed'[r]
               /\ \A i \in 1 .. Len(left'[r]) : left'[r][i] = Len(written'[r]) + i
    <3>1. CASE r = s  BY <2>4, <3>1
    <3>2. CASE r # s  BY <2>1, <2>5, <3>2 DEF Leftover
    <3>3. QED  BY <3>1, <3>2
  <2>6. QED  BY <2>5 DEF Leftover
<1>8. CASE Swap
  <2>1. UNCHANGED <<typed, written>>  BY <1>8 DEF Swap, hubVars
  <2>2. ASSUME NEW s \in Sessions, stray'[s] = "looping"
        PROVE  /\ Len(written[s]) + Len(left'[s]) <= typed[s]
               /\ \A i \in 1 .. Len(left'[s]) : left'[s][i] = Len(written[s]) + i
    <3>1. CASE ~GoesOn(s)
      <4>1. stray[s] = "looping" /\ left'[s] = left[s]  BY <1>8, <2>2, <3>1 DEF Swap
      <4>2. QED  BY <4>1 DEF Leftover
    <3>2. CASE GoesOn(s)
      <4>1. worker[s] \in Looping /\ left'[s] = Unwritten(s)
        BY <1>8, <2>2, <3>2 DEF Swap, GoesOn
      <4>2. QueueFollows(s, Len(written[s]))
        BY <4>1 DEF Queued, Serving, Looping, Got
      <4>3. CASE Unwritten(s) = inputs[s]
        <5>1. left'[s] = inputs[s]  BY <4>1, <4>3
        <5>2. QED  BY <4>2, <5>1 DEF QueueFollows
      <4>4. CASE Unwritten(s) = <<>>
        <5>1. /\ Len(written[s]) \in Nat /\ Len(inputs[s]) \in Nat /\ typed[s] \in Nat
              /\ Len(written[s]) + Len(inputs[s]) <= typed[s]
          BY <4>2 DEF QueueFollows, TypeInv, TypeOK, OsTypes, CtlTypes, HubTypes
        <5>2. Len(left'[s]) = 0 /\ 1 .. Len(left'[s]) = {}  BY <4>1, <4>4
        <5>3. \A a, b, c \in Nat : a + b <= c => a + 0 <= c  OBVIOUS
        <5>4. Len(written[s]) + 0 <= typed[s]  BY <5>1, <5>3, Zenon
        <5>5. QED  BY <5>2, <5>4
      <4>5. QED  BY <4>3, <4>4 DEF Unwritten
    <3>3. QED  BY <3>1, <3>2
  <2>3. QED  BY <2>1, <2>2 DEF Leftover
<1>9. CASE Crash  BY <1>9 DEF Crash, Leftover
<1>10. QED  BY <1>1, <1>2, <1>3, <1>4, <1>5, <1>6, <1>7, <1>8, <1>9 DEF Next, Initiator, Handle,
     Dispatch, Loop, Turn, Thread, Stray

\* Steps keep the invariant.
LEMMA InvStep == ASSUME Inv, Next PROVE Inv'
  BY TypeStep, StartFirstStep, InputsInOrderStep, ReadingStep, HasControlsStep, AwaitedStep,
     ClaimedStep, QueuedStep, WrittenStep, LeftoverStep DEF Inv, Base

\* Stuttering keeps the invariant.
LEMMA InvStutter == ASSUME Inv, UNCHANGED vars PROVE Inv'
<1>1. TypeInv'  BY TypeStutter DEF Inv, Base
<1>2. UNCHANGED <<hubVars, connVars, ctlVars, osVars, workVars, netVars>>  BY DEF vars
<1>3. StartFirst' /\ InputsInOrder' /\ Queued' /\ Written' /\ Leftover'
  BY <1>2, StartFirstFrame, InputsInOrderFrame, QueuedFrame, WrittenFrame, LeftoverFrame
     DEF Inv, Base, hubVars, connVars, ctlVars, osVars, strayVars, workVars
<1>4. Reading'  BY <1>2, ReadingFrame DEF Inv, Base, hubVars, connVars, ctlVars, netVars
<1>5. HasControls' /\ Awaited' /\ Claimed'
  BY <1>2 DEF Inv, Base, HasControls, Awaited, Awaits, Claimed, hubVars, ctlVars, osVars, strayVars, workVars, netVars
<1>6. QED  BY <1>1, <1>3, <1>4, <1>5 DEF Inv, Base

-----------------------------------------------------------------------------
(* Terminals, live sessions and dead ones. *)

HungUp ==
    \A s \in Sessions : pty[s] = "open" =>
        worker[s] \in {"starting"} \cup Looping \/ stray[s] = "looping" \/ s \in abandoned

Live == {"leased", "starting"} \cup Looping

\* Without an outage the hub takes no client with a thread for a dead one.
Spared ==
    "outage" \notin Faults =>
        /\ conn # "down" => lastSeen = "fresh"
        /\ \A s \in Sessions : worker[s] # "idle" => lastSeen = "fresh"
        /\ \A s \in Sessions : status[s] \in Over => worker[s] \notin Live

\* Every running record the client lists, or has read the log past, is held.
Held ==
    {"lost_lease", "lost_reconcile"} \cap Faults = {} =>
        \A s \in Sessions : status[s] = "running" =>
            /\ s \in controls => worker[s] \notin {"idle", "claiming"}
            /\ conn = "reading" => worker[s] \notin {"idle", "claiming"}
            /\ \A A \in recons : s \in A => worker[s] \notin {"idle", "claiming"}

\* A thread that holds no terminal may go where it likes.
LEMMA HungUpLeaves ==
  ASSUME HungUp, pty' = pty, abandoned' = abandoned, stray' = stray,
         \A s \in Sessions : worker'[s] = worker[s] \/ worker[s] \notin {"starting"} \cup Looping
  PROVE  HungUp'
  BY DEF HungUp

\* Terminals stay when nobody moves.
LEMMA HungUpFrame ==
  HungUp /\ UNCHANGED <<pty, worker, abandoned, stray>> => HungUp'
  BY DEF HungUp

\* Whoever leaves the loop closes the terminal or leaves it behind.
LEMMA HungUpStep == ASSUME Base, HungUp, Next PROVE HungUp'
<1>1. ASSUME NEW s \in Sessions,
             Create(s) \/ Type(s) \/ Resize(s) \/ CloseQueued(s) \/ CloseRunning(s)
             \/ BecomeOverdue(s) \/ PostEnd(s) \/ EndFails(s)
             \/ ShellEnds(s)
      PROVE  HungUp'
  BY <1>1, HungUpFrame DEF Create, Type, Resize, CloseQueued, CloseRunning,
     BecomeOverdue, PostEnd, EndFails, ShellEnds, EndRetried, osVars, strayVars, workVars
<1>2. ASSUME NEW A \in recons,
             HandleReconcile(A)
      PROVE  HungUp'
  BY <1>2, HungUpFrame DEF HandleReconcile, osVars, strayVars, workVars
<1>3. CASE Connect \/ ReconcileFails \/ DispatchInput \/ DispatchResize \/ DispatchClose
          \/ StreamBreaks \/ Heartbeat \/ Restart \/ BecomeStale \/ Reap
  BY <1>3, HungUpFrame DEF Connect, ReconcileFails, DispatchInput, DispatchResize,
     DispatchClose, StreamBreaks, Heartbeat, Restart, BecomeStale, Reap, Consume, osVars, strayVars,
     workVars
<1>4. ASSUME NEW s \in Sessions, ClaimFails(s) PROVE HungUp'
  <2>1. worker[s] = "claiming"
    BY <1>4, RequestTypes DEF ClaimFails, Pending, Base, Awaited, Awaits, Request
  <2>2. \A r \in Sessions : worker'[r] = worker[r] \/ worker[r] \notin {"starting"} \cup Looping
    BY <1>4, <2>1 DEF ClaimFails, ThreadDies, ThreadEnds, EndRetried, Base, TypeInv, TypeOK, WorkTypes, Looping
  <2>3. UNCHANGED <<pty, abandoned, stray>>  BY <1>4 DEF ClaimFails, osVars, strayVars
  <2>4. QED  BY <2>2, <2>3, HungUpLeaves
<1>5. ASSUME NEW s \in Sessions, Spawn(s) PROVE HungUp'
  BY <1>5 DEF HungUp, Base, HasControls, Awaited, Awaits, Request, TypeInv, TypeOK,
     WorkTypes, OsTypes, Looping, Spawn, Request, osVars, strayVars, workVars
<1>6. ASSUME NEW s \in Sessions, SpawnFails(s) PROVE HungUp'
  BY <1>6 DEF HungUp, Base, HasControls, Awaited, Awaits, Request, TypeInv, TypeOK,
     WorkTypes, OsTypes, Looping, SpawnFails, NoShell, Commit, StartEnd, osVars, strayVars, workVars
<1>7. ASSUME NEW s \in Sessions, Serve(s) PROVE HungUp'
  <2>1. \A r \in Sessions : r # s => worker'[r] = worker[r] /\ pty'[r] = pty[r]
    BY <1>7 DEF Serve, LoopRaises, StartEnd, CloseMaster, Base, TypeInv, TypeOK, WorkTypes, OsTypes
  <2>2. worker'[s] \in Looping \/ pty'[s] = "closed"
    BY <1>7 DEF Serve, LoopRaises, StartEnd, CloseMaster, Looping, Base, TypeInv, TypeOK, WorkTypes, OsTypes
  <2>3. UNCHANGED <<abandoned, stray>>  BY <1>7 DEF Serve, strayVars
  <2>4. QED  BY <2>1, <2>2, <2>3 DEF HungUp
<1>8. ASSUME NEW s \in Sessions, CloseShell(s) PROVE HungUp'
  BY <1>8 DEF HungUp, Base, HasControls, Awaited, Awaits, Request, TypeInv, TypeOK,
     WorkTypes, OsTypes, Looping, CloseShell, StartEnd, CloseMaster, osVars, strayVars, workVars
<1>9. ASSUME NEW s \in Sessions, GoOn(s) PROVE HungUp'
  BY <1>9 DEF HungUp, Base, HasControls, Awaited, Awaits, Request, TypeInv, TypeOK,
     WorkTypes, OsTypes, Looping, GoOn, osVars, strayVars, workVars
<1>10. ASSUME NEW s \in Sessions, Poll(s) PROVE HungUp'
  BY <1>10 DEF HungUp, Base, TypeInv, TypeOK, WorkTypes, Looping, Poll, osVars, strayVars
<1>11. ASSUME NEW s \in Sessions, ReportFails(s) PROVE HungUp'
  BY <1>11 DEF HungUp, Base, HasControls, Awaited, Awaits, Request, TypeInv, TypeOK,
     WorkTypes, OsTypes, Looping, ReportFails, Pending, Commit, ReportRaises, LoopRaises,
     StartEnd, CloseMaster, osVars, strayVars, workVars
<1>12. ASSUME NEW m \in net, GrantClaim(m) PROVE HungUp'
  <2>1. worker[m.session] = "claiming" /\ m.session \in Sessions
    BY <1>12, RequestTypes DEF GrantClaim, Pending, Base, Awaited, Awaits, Request
  <2>2. \A r \in Sessions : worker'[r] = worker[r] \/ worker[r] \notin {"starting"} \cup Looping
    BY <1>12, <2>1 DEF GrantClaim, ThreadDies, ThreadEnds, EndRetried, Base, TypeInv, TypeOK, WorkTypes, Looping
  <2>3. UNCHANGED <<pty, abandoned, stray>>  BY <1>12 DEF GrantClaim, osVars, strayVars
  <2>4. QED  BY <2>2, <2>3, HungUpLeaves
<1>13. ASSUME NEW m \in net, RefuseClaim(m) PROVE HungUp'
  <2>1. worker[m.session] = "claiming" /\ m.session \in Sessions
    BY <1>13, RequestTypes DEF RefuseClaim, Pending, Base, Awaited, Awaits, Request
  <2>2. \A r \in Sessions : worker'[r] = worker[r] \/ worker[r] \notin {"starting"} \cup Looping
    BY <1>13, <2>1 DEF RefuseClaim, ThreadDies, ThreadEnds, EndRetried, Base, TypeInv, TypeOK, WorkTypes, Looping
  <2>3. UNCHANGED <<pty, abandoned, stray>>  BY <1>13 DEF RefuseClaim, osVars, strayVars
  <2>4. QED  BY <2>2, <2>3, HungUpLeaves
<1>14. ASSUME NEW m \in net, HandleReport(m) PROVE HungUp'
  BY RequestTypes, <1>14 DEF HungUp, Base, HasControls, Awaited, Awaits, Request,
     TypeInv, TypeOK, WorkTypes, OsTypes, Looping, HandleReport, Commit, ReportRaises,
     LoopRaises, StartEnd, CloseMaster, osVars, strayVars, workVars
<1>15. ASSUME NEW m \in net, HandleEnd(m) PROVE HungUp'
  <2>1. worker[m.session] = "ending" /\ m.session \in Sessions
    BY <1>15, RequestTypes DEF HandleEnd, Pending, Base, Awaited, Awaits, Request
  <2>2. \A r \in Sessions : worker'[r] = worker[r] \/ worker[r] \notin {"starting"} \cup Looping
    BY <1>15, <2>1 DEF HandleEnd, ThreadDies, ThreadEnds, EndRetried, Base, TypeInv, TypeOK, WorkTypes, Looping
  <2>3. UNCHANGED <<pty, abandoned, stray>>  BY <1>15 DEF HandleEnd, osVars, strayVars
  <2>4. QED  BY <2>2, <2>3, HungUpLeaves
<1>16. CASE DispatchStart
  BY EventIn, <1>16 DEF HungUp, Base, HasControls, Awaited, Awaits, Request, TypeInv,
     TypeOK, WorkTypes, OsTypes, Looping, DispatchStart, Consume, Request, osVars, strayVars,
     workVars
<1>17. CASE Crash
  BY <1>17 DEF HungUp, Base, HasControls, Awaited, Awaits, Request, TypeInv, TypeOK,
     WorkTypes, OsTypes, Looping, Crash, Commit, osVars, strayVars, workVars
<1>18. ASSUME NEW s \in Sessions, DrainOutput(s) PROVE HungUp'
  BY <1>18, HungUpFrame DEF DrainOutput, osVars, strayVars, workVars
<1>19. ASSUME NEW s \in Sessions, Output(s) PROVE HungUp'
  BY <1>19 DEF HungUp, Base, TypeInv, TypeOK, WorkTypes, OsTypes, Looping, Output,
     osVars, strayVars
<1>20. ASSUME NEW s \in Sessions, Drained(s) PROVE HungUp'
  BY <1>20 DEF HungUp, Base, TypeInv, TypeOK, WorkTypes, OsTypes, Looping, Drained,
     StartEnd, CloseMaster, strayVars
<1>21. ASSUME NEW s \in Sessions, StraySpawns(s) PROVE HungUp'
  <2>1. worker' = worker /\ stray[s] = "leased" /\ \A r \in Sessions : r # s => stray'[r] = stray[r]
    BY <1>21 DEF StraySpawns, workVars, Base, TypeInv, TypeOK, OsTypes
  <2>2. /\ abandoned \subseteq abandoned'
        /\ \A r \in Sessions : r # s => pty'[r] = pty[r]
        /\ pty'[s] = pty[s] \/ s \in abandoned'
    BY <1>21 DEF StraySpawns, NoShell, Base, TypeInv, TypeOK, OsTypes
  <2>3. QED  BY <2>1, <2>2 DEF HungUp
<1>22. ASSUME NEW s \in Sessions, StrayServes(s) PROVE HungUp'
  <2>1. UNCHANGED <<worker, abandoned>>  BY <1>22 DEF StrayServes, workVars
  <2>2. \/ UNCHANGED <<stray, pty>>
        \/ /\ \A r \in Sessions : r # s => stray'[r] = stray[r] /\ pty'[r] = pty[r]
           /\ pty'[s] = "closed"
    BY <1>22 DEF StrayServes, StrayLeaves, Base, TypeInv, TypeOK, OsTypes
  <2>3. QED  BY <2>1, <2>2 DEF HungUp
<1>23. ASSUME NEW s \in Sessions, StrayEnds(s) PROVE HungUp'
  BY <1>23 DEF HungUp, Base, TypeInv, TypeOK, WorkTypes, OsTypes, Looping, StrayEnds,
     StrayLeaves, workVars
<1>24. CASE Swap
  <2>1. SUFFICES ASSUME NEW s \in Sessions, pty'[s] = "open"
                 PROVE  stray'[s] = "looping" \/ s \in abandoned'
    BY DEF HungUp
  <2>2. pty[s] = "open" /\ (worker[s] \in Looping => GoesOn(s))
    BY <1>24, <2>1 DEF Swap, Base, TypeInv, TypeOK, OsTypes
  <2>3. CASE worker[s] = "starting"  BY <1>24, <2>3 DEF Swap
  <2>4. CASE worker[s] \in Looping
    <3>1. GoesOn(s) /\ worker[s] # "leased"  BY <2>2, <2>4 DEF Looping
    <3>2. QED  BY <1>24, <3>1 DEF Swap
  <2>5. CASE stray[s] = "looping"
    <3>1. worker[s] \in {"idle", "claiming"}  BY <2>5 DEF Base, Claimed
    <3>2. ~GoesOn(s)  BY <3>1 DEF GoesOn, Looping
    <3>3. QED  BY <1>24, <2>5, <3>2 DEF Swap
  <2>6. CASE s \in abandoned  BY <1>24, <2>6 DEF Swap
  <2>7. QED  BY <2>2, <2>3, <2>4, <2>5, <2>6 DEF HungUp
<1>25. QED  BY <1>1, <1>2, <1>3, <1>4, <1>5, <1>6, <1>7, <1>8, <1>9, <1>10, <1>11,
     <1>12, <1>13, <1>14, <1>15, <1>16, <1>17, <1>18, <1>19, <1>20, <1>21, <1>22, <1>23,
     <1>24 DEF Next, Initiator, Handle, Dispatch, Loop, Turn, Thread, Stray

\* Sessions stay spared when nothing happens to them.
LEMMA SparedFrame ==
  Spared /\ UNCHANGED <<conn, lastSeen, worker, status>> => Spared'
  BY DEF Spared, Live

\* A live session is not resolved.
LEMMA SparedStep == ASSUME Base, Spared, Next PROVE Spared'
<1>1. ASSUME NEW s \in Sessions,
             Type(s) \/ Resize(s) \/ CloseRunning(s) \/ BecomeOverdue(s)
             \/ PostEnd(s) \/ EndFails(s) \/ ShellEnds(s)
      PROVE  Spared'
  BY <1>1, SparedFrame DEF Type, Resize, CloseRunning, BecomeOverdue, PostEnd,
     EndFails, ShellEnds, EndRetried, hubVars, connVars, workVars
<1>2. CASE DispatchInput \/ DispatchResize \/ DispatchClose \/ Restart
  BY <1>2, SparedFrame DEF DispatchInput, DispatchResize, DispatchClose, Restart,
     Consume, hubVars, connVars, workVars
<1>3. ASSUME NEW s \in Sessions, Create(s) PROVE Spared'
  BY <1>3 DEF Spared, Base, Live, Reading, HasControls, Awaited, Awaits, Request,
     Claimed, Over, Open, TypeInv, TypeOK, HubTypes, WorkTypes, Looping, Create,
     ControlEvent, hubVars, connVars, workVars
<1>4. ASSUME NEW s \in Sessions, CloseQueued(s) PROVE Spared'
  BY <1>4 DEF Spared, Base, Live, Reading, HasControls, Awaited, Awaits, Request,
     Claimed, Over, Open, TypeInv, TypeOK, HubTypes, WorkTypes, Looping, CloseQueued,
     Resolve, hubVars, connVars, workVars
<1>5. ASSUME NEW s \in Sessions, ClaimFails(s) PROVE Spared'
  BY <1>5 DEF Spared, Base, Live, Reading, HasControls, Awaited, Awaits, Request,
     Claimed, Over, Open, TypeInv, TypeOK, HubTypes, WorkTypes, Looping, ClaimFails,
     Pending, Commit, ThreadDies, hubVars, connVars, workVars
<1>6. ASSUME NEW s \in Sessions, Spawn(s) PROVE Spared'
  BY <1>6 DEF Spared, Base, Live, Reading, HasControls, Awaited, Awaits, Request,
     Claimed, Over, Open, TypeInv, TypeOK, HubTypes, WorkTypes, Looping, Spawn, Request,
     hubVars, connVars, workVars
<1>7. ASSUME NEW s \in Sessions, SpawnFails(s) PROVE Spared'
  BY <1>7 DEF Spared, Base, Live, Reading, HasControls, Awaited, Awaits, Request,
     Claimed, Over, Open, TypeInv, TypeOK, HubTypes, WorkTypes, Looping, SpawnFails,
     Commit, StartEnd, hubVars, connVars, workVars
<1>8. ASSUME NEW s \in Sessions, Serve(s) PROVE Spared'
  BY <1>8 DEF Spared, Base, Live, Reading, HasControls, Awaited, Awaits, Request,
     Claimed, Over, Open, TypeInv, TypeOK, HubTypes, WorkTypes, Looping, Serve,
     Write, PtyTakes, Commit, LoopRaises, StartEnd, CloseMaster, hubVars, connVars, workVars
<1>9. ASSUME NEW s \in Sessions, CloseShell(s) PROVE Spared'
  BY <1>9 DEF Spared, Base, Live, Reading, HasControls, Awaited, Awaits, Request,
     Claimed, Over, Open, TypeInv, TypeOK, HubTypes, WorkTypes, Looping, CloseShell,
     StartEnd, CloseMaster, hubVars, connVars, workVars
<1>10. ASSUME NEW s \in Sessions, GoOn(s) PROVE Spared'
  BY <1>10 DEF Spared, Base, Live, Reading, HasControls, Awaited, Awaits, Request,
     Claimed, Over, Open, TypeInv, TypeOK, HubTypes, WorkTypes, Looping, GoOn, hubVars,
     connVars, workVars
<1>11. ASSUME NEW s \in Sessions, Poll(s) PROVE Spared'
  BY <1>11 DEF Spared, Base, Live, Reading, HasControls, Awaited, Awaits, Request,
     Claimed, Over, Open, TypeInv, TypeOK, HubTypes, WorkTypes, Looping, Poll, Pending,
     StartEnd, CloseMaster, hubVars, connVars, workVars
<1>12. ASSUME NEW s \in Sessions, ReportFails(s) PROVE Spared'
  BY <1>12 DEF Spared, Base, Live, Reading, HasControls, Awaited, Awaits, Request,
     Claimed, Over, Open, TypeInv, TypeOK, HubTypes, WorkTypes, Looping, ReportFails,
     Pending, Commit, ReportRaises, LoopRaises, StartEnd, CloseMaster, hubVars, connVars,
     workVars
<1>13. ASSUME NEW m \in net, GrantClaim(m) PROVE Spared'
  <2>1. m.session \in Sessions /\ worker[m.session] = "claiming"
    BY <1>13, RequestTypes DEF GrantClaim, Base, Awaited, Awaits, Request
  <2>2. /\ \A r \in Sessions : r # m.session => worker'[r] = worker[r] /\ status'[r] = status[r]
        /\ UNCHANGED <<lastSeen, conn>> /\ status'[m.session] = "running"
    BY <1>13, <2>1 DEF GrantClaim, ThreadDies, connVars, Base, TypeInv, TypeOK, WorkTypes, HubTypes
  <2>3. QED  BY <2>1, <2>2 DEF Spared, Over
<1>14. ASSUME NEW m \in net, RefuseClaim(m) PROVE Spared'
  BY RequestTypes, <1>14 DEF Spared, Base, Live, Reading, HasControls, Awaited,
     Awaits, Request, Claimed, Over, Open, TypeInv, TypeOK, HubTypes, WorkTypes, Looping,
     RefuseClaim, Claimable, Commit, ThreadEnds, ThreadDies, hubVars, connVars, workVars
<1>15. ASSUME NEW m \in net, HandleReport(m) PROVE Spared'
  BY RequestTypes, <1>15 DEF Spared, Base, Live, Reading, HasControls, Awaited,
     Awaits, Request, Claimed, Over, Open, TypeInv, TypeOK, HubTypes, WorkTypes, Looping,
     HandleReport, Commit, ReportRaises, LoopRaises, StartEnd, CloseMaster, hubVars,
     connVars, workVars
<1>16. ASSUME NEW m \in net, HandleEnd(m) PROVE Spared'
  <2>1. m.session \in Sessions /\ m.body \in Over /\ worker[m.session] = "ending"
    BY <1>16, RequestTypes DEF HandleEnd, Base, Awaited, Awaits, Request
  <2>2. \A r \in Sessions : r # m.session => worker'[r] = worker[r] /\ status'[r] = status[r]
    BY <1>16, <2>1 DEF HandleEnd, ApplyEnd, Resolve, ThreadEnds, EndRetried, Base, TypeInv, TypeOK, WorkTypes
  <2>3. worker'[m.session] \in {"idle", "ending"}
    BY <1>16, <2>1 DEF HandleEnd, ThreadEnds, EndRetried, Base, TypeInv, TypeOK, WorkTypes
  <2>4. lastSeen' = "fresh" /\ conn' = conn  BY <1>16 DEF HandleEnd, connVars
  <2>5. QED  BY <2>1, <2>2, <2>3, <2>4 DEF Spared, Live, Looping
<1>17. ASSUME NEW A \in recons, HandleReconcile(A) PROVE Spared'
  BY <1>17 DEF Spared, Base, Live, Reading, HasControls, Awaited, Awaits, Request,
     Claimed, Over, Open, TypeInv, TypeOK, HubTypes, WorkTypes, Looping, HandleReconcile,
     Resolve, Unlisted, hubVars, connVars, workVars
<1>18. CASE Connect
  BY <1>18 DEF Spared, Base, Live, Reading, HasControls, Awaited, Awaits, Request,
     Claimed, Over, Open, TypeInv, TypeOK, HubTypes, WorkTypes, Looping, Connect,
     ResumeFrom, ActiveSessions, hubVars, connVars, workVars
<1>19. CASE ReconcileFails
  BY <1>19 DEF Spared, Base, Live, Reading, HasControls, Awaited, Awaits, Request,
     Claimed, Over, Open, TypeInv, TypeOK, HubTypes, WorkTypes, Looping, ReconcileFails,
     Commit, hubVars, connVars, workVars
<1>20. CASE DispatchStart
  BY EventIn, <1>20 DEF Spared, Base, Live, Reading, HasControls, Awaited, Awaits,
     Request, Claimed, Over, Open, TypeInv, TypeOK, HubTypes, WorkTypes, Looping,
     DispatchStart, Consume, Request, hubVars, connVars, workVars
<1>21. CASE StreamBreaks
  BY <1>21 DEF Spared, Base, Live, Reading, HasControls, Awaited, Awaits, Request,
     Claimed, Over, Open, TypeInv, TypeOK, HubTypes, WorkTypes, Looping, StreamBreaks,
     Commit, hubVars, connVars, workVars
<1>22. CASE Heartbeat
  BY <1>22 DEF Spared, Base, Live, Reading, HasControls, Awaited, Awaits, Request,
     Claimed, Over, Open, TypeInv, TypeOK, HubTypes, WorkTypes, Looping, Heartbeat,
     hubVars, connVars, workVars
<1>23. CASE Crash
  BY <1>23 DEF Spared, Base, Live, Reading, HasControls, Awaited, Awaits, Request,
     Claimed, Over, Open, TypeInv, TypeOK, HubTypes, WorkTypes, Looping, Crash, Commit,
     hubVars, connVars, workVars
<1>24. CASE BecomeStale
  BY <1>24 DEF Spared, Base, Live, Reading, HasControls, Awaited, Awaits, Request,
     Claimed, Over, Open, TypeInv, TypeOK, HubTypes, WorkTypes, Looping, BecomeStale,
     Commit, hubVars, connVars, workVars
<1>25. CASE Reap
  BY <1>25 DEF Spared, Base, Live, Reading, HasControls, Awaited, Awaits, Request,
     Claimed, Over, Open, TypeInv, TypeOK, HubTypes, WorkTypes, Looping, Reap, Resolve,
     Lost, Unclaimed, hubVars, connVars, workVars
<1>26. ASSUME NEW s \in Sessions,
             DrainOutput(s) \/ StraySpawns(s) \/ StrayServes(s) \/ StrayEnds(s)
      PROVE  Spared'
  BY <1>26, SparedFrame DEF DrainOutput, StraySpawns, StrayServes, StrayEnds, hubVars,
     connVars, workVars
<1>27. ASSUME NEW s \in Sessions, Output(s) PROVE Spared'
  BY <1>27 DEF Spared, Base, Live, Looping, TypeInv, TypeOK, WorkTypes, Output, hubVars,
     connVars
<1>28. ASSUME NEW s \in Sessions, Drained(s) PROVE Spared'
  BY <1>28 DEF Spared, Base, Live, Looping, TypeInv, TypeOK, WorkTypes, Drained,
     StartEnd, hubVars, connVars
<1>29. CASE Swap
  BY <1>29 DEF Spared, Live, Looping, Swap, hubVars
<1>30. QED  BY <1>1, <1>2, <1>3, <1>4, <1>5, <1>6, <1>7, <1>8, <1>9, <1>10, <1>11,
     <1>12, <1>13, <1>14, <1>15, <1>16, <1>17, <1>18, <1>19, <1>20, <1>21, <1>22, <1>23,
     <1>24, <1>25, <1>26, <1>27, <1>28, <1>29 DEF Next, Initiator, Handle, Dispatch,
     Loop, Turn, Thread, Stray

\* Records stay held when nothing changes.
LEMMA HeldFrame ==
  Held /\ UNCHANGED <<status, controls, worker, conn, recons>> => Held'
  BY DEF Held

\* A running record is held by a thread, or about to be resolved.
LEMMA HeldStep == ASSUME Base, Held, Next PROVE Held'
<1>1. ASSUME NEW s \in Sessions,
             Type(s) \/ Resize(s) \/ CloseRunning(s) \/ BecomeOverdue(s)
             \/ PostEnd(s) \/ EndFails(s) \/ ShellEnds(s)
      PROVE  Held'
  BY <1>1, HeldFrame DEF Type, Resize, CloseRunning, BecomeOverdue, PostEnd,
     EndFails, ShellEnds, EndRetried, hubVars, connVars, ctlVars, workVars, netVars
<1>2. CASE DispatchInput \/ DispatchResize \/ DispatchClose \/ Heartbeat \/ Restart
          \/ BecomeStale
  BY <1>2, HeldFrame DEF DispatchInput, DispatchResize, DispatchClose, Heartbeat,
     Restart, BecomeStale, Consume, hubVars, connVars, ctlVars, workVars, netVars
<1>3. ASSUME NEW s \in Sessions, Create(s) PROVE Held'
  BY <1>3 DEF Held, Base, Reading, HasControls, Awaited, Awaits, Request, Over, Open,
     TypeInv, TypeOK, HubTypes, WorkTypes, Looping, Create, ControlEvent, hubVars,
     connVars, ctlVars, workVars, netVars
<1>4. ASSUME NEW s \in Sessions, CloseQueued(s) PROVE Held'
  BY <1>4 DEF Held, Base, Reading, HasControls, Awaited, Awaits, Request, Over, Open,
     TypeInv, TypeOK, HubTypes, WorkTypes, Looping, CloseQueued, Resolve, hubVars,
     connVars, ctlVars, workVars, netVars
<1>5. ASSUME NEW s \in Sessions, ClaimFails(s) PROVE Held'
  <2>1. worker[s] = "claiming" /\ s \in controls
    BY <1>5, RequestTypes DEF ClaimFails, Pending, Base, Awaited, Awaits, Request, HasControls
  <2>2. /\ \A r \in Sessions : r # s => worker'[r] = worker[r]
        /\ UNCHANGED <<status, conn, recons, controls>>
    BY <1>5 DEF ClaimFails, ThreadDies, hubVars, connVars, ctlVars, Base, TypeInv, TypeOK, WorkTypes
  <2>3. QED  BY <2>1, <2>2 DEF Held
<1>6. ASSUME NEW s \in Sessions, Spawn(s) PROVE Held'
  BY <1>6 DEF Held, Base, Reading, HasControls, Awaited, Awaits, Request, Over, Open,
     TypeInv, TypeOK, HubTypes, WorkTypes, Looping, Spawn, Request, hubVars, connVars,
     ctlVars, workVars, netVars
<1>7. ASSUME NEW s \in Sessions, SpawnFails(s) PROVE Held'
  BY <1>7 DEF Held, Base, Reading, HasControls, Awaited, Awaits, Request, Over, Open,
     TypeInv, TypeOK, HubTypes, WorkTypes, Looping, SpawnFails, NoShell, Commit, StartEnd,
     hubVars, connVars, ctlVars, workVars, netVars
<1>8. ASSUME NEW s \in Sessions, Serve(s) PROVE Held'
  BY <1>8 DEF Held, Base, Reading, HasControls, Awaited, Awaits, Request, Over, Open,
     TypeInv, TypeOK, HubTypes, WorkTypes, Looping, Serve, Write, PtyTakes, Commit,
     LoopRaises, StartEnd, CloseMaster, hubVars, connVars, ctlVars, workVars, netVars
<1>9. ASSUME NEW s \in Sessions, CloseShell(s) PROVE Held'
  BY <1>9 DEF Held, Base, Reading, HasControls, Awaited, Awaits, Request, Over, Open,
     TypeInv, TypeOK, HubTypes, WorkTypes, Looping, CloseShell, StartEnd, CloseMaster,
     hubVars, connVars, ctlVars, workVars, netVars
<1>10. ASSUME NEW s \in Sessions, GoOn(s) PROVE Held'
  BY <1>10 DEF Held, Base, Reading, HasControls, Awaited, Awaits, Request, Over, Open,
     TypeInv, TypeOK, HubTypes, WorkTypes, Looping, GoOn, hubVars, connVars, ctlVars,
     workVars, netVars
<1>11. ASSUME NEW s \in Sessions, Poll(s) PROVE Held'
  BY <1>11 DEF Held, Base, Reading, HasControls, Awaited, Awaits, Request, Over, Open,
     TypeInv, TypeOK, HubTypes, WorkTypes, Looping, Poll, Pending, StartEnd, CloseMaster,
     hubVars, connVars, ctlVars, workVars, netVars
<1>12. ASSUME NEW s \in Sessions, ReportFails(s) PROVE Held'
  BY <1>12 DEF Held, Base, Reading, HasControls, Awaited, Awaits, Request, Over, Open,
     TypeInv, TypeOK, HubTypes, WorkTypes, Looping, ReportFails, Pending, Commit,
     ReportRaises, LoopRaises, StartEnd, CloseMaster, hubVars, connVars, ctlVars,
     workVars, netVars
<1>13. ASSUME NEW m \in net, GrantClaim(m) PROVE Held'
  BY RequestTypes, <1>13 DEF Held, Base, Reading, HasControls, Awaited, Awaits,
     Request, Over, Open, TypeInv, TypeOK, HubTypes, WorkTypes, Looping, GrantClaim,
     Claimable, Commit, ThreadDies, hubVars, connVars, ctlVars, workVars, netVars
<1>14. ASSUME NEW m \in net, RefuseClaim(m) PROVE Held'
  <2>1. m.session \in Sessions /\ worker[m.session] = "claiming" /\ m.session \in controls
    BY <1>14, RequestTypes DEF RefuseClaim, Base, Awaited, Awaits, Request, HasControls
  <2>2. /\ \A r \in Sessions : r # m.session => worker'[r] = worker[r]
        /\ UNCHANGED <<status, conn, recons>> /\ controls' \subseteq controls
    BY <1>14 DEF RefuseClaim, ThreadDies, ThreadEnds, hubVars, connVars, ctlVars,
       Base, TypeInv, TypeOK, WorkTypes
  <2>3. QED  BY <2>1, <2>2 DEF Held
<1>15. ASSUME NEW m \in net, HandleReport(m) PROVE Held'
  BY RequestTypes, <1>15 DEF Held, Base, Reading, HasControls, Awaited, Awaits,
     Request, Over, Open, TypeInv, TypeOK, HubTypes, WorkTypes, Looping, HandleReport,
     Commit, ReportRaises, LoopRaises, StartEnd, CloseMaster, hubVars, connVars, ctlVars,
     workVars, netVars
<1>16. ASSUME NEW m \in net, HandleEnd(m) PROVE Held'
  <2>1. m.session \in Sessions /\ m.body \in Over /\ worker[m.session] = "ending"
    BY <1>16, RequestTypes DEF HandleEnd, Base, Awaited, Awaits, Request
  <2>2. \A r \in Sessions : r # m.session => worker'[r] = worker[r] /\ status'[r] = status[r]
    BY <1>16, <2>1 DEF HandleEnd, ApplyEnd, Resolve, ThreadEnds, EndRetried, Base, TypeInv, TypeOK, WorkTypes
  <2>3. worker'[m.session] \in {"idle", "ending"}
    BY <1>16, <2>1 DEF HandleEnd, ThreadEnds, EndRetried, Base, TypeInv, TypeOK, WorkTypes
  <2>4. status'[m.session] # "running"
    BY <1>16, <2>1 DEF HandleEnd, ApplyEnd, Resolve, Open, Over, Base, TypeInv, TypeOK, HubTypes
  <2>5. conn' = conn /\ recons' = recons /\ controls' \subseteq controls
    BY <1>16 DEF HandleEnd, ThreadEnds, EndRetried, connVars, ctlVars
  <2>6. QED  BY <2>2, <2>4, <2>5 DEF Held
<1>17. ASSUME NEW A \in recons, HandleReconcile(A) PROVE Held'
  BY <1>17 DEF Held, Base, Reading, HasControls, Awaited, Awaits, Request, Over, Open,
     TypeInv, TypeOK, HubTypes, WorkTypes, Looping, HandleReconcile, Resolve, Unlisted,
     hubVars, connVars, ctlVars, workVars, netVars
<1>18. CASE Connect
  BY <1>18 DEF Held, Base, Reading, HasControls, Awaited, Awaits, Request, Over, Open,
     TypeInv, TypeOK, HubTypes, WorkTypes, Looping, Connect, ResumeFrom, ActiveSessions,
     hubVars, connVars, ctlVars, workVars, netVars
<1>19. CASE ReconcileFails
  BY <1>19 DEF Held, Base, Reading, HasControls, Awaited, Awaits, Request, Over, Open,
     TypeInv, TypeOK, HubTypes, WorkTypes, Looping, ReconcileFails, Commit, hubVars,
     connVars, ctlVars, workVars, netVars
<1>20. CASE DispatchStart
  BY EventIn, <1>20 DEF Held, Base, Reading, HasControls, Awaited, Awaits, Request,
     Over, Open, TypeInv, TypeOK, HubTypes, WorkTypes, Looping, DispatchStart, Consume,
     Request, hubVars, connVars, ctlVars, workVars, netVars
<1>21. CASE StreamBreaks
  BY <1>21 DEF Held, Base, Reading, HasControls, Awaited, Awaits, Request, Over, Open,
     TypeInv, TypeOK, HubTypes, WorkTypes, Looping, StreamBreaks, Commit, hubVars,
     connVars, ctlVars, workVars, netVars
<1>22. CASE Crash
  BY <1>22 DEF Held, Base, Reading, HasControls, Awaited, Awaits, Request, Over, Open,
     TypeInv, TypeOK, HubTypes, WorkTypes, Looping, Crash, Commit, hubVars, connVars,
     ctlVars, workVars, netVars
<1>23. CASE Reap
  BY <1>23 DEF Held, Base, Reading, HasControls, Awaited, Awaits, Request, Over, Open,
     TypeInv, TypeOK, HubTypes, WorkTypes, Looping, Reap, Resolve, Lost, Unclaimed,
     hubVars, connVars, ctlVars, workVars, netVars
<1>24. ASSUME NEW s \in Sessions,
             DrainOutput(s) \/ StraySpawns(s) \/ StrayServes(s) \/ StrayEnds(s)
      PROVE  Held'
  BY <1>24, HeldFrame DEF DrainOutput, StraySpawns, StrayServes, StrayEnds, hubVars,
     connVars, ctlVars, workVars, netVars
<1>25. ASSUME NEW s \in Sessions, Output(s) PROVE Held'
  BY <1>25 DEF Held, Base, TypeInv, TypeOK, WorkTypes, Output, hubVars, connVars,
     ctlVars
<1>26. ASSUME NEW s \in Sessions, Drained(s) PROVE Held'
  BY <1>26 DEF Held, Base, TypeInv, TypeOK, WorkTypes, Drained, StartEnd, hubVars,
     connVars, ctlVars, netVars
<1>27. CASE Swap
  <2>1. conn' = "down" /\ controls' = {} /\ recons' = recons /\ conn = "down"  BY <1>27 DEF Swap
  <2>2. recons = {}  BY <2>1 DEF Base, Reading
  <2>3. QED  BY <2>1, <2>2 DEF Held
<1>28. QED  BY <1>1, <1>2, <1>3, <1>4, <1>5, <1>6, <1>7, <1>8, <1>9, <1>10, <1>11,
     <1>12, <1>13, <1>14, <1>15, <1>16, <1>17, <1>18, <1>19, <1>20, <1>21, <1>22, <1>23,
     <1>24, <1>25, <1>26, <1>27 DEF Next, Initiator, Handle, Dispatch, Loop, Turn,
     Thread, Stray

-----------------------------------------------------------------------------
(* The refinement. *)

Ends == [s \in Sessions |-> Cardinality(EndsAt(s))]

\* Reports are no terminal events.
LEMMA EndsSame ==
  ASSUME TypeInv,
         \/ events' = events
         \/ \E s \in Sessions, k \in {"started", "output"} :
               events' = [events EXCEPT ![s] = Logged(@, k)]
  PROVE  Ends' = Ends
<1>1. CASE events' = events  BY <1>1 DEF Ends, EndsAt
<1>2. ASSUME NEW s \in Sessions, NEW k \in {"started", "output"},
             events' = [events EXCEPT ![s] = Logged(@, k)]
      PROVE  Ends' = Ends
  <2>l. CASE Logged(events[s], k) = events[s]
    <3>1. events' = events  BY <1>2, <2>l DEF TypeInv, TypeOK, HubTypes
    <3>2. QED  BY <1>1, <3>1
  <2>a. CASE Logged(events[s], k) = Append(events[s], k)
    <3>1. ASSUME NEW r \in Sessions PROVE EndsAt(r)' = EndsAt(r)
      <4>1. CASE r # s  BY <1>2, <4>1 DEF EndsAt, TypeInv, TypeOK, HubTypes
      <4>2. CASE r = s
        <5> DEFINE N == Len(events[s])
        <5>1. events[s] \in Seq({"started", "output", "end"}) /\ events'[s] = Append(events[s], k)
          BY <1>2, <2>a DEF TypeInv, TypeOK, HubTypes
        <5>2. /\ N \in Nat /\ Len(events'[s]) = N + 1 /\ events'[s][N + 1] = k /\ k # "end"
              /\ \A i \in 1 .. N : events'[s][i] = events[s][i]
              /\ \A i \in 1 .. N + 1 : i \in 1 .. N \/ i = N + 1
              /\ \A i \in 1 .. N : i \in 1 .. N + 1
          BY <5>1
        <5>3. QED  BY <4>2, <5>2 DEF EndsAt
      <4>3. QED  BY <4>1, <4>2
    <3>2. QED  BY <3>1 DEF Ends
  <2>3. QED  BY <2>l, <2>a DEF Logged
<1>3. QED  BY <1>1, <1>2

\* Resolving records raises their count of terminal events by one.
LEMMA EndsCounted ==
  ASSUME TypeInv, NEW S \in SUBSET Sessions, NEW st \in Over, Resolve(S, st)
  PROVE  Ends' = [s \in Sessions |-> IF s \in S THEN Ends[s] + 1 ELSE Ends[s]]
<1>1. SUFFICES ASSUME NEW s \in Sessions
               PROVE  Cardinality(EndsAt(s)') = IF s \in S THEN Cardinality(EndsAt(s)) + 1
                                                ELSE Cardinality(EndsAt(s))
  BY DEF Ends
<1>2. CASE s \in S
  <2> DEFINE N == Len(events[s])
  <2>1. events[s] \in Seq({"started", "output", "end"}) /\ events'[s] = Append(events[s], "end")
    BY <1>2 DEF Resolve, TypeInv, TypeOK, HubTypes
  <2>2. /\ N \in Nat /\ Len(events'[s]) = N + 1 /\ events'[s][N + 1] = "end"
        /\ \A i \in 1 .. N : events'[s][i] = events[s][i]
        /\ \A i \in 1 .. N + 1 : i \in 1 .. N \/ i = N + 1
        /\ \A i \in 1 .. N : i \in 1 .. N + 1
        /\ N + 1 \in 1 .. N + 1 /\ N + 1 \notin 1 .. N
    BY <2>1
  <2>3. EndsAt(s)' = EndsAt(s) \cup {N + 1} /\ N + 1 \notin EndsAt(s)
    BY <2>2 DEF EndsAt
  <2>4. IsFiniteSet(EndsAt(s))
    <3>1. IsFiniteSet(1 .. N)  BY <2>2, FS_Interval
    <3>2. EndsAt(s) \subseteq 1 .. N  BY DEF EndsAt
    <3>3. QED  BY <3>1, <3>2, FS_Subset
  <2>5. QED  BY <1>2, <2>3, <2>4, FS_AddElement
<1>3. CASE s \notin S
  <2>1. EndsAt(s)' = EndsAt(s)  BY <1>3 DEF Resolve, EndsAt
  <2>2. QED  BY <1>3, <2>1
<1>4. QED  BY <1>2, <1>3

\* A transaction that resolves records is one of ShellPromise.
LEMMA PromiseEnds ==
  ASSUME TypeInv, NEW S \in SUBSET Sessions, NEW st \in Over, Resolve(S, st),
         \A s \in S : status[s] \in Open, UNCHANGED <<started, spawned, typed, written, cut>>
  PROVE  Promise!PromiseNext
<1>1. Ends' = [s \in Sessions |-> IF s \in S THEN Ends[s] + 1 ELSE Ends[s]]  BY EndsCounted
<1>2. \E f \in [S -> Promise!Over] :
        status' = [s \in Sessions |-> IF s \in S THEN f[s] ELSE status[s]]
  <2>1. [s \in S |-> st] \in [S -> Promise!Over]  BY DEF Over, Promise!Over
  <2>2. status' = [s \in Sessions |-> IF s \in S THEN [x \in S |-> st][s] ELSE status[s]]
    BY DEF Resolve
  <2>3. QED  BY <2>1, <2>2
<1>3. \A s \in S : status[s] \in Promise!Open  BY DEF Open, Promise!Open
<1>4. Promise!PromiseEnd(S)  BY <1>1, <1>2, <1>3 DEF Promise!PromiseEnd, Ends
<1>5. QED  BY <1>4 DEF Promise!PromiseNext

\* A queue is written from its first input on, to the shell of its session.
LEMMA PromiseWrites ==
  ASSUME Inv, Inv', NEW s \in Sessions, NEW q \in Seq(Nat), NEW n \in 0 .. Len(q),
         Len(written[s]) + Len(q) <= typed[s],
         \A i \in 1 .. Len(q) : q[i] = Len(written[s]) + i,
         Write(s, q, n), spawned[s] = 1, UNCHANGED <<status, started, spawned, typed, events>>
  PROVE  Promise!PromiseNext
<1>1. /\ written[s] \in Seq(Nat) /\ written'[s] \in Seq(Nat) /\ typed[s] \in Nat
      /\ written \in [Sessions -> Seq(Nat)] /\ written' \in [Sessions -> Seq(Nat)]
  BY DEF Inv, Base, TypeInv, TypeOK, OsTypes, HubTypes
<1>2. Len(written'[s]) = Len(written[s]) + n /\ Len(written'[s]) <= typed[s]
  BY WriteFollows DEF Inv, Base, Written
<1>3. Len(written'[s]) \in Len(written[s]) .. typed[s]  BY <1>1, <1>2
<1>4. written'[s] = [i \in 1 .. Len(written'[s]) |-> i]
  <2>1. \A i \in 1 .. Len(written'[s]) : written'[s][i] = i  BY DEF Inv, Written
  <2>2. written'[s] = [i \in 1 .. Len(written'[s]) |-> written'[s][i]]  BY <1>1
  <2>3. QED  BY <2>1, <2>2
<1>5. written' = [written EXCEPT ![s] = [i \in 1 .. Len(written'[s]) |-> i]]
  <2>1. \A r \in Sessions : r # s => written'[r] = written[r]  BY <1>1 DEF Write
  <2>2. QED  BY <1>1, <1>4, <2>1
<1>6. PICK short \in SUBSET {q[i] : i \in 1 .. n} : cut' = [cut EXCEPT ![s] = @ \cup short]
  BY DEF Write
<1>7. short \in SUBSET (Len(written[s]) + 1 .. Len(written'[s]))
  <2>1. SUFFICES ASSUME NEW x \in short PROVE x \in Len(written[s]) + 1 .. Len(written'[s])
    OBVIOUS
  <2>2. PICK i \in 1 .. n : x = q[i]  BY <1>6, <2>1
  <2>3. i \in 1 .. Len(q) /\ i \in Nat /\ Len(written[s]) \in Nat  BY <1>1
  <2>4. x = Len(written[s]) + i  BY <2>2, <2>3
  <2>5. \A a, k \in Nat : \A j \in 1 .. k : a + j \in a + 1 .. a + k  OBVIOUS
  <2>6. n \in Nat  BY <1>1
  <2>7. QED  BY <1>2, <2>2, <2>3, <2>4, <2>5, <2>6, Zenon
<1>8. Promise!PromiseWrite(s)
  BY <1>3, <1>5, <1>6, <1>7 DEF Promise!PromiseWrite, EndsAt
<1>9. QED  BY <1>8 DEF Promise!PromiseNext

\* Every step is a step of ShellPromise or leaves its variables alone.
LEMMA PromiseStep ==
  ASSUME Inv, Inv', Next
  PROVE  [Promise!PromiseNext]_(Promise!promiseVars)
<1>1. ASSUME NEW s \in Sessions,
             Resize(s) \/ CloseRunning(s) \/ BecomeOverdue(s) \/ ClaimFails(s)
             \/ SpawnFails(s) \/ CloseShell(s) \/ GoOn(s) \/ Poll(s) \/ Output(s)
             \/ ReportFails(s) \/ PostEnd(s) \/ EndFails(s) \/ ShellEnds(s)
      PROVE  [Promise!PromiseNext]_(Promise!promiseVars)
  BY <1>1 DEF Promise!promiseVars, EndsAt, Resize, CloseRunning, BecomeOverdue, ClaimFails, SpawnFails,
     CloseShell, GoOn, Poll, Output, ReportFails, PostEnd, EndFails, ShellEnds, hubVars,
     osVars, strayVars
<1>2. ASSUME NEW m \in net,
             RefuseClaim(m)
      PROVE  [Promise!PromiseNext]_(Promise!promiseVars)
  BY <1>2 DEF Promise!promiseVars, EndsAt, RefuseClaim, hubVars, osVars, strayVars
<1>3. CASE Connect \/ ReconcileFails \/ DispatchStart \/ DispatchInput \/ DispatchResize
          \/ DispatchClose \/ StreamBreaks \/ Heartbeat \/ Crash \/ Restart
          \/ BecomeStale
  BY <1>3 DEF Promise!promiseVars, EndsAt, Connect, ReconcileFails, DispatchStart, DispatchInput,
     DispatchResize, DispatchClose, StreamBreaks, Heartbeat, Crash, Restart, BecomeStale,
     Consume, hubVars, osVars, strayVars
<1>4. ASSUME NEW s \in Sessions, Create(s) PROVE [Promise!PromiseNext]_(Promise!promiseVars)
  <2>1. Promise!PromiseOpen(s)  BY <1>4 DEF Create, Promise!PromiseOpen, EndsAt, osVars, strayVars
  <2>2. QED  BY <2>1 DEF Promise!PromiseNext
<1>5. ASSUME NEW s \in Sessions, Type(s) PROVE [Promise!PromiseNext]_(Promise!promiseVars)
  <2>1. Promise!PromiseType(s)  BY <1>5 DEF Type, Promise!PromiseType, EndsAt, osVars, strayVars
  <2>2. QED  BY <2>1 DEF Promise!PromiseNext
<1>6. ASSUME NEW s \in Sessions, CloseQueued(s) PROVE [Promise!PromiseNext]_(Promise!promiseVars)
  BY <1>6, PromiseEnds DEF CloseQueued, Over, Open, Inv, Base, osVars, strayVars
<1>7. ASSUME NEW s \in Sessions, Spawn(s) PROVE [Promise!PromiseNext]_(Promise!promiseVars)
  <2>1. started[s] /\ spawned[s] = 0 /\ spawned \in [Sessions -> Nat]
    BY <1>7 DEF Spawn, Inv, Base, Claimed, TypeInv, TypeOK, OsTypes
  <2>2. Promise!PromiseSpawn(s)
    BY <1>7, <2>1 DEF Spawn, Promise!PromiseSpawn, EndsAt, hubVars
  <2>3. QED  BY <2>2 DEF Promise!PromiseNext
<1>8. ASSUME NEW s \in Sessions, Serve(s) PROVE [Promise!PromiseNext]_(Promise!promiseVars)
  <2>1. UNCHANGED <<status, started, spawned, typed, events>> /\ inputs[s] \in Seq(Nat)
    BY <1>8 DEF Serve, hubVars, Inv, Base, TypeInv, TypeOK, CtlTypes
  <2>2. spawned[s] = 1 /\ QueueFollows(s, Len(written[s]))
    BY <1>8 DEF Serve, Inv, Base, Claimed, Queued, Serving, Looping, Got
  <2>3. PICK n \in 0 .. Len(inputs[s]) : Write(s, inputs[s], n)  BY <1>8 DEF Serve
  <2>4. QED  BY <2>1, <2>2, <2>3, PromiseWrites DEF QueueFollows
<1>9. ASSUME NEW m \in net, GrantClaim(m) PROVE [Promise!PromiseNext]_(Promise!promiseVars)
  <2>1. m.session \in Sessions  BY <1>9, RequestTypes DEF Inv, Base
  <2>2. Promise!PromiseClaim(m.session)
    BY <1>9 DEF GrantClaim, Claimable, Promise!PromiseClaim, EndsAt, osVars, strayVars
  <2>3. QED  BY <2>1, <2>2 DEF Promise!PromiseNext
<1>10. ASSUME NEW m \in net, HandleReport(m) PROVE [Promise!PromiseNext]_(Promise!promiseVars)
  <2>1. /\ m.session \in Sessions /\ m.body \in {"started", "output"}
        /\ UNCHANGED <<status, started, spawned, typed, written, cut>>
    BY <1>10, RequestTypes DEF HandleReport, Inv, Base
  <2>2. Ends' = Ends  BY <1>10, <2>1, EndsSame DEF HandleReport, Inv, Base
  <2>3. QED  BY <2>1, <2>2 DEF Promise!promiseVars, Ends
<1>11. ASSUME NEW m \in net, HandleEnd(m) PROVE [Promise!PromiseNext]_(Promise!promiseVars)
  <2>1. /\ m.session \in Sessions /\ m.body \in Over
        /\ UNCHANGED <<started, spawned, typed, written, cut>>
    BY <1>11, RequestTypes DEF HandleEnd, Inv, Base, osVars, strayVars
  <2>2. CASE status[m.session] \in Open
    BY <1>11, <2>1, <2>2, PromiseEnds DEF HandleEnd, ApplyEnd, Inv, Base
  <2>3. CASE status[m.session] \notin Open
    BY <1>11, <2>1, <2>3 DEF HandleEnd, ApplyEnd, Promise!promiseVars, EndsAt
  <2>4. QED  BY <2>2, <2>3
<1>12. ASSUME NEW A \in recons, HandleReconcile(A) PROVE [Promise!PromiseNext]_(Promise!promiseVars)
  BY <1>12, PromiseEnds DEF HandleReconcile, Unlisted, Over, Open, Inv, Base, osVars, strayVars
<1>13. CASE Reap
  BY <1>13, PromiseEnds DEF Reap, Lost, Unclaimed, Over, Open, Inv, Base, osVars, strayVars
<1>14. ASSUME NEW s \in Sessions,
             Drained(s) \/ DrainOutput(s) \/ StrayEnds(s)
      PROVE  [Promise!PromiseNext]_(Promise!promiseVars)
  BY <1>14 DEF Promise!promiseVars, EndsAt, Drained, DrainOutput, StrayEnds, hubVars,
     osVars
<1>15. ASSUME NEW s \in Sessions, StraySpawns(s) PROVE [Promise!PromiseNext]_(Promise!promiseVars)
  <2>1. /\ started[s] /\ spawned[s] = 0 /\ spawned \in [Sessions -> Nat]
        /\ UNCHANGED <<status, started, typed, events, written, cut>>
    BY <1>15 DEF StraySpawns, hubVars, Inv, Base, Claimed, TypeInv, TypeOK, OsTypes
  <2>2. CASE spawned' = spawned  BY <2>1, <2>2 DEF Promise!promiseVars, EndsAt
  <2>3. CASE spawned' = [spawned EXCEPT ![s] = spawned[s] + 1]
    <3>1. Promise!PromiseSpawn(s)  BY <2>1, <2>3 DEF Promise!PromiseSpawn, EndsAt
    <3>2. QED  BY <3>1 DEF Promise!PromiseNext
  <2>4. QED  BY <1>15, <2>2, <2>3 DEF StraySpawns
<1>16. ASSUME NEW s \in Sessions, StrayServes(s) PROVE [Promise!PromiseNext]_(Promise!promiseVars)
  <2>1. /\ UNCHANGED <<status, started, spawned, typed, events>>
        /\ left[s] \in Seq(Nat) /\ stray[s] = "looping"
    BY <1>16 DEF StrayServes, hubVars, Inv, Base, TypeInv, TypeOK, OsTypes
  <2>2. /\ spawned[s] = 1 /\ Len(written[s]) + Len(left[s]) <= typed[s]
        /\ \A i \in 1 .. Len(left[s]) : left[s][i] = Len(written[s]) + i
    BY <2>1 DEF Inv, Base, Claimed, Leftover
  <2>3. PICK n \in 0 .. Len(left[s]) : Write(s, left[s], n)  BY <1>16 DEF StrayServes
  <2>4. QED  BY <2>1, <2>2, <2>3, PromiseWrites
<1>17. CASE Swap
  BY <1>17 DEF Promise!promiseVars, EndsAt, Swap, hubVars
<1>18. QED  BY <1>1, <1>2, <1>3, <1>4, <1>5, <1>6, <1>7, <1>8, <1>9, <1>10, <1>11,
     <1>12, <1>13, <1>14, <1>15, <1>16, <1>17 DEF Next, Initiator, Handle, Dispatch,
     Loop, Turn, Thread, Stray

\* The initial state is an initial state of ShellPromise.
LEMMA PromiseStart == Init => Promise!PromiseInit
<1> SUFFICES ASSUME Init PROVE Promise!PromiseInit
  OBVIOUS
<1>1. \A s \in Sessions : EndsAt(s) = {}  BY DEF Init, EndsAt
<1>2. [s \in Sessions |-> Cardinality(EndsAt(s))] = [s \in Sessions |-> 0]
  BY <1>1, FS_EmptySet
<1>3. QED  BY <1>2 DEF Init, Promise!PromiseInit

-----------------------------------------------------------------------------
\* The invariant holds throughout.
LEMMA InvAlways == Spec => []Inv
<1>1. Inv /\ [Next]_vars => Inv'  BY InvStep, InvStutter
<1>2. QED  BY <1>1, InvInit, PTL DEF Spec

\* Records, logs, controls, threads and requests keep their types.
THEOREM TypeCorrect == Spec => []TypeOK
<1>1. Inv => TypeOK  BY DEF Inv, Base, TypeInv
<1>2. QED  BY <1>1, InvAlways, PTL

\* Whatever the faults, also those that leave threads of a swapped service
\* behind, a session's shell is spawned once and after a claim; its pty takes
\* what was typed in order, no input twice and none left out before another, but
\* of some perhaps only a part; and the session ends once, for good.
THEOREM PromiseKept == Spec => ImplementsPromise
<1>1. Inv /\ Inv' /\ [Next]_vars => [Promise!PromiseNext]_(Promise!promiseVars)
  <2>1. ASSUME Inv, Inv', Next PROVE [Promise!PromiseNext]_(Promise!promiseVars)
    BY <2>1, PromiseStep
  <2>2. UNCHANGED vars => UNCHANGED Promise!promiseVars
    BY DEF vars, hubVars, osVars, strayVars, Promise!promiseVars, EndsAt
  <2>3. QED  BY <2>1, <2>2
<1>2. QED  BY <1>1, InvAlways, PromiseStart, PTL DEF Spec, ImplementsPromise, Promise!PromiseSpec

\* A shell whose session's thread is gone has lost its terminal, but for the
\* loops of swapped services and the ptys that the code leaves open.
THEOREM HungUpAlways == Spec => []ShellHungUp
<1>1. Init => HungUp  BY DEF Init, HungUp
<1>2. Inv /\ HungUp /\ [Next]_vars => HungUp'
  <2>1. HungUp /\ UNCHANGED vars => HungUp'  BY HungUpFrame DEF vars, osVars, strayVars, workVars
  <2>2. QED  BY <2>1, HungUpStep DEF Inv
<1>3. HungUp => ShellHungUp  BY DEF HungUp, ShellHungUp
<1>4. QED  BY <1>1, <1>2, <1>3, InvAlways, PTL DEF Spec

\* The hub resolves no session that the client's ClientService serves, unless
\* heartbeats of a live client fail to arrive.  (Threads of a service that was
\* swapped are not its own, and their sessions are resolved.)
THEOREM ResolvedOver == Spec => []ResolvedIsOver
<1>1. Init => Spared  BY DEF Init, Spared, Live, Looping, Over
<1>2. Inv /\ Spared /\ [Next]_vars => Spared'
  <2>1. Spared /\ UNCHANGED vars => Spared'  BY SparedFrame DEF vars, hubVars, connVars, workVars
  <2>2. QED  BY <2>1, SparedStep DEF Inv
<1>3. Spared => ResolvedIsOver  BY DEF Spared, ResolvedIsOver, Live
<1>4. QED  BY <1>1, <1>2, <1>3, InvAlways, PTL DEF Spec

\* A connected client holds every session that the hub calls running, unless
\* the answer to a claim or a reconcile is lost.
THEOREM RunningHeld == Spec => []RunningIsHeld
<1>1. Init => Held  BY DEF Init, Held
<1>2. Inv /\ Held /\ [Next]_vars => Held'
  <2>1. Held /\ UNCHANGED vars => Held'
    BY HeldFrame DEF vars, hubVars, connVars, ctlVars, workVars, netVars
  <2>2. QED  BY <2>1, HeldStep DEF Inv
<1>3. Held => RunningIsHeld  BY DEF Held, RunningIsHeld
<1>4. QED  BY <1>1, <1>2, <1>3, InvAlways, PTL DEF Spec
=============================================================================
