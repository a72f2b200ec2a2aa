------------------------------ MODULE FilesProofs ------------------------------
(***************************************************************************)
(* Proofs about Files, for every set of transfers, paths and faults.       *)
(***************************************************************************)
EXTENDS Files, TLAPS

-----------------------------------------------------------------------------
(* The invariant.  That a worker waits for one request only - which TypeOK *)
(* needs - rests on every transfer being dispatched once by a process: it  *)
(* is in the log once, and who has a worker lies behind lastId.            *)

OnceInLog ==
    /\ \A i, j \in 1 .. Len(control) : control[i] = control[j] => i = j
    /\ \A i \in 1 .. Len(control) : status[control[i]] # "none"

Dispatched ==
    \A t \in Transfers : worker[t] # "none" => \E i \in 1 .. lastId : control[i] = t

\* What a worker waits for is known from its state.
Awaited ==
    \A m \in net : m.waiting =>
        m = IF worker[m.transfer] = "starting"
            THEN Started(m.transfer) ELSE Result(m.transfer, outcome[m.transfer])

WritersPush == \A t \in Transfers : worker[t] = "writing" => t \in Pushes

Inv == TypeOK /\ OnceInLog /\ Dispatched /\ Awaited /\ WritersPush

\* The initial state satisfies the invariant.
LEMMA InvInit == Init => Inv
<1> SUFFICES ASSUME Init PROVE Inv
  OBVIOUS
<1>1. TypeOK
  <2>1. control \in Seq(Transfers) /\ lastId \in 0 .. Len(control)  BY DEF Init
  <2>2. disk \in [Paths -> Transfers \cup {Nothing, Torn}]  BY DEF Init
  <2>3. net = {} /\ faults \in Nat /\ landed \subseteq Pushes  BY DEF Init
  <2>4. QED  BY <2>1, <2>2, <2>3 DEF Init, TypeOK, Open, Terminal
<1>2. OnceInLog /\ Dispatched /\ Awaited /\ WritersPush
  BY DEF Init, OnceInLog, Dispatched, Awaited, WritersPush
<1>3. QED  BY <1>1, <1>2 DEF Inv

\* A new transfer is put at the end of the log.
LEMMA InvCreate == ASSUME Inv, NEW t \in Transfers, Create(t) PROVE Inv'
<1> USE DEF Create, Inv, clientVars, workVars
<1>1. /\ control' \in Seq(Transfers) /\ Len(control') = Len(control) + 1
      /\ \A i \in 1 .. Len(control) : control'[i] = control[i]
      /\ control'[Len(control) + 1] = t
  BY DEF TypeOK
<1>2. TypeOK'  BY <1>1 DEF TypeOK, Open, Terminal
<1>3. OnceInLog'
  <2>1. \A i \in 1 .. Len(control) : control[i] # t  BY DEF OnceInLog
  <2>2. QED  BY <1>1, <2>1 DEF OnceInLog, TypeOK
<1>4. Dispatched'  BY <1>1 DEF Dispatched, TypeOK
<1>5. Awaited' /\ WritersPush'  BY DEF Awaited, WritersPush, Started, Result
<1>6. QED  BY <1>2, <1>3, <1>4, <1>5

\* The next transfer of the log gets its worker.
LEMMA InvDispatch == ASSUME Inv, Dispatch PROVE Inv'
<1> DEFINE t == control[lastId + 1]
<1> USE DEF Dispatch, Inv, hubVars
<1>1. lastId + 1 \in 1 .. Len(control) /\ t \in Transfers  BY DEF TypeOK
<1>2. worker[t] = "none"
  <2>1. SUFFICES ASSUME NEW i \in 1 .. lastId, control[i] = t PROVE FALSE
    BY <1>1 DEF Dispatched, TypeOK
  <2>2. i \in 1 .. Len(control) /\ i # lastId + 1  BY <1>1, <2>1 DEF TypeOK
  <2>3. QED  BY <1>1, <2>1, <2>2 DEF OnceInLog
<1>3. \A m \in net : m.waiting => m.transfer # t
  BY <1>2 DEF TypeOK
<1>4. /\ worker' = [worker EXCEPT ![t] = "starting"]
      /\ net' = net \cup {Started(t)} /\ lastId' = lastId + 1
  OBVIOUS
<1>5. Started(t) \in Posts  BY <1>1 DEF Started, Posts
<1> HIDE DEF t
<1>6. TypeOK'
  <2>1. worker' \in [Transfers -> {"none", "starting", "working", "writing", "reporting", "gone"}]
    BY <1>1, <1>4 DEF TypeOK
  <2>2. net' \subseteq Posts  BY <1>4, <1>5 DEF TypeOK
  <2>3. \A m \in net' : m.waiting =>
            worker'[m.transfer] = IF m.type = "started" THEN "starting" ELSE "reporting"
    BY <1>1, <1>3, <1>4 DEF TypeOK, Started, Posts
  <2>4. lastId' \in 0 .. Len(control')  BY <1>1, <1>4 DEF TypeOK
  <2>5. QED  BY <2>1, <2>2, <2>3, <2>4 DEF TypeOK
<1>7. OnceInLog' /\ WritersPush'  BY <1>4 DEF OnceInLog, WritersPush, TypeOK
<1>8. Dispatched'  BY <1>1, <1>4 DEF Dispatched, TypeOK, t
<1>9. Awaited'  BY <1>1, <1>3, <1>4 DEF Awaited, Started, Result, TypeOK, Posts
<1>10. QED  BY <1>6, <1>7, <1>8, <1>9

\* A worker that is at work waits for nothing.
LEMMA Unawaited ==
  ASSUME Inv, NEW t \in Transfers, worker[t] \notin {"starting", "reporting"}
  PROVE  \A m \in net : m.waiting => m.transfer # t
  BY DEF Inv, TypeOK

\* Turning to the report.
LEMMA InvReport ==
  ASSUME Inv, NEW t \in Transfers, NEW st \in Terminal,
         worker[t] \in {"working", "writing"}, Report(t, st),
         UNCHANGED <<hubVars, clientVars, faults>>,
         disk' \in [Paths -> Transfers \cup {Nothing, Torn}], landed' \subseteq Pushes,
         strays' = strays
  PROVE  Inv'
<1> USE DEF Inv, Report, hubVars, clientVars
<1>1. \A m \in net : m.waiting => m.transfer # t  BY Unawaited
<1>2. Result(t, st) \in Posts  BY DEF Result, Posts
<1>3. TypeOK'
  <2>1. worker' \in [Transfers -> {"none", "starting", "working", "writing", "reporting", "gone"}]
    BY DEF TypeOK
  <2>2. net' \subseteq Posts  BY <1>2 DEF TypeOK
  <2>3. \A m \in net' : m.waiting =>
            worker'[m.transfer] = IF m.type = "started" THEN "starting" ELSE "reporting"
    BY <1>1 DEF TypeOK, Result, Posts
  <2>4. outcome' \in [Transfers -> {"none"} \cup Terminal]  BY DEF TypeOK
  <2>5. QED  BY <2>1, <2>2, <2>3, <2>4 DEF TypeOK
<1>4. OnceInLog' /\ Dispatched' /\ WritersPush'
  BY DEF OnceInLog, Dispatched, WritersPush, TypeOK
<1>5. Awaited'  BY <1>1 DEF Awaited, Started, Result, TypeOK, Posts
<1>6. QED  BY <1>3, <1>4, <1>5

\* The steps of a worker.
LEMMA InvWork == ASSUME Inv, NEW t \in Transfers, Work(t) \/ FailWork(t) PROVE Inv'
<1>p. Path[t] \in Paths  BY TransferAssumption
<1>1. CASE BeginWrite(t)
  <2> USE <1>1 DEF BeginWrite, Inv, hubVars, clientVars
  <2>1. \A m \in net : m.waiting => m.transfer # t  BY Unawaited
  <2>2. TypeOK'  BY <1>p, <2>1 DEF TypeOK
  <2>3. OnceInLog' /\ Dispatched' /\ WritersPush'
    BY DEF OnceInLog, Dispatched, WritersPush, TypeOK
  <2>4. Awaited'  BY <2>1 DEF Awaited, Started, Result, TypeOK
  <2>5. QED  BY <2>2, <2>3, <2>4
<1>2. CASE EndWrite(t)
  <2>1. disk' \in [Paths -> Transfers \cup {Nothing, Torn}] /\ landed' \subseteq Pushes
    BY <1>2, <1>p DEF EndWrite, Written, Writing, Inv, TypeOK, WritersPush
  <2>2. QED  BY <1>2, <2>1, InvReport DEF EndWrite, Writing, Terminal
<1>3. CASE Read(t)
  BY <1>3, InvReport DEF Read, Terminal, Inv, TypeOK
<1>4. CASE FailWork(t)
  BY <1>4, InvReport DEF FailWork, Terminal, Inv, TypeOK
<1>5. QED  BY <1>1, <1>2, <1>3, <1>4 DEF Work

\* What a request does to the records keeps them well-typed and in the log.
LEMMA ApplyTypes ==
  ASSUME TypeOK, NEW m \in net, Apply(m)
  PROVE  /\ status' \in [Transfers -> {"none"} \cup Open \cup Terminal]
         /\ results' \in [Transfers -> Nat]
         /\ \A t \in Transfers : status[t] # "none" => status'[t] # "none"
<1>1. m \in Posts  BY DEF TypeOK
<1>2. CASE m.type = "started"
  <2>1. m.transfer \in Transfers  BY <1>1 DEF Posts
  <2>2. /\ status' = [status EXCEPT ![m.transfer] = IF @ = "queued" THEN "running" ELSE @]
        /\ results' = results
    BY <1>2 DEF Apply, ApplyStarted
  <2>3. QED  BY <2>1, <2>2 DEF TypeOK, Open
<1>3. CASE m.type = "result"
  <2>1. m.transfer \in Transfers /\ m.result \in Terminal /\ results[m.transfer] + 1 \in Nat
    BY <1>1, <1>3 DEF TypeOK, Posts
  <2>2. ApplyResult(m.transfer, m.result)  BY <1>3 DEF Apply
  <2>3. QED  BY <2>1, <2>2 DEF ApplyResult, TypeOK, Open, Terminal
<1>4. QED  BY <1>1, <1>2, <1>3 DEF Posts

\* A request leaves the network and its worker, if it waits, goes on.
LEMMA InvAnswer ==
  ASSUME Inv, NEW m \in net,
         status' \in [Transfers -> {"none"} \cup Open \cup Terminal],
         results' \in [Transfers -> Nat],
         \A t \in Transfers : status[t] # "none" => status'[t] # "none",
         NEW w \in {"working", "gone"},
         worker' = IF m.waiting THEN [worker EXCEPT ![m.transfer] = w] ELSE worker,
         net' \subseteq Posts, faults' \in Nat,
         \A n \in net' : n.waiting => n \in net /\ n # m,
         UNCHANGED <<overdue, control, clientVars, outcome, disk, landed, strays>>
  PROVE  Inv'
<1> USE DEF Inv, clientVars
<1>1. m \in Posts /\ m.transfer \in Transfers /\ m.waiting \in BOOLEAN  BY DEF TypeOK, Posts
<1>2. \A n \in net : n.waiting /\ m.waiting /\ n.transfer = m.transfer => n = m
  BY <1>1 DEF Awaited
<1>3. \A n \in net' : n.waiting => n \in net /\ worker'[n.transfer] = worker[n.transfer]
  BY <1>1, <1>2 DEF TypeOK, Posts
<1>4. TypeOK'
  <2>1. worker' \in [Transfers -> {"none", "starting", "working", "writing", "reporting", "gone"}]
    BY <1>1 DEF TypeOK
  <2>2. \A n \in net' : n.waiting =>
            worker'[n.transfer] = IF n.type = "started" THEN "starting" ELSE "reporting"
    BY <1>3 DEF TypeOK
  <2>3. QED  BY <2>1, <2>2 DEF TypeOK
<1>5. OnceInLog'  BY DEF OnceInLog, TypeOK
<1>6. m.waiting => worker[m.transfer] \in {"starting", "reporting"}  BY DEF TypeOK
<1>7. Dispatched' /\ WritersPush'
  BY <1>1, <1>6 DEF Dispatched, WritersPush, TypeOK
<1>8. Awaited'  BY <1>3 DEF Awaited, Started, Result
<1>9. QED  BY <1>4, <1>5, <1>7, <1>8

\* The steps of the network and the hub's handlers.
LEMMA InvNet ==
  ASSUME Inv, NEW m \in net, Handle(m) \/ HandleUnanswered(m) \/ Lose(m) \/ Vanish(m)
  PROVE  Inv'
<1>0. m \in Posts /\ m.transfer \in Transfers /\ m.waiting \in BOOLEAN /\ faults \in Nat
  BY DEF Inv, TypeOK, Posts
<1>t. TypeOK  BY DEF Inv
<1>w. worker = [worker EXCEPT ![m.transfer] = worker[m.transfer]]  BY <1>0, <1>t DEF TypeOK
<1>1. CASE Handle(m)
  <2>1. /\ status' \in [Transfers -> {"none"} \cup Open \cup Terminal]
        /\ results' \in [Transfers -> Nat]
        /\ \A t \in Transfers : status[t] # "none" => status'[t] # "none"
    BY <1>1, <1>t, ApplyTypes DEF Handle
  <2>2. net' \subseteq Posts /\ \A n \in net' : n.waiting => n \in net /\ n # m
    BY <1>1, <1>t DEF Handle, TypeOK
  <2> DEFINE w == IF m.type = "started" THEN "working" ELSE "gone"
  <2>3. worker' = IF m.waiting THEN [worker EXCEPT ![m.transfer] = w] ELSE worker
    BY <1>1, <1>0, <1>w DEF Handle, AfterAnswer
  <2>4. faults' \in Nat /\ UNCHANGED <<overdue, control, clientVars, outcome, disk, landed, strays>>
    BY <1>1, <1>0 DEF Handle
  <2>5. w \in {"working", "gone"}  OBVIOUS
  <2> HIDE DEF w
  <2>6. QED  BY <2>1, <2>2, <2>3, <2>4, <2>5, InvAnswer
<1>2. CASE HandleUnanswered(m)
  <2>1. /\ status' \in [Transfers -> {"none"} \cup Open \cup Terminal]
        /\ results' \in [Transfers -> Nat]
        /\ \A t \in Transfers : status[t] # "none" => status'[t] # "none"
    BY <1>2, <1>t, ApplyTypes DEF HandleUnanswered
  <2>2. net' \subseteq Posts /\ \A n \in net' : n.waiting => n \in net /\ n # m
    BY <1>2, <1>t DEF HandleUnanswered, TypeOK
  <2>3. faults' \in Nat /\ UNCHANGED <<overdue, control, clientVars, outcome, disk, landed, strays>>
    BY <1>2, <1>0 DEF HandleUnanswered, Commit
  <2>4. worker' = IF m.waiting THEN [worker EXCEPT ![m.transfer] = "gone"] ELSE worker
    BY <1>2 DEF HandleUnanswered
  <2>5. QED  BY <2>1, <2>2, <2>3, <2>4, InvAnswer
<1>3. CASE Lose(m)
  <2>1. /\ status' \in [Transfers -> {"none"} \cup Open \cup Terminal]
        /\ results' \in [Transfers -> Nat]
        /\ \A t \in Transfers : status[t] # "none" => status'[t] # "none"
    BY <1>3, <1>t DEF Lose, hubVars, TypeOK
  <2>2. [m EXCEPT !.waiting = FALSE] \in Posts /\ ~[m EXCEPT !.waiting = FALSE].waiting
    BY <1>0 DEF Posts
  <2>3. net' \subseteq Posts /\ \A n \in net' : n.waiting => n \in net /\ n # m
    BY <1>3, <1>t, <2>2 DEF Lose, TypeOK
  <2>4. faults' \in Nat /\ UNCHANGED <<overdue, control, clientVars, outcome, disk, landed, strays>>
    BY <1>3, <1>0 DEF Lose, Commit, hubVars
  <2>5. worker' = IF m.waiting THEN [worker EXCEPT ![m.transfer] = "gone"] ELSE worker
    BY <1>3 DEF Lose
  <2>6. QED  BY <2>1, <2>3, <2>4, <2>5, InvAnswer
<1>4. CASE Vanish(m)
  BY <1>4 DEF Vanish, Inv, hubVars, clientVars, workVars, TypeOK, OnceInLog, Dispatched,
     Awaited, WritersPush, Started, Result
<1>5. QED  BY <1>1, <1>2, <1>3, <1>4

\* The client process dies or comes back, its stream too.
LEMMA InvClient == ASSUME Inv, Connect \/ StreamBreaks \/ Crash \/ Swap \/ Restart PROVE Inv'
<1> USE DEF Inv
<1>1. CASE Connect \/ StreamBreaks \/ Restart
  <2> USE <1>1 DEF Connect, StreamBreaks, Restart, hubVars, workVars
  <2>1. faults' \in Nat  BY DEF TypeOK, Commit
  <2>2. TypeOK'  BY <2>1 DEF TypeOK
  <2>3. OnceInLog' /\ Dispatched' /\ WritersPush'
    BY DEF OnceInLog, Dispatched, WritersPush
  <2>4. Awaited'  BY DEF Awaited, Started, Result
  <2>5. QED  BY <2>2, <2>3, <2>4
<1>2. CASE Crash \/ Swap
  <2>0. /\ net' = {[m EXCEPT !.waiting = FALSE] : m \in net}
        /\ worker' = [t \in Transfers |-> "none"]
        /\ conn' \in BOOLEAN /\ ~conn' /\ up' \in BOOLEAN /\ lastId' = 0 /\ faults' \in Nat
        /\ UNCHANGED <<hubVars, outcome, disk, landed>>
    <3>1. CASE Crash
      <4>1. conn' \in BOOLEAN /\ ~conn' /\ up' \in BOOLEAN  BY <3>1 DEF Crash
      <4>2. faults' \in Nat  BY <3>1 DEF Crash, Commit, TypeOK
      <4>3. QED  BY <3>1, <4>1, <4>2 DEF Crash
    <3>2. CASE Swap  BY <3>2 DEF Swap, Commit, TypeOK
    <3>3. QED  BY <1>2, <3>1, <3>2
  <2> USE <2>0 DEF hubVars
  <2>1. \A n \in net' : ~n.waiting /\ n \in Posts
    <3> SUFFICES ASSUME NEW m \in net
                 PROVE  /\ ~[m EXCEPT !.waiting = FALSE].waiting
                        /\ [m EXCEPT !.waiting = FALSE] \in Posts
      OBVIOUS
    <3> QED  BY DEF TypeOK, Posts
  <2>2. TypeOK'
    <3>2. net' \subseteq Posts /\ \A n \in net' : ~n.waiting  BY <2>1
    <3>3. lastId' \in 0 .. Len(control')  BY DEF TypeOK
    <3>4. strays' \subseteq [transfer : Pushes, swap : Nat, writing : BOOLEAN]
      <4>1. \A t \in Pushes, b \in BOOLEAN : Stray(t, b) \in [transfer : Pushes, swap : Nat, writing : BOOLEAN]
        BY DEF Stray, TypeOK
      <4>2. CASE Crash  BY <4>2 DEF Crash
      <4>3. CASE Swap
        <5>1. strays' = strays \cup {Stray(t, Writing(t)) :
                                     t \in {u \in Pushes : worker[u] \in {"working", "writing"}}}
          BY <4>3 DEF Swap
        <5>2. \A t \in Transfers : Writing(t) \in BOOLEAN  BY DEF Writing
        <5>3. QED  BY <4>1, <5>1, <5>2, TransferAssumption DEF TypeOK
      <4>4. QED  BY <1>2, <4>2, <4>3
    <3>5. QED  BY <3>2, <3>3, <3>4 DEF TypeOK
  <2>3. OnceInLog' /\ Dispatched' /\ WritersPush'
    BY DEF OnceInLog, Dispatched, WritersPush
  <2>4. Awaited'  BY <2>1 DEF Awaited
  <2>5. QED  BY <2>2, <2>3, <2>4
<1>3. QED  BY <1>1, <1>2

\* The threads of a former service touch files only.
LEMMA InvStray == ASSUME Inv, NEW s \in strays, StrayWork(s) PROVE Inv'
<1> USE DEF Inv, hubVars, clientVars
<1>0. /\ s \in [transfer : Pushes, swap : Nat, writing : BOOLEAN]
      /\ s.transfer \in Transfers /\ Path[s.transfer] \in Paths
  BY TransferAssumption DEF TypeOK
<1>1. disk' \in [Paths -> Transfers \cup {Nothing, Torn}] /\ landed' \subseteq Pushes
  BY <1>0 DEF StrayWork, StrayBegins, StrayEnds, StrayFails, Written, TypeOK
<1>2. strays' \subseteq [transfer : Pushes, swap : Nat, writing : BOOLEAN]
  <2>1. [s EXCEPT !.writing = TRUE] \in [transfer : Pushes, swap : Nat, writing : BOOLEAN]  BY <1>0
  <2>2. strays' \subseteq strays \cup {[s EXCEPT !.writing = TRUE]}
    BY DEF StrayWork, StrayBegins, StrayEnds, StrayFails
  <2>3. QED  BY <2>1, <2>2 DEF TypeOK
<1>3. UNCHANGED <<hubVars, clientVars, worker, outcome, net, faults>>
  BY DEF StrayWork, StrayBegins, StrayEnds, StrayFails
<1>4. TypeOK'  BY <1>1, <1>2, <1>3 DEF TypeOK
<1>5. OnceInLog' /\ Dispatched' /\ Awaited' /\ WritersPush'
  BY <1>3 DEF OnceInLog, Dispatched, Awaited, WritersPush, Started, Result
<1>6. QED  BY <1>4, <1>5

\* Time passes and the reaper runs.
LEMMA InvReap == ASSUME Inv, Reap \/ \E t \in Transfers : BecomeOverdue(t) PROVE Inv'
<1> USE DEF Inv, Reap, BecomeOverdue, clientVars, workVars
<1>1. TypeOK'
  <2>1. CASE Reap
    <3>1. status' \in [Transfers -> {"none"} \cup Open \cup Terminal]
      BY <2>1 DEF TypeOK, Open, Terminal
    <3>2. results' \in [Transfers -> Nat]  BY <2>1 DEF TypeOK
    <3>3. QED  BY <2>1, <3>1, <3>2 DEF TypeOK
  <2>2. CASE \E t \in Transfers : BecomeOverdue(t)
    BY <2>2 DEF TypeOK
  <2>3. QED  BY <2>1, <2>2
<1>2. OnceInLog'
  <2>1. control' = control /\ \A t \in Transfers : status[t] # "none" => status'[t] # "none"
    BY DEF TypeOK
  <2>2. \A i \in 1 .. Len(control) : control[i] \in Transfers  BY DEF TypeOK
  <2>3. QED  BY <2>1, <2>2 DEF OnceInLog
<1>3. Dispatched' /\ WritersPush' /\ Awaited'
  BY DEF Dispatched, WritersPush, Awaited, Started, Result
<1>4. QED  BY <1>1, <1>2, <1>3

\* Every step keeps the invariant.
LEMMA InvNext == Inv /\ [Next]_vars => Inv'
<1> SUFFICES ASSUME Inv, [Next]_vars PROVE Inv'
  OBVIOUS
<1>1. CASE UNCHANGED vars
  BY <1>1 DEF vars, Inv, hubVars, clientVars, workVars, TypeOK, OnceInLog, Dispatched,
     Awaited, WritersPush, Started, Result
<1>2. CASE Next
  BY <1>2, InvCreate, InvDispatch, InvWork, InvNet, InvClient, InvStray, InvReap DEF Next
<1>3. QED  BY <1>1, <1>2

\* The invariant holds in every reachable state.
LEMMA InvAlways == Spec => []Inv
  BY InvInit, InvNext, PTL DEF Spec

\* Every reachable state is well-typed; no worker waits for two requests.
THEOREM TypeCorrect == Spec => []TypeOK
<1>1. Inv => TypeOK  BY DEF Inv
<1>2. QED  BY <1>1, InvAlways, PTL
-----------------------------------------------------------------------------
(* The record of a transfer.  RecordStep is all that one step can make of  *)
(* the statuses and results.                                               *)

RecordStep ==
    \/ UNCHANGED <<status, results>>
    \/ \E t \in Transfers :
        /\ status[t] = "none"
        /\ status' = [status EXCEPT ![t] = "queued"]
        /\ UNCHANGED results
    \/ \E t \in Transfers :
        /\ status[t] = "queued"
        /\ status' = [status EXCEPT ![t] = "running"]
        /\ UNCHANGED results
    \/ \E S \in SUBSET Transfers, st \in Terminal :
        /\ \A t \in S : status[t] \in Open
        /\ status' = [t \in Transfers |-> IF t \in S THEN st ELSE status[t]]
        /\ results' = [t \in Transfers |-> IF t \in S THEN results[t] + 1 ELSE results[t]]

\* A request opens, resolves or leaves its record alone.
LEMMA ApplyRecord == ASSUME TypeOK, NEW m \in net, Apply(m) PROVE RecordStep
<1>1. m \in Posts /\ m.transfer \in Transfers  BY DEF TypeOK, Posts
<1>2. CASE m.type = "started"
  <2>1. ApplyStarted(m.transfer)  BY <1>2 DEF Apply
  <2>2. CASE status[m.transfer] = "queued"
    BY <1>1, <2>1, <2>2 DEF ApplyStarted, RecordStep
  <2>3. CASE status[m.transfer] # "queued"
    BY <1>1, <2>1, <2>3 DEF ApplyStarted, RecordStep, TypeOK
  <2>4. QED  BY <2>2, <2>3
<1>3. CASE m.type = "result"
  <2>1. ApplyResult(m.transfer, m.result)  BY <1>3 DEF Apply
  <2>2. CASE status[m.transfer] \in Open
    <3>1. m.result \in Terminal  BY <1>1, <1>3 DEF Posts
    <3>2. status' = [t \in Transfers |-> IF t \in {m.transfer} THEN m.result ELSE status[t]]
      BY <2>1, <2>2 DEF ApplyResult, TypeOK
    <3>3. results' = [t \in Transfers |->
                        IF t \in {m.transfer} THEN results[t] + 1 ELSE results[t]]
      BY <2>1, <2>2 DEF ApplyResult, TypeOK
    <3>4. {m.transfer} \in SUBSET Transfers  BY <1>1
    <3>5. QED  BY <2>2, <3>1, <3>2, <3>3, <3>4 DEF RecordStep
  <2>3. CASE status[m.transfer] \notin Open
    BY <2>1, <2>3 DEF ApplyResult, RecordStep
  <2>4. QED  BY <2>2, <2>3
<1>4. QED  BY <1>1, <1>2, <1>3 DEF Posts

\* Every step is a RecordStep.
LEMMA RecordSteps == ASSUME TypeOK, [Next]_vars PROVE RecordStep
<1>1. CASE UNCHANGED vars  BY <1>1 DEF vars, hubVars, RecordStep
<1>2. ASSUME NEW t \in Transfers, Create(t) PROVE RecordStep
  BY <1>2 DEF Create, RecordStep
<1>3. CASE Reap
  <2>1. Unclaimed \in SUBSET Transfers /\ \A t \in Unclaimed : status[t] \in Open
    BY DEF Unclaimed, Open
  <2>2. "failed" \in Terminal  BY DEF Terminal
  <2>3. QED  BY <1>3, <2>1, <2>2 DEF Reap, RecordStep
<1>4. ASSUME NEW m \in net, Handle(m) \/ HandleUnanswered(m) PROVE RecordStep
  BY <1>4, ApplyRecord DEF Handle, HandleUnanswered
<1>5. ASSUME NEW m \in net, Lose(m) \/ Vanish(m) PROVE RecordStep
  BY <1>5 DEF Lose, Vanish, hubVars, RecordStep
<1>6. CASE Connect \/ StreamBreaks \/ Dispatch \/ Crash \/ Swap \/ Restart
  BY <1>6 DEF Connect, StreamBreaks, Dispatch, Crash, Swap, Restart, hubVars, RecordStep
<1>7. ASSUME NEW t \in Transfers, BecomeOverdue(t) \/ Work(t) \/ FailWork(t) PROVE RecordStep
  BY <1>7 DEF BecomeOverdue, Work, BeginWrite, EndWrite, Read, FailWork, hubVars, RecordStep
<1>8. ASSUME NEW s \in strays, StrayWork(s) PROVE RecordStep
  BY <1>8 DEF StrayWork, StrayBegins, StrayEnds, StrayFails, hubVars, RecordStep
<1>9. QED  BY <1>1, <1>2, <1>3, <1>4, <1>5, <1>6, <1>7, <1>8 DEF Next

\* What a step can make of one transfer.
LEMMA OneRecord ==
  ASSUME TypeOK, RecordStep, NEW t \in Transfers
  PROVE  \/ status'[t] = status[t] /\ results'[t] = results[t]
         \/ status[t] = "none" /\ status'[t] = "queued" /\ results'[t] = results[t]
         \/ status[t] = "queued" /\ status'[t] = "running" /\ results'[t] = results[t]
         \/ status[t] \in Open /\ status'[t] \in Terminal /\ results'[t] = results[t] + 1
<1>1. CASE UNCHANGED <<status, results>>  BY <1>1
<1>2. ASSUME NEW u \in Transfers, NEW st,
             u = t => \/ status[u] = "none" /\ st = "queued"
                      \/ status[u] = "queued" /\ st = "running",
             status' = [status EXCEPT ![u] = st], UNCHANGED results
      PROVE  \/ status'[t] = status[t] /\ results'[t] = results[t]
             \/ status[t] = "none" /\ status'[t] = "queued" /\ results'[t] = results[t]
             \/ status[t] = "queued" /\ status'[t] = "running" /\ results'[t] = results[t]
  BY <1>2 DEF TypeOK
<1>3. ASSUME NEW S \in SUBSET Transfers, NEW st \in Terminal, \A u \in S : status[u] \in Open,
             status' = [u \in Transfers |-> IF u \in S THEN st ELSE status[u]],
             results' = [u \in Transfers |-> IF u \in S THEN results[u] + 1 ELSE results[u]]
      PROVE  \/ status'[t] = status[t] /\ results'[t] = results[t]
             \/ status[t] \in Open /\ status'[t] \in Terminal /\ results'[t] = results[t] + 1
  BY <1>3
<1>4. QED  BY <1>1, <1>2, <1>3 DEF RecordStep

\* A resolved transfer keeps its status: only open records are resolved, only
\* queued ones are started.
THEOREM ResolvedFinal == Spec => ResolvedIsFinal
<1>1. ASSUME TypeOK, [Next]_vars
      PROVE  \A t \in Transfers : status[t] \in Terminal => status'[t] = status[t]
  <2>1. RecordStep  BY <1>1, RecordSteps
  <2>2. QED  BY <1>1, <2>1, OneRecord DEF Terminal, Open
<1>2. TypeOK /\ [Next]_vars => [\A t \in Transfers : status[t] \in Terminal => status'[t] = status[t]]_vars
  BY <1>1
<1>3. QED  BY <1>2, TypeCorrect, PTL DEF Spec, ResolvedIsFinal

\* A resolved transfer has one result, an unresolved one none.
THEOREM OneResult == Spec => []ResultOnce
<1>1. Init => ResultOnce  BY DEF Init, ResultOnce, Terminal
<1>2. ASSUME TypeOK, ResultOnce, [Next]_vars PROVE ResultOnce'
  <2>1. RecordStep  BY <1>2, RecordSteps
  <2>2. SUFFICES ASSUME NEW t \in Transfers
                 PROVE  results'[t] = IF status'[t] \in Terminal THEN 1 ELSE 0
    BY DEF ResultOnce
  <2>3. results[t] = IF status[t] \in Terminal THEN 1 ELSE 0  BY <1>2 DEF ResultOnce
  <2>4. QED  BY <1>2, <2>1, <2>3, OneRecord DEF Terminal, Open
<1>3. TypeOK /\ ResultOnce /\ [Next]_vars => ResultOnce'  BY <1>2
<1>4. QED  BY <1>1, <1>3, TypeCorrect, PTL DEF Spec

-----------------------------------------------------------------------------
(* Success.  A report of success is only on its way when the file landed.  *)

SuccessOnItsWay ==
    \A m \in net : m.type = "result" /\ m.result = "succeeded" /\ m.transfer \in Pushes
        => m.transfer \in landed

Landing == SuccessMeansLanded /\ SuccessOnItsWay

\* What a request makes of the records is what it says.
LEMMA ApplyLanding == ASSUME TypeOK, Landing, NEW m \in net, Apply(m)
                      PROVE  \A t \in Pushes : status'[t] = "succeeded" => t \in landed
<1>1. m \in Posts /\ m.transfer \in Transfers /\ Pushes \subseteq Transfers
  BY TransferAssumption DEF TypeOK, Posts
<1>2. CASE m.type = "started"
  BY <1>1, <1>2 DEF Apply, ApplyStarted, Landing, SuccessMeansLanded, TypeOK
<1>3. CASE m.type = "result"
  BY <1>1, <1>3 DEF Apply, ApplyResult, Landing, SuccessMeansLanded, SuccessOnItsWay, TypeOK
<1>4. QED  BY <1>1, <1>2, <1>3 DEF Posts

\* Every step keeps both.
LEMMA LandingNext == ASSUME Inv, Landing, [Next]_vars PROVE Landing'
<1> USE DEF Landing
<1>t. TypeOK /\ Pushes \subseteq Transfers  BY TransferAssumption DEF Inv
<1>1. CASE UNCHANGED vars
  BY <1>1 DEF vars, hubVars, workVars, SuccessMeansLanded, SuccessOnItsWay
<1>2. ASSUME NEW t \in Transfers, Create(t) PROVE Landing'
  BY <1>2, <1>t DEF Create, workVars, SuccessMeansLanded, SuccessOnItsWay, TypeOK
<1>3. CASE Reap
  BY <1>3, <1>t DEF Reap, workVars, SuccessMeansLanded, SuccessOnItsWay
<1>4. ASSUME NEW m \in net, Handle(m) \/ HandleUnanswered(m) PROVE Landing'
  <2>1. net' = net \ {m} /\ landed' = landed /\ Apply(m)
    BY <1>4 DEF Handle, HandleUnanswered
  <2>2. SuccessMeansLanded'  BY <1>t, <2>1, ApplyLanding DEF SuccessMeansLanded
  <2>3. SuccessOnItsWay'  BY <2>1 DEF SuccessOnItsWay
  <2>4. QED  BY <2>2, <2>3
<1>5. ASSUME NEW m \in net, Lose(m) \/ Vanish(m) PROVE Landing'
  <2>1. LET n == [m EXCEPT !.waiting = FALSE]
        IN  n.type = m.type /\ n.result = m.result /\ n.transfer = m.transfer
    BY <1>t DEF TypeOK, Posts
  <2>2. /\ status' = status /\ landed' = landed
        /\ net' \subseteq net \cup {[m EXCEPT !.waiting = FALSE]}
    BY <1>5 DEF Lose, Vanish, hubVars, workVars
  <2>3. SuccessMeansLanded'  BY <2>2 DEF SuccessMeansLanded
  <2>4. SuccessOnItsWay'  BY <2>1, <2>2 DEF SuccessOnItsWay
  <2>5. QED  BY <2>3, <2>4
<1>6. CASE Connect \/ StreamBreaks \/ Restart
  BY <1>6 DEF Connect, StreamBreaks, Restart, hubVars, workVars, SuccessMeansLanded,
     SuccessOnItsWay
<1>7. CASE Dispatch
  BY <1>7 DEF Dispatch, Started, hubVars, SuccessMeansLanded, SuccessOnItsWay
<1>8. CASE Crash \/ Swap
  <2>1. status' = status /\ landed' = landed  BY <1>8 DEF Crash, Swap, hubVars
  <2>2. \A n \in net' : \E m \in net : n.type = m.type /\ n.result = m.result /\ n.transfer = m.transfer
    <3>0. net' = {[m EXCEPT !.waiting = FALSE] : m \in net}  BY <1>8 DEF Crash, Swap
    <3>1. SUFFICES ASSUME NEW m \in net
                   PROVE  LET n == [m EXCEPT !.waiting = FALSE]
                          IN  n.type = m.type /\ n.result = m.result /\ n.transfer = m.transfer
      BY <3>0
    <3>2. QED  BY <1>t DEF TypeOK, Posts
  <2>3. SuccessOnItsWay'  BY <2>1, <2>2 DEF SuccessOnItsWay
  <2>4. SuccessMeansLanded'  BY <2>1 DEF SuccessMeansLanded
  <2>5. QED  BY <2>3, <2>4
<1>9. ASSUME NEW t \in Transfers, BecomeOverdue(t) \/ Work(t) \/ FailWork(t) PROVE Landing'
  <2>1. status' = status /\ landed \subseteq landed'
    BY <1>9 DEF BecomeOverdue, Work, BeginWrite, EndWrite, Written, Read, FailWork, hubVars, workVars
  <2>2. \A m \in net' : m \in net \/ m = Result(t, "failed")
                        \/ (m = Result(t, "succeeded") /\ (t \in landed' \/ t \notin Pushes))
    BY <1>9 DEF BecomeOverdue, Work, BeginWrite, EndWrite, Written, Read, FailWork, Report, hubVars
  <2>3. SuccessMeansLanded'  BY <2>1 DEF SuccessMeansLanded
  <2>4. SuccessOnItsWay'  BY <2>1, <2>2 DEF SuccessOnItsWay, Result
  <2>5. QED  BY <2>3, <2>4
<1>10. ASSUME NEW s \in strays, StrayWork(s) PROVE Landing'
  <2>1. status' = status /\ landed \subseteq landed' /\ net' = net
    BY <1>10 DEF StrayWork, StrayBegins, StrayEnds, StrayFails, Written, hubVars
  <2>2. QED  BY <2>1 DEF SuccessMeansLanded, SuccessOnItsWay
<1>11. QED  BY <1>1, <1>2, <1>3, <1>4, <1>5, <1>6, <1>7, <1>8, <1>9, <1>10 DEF Next

\* A push that is reported as succeeded was written to its end, whatever other
\* transfers of the path, crashes and swaps came between.
THEOREM SuccessLanded == Spec => []SuccessMeansLanded
<1>1. Init => Landing
  BY TransferAssumption DEF Init, Landing, SuccessMeansLanded, SuccessOnItsWay
<1>2. Inv /\ Landing /\ [Next]_vars => Landing'  BY LandingNext
<1>3. Landing => SuccessMeansLanded  BY DEF Landing
<1>4. QED  BY <1>1, <1>2, <1>3, InvAlways, PTL DEF Spec

-----------------------------------------------------------------------------
(* Once per service: Dispatch is the only step that starts a worker, and   *)
(* the transfer it takes from the log has none of the present service.     *)

\* A step starts a worker only where there is none.
LEMMA StartsFresh ==
  ASSUME Inv, [Next]_vars, NEW t \in Transfers, worker[t] # "none", worker[t] # "starting"
  PROVE  worker'[t] # "starting"
<1>1. CASE UNCHANGED vars  BY <1>1 DEF vars, workVars
<1>2. CASE Dispatch
  <2>1. lastId + 1 \in 1 .. Len(control)  BY <1>2 DEF Dispatch, Inv, TypeOK
  <2>2. t # control[lastId + 1]
    <3>1. PICK i \in 1 .. lastId : control[i] = t  BY DEF Inv, Dispatched
    <3>2. i \in 1 .. Len(control) /\ i # lastId + 1  BY <2>1, <3>1 DEF Inv, TypeOK
    <3>3. QED  BY <2>1, <3>1, <3>2 DEF Inv, OnceInLog
  <2>3. QED  BY <1>2, <2>2 DEF Dispatch, Inv, TypeOK
<1>3. ASSUME NEW m \in net, Handle(m) \/ HandleUnanswered(m) \/ Lose(m) \/ Vanish(m)
      PROVE  worker'[t] # "starting"
  BY <1>3 DEF Handle, AfterAnswer, HandleUnanswered, Lose, Vanish, workVars, Inv, TypeOK
<1>4. CASE Reap \/ Connect \/ StreamBreaks \/ Crash \/ Swap \/ Restart
  BY <1>4 DEF Reap, Connect, StreamBreaks, Crash, Swap, Restart, workVars
<1>5. ASSUME NEW u \in Transfers, Create(u) \/ BecomeOverdue(u) \/ Work(u) \/ FailWork(u)
      PROVE  worker'[t] # "starting"
  BY <1>5 DEF Create, BecomeOverdue, Work, BeginWrite, EndWrite, Read, FailWork, Report,
     workVars, Inv, TypeOK
<1>6. ASSUME NEW s \in strays, StrayWork(s) PROVE worker'[t] # "starting"
  BY <1>6 DEF StrayWork, StrayBegins, StrayEnds, StrayFails
<1>7. QED  BY <1>1, <1>2, <1>3, <1>4, <1>5, <1>6 DEF Next

\* However often its stream breaks, a ClientService does a transfer once.
THEOREM OnceForService == Spec => OncePerService
<1>1. Inv /\ [Next]_vars =>
        [\A t \in Transfers : worker[t] \notin {"none", "starting"} => worker'[t] # "starting"]_vars
  BY StartsFresh
<1>2. QED  BY <1>1, InvAlways, PTL DEF Spec, OncePerService
-----------------------------------------------------------------------------
(* The refinement.  Files implements TransferPromise: records and results  *)
(* change as RecordStep says, and a file lands only from a worker whose    *)
(* announcement the hub has handled.                                       *)

Announced ==
    /\ \A t \in Transfers :
        worker[t] \in {"working", "writing", "reporting"} => status[t] \notin {"none", "queued"}
    /\ \A s \in strays : status[s.transfer] \notin {"none", "queued"}

\* A worker is at work only after the hub took its announcement, and a record
\* never waits again.
LEMMA AnnouncedNext == ASSUME Inv, Announced, [Next]_vars PROVE Announced'
<1>t. TypeOK  BY DEF Inv
<1>1. \A t \in Transfers : status[t] \notin {"none", "queued"} => status'[t] \notin {"none", "queued"}
  BY <1>t, RecordSteps, OneRecord DEF Open, Terminal
<1>s. \A s \in strays : s.transfer \in Transfers  BY <1>t, TransferAssumption DEF TypeOK
<1>2. CASE /\ \A t \in Transfers : worker'[t] \in {"working", "writing", "reporting"} =>
                                     worker[t] \in {"working", "writing", "reporting"}
           /\ \A s \in strays' : \E o \in strays : s.transfer = o.transfer
  BY <1>1, <1>2, <1>s DEF Announced
<1>3. ASSUME NEW m \in net, Handle(m) PROVE Announced'
  <2> DEFINE t == m.transfer
  <2>0. m \in Posts /\ t \in Transfers  BY <1>t DEF TypeOK, Posts
  <2>1. worker' = [worker EXCEPT ![t] = AfterAnswer(m)] /\ Apply(m)  BY <1>3 DEF Handle
  <2>2. CASE m.waiting /\ m.type = "started"
    <3>1. worker[t] = "starting"  BY <1>t, <2>2 DEF TypeOK
    <3>2. status[t] # "none"
      <4>1. PICK i \in 1 .. lastId : control[i] = t  BY <2>0, <3>1 DEF Inv, Dispatched
      <4>2. i \in 1 .. Len(control)  BY <1>t, <4>1 DEF TypeOK
      <4>3. QED  BY <4>1, <4>2 DEF Inv, OnceInLog
    <3>3. status'[t] \notin {"none", "queued"}
      BY <1>t, <2>0, <2>1, <2>2, <3>2 DEF Apply, ApplyStarted, TypeOK
    <3> HIDE DEF t
    <3>4. \A u \in Transfers : u # t => worker'[u] = worker[u]
      BY <1>t, <2>0, <2>1 DEF TypeOK
    <3>5. strays' = strays  BY <1>3 DEF Handle
    <3>6. QED  BY <1>1, <1>s, <3>3, <3>4, <3>5 DEF Announced
  <2>3. CASE ~(m.waiting /\ m.type = "started")
    <3>1. AfterAnswer(m) = worker[t] \/ AfterAnswer(m) = "gone"
      BY <2>0, <2>3 DEF AfterAnswer, Posts
    <3> HIDE DEF t
    <3>2. strays' = strays  BY <1>3 DEF Handle
    <3>3. QED  BY <1>t, <1>2, <2>0, <2>1, <3>1, <3>2 DEF TypeOK
  <2>4. QED  BY <2>2, <2>3
<1>4. ASSUME NEW m \in net, HandleUnanswered(m) \/ Lose(m) \/ Vanish(m) PROVE Announced'
  BY <1>t, <1>2, <1>4 DEF HandleUnanswered, Lose, Vanish, workVars, TypeOK
<1>5. ASSUME NEW t \in Transfers, Create(t) \/ BecomeOverdue(t) \/ Work(t) \/ FailWork(t) PROVE Announced'
  <2>1. strays' = strays
    BY <1>5 DEF Create, BecomeOverdue, Work, BeginWrite, EndWrite, Read, FailWork, workVars
  <2>2. \A u \in Transfers : worker'[u] \in {"working", "writing", "reporting"} =>
                             worker[u] \in {"working", "writing", "reporting"}
    BY <1>t, <1>5 DEF Create, BecomeOverdue, Work, BeginWrite, EndWrite, Writing, Read, FailWork, Report,
       workVars, TypeOK
  <2>3. QED  BY <1>2, <2>1, <2>2
<1>6. CASE Dispatch
  BY <1>t, <1>2, <1>6 DEF Dispatch, TypeOK
<1>7. CASE Reap \/ Connect \/ StreamBreaks \/ Crash \/ Restart \/ UNCHANGED vars
  BY <1>2, <1>7 DEF Reap, Connect, StreamBreaks, Crash, Restart, vars, workVars
<1>8. CASE Swap
  <2>1. /\ worker' = [t \in Transfers |-> "none"] /\ status' = status
        /\ strays' = strays \cup {Stray(t, Writing(t)) :
                                  t \in {u \in Pushes : worker[u] \in {"working", "writing"}}}
    BY <1>8 DEF Swap, hubVars
  <2>2. \A s \in strays' : status[s.transfer] \notin {"none", "queued"}
    BY <2>1, TransferAssumption DEF Announced, Stray
  <2>3. QED  BY <2>1, <2>2 DEF Announced
<1>9. ASSUME NEW s \in strays, StrayWork(s) PROVE Announced'
  <2>1. \A n \in strays' : \E o \in strays : n.transfer = o.transfer
    <3>1. s \in [transfer : Pushes, swap : Nat, writing : BOOLEAN]  BY <1>t DEF TypeOK
    <3>2. [s EXCEPT !.writing = TRUE].transfer = s.transfer  BY <3>1
    <3>3. QED  BY <1>9, <3>2 DEF StrayWork, StrayBegins, StrayEnds, StrayFails
  <2>2. worker' = worker  BY <1>9 DEF StrayWork, StrayBegins, StrayEnds, StrayFails
  <2>3. QED  BY <1>2, <2>1, <2>2
<1>10. QED  BY <1>3, <1>4, <1>5, <1>6, <1>7, <1>8, <1>9 DEF Next

\* Only the end of a write completes a push.
LEMMA LandedStep ==
  ASSUME Inv, Announced, [Next]_vars
  PROVE  \/ landed' = landed
         \/ \E t \in Pushes : /\ status[t] \notin {"none", "queued"}
                             /\ landed' = landed \cup {t} /\ UNCHANGED <<status, results>>
<1>1. ASSUME NEW t \in Transfers, EndWrite(t)
      PROVE  /\ t \in Pushes /\ status[t] \notin {"none", "queued"}
             /\ landed' = landed \cup {t} /\ UNCHANGED <<status, results>>
  BY <1>1 DEF EndWrite, Written, Writing, Inv, WritersPush, Announced, hubVars
<1>2. ASSUME NEW s \in strays, StrayEnds(s)
      PROVE  /\ s.transfer \in Pushes /\ status[s.transfer] \notin {"none", "queued"}
             /\ landed' = landed \cup {s.transfer} /\ UNCHANGED <<status, results>>
  BY <1>2 DEF StrayEnds, Written, Inv, TypeOK, Announced, hubVars
<1>3. ASSUME NEW s \in strays, StrayBegins(s) \/ StrayFails(s) PROVE landed' = landed
  BY <1>3 DEF StrayBegins, StrayFails
<1>4. ASSUME NEW t \in Transfers, Create(t) \/ BecomeOverdue(t) \/ BeginWrite(t) \/ Read(t) \/ FailWork(t)
      PROVE  landed' = landed
  BY <1>4 DEF Create, BecomeOverdue, BeginWrite, Read, FailWork, workVars
<1>5. ASSUME NEW m \in net, Handle(m) \/ HandleUnanswered(m) \/ Lose(m) \/ Vanish(m)
      PROVE  landed' = landed
  BY <1>5 DEF Handle, HandleUnanswered, Lose, Vanish, workVars
<1>6. CASE Reap \/ Connect \/ StreamBreaks \/ Dispatch \/ Crash \/ Swap \/ Restart \/ UNCHANGED vars
  BY <1>6 DEF Reap, Connect, StreamBreaks, Dispatch, Crash, Swap, Restart, vars, workVars
<1>7. QED  BY <1>1, <1>2, <1>3, <1>4, <1>5, <1>6 DEF Next, Work, StrayWork

\* A step that leaves the files alone makes of the records what the promise
\* allows: what is resolved as succeeded has landed before.
LEMMA RecordsPromise ==
  ASSUME Landing, Landing', RecordStep, landed' = landed
  PROVE  [Promise!PromiseNext]_<<status, results, landed>>
<1> USE DEF Promise!PromiseNext
<1>1. CASE UNCHANGED <<status, results>>  BY <1>1
<1>2. ASSUME NEW t \in Transfers, status[t] = "none", status' = [status EXCEPT ![t] = "queued"],
             UNCHANGED results
      PROVE  Promise!PromiseNext
  BY <1>2 DEF Promise!PromiseCreate
<1>3. ASSUME NEW t \in Transfers, status[t] = "queued", status' = [status EXCEPT ![t] = "running"],
             UNCHANGED results
      PROVE  Promise!PromiseNext
  BY <1>3 DEF Promise!PromiseStart
<1>4. ASSUME NEW S \in SUBSET Transfers, NEW st \in Terminal,
             \A t \in S : status[t] \in Open,
             status' = [t \in Transfers |-> IF t \in S THEN st ELSE status[t]],
             results' = [t \in Transfers |-> IF t \in S THEN results[t] + 1 ELSE results[t]]
      PROVE  Promise!PromiseNext
  <2>1. st = "succeeded" => S \cap Pushes \subseteq landed
    BY <1>4 DEF Landing, SuccessMeansLanded
  <2>2. Promise!PromiseResolve(S, st)
    BY <1>4, <2>1 DEF Promise!PromiseResolve, Promise!Open, Open
  <2>3. st \in Promise!Terminal  BY DEF Promise!Terminal, Terminal
  <2>4. QED  BY <2>2, <2>3
<1>5. QED  BY <1>1, <1>2, <1>3, <1>4 DEF RecordStep

\* Every step is one of the promise, or a stutter.
LEMMA PromiseStep ==
  ASSUME Inv, Announced, Landing, Landing', [Next]_vars
  PROVE  [Promise!PromiseNext]_Promise!promiseVars
<1>1. CASE landed' = landed
  <2>1. RecordStep  BY RecordSteps DEF Inv
  <2>2. QED  BY <1>1, <2>1, RecordsPromise DEF Promise!promiseVars
<1>2. ASSUME NEW t \in Pushes, status[t] \notin {"none", "queued"}, landed' = landed \cup {t},
             UNCHANGED <<status, results>>
      PROVE  Promise!PromiseNext
  <2>1. t \in Transfers  BY TransferAssumption
  <2>2. Promise!PromiseLand(t)  BY <1>2, <2>1 DEF Promise!PromiseLand
  <2>3. QED  BY <2>1, <2>2 DEF Promise!PromiseNext
<1>3. QED  BY <1>1, <1>2, LandedStep

\* Files implements TransferPromise, for every set of transfers and paths and
\* under every fault: one result for good, success only of what was written to
\* its end, and nothing written for a transfer that nobody announced - not by
\* the threads of a former service either.
THEOREM PromiseKept == Spec => ImplementsPromise
<1>1. Init => Promise!PromiseInit  BY DEF Init, Promise!PromiseInit
<1>2. Init => Announced /\ Landing
  BY TransferAssumption DEF Init, Announced, Landing, SuccessMeansLanded, SuccessOnItsWay
<1>3. Inv /\ Announced /\ Landing /\ [Next]_vars => Announced' /\ Landing'
  BY AnnouncedNext, LandingNext
<1>4. Inv /\ Announced /\ Landing /\ Landing' /\ [Next]_vars => [Promise!PromiseNext]_Promise!promiseVars
  BY PromiseStep
<1>5. QED
  BY <1>1, <1>2, <1>3, <1>4, InvAlways, PTL DEF Spec, ImplementsPromise, Promise!PromiseSpec
=============================================================================
