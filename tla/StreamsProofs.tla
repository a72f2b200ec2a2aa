----------------------------- MODULE StreamsProofs -----------------------------
(***************************************************************************)
(* Proofs about Streams, for every number of followers and every bound.    *)
(***************************************************************************)
EXTENDS Streams, SequenceTheorems, TLAPS

-----------------------------------------------------------------------------
(* The log only grows.                                                     *)

LogTypes == log \in Seq({"output", "exit"}) /\ owed \in Nat

\* What a step makes of the log.
Grown ==
    /\ LogTypes'
    /\ Len(log') >= Len(log)
    /\ \A i \in 1 .. Len(log) : log'[i] = log[i]
    /\ Terminal => Terminal'
    /\ log' # log => owed' > 0

\* A log that stays has grown.
LEMMA LogStays == ASSUME LogTypes, log' = log, owed' \in Nat PROVE Grown
  BY DEF LogTypes, Grown, Terminal

\* Every step leaves the events where they are.
LEMMA LogGrows == ASSUME LogTypes, [Next]_vars PROVE Grown
<1>1. ASSUME NEW kind \in {"output", "exit"}, AppendEvent(kind) PROVE Grown
  <2>1. /\ log' \in Seq({"output", "exit"}) /\ Len(log') = Len(log) + 1
        /\ \A i \in 1 .. Len(log) : log'[i] = log[i]
    BY <1>1 DEF AppendEvent, LogTypes
  <2>2. owed' \in Nat /\ owed' > 0  BY <1>1 DEF AppendEvent, LogTypes
  <2>3. DOMAIN log = 1 .. Len(log) /\ DOMAIN log' = 1 .. Len(log')  BY <2>1 DEF LogTypes
  <2>4. Terminal => Terminal'  BY <2>1, <2>3 DEF Terminal, LogTypes
  <2>5. QED  BY <2>1, <2>2, <2>4 DEF Grown, LogTypes
<1>2. CASE Notify  BY <1>2, LogStays DEF Notify, LogTypes
<1>3. CASE OtherChange  BY <1>3, LogStays DEF OtherChange, storeVars, LogTypes
<1>4. ASSUME NEW f \in Followers,
             HubStep(f) \/ KeepAlive(f) \/ UserStep(f) \/ ConnectFails(f) \/ Break(f) \/ Rejected(f)
      PROVE  Grown
  <2>1. UNCHANGED storeVars
    BY <1>4 DEF HubStep, ReadVersion, SendEvents, FindNoEvents, CheckRecord, StartWait, Wake,
       KeepAlive, UserStep, Connect, ReadOutput, ReadExit, StreamEnds, FetchRecord,
       ConnectFails, Break, Rejected
  <2>2. QED  BY <2>1, LogStays DEF storeVars, LogTypes
<1>5. CASE UNCHANGED vars  BY <1>5, LogStays DEF vars, storeVars, LogTypes
<1>6. QED  BY <1>1, <1>2, <1>3, <1>4, <1>5 DEF Next

-----------------------------------------------------------------------------
(* Type correctness.  A follower that may still fail has failures left.    *)

FailuresLeft == \A f \in Followers : mode[f] # "gaveup" => failures[f] < MaxFailures

TypeInv == TypeOK /\ FailuresLeft

\* The initial state has the right types.
LEMMA TypeInit == Init => TypeInv
  BY BoundAssumption DEF Init, Each, TypeInv, TypeOK, FailuresLeft

\* Steps of the store and its waiters.
LEMMA TypeStore ==
  ASSUME TypeInv, Grown,
         \/ \E kind \in {"output", "exit"} : AppendEvent(kind)
         \/ Notify \/ OtherChange \/ UNCHANGED vars
  PROVE  TypeInv'
<1>1. UNCHANGED <<gen, cursor, wire, userVars, faults>>
  BY DEF AppendEvent, Notify, OtherChange, vars, genVars
<1>2. changed' \in [Followers -> BOOLEAN] /\ woken' \in [Followers -> BOOLEAN]
  BY DEF AppendEvent, Notify, OtherChange, Wakened, vars, genVars, TypeInv, TypeOK
<1>3. LogTypes' /\ 0 .. Len(log) \subseteq 0 .. Len(log') /\ 1 .. Len(log) \subseteq 1 .. Len(log')
  BY DEF Grown, LogTypes, TypeInv, TypeOK
<1>4. Seq(1 .. Len(log)) \subseteq Seq(1 .. Len(log'))
  BY <1>3, SeqMonotonic
<1>5. TypeOK'
  <2>1. cursor' \in [Followers -> 0 .. Len(log')] /\ got' \in [Followers -> 0 .. Len(log')]
    BY <1>1, <1>3 DEF TypeInv, TypeOK, userVars
  <2>2. wire' \in [Followers -> Seq(1 .. Len(log'))] /\ printed' \in [Followers -> Seq(1 .. Len(log'))]
    BY <1>1, <1>4 DEF TypeInv, TypeOK, userVars
  <2>3. QED  BY <1>1, <1>2, <1>3, <2>1, <2>2 DEF TypeInv, TypeOK, userVars, LogTypes
<1>6. QED  BY <1>1, <1>5 DEF TypeInv, FailuresLeft, userVars

\* The events after the cursor are a sequence of positions in the log.
LEMMA NewEventsType ==
  ASSUME TypeOK, NEW f \in Followers, Len(log) > cursor[f]
  PROVE  /\ NewEvents(f) \in Seq(1 .. Len(log))
         /\ Len(NewEvents(f)) = Len(log) - cursor[f]
         /\ \A i \in 1 .. Len(log) - cursor[f] : NewEvents(f)[i] = cursor[f] + i
<1>1. Len(log) \in Nat /\ cursor[f] \in 0 .. Len(log)  BY DEF TypeOK
<1>2. Len(log) - cursor[f] \in Nat  BY <1>1
<1>3. NewEvents(f) \in [1 .. Len(log) - cursor[f] -> 1 .. Len(log)]  BY <1>1 DEF NewEvents
<1>4. QED  BY <1>2, <1>3 DEF NewEvents

\* Steps of a generator.
LEMMA TypeHub == ASSUME TypeInv, NEW f \in Followers, HubStep(f) \/ KeepAlive(f) PROVE TypeInv'
<1> USE DEF TypeInv, storeVars, userVars
<1>1. FailuresLeft' /\ UNCHANGED <<log, owed, mode, got, printed, failures, faults>>
  BY DEF HubStep, ReadVersion, SendEvents, FindNoEvents, CheckRecord, StartWait, Wake,
     KeepAlive, FailuresLeft
<1>2. CASE SendEvents(f)
  <2>1. wire[f] \o NewEvents(f) \in Seq(1 .. Len(log))
    <3>1. wire[f] \in Seq(1 .. Len(log))  BY DEF TypeOK
    <3>2. QED  BY <1>2, <3>1, NewEventsType DEF SendEvents
  <2>2. wire' \in [Followers -> Seq(1 .. Len(log))]  BY <1>2, <2>1 DEF SendEvents, TypeOK
  <2>3. cursor' \in [Followers -> 0 .. Len(log)]  BY <1>2 DEF SendEvents, TypeOK
  <2>4. QED  BY <1>1, <1>2, <2>2, <2>3 DEF SendEvents, TypeOK
<1>3. CASE ReadVersion(f)  BY <1>1, <1>3 DEF ReadVersion, TypeOK
<1>4. CASE FindNoEvents(f)  BY <1>1, <1>4 DEF FindNoEvents, TypeOK
<1>5. CASE CheckRecord(f)  BY <1>1, <1>5 DEF CheckRecord, TypeOK
<1>6. CASE StartWait(f)  BY <1>1, <1>6 DEF StartWait, TypeOK
<1>7. CASE Wake(f)  BY <1>1, <1>7 DEF Wake, TypeOK
<1>8. CASE KeepAlive(f)  BY <1>1, <1>8 DEF KeepAlive, TypeOK
<1>9. QED  BY <1>2, <1>3, <1>4, <1>5, <1>6, <1>7, <1>8 DEF HubStep

\* An interruption counts.
LEMMA TypeInterrupted ==
  ASSUME TypeInv, NEW f \in Followers, mode[f] \in {"connect", "read"}, Interrupted(f), Fault
  PROVE  /\ mode' \in [Followers -> {"connect", "read", "fetch", "done", "orphaned", "gaveup"}]
         /\ mode'[f] # "read" /\ \A g \in Followers : g # f => mode'[g] = mode[g]
         /\ failures' \in [Followers -> 0 .. MaxFailures]
         /\ faults' \in Nat /\ FailuresLeft'
<1>1. failures[f] \in 0 .. MaxFailures /\ failures[f] < MaxFailures /\ MaxFailures \in Nat
  BY BoundAssumption DEF TypeInv, TypeOK, FailuresLeft
<1>2. failures[f] + 1 \in 0 .. MaxFailures  BY <1>1
<1>3. failures' \in [Followers -> 0 .. MaxFailures]  BY <1>2 DEF Interrupted, TypeInv, TypeOK
<1>4. FailuresLeft'
  BY <1>1 DEF Interrupted, TypeInv, TypeOK, FailuresLeft
<1>5. faults' \in Nat  BY DEF Fault, TypeInv, TypeOK
<1>6. QED  BY <1>3, <1>4, <1>5 DEF Interrupted, TypeInv, TypeOK

\* Steps of a follower and its connection.
LEMMA TypeUser ==
  ASSUME TypeInv, NEW f \in Followers,
         UserStep(f) \/ ConnectFails(f) \/ Break(f) \/ Rejected(f)
  PROVE  TypeInv'
<1> USE DEF TypeInv, storeVars, genVars
<1>1. CASE Connect(f)
  <2>1. FailuresLeft'  BY <1>1, BoundAssumption DEF Connect, FailuresLeft, TypeOK
  <2>2. failures' \in [Followers -> 0 .. MaxFailures]  BY <1>1, BoundAssumption DEF Connect, TypeOK
  <2>3. QED  BY <1>1, <2>1, <2>2 DEF Connect, TypeOK
<1>2. CASE ReadOutput(f)
  <2>1. /\ wire[f] \in Seq(1 .. Len(log)) /\ Head(wire[f]) \in 1 .. Len(log)
        /\ Tail(wire[f]) \in Seq(1 .. Len(log))
    BY <1>2 DEF ReadOutput, TypeOK
  <2>2. Append(printed[f], Head(wire[f])) \in Seq(1 .. Len(log))
    BY <2>1 DEF TypeOK
  <2>3. Head(wire[f]) \in 0 .. Len(log)  BY <2>1
  <2>4. QED  BY <1>2, <2>1, <2>2, <2>3 DEF ReadOutput, TypeOK, FailuresLeft
<1>3. CASE ReadExit(f)
  <2>1. Head(wire[f]) \in 0 .. Len(log) /\ <<>> \in Seq(1 .. Len(log))
    <3>1. wire[f] \in Seq(1 .. Len(log)) /\ wire[f] # <<>>  BY <1>3 DEF ReadExit, TypeOK
    <3>2. Head(wire[f]) \in 1 .. Len(log)  BY <3>1
    <3>3. QED  BY <3>2
  <2>2. QED  BY <1>3, <2>1 DEF ReadExit, TypeOK, FailuresLeft
<1>4. CASE StreamEnds(f)  BY <1>4 DEF StreamEnds, TypeOK, FailuresLeft
<1>5. CASE FetchRecord(f)  BY <1>5 DEF FetchRecord, TypeOK, FailuresLeft
<1>6. CASE ConnectFails(f)
  <2>1. mode[f] = "connect" /\ Interrupted(f) /\ Fault  BY <1>6 DEF ConnectFails
  <2>2. QED  BY <1>6, <2>1, TypeInterrupted DEF ConnectFails, Interrupted, TypeOK
<1>7. CASE Break(f)
  <2>1. mode[f] = "read" /\ Interrupted(f) /\ Fault  BY <1>7 DEF Break
  <2>2. <<>> \in Seq(1 .. Len(log))  OBVIOUS
  <2>3. QED  BY <1>7, <2>1, <2>2, TypeInterrupted DEF Break, Interrupted, TypeOK
<1>8. CASE Rejected(f)  BY <1>8 DEF Rejected, Fault, TypeOK, FailuresLeft
<1>9. QED  BY <1>1, <1>2, <1>3, <1>4, <1>5, <1>6, <1>7, <1>8 DEF UserStep

\* Every step keeps the types.
LEMMA TypeNext == ASSUME TypeInv, [Next]_vars PROVE TypeInv'
<1>1. Grown  BY LogGrows DEF TypeInv, TypeOK, LogTypes
<1>2. QED  BY <1>1, TypeStore, TypeHub, TypeUser DEF Next

\* The types hold always.
LEMMA TypeAlways == Spec => []TypeInv
<1>1. TypeInv /\ [Next]_vars => TypeInv'  BY TypeNext
<1>2. QED  BY <1>1, TypeInit, PTL DEF Spec

\* Every reachable state is well-typed: a generator exists while its follower
\* reads, and nobody counts more failures than it survives.
THEOREM TypeCorrect == Spec => []TypeOK
<1>1. TypeInv => TypeOK  BY DEF TypeInv
<1>2. QED  BY <1>1, TypeAlways, PTL

-----------------------------------------------------------------------------
(* No wake-up is lost.  Whatever a generator has not seen when it is about *)
(* to wait has moved the version it read, or its notification is owed.     *)

Unseen(f) == Len(log) > cursor[f]

NoticeDue ==
    \A f \in Followers :
        /\ gen[f] = "record" /\ Unseen(f) => changed[f] \/ owed > 0
        /\ gen[f] = "check" /\ (Unseen(f) \/ Terminal) => changed[f] \/ owed > 0
        /\ gen[f] = "wait" /\ (Unseen(f) \/ Terminal) => woken[f] \/ owed > 0

\* Every step keeps what is due.
LEMMA NoticeStep == ASSUME TypeInv, NoticeDue, [Next]_vars PROVE NoticeDue'
<1> USE DEF TypeInv
<1>t. LogTypes /\ Grown  BY LogGrows DEF TypeOK, LogTypes
<1>1. ASSUME NEW kind \in {"output", "exit"}, AppendEvent(kind) PROVE NoticeDue'
  <2>1. owed' > 0  BY <1>1, <1>t DEF AppendEvent, LogTypes
  <2>2. QED  BY <2>1 DEF NoticeDue
<1>2. CASE Notify \/ OtherChange
  BY <1>2 DEF Notify, OtherChange, Wakened, NoticeDue, storeVars
<1>3. ASSUME NEW f \in Followers, HubStep(f) \/ KeepAlive(f) PROVE NoticeDue'
  <2> USE DEF storeVars
  <2>0. UNCHANGED <<log, owed>> /\ (Terminal' <=> Terminal)
    BY <1>3 DEF HubStep, ReadVersion, SendEvents, FindNoEvents, CheckRecord, StartWait, Wake,
       KeepAlive, Terminal
  <2>1. CASE ReadVersion(f)  BY <2>0, <2>1 DEF ReadVersion, NoticeDue, Unseen, TypeOK
  <2>2. CASE SendEvents(f)  BY <2>0, <2>2 DEF SendEvents, NoticeDue, Unseen, TypeOK
  <2>3. CASE FindNoEvents(f)
    <3>1. ~(Len(log) > cursor[f])  BY <2>3 DEF FindNoEvents, TypeOK
    <3>2. QED  BY <2>0, <2>3, <3>1 DEF FindNoEvents, NoticeDue, Unseen, TypeOK
  <2>4. CASE CheckRecord(f)  BY <2>0, <2>4 DEF CheckRecord, NoticeDue, Unseen, TypeOK
  <2>5. CASE StartWait(f)  BY <2>0, <2>5 DEF StartWait, NoticeDue, Unseen, TypeOK
  <2>6. CASE Wake(f)  BY <2>0, <2>6 DEF Wake, NoticeDue, Unseen, TypeOK
  <2>7. CASE KeepAlive(f)  BY <2>0, <2>7 DEF KeepAlive, NoticeDue, Unseen, TypeOK
  <2>8. QED  BY <1>3, <2>1, <2>2, <2>3, <2>4, <2>5, <2>6, <2>7 DEF HubStep
<1>4. ASSUME NEW f \in Followers,
             UserStep(f) \/ ConnectFails(f) \/ Break(f) \/ Rejected(f)
      PROVE  NoticeDue'
  <2>1. /\ UNCHANGED <<log, owed, changed, woken>>
        /\ (gen' = gen /\ cursor' = cursor) \/ gen'[f] \in {"none", "top"}
        /\ \A g \in Followers : g # f => gen'[g] = gen[g] /\ cursor'[g] = cursor[g]
    BY <1>4 DEF UserStep, Connect, ReadOutput, ReadExit, StreamEnds, FetchRecord,
       ConnectFails, Break, Rejected, storeVars, genVars, TypeOK
  <2>2. Terminal' <=> Terminal  BY <2>1 DEF Terminal
  <2>3. QED  BY <2>1, <2>2 DEF NoticeDue, Unseen, TypeOK
<1>5. CASE UNCHANGED vars
  <2>1. Terminal' <=> Terminal  BY <1>5 DEF vars, storeVars, Terminal
  <2>2. QED  BY <1>5, <2>1 DEF vars, storeVars, genVars, NoticeDue, Unseen
<1>6. QED  BY <1>1, <1>2, <1>3, <1>4, <1>5 DEF Next

\* However many generators wait and whatever other records change, none sleeps
\* through an event it has not sent or through the end of its record.
THEOREM WakeupsArrive == Spec => []NoLostWakeup
<1>1. Init => NoticeDue  BY DEF Init, Each, NoticeDue
<1>2. TypeInv /\ NoticeDue /\ [Next]_vars => NoticeDue'  BY NoticeStep
<1>3. NoticeDue => NoLostWakeup  BY DEF NoticeDue, NoLostWakeup, Unseen
<1>4. QED  BY <1>1, <1>2, <1>3, TypeAlways, PTL DEF Spec

-----------------------------------------------------------------------------
(* A stream ends when the record is resolved, and that is final.           *)

EndsResolved ==
    \A f \in Followers :
        /\ gen[f] = "closed" \/ mode[f] = "fetch" => Terminal
        /\ mode[f] # "orphaned"

\* Every step keeps it.
LEMMA EndStep == ASSUME TypeInv, EndsResolved, [Next]_vars PROVE EndsResolved'
<1> USE DEF TypeInv, EndsResolved
<1>t. Terminal => Terminal'  BY LogGrows DEF TypeOK, LogTypes, Grown
<1>1. ASSUME NEW kind \in {"output", "exit"}, AppendEvent(kind) PROVE EndsResolved'
  BY <1>1, <1>t DEF AppendEvent, genVars, userVars
<1>2. CASE Notify \/ OtherChange
  BY <1>2, <1>t DEF Notify, OtherChange, userVars
<1>3. ASSUME NEW f \in Followers, HubStep(f) \/ KeepAlive(f) PROVE EndsResolved'
  BY <1>3, <1>t DEF HubStep, ReadVersion, SendEvents, FindNoEvents, CheckRecord, StartWait, Wake,
     KeepAlive, userVars, TypeOK
<1>4. ASSUME NEW f \in Followers, UserStep(f) PROVE EndsResolved'
  BY <1>4, <1>t DEF UserStep, Connect, ReadOutput, ReadExit, StreamEnds, FetchRecord,
     genVars, TypeOK
<1>5. ASSUME NEW f \in Followers, ConnectFails(f) \/ Break(f) \/ Rejected(f) PROVE EndsResolved'
  BY <1>5, <1>t DEF ConnectFails, Break, Rejected, Interrupted, genVars, TypeOK
<1>6. CASE UNCHANGED vars  BY <1>6, <1>t DEF vars, genVars, userVars
<1>7. QED  BY <1>1, <1>2, <1>3, <1>4, <1>5, <1>6 DEF Next

\* The fallback to the record always finds it resolved.
THEOREM FallbackWorks == Spec => []NeverOrphaned
<1>1. Init => EndsResolved  BY DEF Init, Each, EndsResolved
<1>2. TypeInv /\ EndsResolved /\ [Next]_vars => EndsResolved'  BY EndStep
<1>3. EndsResolved => NeverOrphaned  BY DEF EndsResolved, NeverOrphaned
<1>4. QED  BY <1>1, <1>2, <1>3, TypeAlways, PTL DEF Spec

-----------------------------------------------------------------------------
(* A follower prints the log, in order.  What is on the wire continues what *)
(* it has got, up to the generator's cursor; and only a follower that is    *)
(* done has got a terminal event.                                           *)

Continues(f) ==
    /\ mode[f] = "read" =>
        /\ cursor[f] = got[f] + Len(wire[f])
        /\ \A i \in 1 .. Len(wire[f]) : wire[f][i] = got[f] + i
    /\ mode[f] # "read" => wire[f] = <<>>

PrintsOn(f) ==
    /\ \A i \in 1 .. Len(printed[f]) : printed[f][i] = i
    /\ got[f] > 0 /\ log[got[f]] = "exit" =>
        mode[f] = "done" /\ Len(printed[f]) = got[f] - 1
    /\ ~(got[f] > 0 /\ log[got[f]] = "exit") => Len(printed[f]) = got[f]

InOrder == \A f \in Followers : Continues(f) /\ PrintsOn(f)

\* A follower whose variables stay is not disturbed by what the log gains.
LEMMA OrderStays ==
  ASSUME TypeInv, Grown, NEW f \in Followers, Continues(f), PrintsOn(f),
         cursor'[f] = cursor[f], wire'[f] = wire[f], mode'[f] = mode[f],
         got'[f] = got[f], printed'[f] = printed[f]
  PROVE  Continues(f)' /\ PrintsOn(f)'
<1>1. got[f] > 0 => log'[got[f]] = log[got[f]]
  BY DEF TypeInv, TypeOK, Grown
<1>2. QED  BY <1>1 DEF Continues, PrintsOn

\* Past the first sequence, a concatenation reads the second.
LEMMA ConcatTail ==
  ASSUME NEW S, NEW a \in Seq(S), NEW b \in Seq(S),
         NEW i \in Len(a) + 1 .. Len(a) + Len(b)
  PROVE  (a \o b)[i] = b[i - Len(a)]
  OBVIOUS

\* What a generator adds to the wire continues it.
LEMMA SendOrder ==
  ASSUME TypeInv, NEW f \in Followers, Continues(f), PrintsOn(f), SendEvents(f)
  PROVE  Continues(f)' /\ PrintsOn(f)'
<1> USE DEF SendEvents, TypeInv, storeVars, userVars
<1>1. PrintsOn(f)'  BY DEF PrintsOn
<1>2. mode[f] = "read" /\ mode'[f] = "read"  BY DEF TypeOK
<1>3. cursor[f] \in Nat /\ got[f] \in Nat /\ Len(log) \in Nat /\ Len(wire[f]) \in Nat
  BY DEF TypeOK
<1>4. cursor[f] = got[f] + Len(wire[f])  BY <1>2 DEF Continues
<1>5. /\ NewEvents(f) \in Seq(1 .. Len(log)) /\ wire[f] \in Seq(1 .. Len(log))
      /\ Len(NewEvents(f)) = Len(log) - cursor[f]
      /\ \A i \in 1 .. Len(log) - cursor[f] : NewEvents(f)[i] = cursor[f] + i
  BY NewEventsType DEF TypeOK
<1>6. cursor'[f] = Len(log) /\ got'[f] = got[f] /\ wire'[f] = wire[f] \o NewEvents(f)
  BY DEF TypeOK
<1>7. Len(wire'[f]) = Len(wire[f]) + (Len(log) - cursor[f])
  <2>1. Len(wire[f] \o NewEvents(f)) = Len(wire[f]) + Len(NewEvents(f))
    BY <1>5, ConcatProperties
  <2>2. QED  BY <1>5, <1>6, <2>1
<1>8. ASSUME NEW i \in 1 .. Len(wire'[f]) PROVE wire'[f][i] = got[f] + i
  <2>1. CASE i <= Len(wire[f])
    <3>1. wire'[f][i] = wire[f][i]  BY <1>3, <1>5, <1>6, <1>7, <2>1
    <3>2. QED  BY <1>2, <1>3, <2>1, <3>1 DEF Continues
  <2>2. CASE i > Len(wire[f])
    <3>1. i - Len(wire[f]) \in 1 .. Len(log) - cursor[f]  BY <1>3, <1>7, <2>2
    <3>2. wire'[f][i] = NewEvents(f)[i - Len(wire[f])]
      <4>1. i \in Len(wire[f]) + 1 .. Len(wire[f]) + Len(NewEvents(f))
        BY <1>3, <1>5, <1>7, <2>2
      <4>2. (wire[f] \o NewEvents(f))[i] = NewEvents(f)[i - Len(wire[f])]
        BY <1>5, <4>1, ConcatTail, Zenon
      <4>3. QED  BY <1>6, <4>2, Zenon
    <3>3. wire'[f][i] = cursor[f] + (i - Len(wire[f]))  BY <1>5, <3>1, <3>2
    <3>4. QED  BY <1>3, <1>4, <3>3
  <2>3. QED  BY <1>3, <1>7, <2>1, <2>2
<1>9. Continues(f)'
  <2>1. cursor'[f] = got'[f] + Len(wire'[f])  BY <1>3, <1>4, <1>6, <1>7
  <2>2. \A i \in 1 .. Len(wire'[f]) : wire'[f][i] = got'[f] + i  BY <1>6, <1>8
  <2>3. QED  BY <1>2, <2>1, <2>2 DEF Continues
<1>10. QED  BY <1>1, <1>9

\* What a follower reads is the event after the last.
LEMMA ReadOrder ==
  ASSUME TypeInv, NEW f \in Followers, Continues(f), PrintsOn(f), ReadOutput(f) \/ ReadExit(f)
  PROVE  Continues(f)' /\ PrintsOn(f)'
<1> USE DEF TypeInv, storeVars, genVars
<1>1. /\ wire[f] \in Seq(1 .. Len(log)) /\ wire[f] # <<>> /\ mode[f] = "read"
      /\ got[f] \in Nat /\ cursor[f] \in Nat /\ log' = log
      /\ printed[f] \in Seq(1 .. Len(log)) /\ cursor' = cursor
  BY DEF ReadOutput, ReadExit, TypeOK
<1>2. Len(wire[f]) \in Nat /\ Len(wire[f]) > 0 /\ got[f] \in Nat  BY <1>1
<1>3. Head(wire[f]) = got[f] + 1
  <2>1. wire[f][1] = got[f] + 1  BY <1>1, <1>2 DEF Continues
  <2>2. Head(wire[f]) = wire[f][1]  BY <1>1
  <2>3. QED  BY <2>1, <2>2
<1>4. Len(printed[f]) = got[f]  BY <1>1 DEF PrintsOn
<1>5. got'[f] = got[f] + 1  BY <1>3 DEF ReadOutput, ReadExit, TypeOK
<1>6. CASE ReadOutput(f)
  <2>1. wire'[f] = Tail(wire[f]) /\ mode'[f] = "read" /\ log[got[f] + 1] = "output"
    BY <1>1, <1>3, <1>6 DEF ReadOutput, TypeOK
  <2>2. /\ Len(wire'[f]) = Len(wire[f]) - 1
        /\ \A i \in 1 .. Len(wire[f]) - 1 : wire'[f][i] = wire[f][i + 1]
    BY <1>1, <2>1
  <2>3. ASSUME NEW i \in 1 .. Len(wire[f]) - 1 PROVE wire[f][i + 1] = got[f] + 1 + i
    <3>1. i + 1 \in 1 .. Len(wire[f])  BY <1>2
    <3>2. wire[f][i + 1] = got[f] + (i + 1)  BY <1>1, <3>1 DEF Continues
    <3>3. QED  BY <1>2, <3>2
  <2>4. Continues(f)'
    <3>0. cursor'[f] = cursor[f] /\ cursor[f] \in Nat  BY <1>1
    <3>1. cursor[f] = got[f] + Len(wire[f])  BY <1>1 DEF Continues
    <3>2. cursor'[f] = got'[f] + Len(wire'[f])
      <4>1. Len(wire'[f]) = Len(wire[f]) - 1  BY <2>2
      <4>2. \A g, w \in Nat : (g + 1) + (w - 1) = g + w  OBVIOUS
      <4>3. (got[f] + 1) + (Len(wire[f]) - 1) = got[f] + Len(wire[f])
        BY <1>2, <4>2, Zenon
      <4>4. QED  BY <1>5, <3>0, <3>1, <4>1, <4>3, Zenon
    <3>3. \A i \in 1 .. Len(wire'[f]) : wire'[f][i] = got'[f] + i
      BY <1>2, <1>5, <2>1, <2>2, <2>3
    <3>4. QED  BY <2>1, <3>2, <3>3 DEF Continues
  <2>5. printed'[f] = Append(printed[f], got[f] + 1)  BY <1>3, <1>6 DEF ReadOutput, TypeOK
  <2>6. Len(printed'[f]) = got[f] + 1 /\ \A i \in 1 .. got[f] + 1 : printed'[f][i] = i
    <3>1. printed[f] \in Seq(1 .. Len(log)) /\ Len(printed[f]) = got[f] /\ got[f] \in Nat
      BY <1>1, <1>4
    <3>2. Len(printed'[f]) = got[f] + 1 /\ printed'[f][got[f] + 1] = got[f] + 1
      BY <2>5, <3>1
    <3>3. \A i \in 1 .. got[f] : printed'[f][i] = printed[f][i]  BY <2>5, <3>1
    <3>4. \A i \in 1 .. got[f] : printed[f][i] = i  BY <3>1 DEF PrintsOn
    <3>5. ASSUME NEW i \in 1 .. got[f] + 1 PROVE printed'[f][i] = i
      <4>1. i \in 1 .. got[f] \/ i = got[f] + 1  BY <3>1
      <4>2. QED  BY <3>2, <3>3, <3>4, <4>1
    <3>6. QED  BY <3>2, <3>5
  <2>7. QED  BY <1>1, <1>5, <2>1, <2>4, <2>6 DEF PrintsOn
<1>7. CASE ReadExit(f)
  <2>1. wire'[f] = <<>> /\ mode'[f] = "done" /\ log[got[f] + 1] = "exit" /\ printed' = printed
    BY <1>1, <1>3, <1>7 DEF ReadExit, TypeOK
  <2>2. QED  BY <1>1, <1>4, <1>5, <2>1 DEF Continues, PrintsOn
<1>8. QED  BY <1>6, <1>7

\* Every step keeps the order.
LEMMA OrderStep == ASSUME TypeInv, InOrder, [Next]_vars PROVE InOrder'
<1> USE DEF InOrder, TypeInv
<1>1. Grown  BY LogGrows DEF TypeOK, LogTypes
<1>2. CASE \/ \E kind \in {"output", "exit"} : AppendEvent(kind)
           \/ Notify \/ OtherChange \/ UNCHANGED vars
  <2>1. UNCHANGED <<cursor, wire, mode, got, printed>>
    BY <1>2 DEF AppendEvent, Notify, OtherChange, vars, genVars, userVars
  <2>2. QED  BY <1>1, <2>1, OrderStays
<1>3. ASSUME NEW f \in Followers,
             HubStep(f) \/ KeepAlive(f) \/ UserStep(f) \/ ConnectFails(f) \/ Break(f) \/ Rejected(f),
             NEW g \in Followers
      PROVE  Continues(g)' /\ PrintsOn(g)'
  <2> USE DEF storeVars, genVars, userVars
  <2>1. CASE g # f
    <3>1. /\ cursor'[g] = cursor[g] /\ wire'[g] = wire[g] /\ mode'[g] = mode[g]
          /\ got'[g] = got[g] /\ printed'[g] = printed[g]
      BY <1>3, <2>1 DEF TypeOK, HubStep, ReadVersion, SendEvents, FindNoEvents, CheckRecord,
         StartWait, Wake, KeepAlive, UserStep, Connect, ReadOutput, ReadExit, StreamEnds,
         FetchRecord, ConnectFails, Break, Rejected, Interrupted
    <3>2. QED  BY <1>1, <3>1, OrderStays
  <2>2. CASE g = f /\ SendEvents(f)  BY <2>2, SendOrder
  <2>3. CASE g = f /\ (ReadOutput(f) \/ ReadExit(f))  BY <2>3, ReadOrder
  <2>4. CASE g = f /\ (\/ ReadVersion(f) \/ FindNoEvents(f) \/ CheckRecord(f)
                       \/ StartWait(f) \/ Wake(f) \/ KeepAlive(f))
    <3>1. UNCHANGED <<cursor, wire, mode, got, printed>>
      BY <2>4 DEF ReadVersion, FindNoEvents, CheckRecord, StartWait, Wake, KeepAlive
    <3>2. QED  BY <1>1, <3>1, OrderStays
  <2>5. CASE g = f /\ Connect(f)
    <3>1. wire[f] = <<>> /\ got[f] \in Nat /\ mode'[f] = "read" /\ cursor'[f] = got[f]
      BY <2>5 DEF Connect, Continues, TypeOK
    <3>2. UNCHANGED <<log, wire, got, printed>> /\ mode[f] # "done"  BY <2>5 DEF Connect
    <3>3. QED  BY <2>5, <3>1, <3>2 DEF Continues, PrintsOn
  <2>6. CASE g = f /\ (StreamEnds(f) \/ FetchRecord(f) \/ ConnectFails(f) \/ Break(f) \/ Rejected(f))
    <3>1. UNCHANGED <<log, got, printed>> /\ mode[f] # "done" /\ mode'[f] # "read" /\ wire'[f] = <<>>
      BY <2>6 DEF StreamEnds, FetchRecord, ConnectFails, Break, Rejected, Interrupted,
         Continues, TypeOK
    <3>2. QED  BY <2>6, <3>1 DEF Continues, PrintsOn
  <2>7. QED  BY <1>3, <2>1, <2>2, <2>3, <2>4, <2>5, <2>6 DEF HubStep, UserStep
<1>4. QED  BY <1>2, <1>3 DEF Next

\* However often a follower is cut off and resumes, it prints the log in order,
\* no event twice and none left out.
THEOREM PrintsInOrder == Spec => []PrintedInOrder
<1>1. Init => InOrder
  <2> SUFFICES ASSUME Init, NEW f \in Followers PROVE Continues(f) /\ PrintsOn(f)
    BY DEF InOrder
  <2>1. wire[f] = <<>> /\ mode[f] = "connect" /\ got[f] = 0 /\ printed[f] = <<>>
    BY DEF Init, Each
  <2>2. QED  BY <2>1 DEF Continues, PrintsOn
<1>2. TypeInv /\ InOrder /\ [Next]_vars => InOrder'  BY OrderStep
<1>3. TypeInv /\ InOrder => PrintedInOrder
  <2> SUFFICES ASSUME TypeInv, InOrder, NEW f \in Followers
               PROVE  /\ \A i \in DOMAIN printed[f] : printed[f][i] = i
                      /\ Len(printed[f]) = IF mode[f] = "done" /\ got[f] > 0 /\ log[got[f]] = "exit"
                                           THEN got[f] - 1 ELSE got[f]
    BY DEF PrintedInOrder
  <2>1. DOMAIN printed[f] = 1 .. Len(printed[f])  BY DEF TypeInv, TypeOK
  <2>2. QED  BY <2>1 DEF InOrder, PrintsOn
<1>4. QED  BY <1>1, <1>2, <1>3, TypeAlways, PTL DEF Spec
=============================================================================
