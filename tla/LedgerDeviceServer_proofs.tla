---------------------- MODULE LedgerDeviceServer_proofs ----------------------
(***************************************************************************)
(* Proofs about the device loop, for any set of applications, any answers  *)
(* of the wallet library and any bound on the notifications: the types,    *)
(* that no notification is lost, and that the loop implements the state    *)
(* notifier (its safety part; fairness is left to TLC).                    *)
(***************************************************************************)
EXTENDS LedgerDeviceServer, SequenceTheorems, TLAPS

-----------------------------------------------------------------------------
(* Lemmas about LastKnown, the state at the end of a queue. *)

\* What is appended to a queue is what its reader will know last.
LEMMA LastKnownAppend ==
  ASSUME NEW S, NEW known \in S, NEW queue \in Seq(S), NEW s \in S
  PROVE  Notifier!LastKnown(known, Append(queue, s)) = s
<1>1. Len(Append(queue, s)) = Len(queue) + 1 /\ Append(queue, s)[Len(queue) + 1] = s
  BY SMT
<1>2. Append(queue, s) # <<>>
  BY <1>1, SMT
<1>3. QED
  BY <1>1, <1>2 DEF Notifier!LastKnown

\* Taking the head of a queue does not change what its reader will know last.
LEMMA LastKnownDeliver ==
  ASSUME NEW S, NEW known \in S, NEW queue \in Seq(S), queue # <<>>
  PROVE  Notifier!LastKnown(Head(queue), Tail(queue)) = Notifier!LastKnown(known, queue)
<1>1. /\ Tail(queue) \in Seq(S)
      /\ Len(Tail(queue)) = Len(queue) - 1
      /\ \A i \in 1 .. Len(Tail(queue)) : Tail(queue)[i] = queue[i + 1]
  BY HeadTailProperties
<1>2. Len(queue) \in Nat \ {0}
  BY EmptySeq
<1>3. CASE Tail(queue) = <<>>
  <2>1. Len(<<>>) = 0
    BY EmptySeq
  <2>2. Len(queue) - 1 = 0
    BY <1>1, <1>3, <2>1, Zenon
  <2>3. Len(queue) = 1
    BY <1>2, <2>2
  <2>4. Head(queue) = queue[1]
    BY <1>2, SMT
  <2>5. QED
    BY <1>3, <2>3, <2>4 DEF Notifier!LastKnown
<1>4. CASE Tail(queue) # <<>>
  <2>1. Len(Tail(queue)) \in 1 .. Len(Tail(queue))
    BY <1>1, <1>4, EmptySeq
  <2>2. Tail(queue)[Len(Tail(queue))] = queue[Len(queue)]
    BY <1>1, <1>2, <2>1
  <2>3. QED
    BY <1>4, <2>2 DEF Notifier!LastKnown
<1>5. QED
  BY <1>3, <1>4

-----------------------------------------------------------------------------
(* Types. *)

\* The wallet answers a connection type, whatever the device is.
LEMMA WalletAnswers ==
  /\ OpenRoot \subseteq DevState
  /\ \A pid : OpenApp(pid) \subseteq DevState
  BY MismatchAssumption, Zenon DEF OpenRoot, OpenApp, DevState

\* The wallet reports the pid of an application or none.
LEMMA OpenedAppPidType == OpenedAppPid \in Pid
  BY DEF OpenedAppPid, Pid

\* One step of the server or of its users keeps every variable in its type.
LEMMA TypeStep == TypeOK /\ [Next]_vars => TypeOK'
<1> SUFFICES ASSUME TypeOK, [Next]_vars PROVE TypeOK'
  OBVIOUS
<1> USE DEF TypeOK, flags, loopVars
<1>1. CASE Start
  BY <1>1 DEF Start
<1>2. CASE TestRunning
  BY <1>2 DEF TestRunning
<1>3. CASE SkipTurn
  BY <1>3 DEF SkipTurn
<1>4. CASE ReadAppPid
  BY <1>4, OpenedAppPidType DEF ReadAppPid
<1>5. CASE OpenDevice
  <2>1. state' \in DevState
    BY <1>5, WalletAnswers, Zenon DEF OpenDevice
  <2>2. appPid' \in Pid
    BY <1>5 DEF OpenDevice, Pid
  <2>3. QED
    BY <1>5, <2>1, <2>2 DEF OpenDevice
<1>6. CASE CompareState
  BY <1>6 DEF CompareState
<1>7. CASE EmitState
  BY <1>7 DEF EmitState, Signalled
<1>8. CASE Pause
  BY <1>8 DEF Pause
<1>9. CASE Deliver
  <2>1. Head(events) \in DevState /\ Tail(events) \in Seq(DevState)
    BY <1>9, HeadTailProperties DEF Deliver
  <2>2. QED
    BY <1>9, <2>1 DEF Deliver
<1>10. ASSUME NEW on \in BOOLEAN, SetInfiniteEmitting(on) PROVE TypeOK'
  BY <1>10 DEF SetInfiniteEmitting
<1>11. ASSUME NEW skip \in BOOLEAN, SetSkipCheck(skip) PROVE TypeOK'
  BY <1>11 DEF SetSkipCheck
<1>12. CASE Stop
  BY <1>12 DEF Stop
<1>13. ASSUME NEW pid \in Pid \union {NoKey}, SetSavedPid(pid) PROVE TypeOK'
  BY <1>13 DEF SetSavedPid
<1>14. CASE DeviceChanges
  BY <1>14 DEF DeviceChanges
<1>15. CASE UNCHANGED vars
  BY <1>15 DEF vars
<1>16. QED
  BY <1>1, <1>2, <1>3, <1>4, <1>5, <1>6, <1>7, <1>8, <1>9, <1>10, <1>11,
     <1>12, <1>13, <1>14, <1>15 DEF Next, Loop, Listener

\* The initial states are well typed.
LEMMA TypeInit == Init => TypeOK
<1> SUFFICES ASSUME Init PROVE TypeOK
  OBVIOUS
<1>1. events \in Seq(DevState)
  BY EmptySeq, Zenon DEF Init
<1>2. savedPid \in Pid \union {NoKey} /\ appPid \in Pid
  BY AppsAssumption DEF Init, Pid
<1>3. lastState \in DevState /\ shown \in DevState
  BY DEF Init, DevState
<1>4. QED
  BY <1>1, <1>2, <1>3 DEF Init, TypeOK

\* Every reachable state of the device loop is well typed, and run()'s local
\* `state` is assigned wherever it is compared.
THEOREM TypeCorrect == SafeSpec => []TypeOK
<1>1. QED
  BY TypeInit, TypeStep, PTL DEF SafeSpec

-----------------------------------------------------------------------------
(* No notification is lost. *)

\* The inductive invariant: outside the gap between setState and emit the
\* listener will end up with lastState, and inside a turn there is room for the
\* notification of that turn.
RoomInTurn == pc \in {"turn", "open", "compare", "emit"} => Len(events) < MaxEvents
LoopInv == TypeOK /\ ListenerNotMisled /\ RoomInTurn

\* It holds initially.
LEMMA LoopInvInit == Init => LoopInv
<1> SUFFICES ASSUME Init PROVE LoopInv
  OBVIOUS
<1>1. ListenerNotMisled
  BY DEF Init, ListenerNotMisled, Notifier!LastKnown
<1>2. RoomInTurn
  BY DEF Init, RoomInTurn
<1>3. QED
  BY <1>1, <1>2, TypeInit DEF LoopInv

\* Every step keeps it.
LEMMA LoopInvStep == LoopInv /\ [Next]_vars => LoopInv'
<1> SUFFICES ASSUME LoopInv, [Next]_vars PROVE LoopInv'
  OBVIOUS
<1>0. TypeOK /\ TypeOK' /\ ListenerNotMisled /\ RoomInTurn
  BY TypeStep DEF LoopInv
<1> SUFFICES ListenerNotMisled' /\ RoomInTurn'
  BY <1>0 DEF LoopInv
<1>1. CASE UNCHANGED <<events, shown, lastState>> /\ pc' = pc
  BY <1>0, <1>1 DEF ListenerNotMisled, RoomInTurn, Notifier!LastKnown
<1>2. CASE Start
  BY <1>0, <1>2 DEF Start, ListenerNotMisled, RoomInTurn, Notifier!LastKnown
<1>3. CASE TestRunning
  BY <1>0, <1>3 DEF TestRunning, ListenerNotMisled, RoomInTurn, Notifier!LastKnown
<1>4. CASE SkipTurn \/ ReadAppPid \/ OpenDevice
  BY <1>0, <1>4 DEF SkipTurn, ReadAppPid, OpenDevice, ListenerNotMisled, RoomInTurn,
     Notifier!LastKnown
<1>5. CASE CompareState
  BY <1>0, <1>5 DEF CompareState, ListenerNotMisled, RoomInTurn, Notifier!LastKnown
<1>6. CASE EmitState
  <2>1. Notifier!LastKnown(shown, events)' = lastState'
    <3>1. Notifier!LastKnown(shown, Append(events, lastState)) = lastState
      BY <1>0, LastKnownAppend DEF TypeOK
    <3>2. events' = Append(events, lastState) /\ shown' = shown /\ lastState' = lastState
      BY <1>6 DEF EmitState, Signalled
    <3>3. QED
      BY <3>1, <3>2 DEF Notifier!LastKnown
  <2>2. pc' = "pause"
    BY <1>6 DEF EmitState
  <2>3. QED
    BY <2>1, <2>2 DEF ListenerNotMisled, RoomInTurn
<1>7. CASE Pause
  BY <1>0, <1>7 DEF Pause, ListenerNotMisled, RoomInTurn, Notifier!LastKnown
<1>8. CASE Deliver
  <2>1. events \in Seq(DevState) /\ events # <<>> /\ shown \in DevState
    BY <1>0, <1>8 DEF TypeOK, Deliver
  <2>2. /\ shown' = Head(events) /\ events' = Tail(events)
        /\ lastState' = lastState /\ pc' = pc
    BY <1>8 DEF Deliver, loopVars
  <2>3. Notifier!LastKnown(shown, events)' = Notifier!LastKnown(shown, events)
    <3>1. Notifier!LastKnown(Head(events), Tail(events)) = Notifier!LastKnown(shown, events)
      BY <2>1, LastKnownDeliver
    <3>2. QED
      BY <2>2, <3>1 DEF Notifier!LastKnown
  <2>4. Len(events') = Len(events) - 1 /\ Len(events) \in Nat
    BY <2>1, <2>2, HeadTailProperties, LenProperties
  <2>5. QED
    BY <1>0, <2>2, <2>3, <2>4, MaxEventsAssumption DEF ListenerNotMisled, RoomInTurn
<1>9. CASE UNCHANGED vars
  BY <1>1, <1>9 DEF vars, loopVars
<1>10. QED
  BY <1>1, <1>2, <1>3, <1>4, <1>5, <1>6, <1>7, <1>8, <1>9
     DEF Next, Loop, Listener, SetInfiniteEmitting, SetSkipCheck, Stop, SetSavedPid,
         DeviceChanges, loopVars

\* The inductive invariant holds in every reachable state.
LEMMA LoopInvAlways == SafeSpec => []LoopInv
<1>1. QED
  BY LoopInvInit, LoopInvStep, PTL DEF SafeSpec

\* A listener that has handled every event holds the state getState() answers,
\* except between setState and emit.
THEOREM NoNotificationLost == Spec => []ListenerNotMisled
<1>1. LoopInv => ListenerNotMisled
  BY DEF LoopInv
<1>2. QED
  BY <1>1, LoopInvAlways, PTL DEF Spec

-----------------------------------------------------------------------------
(* The loop implements the state notifier. *)

\* The initial states are those of the notifier.
LEMMA NotifierInit == Init => Notifier!Init
  BY DEF Init, Notifier!Init, queued

\* Every step is a step of the notifier or changes nothing of it: comparing
\* publishes, delivering delivers, and emitting only ends the gap.
LEMMA NotifierStep == LoopInv /\ [Next]_vars => [Notifier!Next]_(Notifier!vars)
<1> SUFFICES ASSUME LoopInv, [Next]_vars
             PROVE  Notifier!Next \/ UNCHANGED Notifier!vars
  OBVIOUS
<1>0. TypeOK /\ RoomInTurn
  BY DEF LoopInv
<1>1. CASE UNCHANGED <<events, shown, lastState, infiniteEmitting>>
           /\ (pc = "emit" <=> pc' = "emit")
  BY <1>1 DEF Notifier!vars, queued
<1>2. CASE CompareState
  <2>1. CASE MustTell
    <3>1. state \in Notifier!DevState
      BY <1>0, <1>2 DEF CompareState, TypeOK, DevState, Notifier!DevState
    <3>2. queued = events /\ queued' = Append(queued, state)
      BY <1>2, <2>1 DEF CompareState, queued
    <3>3. Len(queued) < MaxEvents
      BY <1>0, <1>2, <3>2 DEF RoomInTurn, CompareState
    <3>4. Notifier!Publish(state)
      BY <1>2, <2>1, <3>2, <3>3 DEF Notifier!Publish, CompareState, MustTell, flags
    <3>5. QED
      BY <3>1, <3>4 DEF Notifier!Next
  <2>2. CASE ~MustTell
    BY <1>1, <1>2, <2>2 DEF CompareState, flags
  <2>3. QED
    BY <2>1, <2>2
<1>3. CASE EmitState
  BY <1>3 DEF EmitState, Signalled, Notifier!vars, queued, flags
<1>4. CASE Deliver
  <2>1. events \in Seq(DevState) /\ events # <<>> /\ lastState \in DevState
    BY <1>0, <1>4 DEF TypeOK, Deliver
  <2>2. pc' = pc /\ lastState' = lastState /\ infiniteEmitting' = infiniteEmitting
        /\ shown' = Head(events) /\ events' = Tail(events)
    BY <1>4 DEF Deliver, loopVars, flags
  <2>3. queued # <<>> /\ Head(queued) = Head(events) /\ queued' = Tail(queued)
    <3>1. CASE pc # "emit"
      BY <2>1, <2>2, <3>1 DEF queued
    <3>2. CASE pc = "emit"
      <4>1. queued = Append(events, lastState) /\ queued' = Append(Tail(events), lastState)
        BY <2>2, <3>2 DEF queued
      <4>2. /\ Append(events, lastState) # <<>>
            /\ Head(Append(events, lastState)) = Head(events)
            /\ Tail(Append(events, lastState)) = Append(Tail(events), lastState)
        BY <2>1, SMT
      <4>3. QED
        BY <4>1, <4>2
    <3>3. QED
      BY <3>1, <3>2
  <2>4. Notifier!Deliver
    BY <2>2, <2>3 DEF Notifier!Deliver
  <2>5. QED
    BY <2>4 DEF Notifier!Next
<1>5. ASSUME NEW on \in BOOLEAN, SetInfiniteEmitting(on)
      PROVE  Notifier!Next
  <2>1. queued' = queued
    BY <1>5 DEF SetInfiniteEmitting, queued, loopVars
  <2>2. Notifier!SetInfiniteEmitting(on)
    BY <1>5, <2>1 DEF Notifier!SetInfiniteEmitting, SetInfiniteEmitting, loopVars
  <2>3. QED
    BY <2>2 DEF Notifier!Next
<1>6. CASE Start \/ TestRunning \/ SkipTurn \/ ReadAppPid \/ OpenDevice \/ Pause
  BY <1>1, <1>6 DEF Start, TestRunning, SkipTurn, ReadAppPid, OpenDevice, Pause, flags
<1>7. ASSUME NEW skip \in BOOLEAN, SetSkipCheck(skip)
      PROVE  UNCHANGED Notifier!vars
  BY <1>7 DEF SetSkipCheck, loopVars, Notifier!vars, queued
<1>8. ASSUME NEW pid \in Pid \union {NoKey}, SetSavedPid(pid)
      PROVE  UNCHANGED Notifier!vars
  BY <1>8 DEF SetSavedPid, loopVars, flags, Notifier!vars, queued
<1>9. CASE Stop \/ DeviceChanges
  BY <1>1, <1>9 DEF Stop, DeviceChanges, loopVars, flags
<1>10. CASE UNCHANGED vars
  BY <1>1, <1>10 DEF vars, loopVars, flags
<1>11. QED
  BY <1>2, <1>3, <1>4, <1>5, <1>6, <1>7, <1>8, <1>9, <1>10 DEF Next, Loop, Listener

\* The device loop implements the state notifier: every notification is a
\* change, or one that infinite emission asked for; they reach the listener
\* once, in the order of setState, and never more than MaxEvents wait.
THEOREM ImplementsNotifierSafely == Spec => Notifier!SafeSpec
<1>1. QED
  BY NotifierInit, NotifierStep, LoopInvInit, LoopInvAlways, PTL
     DEF Spec, SafeSpec, Notifier!SafeSpec
==============================================================================
