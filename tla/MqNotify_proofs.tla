--------------------------- MODULE MqNotify_proofs ---------------------------
(***************************************************************************)
(* Theorems about MqNotify, for any number of messages and every build.    *)
(***************************************************************************)
EXTENDS MqNotify, TLAPS

\* The loop of the child goes on only while its counter is positive.
Typed == TypeOK /\ (childPc = "suspend" => i > 0)

LEMMA TypedInit == Init => Typed
<1> SUFFICES ASSUME Init
             PROVE  Typed
  OBVIOUS
<1>1. queue \in Seq(0 .. Messages - 1) /\ consumed \in Seq(0 .. Messages - 1)
  BY DEF Init
<1>2. i \in 0 .. Messages /\ toSend \in 0 .. Messages
  BY MessagesAssumption DEF Init
<1> QED BY <1>1, <1>2 DEF Init, Typed, TypeOK

\* A queue that loses its first message, or gains one.
LEMMA Moved ==
  ASSUME NEW S, NEW q \in Seq(S)
  PROVE  /\ q # << >> => Tail(q) \in Seq(S) /\ Head(q) \in S
         /\ \A e \in S : Append(q, e) \in Seq(S)
  OBVIOUS

LEMMA TypedStep == Typed /\ [Next]_vars => Typed'
<1> SUFFICES ASSUME Typed, [Next]_vars
             PROVE  Typed'
  OBVIOUS
<1> USE MessagesAssumption DEF Typed, TypeOK
<1>1. CASE HandleSignal
  <2>1. /\ childPc' \in {childPc, "receive", "killed"}
        /\ handled' \in Nat /\ pending' = FALSE
    BY <1>1 DEF HandleSignal
  <2>2. UNCHANGED << buildVars, queue, notify, caught, blocked, i, consumed, parentVars, exists >>
    BY <1>1 DEF HandleSignal
  <2>3. pending' \in BOOLEAN
    BY <2>1
  <2>4. childPc' = "suspend" => childPc = "suspend"
    BY <2>1
  <2> QED BY <2>1, <2>2, <2>3, <2>4 DEF buildVars, parentVars
<1>2. CASE SigAction
  BY <1>2 DEF SigAction, ChildAt, buildVars, kernelVars, parentVars
<1>3. CASE MqNotify
  BY <1>3 DEF MqNotify, Register, ChildAt, buildVars, parentVars
<1>4. CASE SigSuspend
  BY <1>4 DEF SigSuspend, ChildAt, buildVars, kernelVars, parentVars
<1>5. CASE MqReceive
  <2>1. CASE stale
    BY <1>5, <2>1 DEF MqReceive, ChildAt, buildVars, parentVars
  <2>2. CASE ~stale
    <3>1. queue' \in Seq(0 .. Messages - 1) /\ consumed' \in Seq(0 .. Messages - 1)
      <4>1. queue # << >> /\ queue' = Tail(queue) /\ consumed' = Append(consumed, Head(queue))
        BY <1>5, <2>2 DEF MqReceive
      <4> QED BY <4>1, Moved
    <3>2. blocked' \in BOOLEAN /\ i' \in 0 .. Messages
      BY <1>5, <2>2 DEF MqReceive
    <3> QED BY <1>5, <2>2, <3>1, <3>2 DEF MqReceive, buildVars, parentVars
  <2> QED BY <2>1, <2>2
<1>6. CASE Return
  BY <1>6 DEF Return, ChildAt, buildVars, kernelVars, parentVars
<1>7. CASE ChildUnlink
  BY <1>7 DEF ChildUnlink, ChildAt, buildVars, kernelVars, parentVars
<1>8. CASE MqSend
  <2>1. CASE stale \/ ~readable
    BY <1>8, <2>1 DEF MqSend, buildVars
  <2>2. CASE ~(stale \/ ~readable)
    <3>1. toSend' \in 0 .. Messages - 1
      BY <1>8 DEF MqSend
    <3>2. queue' \in Seq(0 .. Messages - 1)
      <4>1. queue' = Append(queue, toSend')
        BY <1>8, <2>2 DEF MqSend
      <4> QED BY <3>1, <4>1, Moved
    <3>3. /\ notify' \in {notify, "none"}
          /\ pending' \in BOOLEAN
          /\ childPc' \in {childPc, "killed"}
      BY <1>8, <2>2 DEF MqSend, Announce
    <3> QED BY <1>8, <3>1, <3>2, <3>3 DEF MqSend, buildVars
  <2> QED BY <2>1, <2>2
<1>9. CASE WaitPid
  BY <1>9 DEF WaitPid, buildVars, kernelVars, childVars
<1>10. CASE ParentUnlink
  <2>1. exists' \in BOOLEAN /\ parentPc' = "exit"
    BY <1>10 DEF ParentUnlink
  <2>2. UNCHANGED << buildVars, kernelVars, childVars, toSend >>
    BY <1>10 DEF ParentUnlink
  <2> QED BY <2>1, <2>2 DEF buildVars, kernelVars, childVars
<1>11. CASE UNCHANGED vars
  BY <1>11 DEF vars, buildVars, kernelVars, childVars, parentVars
<1> QED BY <1>1, <1>2, <1>3, <1>4, <1>5, <1>6, <1>7, <1>8, <1>9, <1>10, <1>11
        DEF Next, ChildStep, ParentStep

\* Every variable of MqNotify stays in its range; the child's loop counter never runs below
\* 0, though the messages overwrite it.
THEOREM TypeCorrect == Spec => []TypeOK
<1>1. Typed => TypeOK
  BY DEF Typed
<1> QED BY <1>1, TypedInit, TypedStep, PTL DEF Spec
-----------------------------------------------------------------------------
\* Signals and messages go together.  A pending signal announces a message that is still
\* queued, and none was in vain before it; the child that receives was woken for the message
\* it takes; and after a signal in vain the message stays in the queue, so that no other one
\* is announced.
Announced ==
    /\ stale => queue = << >>
    /\ handled \in {Len(consumed), Len(consumed) + 1}
    /\ pending => queue # << >> /\ handled = Len(consumed)
    /\ childPc = "receive" => handled = Len(consumed) + 1
    /\ handled = Len(consumed) + 1 => queue # << >> /\ ~pending

LEMMA AnnouncedStep == Typed /\ Announced /\ [Next]_vars => Announced'
<1> SUFFICES ASSUME Typed, Announced, [Next]_vars
             PROVE  Announced'
  OBVIOUS
<1> USE DEF Typed, TypeOK, Announced
<1>1. CASE HandleSignal
  BY <1>1 DEF HandleSignal, Interrupts, buildVars
<1>2. CASE MqReceive
  <2>1. ~stale /\ ~pending /\ handled = Len(consumed) + 1
    BY <1>2 DEF MqReceive, ChildAt
  <2>2. Len(consumed') = Len(consumed) + 1
    BY <1>2, <2>1 DEF MqReceive
  <2> QED BY <1>2, <2>1, <2>2 DEF MqReceive, buildVars
<1>3. CASE MqSend
  <2>1. CASE stale \/ ~readable
    BY <1>3, <2>1 DEF MqSend, buildVars
  <2>2. CASE ~(stale \/ ~readable)
    <3>1. queue' # << >>
      BY <1>3, <2>2 DEF MqSend
    <3>2. childPc' = "receive" => childPc = "receive"
      BY <1>3, <2>2 DEF MqSend, Announce
    <3>3. pending' => pending \/ queue = << >>
      BY <1>3, <2>2 DEF MqSend, Announce
    <3> QED BY <1>3, <2>2, <3>1, <3>2, <3>3 DEF MqSend, buildVars
  <2> QED BY <2>1, <2>2
<1>4. CASE SigAction \/ MqNotify \/ SigSuspend \/ Return \/ ChildUnlink
  BY <1>4 DEF SigAction, MqNotify, SigSuspend, Return, ChildUnlink, buildVars, kernelVars
<1>5. CASE WaitPid \/ ParentUnlink \/ UNCHANGED vars
  BY <1>5 DEF WaitPid, ParentUnlink, vars, buildVars, kernelVars, childVars
<1> QED BY <1>1, <1>2, <1>3, <1>4, <1>5 DEF Next, ChildStep, ParentStep

\* On every build, with any number of messages and sleeps of any length: the receive after
\* sigsuspend() finds a message, and at most one signal is handled in vain.
THEOREM SignalsAnnounce == Spec => []SignalledForMessage
<1>1. Init => Announced
  BY DEF Init, Announced
<1>2. Typed /\ Announced => SignalledForMessage
  BY DEF Typed, TypeOK, Announced, SignalledForMessage
<1> QED BY <1>1, <1>2, TypedInit, TypedStep, AnnouncedStep, PTL DEF Spec
-----------------------------------------------------------------------------
LEMMA LostStep == Typed /\ [Next]_vars /\ Lost => Lost'
<1> SUFFICES ASSUME Typed, [Next]_vars, Lost
             PROVE  Lost'
  OBVIOUS
<1>1. ~ChildStep
  BY DEF Lost, ChildStep, HandleSignal, SigAction, MqNotify, SigSuspend, MqReceive, Return,
         ChildUnlink, ChildAt, Interrupts
<1>2. CASE MqSend
  BY <1>2 DEF MqSend, Announce, Lost, Typed, TypeOK
<1>3. CASE WaitPid \/ ParentUnlink \/ UNCHANGED vars
  BY <1>3 DEF WaitPid, ParentUnlink, Lost, vars, kernelVars, childVars
<1> QED BY <1>1, <1>2, <1>3 DEF Next, ParentStep

\* On every build: a child that waits for a signal with a message in the queue is never
\* signalled again.
THEOREM LostStays == Spec => LostForGood
<1>1. Typed /\ [Next]_vars => [Lost => Lost']_vars
  BY LostStep
<1> QED BY <1>1, TypedInit, TypedStep, PTL DEF Spec, LostForGood
=============================================================================
