-------------------------- MODULE MqPrograms_proofs --------------------------
(***************************************************************************)
(* Theorems about MqPrograms, for any processes, programs and bounds.      *)
(***************************************************************************)
EXTENDS MqPrograms, FiniteSetTheorems, TLAPS

Actions(p) == Step(p) \/ Crash(p)

\* Every variable keeps its type, whatever programs run.
THEOREM TypeCorrect == Spec => []TypeOK
<1>1. Init => TypeOK
  <2>1. SUFFICES ASSUME Init PROVE TypeOK
    OBVIOUS
  <2>2. \A p \in Proc : Sends(p) \in Nat /\ Receives(p) \in Nat
    BY CountAssumption DEF Sends, Receives
  <2>3. box \in [Queue -> Seq(Message)]
    <3>1. [from |-> Old, left |-> 0] \in Message
      BY DEF Message, Queue
    <3>2. PICK old \in {<< >>, << [from |-> Old, left |-> 0] >>} :
            box = [q \in Queue |-> IF q = Old THEN old ELSE << >>]
      BY <2>1 DEF Init
    <3>3. old \in Seq(Message) /\ << >> \in Seq(Message)
      <4> DEFINE m == [from |-> Old, left |-> 0]
      <4>1. m \in Message
        BY <3>1
      <4> HIDE DEF m
      <4>2. << m >> \in Seq(Message)
        BY <4>1
      <4>3. << >> \in Seq(Message)
        OBVIOUS
      <4>4. old \in {<< >>, << m >>}
        BY <3>2 DEF m
      <4> QED BY <4>2, <4>3, <4>4
    <3> QED BY <3>2, <3>3
  <2>4. pc \in [Proc -> {"clear", "open", "reopen", "run", "unlink", "exit", "crashed"}]
    BY <2>1 DEF Init
  <2> QED BY <2>1, <2>2, <2>3, <2>4 DEF Init, TypeOK, Queue
<1>2. TypeOK /\ [Next]_vars => TypeOK'
  <2>1. SUFFICES ASSUME TypeOK, NEW p \in Proc, Actions(p) PROVE TypeOK'
    BY DEF Next, Actions, vars, TypeOK
  <2>2. CASE Clear(p)
    BY <2>1, <2>2 DEF TypeOK, Clear, SetName, Goto, Fixed
  <2>3. CASE OpenExclusive(p)
    BY <2>1, <2>3 DEF TypeOK, OpenExclusive, Create, SetName, Goto, Fixed, Queue
  <2>4. CASE OpenOrCreate(p)
    BY <2>1, <2>4 DEF TypeOK, OpenOrCreate, Create, SetName, Goto, Fixed, Queue
  <2>5. CASE OpenFirst(p)
    <3>1. CASE name = None
      BY <2>1, <2>5, <3>1 DEF TypeOK, OpenFirst, Create, SetName, Goto, Fixed, Queue
    <3>2. CASE name # None
      BY <2>1, <2>5, <3>2 DEF TypeOK, OpenFirst, Goto, Fixed
    <3> QED BY <3>1, <3>2
  <2>6. CASE Reopen(p)
    BY <2>1, <2>6 DEF TypeOK, Reopen, Goto, Fixed
  <2>7. CASE Unlink(p)
    BY <2>1, <2>7 DEF TypeOK, Unlink, SetName, Goto, Fixed
  <2>8. CASE Send(p)
    <3>1. toSend' \in [Proc -> Nat] /\ toSend'[p] \in Nat
      BY <2>1, <2>8 DEF TypeOK, Send
    <3>2. [from |-> p, left |-> toSend'[p]] \in Message
      BY <3>1 DEF Message, Queue
    <3>3. box' \in [Queue -> Seq(Message)]
      <4>1. CASE fd[p] # None /\ readable[p]
        <5> DEFINE m == [from |-> p, left |-> toSend'[p]]
        <5>1. box[fd[p]] \in Seq(Message) /\ m \in Message
          BY <2>1, <3>2, <4>1 DEF TypeOK
        <5>2. box' = [box EXCEPT ![fd[p]] = Append(box[fd[p]], m)]
          BY <2>8, <4>1 DEF Send
        <5> HIDE DEF m
        <5>3. Append(box[fd[p]], m) \in Seq(Message)
          BY <5>1
        <5> QED BY <2>1, <5>2, <5>3 DEF TypeOK
      <4>2. CASE ~(fd[p] # None /\ readable[p])
        BY <2>1, <2>8, <4>2 DEF TypeOK, Send
      <4> QED BY <4>1, <4>2
    <3> QED BY <2>1, <2>8, <3>1, <3>3 DEF TypeOK, Send
  <2>9. CASE Receive(p)
    <3>1. toReceive' \in [Proc -> Nat]
      BY <2>1, <2>9 DEF TypeOK, Receive
    <3>2. CASE fd[p] # None
      <4>1. box[fd[p]] \in Seq(Message) /\ box[fd[p]] # << >>
        BY <2>1, <2>9, <3>2 DEF TypeOK, Receive
      <4>2. Head(box[fd[p]]) \in Message /\ Tail(box[fd[p]]) \in Seq(Message)
        BY <4>1
      <4> DEFINE m == Head(box[fd[p]])
                 t == Tail(box[fd[p]])
      <4>a. /\ box' = [box EXCEPT ![fd[p]] = t]
            /\ got' = [got EXCEPT ![p] = Append(got[p], m)]
        BY <2>9, <3>2 DEF Receive
      <4>b. Append(got[p], m) \in Seq(Message)
        BY <2>1, <4>2 DEF TypeOK
      <4>3. box' \in [Queue -> Seq(Message)] /\ got' \in [Proc -> Seq(Message)]
        <5> HIDE DEF m, t
        <5> QED BY <2>1, <4>2, <4>a, <4>b DEF TypeOK, m, t
      <4> QED BY <2>1, <2>9, <3>1, <4>3 DEF TypeOK, Receive
    <3>3. CASE fd[p] = None
      BY <2>1, <2>9, <3>1, <3>3 DEF TypeOK, Receive
    <3> QED BY <3>2, <3>3
  <2>10. CASE Finish(p)
    BY <2>1, <2>10 DEF TypeOK, Finish, Goto, Fixed
  <2>11. CASE Crash(p)
    BY <2>1, <2>11 DEF TypeOK, Crash, Goto, Fixed
  <2> QED BY <2>1, <2>2, <2>3, <2>4, <2>5, <2>6, <2>7, <2>8, <2>9, <2>10, <2>11
          DEF Actions, Step
<1> QED BY <1>1, <1>2, PTL DEF Spec
-----------------------------------------------------------------------------
\* What makes OpenFailsOnlyInRace inductive: while a process is between its two calls
\* the name is as the first call found or left it, or the process is in raced.
RaceInv ==
    \A p \in Proc :
        /\ (pc[p] = "run" /\ fd[p] = None) => p \in raced
        /\ pc[p] = "reopen" => (name # None \/ p \in raced)
        /\ (p \in Pattern /\ pc[p] = "open") => (name = None \/ p \in raced)

\* Only a process that lost a race has a descriptor of -1.
THEOREM OpenFails == Spec => []OpenFailsOnlyInRace
<1>1. Init => RaceInv
  BY DEF Init, RaceInv, Pattern, Unlinker
<1>2. TypeOK /\ RaceInv /\ [Next]_vars => RaceInv'
  <2>1. SUFFICES ASSUME TypeOK, RaceInv, NEW p \in Proc, Actions(p) PROVE RaceInv'
    BY DEF Next, Actions, vars, RaceInv
  <2> USE NoneAssumption, <2>1 DEF TypeOK, RaceInv, Queue
  <2>2. CASE Clear(p)
    BY <2>2 DEF Clear, SetName, Goto, Fixed, MidOpen
  <2>3. CASE OpenExclusive(p)
    BY <2>3 DEF OpenExclusive, Create, SetName, Goto, Fixed, MidOpen
  <2>4. CASE OpenOrCreate(p)
    BY <2>4 DEF OpenOrCreate, Create, SetName, Goto, Fixed, MidOpen
  <2>5. CASE OpenFirst(p)
    BY <2>5 DEF OpenFirst, Create, SetName, Goto, Fixed, MidOpen
  <2>6. CASE Reopen(p)
    BY <2>6 DEF Reopen, Goto, Fixed
  <2>7. CASE Unlink(p)
    BY <2>7 DEF Unlink, SetName, Goto, Fixed, MidOpen
  <2>8. CASE Send(p)
    BY <2>8 DEF Send
  <2>9. CASE Receive(p)
    BY <2>9 DEF Receive
  <2>10. CASE Finish(p)
    BY <2>10 DEF Finish, Goto, Fixed
  <2>11. CASE Crash(p)
    BY <2>11 DEF Crash, Goto, Fixed
  <2> QED BY <2>2, <2>3, <2>4, <2>5, <2>6, <2>7, <2>8, <2>9, <2>10, <2>11
          DEF Actions, Step
<1>3. RaceInv => OpenFailsOnlyInRace
  BY DEF RaceInv, OpenFailsOnlyInRace
<1> QED BY <1>1, <1>2, <1>3, TypeCorrect, PTL DEF Spec
-----------------------------------------------------------------------------
\* What makes PatternReceivesJoiners inductive: a descriptor is set once, a pattern's is
\* its own queue or -1, and what lies in the queue a process made was sent by processes
\* that have it open.
Unopened == \A p \in Proc : pc[p] \in {"clear", "open", "reopen"} => fd[p] = None

OwnQueue == \A p \in Pattern : fd[p] \in {None, p}

SentByJoiners ==
    \A q \in Proc : \A k \in DOMAIN box[q] : box[q][k].from \in Proc /\ fd[box[q][k].from] = q

JoinInv == Unopened /\ OwnQueue /\ SentByJoiners /\ PatternReceivesJoiners

\* An open by p leaves JoinInv true: no message is from p yet.
LEMMA OpenKeeps ==
    ASSUME TypeOK, JoinInv, NEW p \in Proc, NEW f, fd[p] = None,
           fd' = [fd EXCEPT ![p] = f],
           p \in Pattern => f \in {None, p},
           pc' = [pc EXCEPT ![p] = "run"],
           box' = box, got' = got
    PROVE  JoinInv'
<1> USE NoneAssumption DEF TypeOK, Queue
<1>1. \A r \in Proc : fd[r] # None => fd'[r] = fd[r]
  OBVIOUS
<1>2. SentByJoiners'
  BY <1>1 DEF JoinInv, SentByJoiners
<1>3. PatternReceivesJoiners'
  BY <1>1 DEF JoinInv, PatternReceivesJoiners, Pattern
<1>4. Unopened' /\ OwnQueue'
  BY DEF JoinInv, Unopened, OwnQueue, Pattern
<1> QED BY <1>2, <1>3, <1>4 DEF JoinInv

\* The programs of 04 receive nothing but what was sent to the queue they made.
THEOREM PatternFresh == Spec => []PatternReceivesJoiners
<1>1. Init => JoinInv
  BY NoneAssumption, OldAssumption
     DEF Init, JoinInv, Unopened, OwnQueue, SentByJoiners, PatternReceivesJoiners,
         Pattern, Queue
<1>2. TypeOK /\ JoinInv /\ [Next]_vars => JoinInv'
  <2>1. SUFFICES ASSUME TypeOK, JoinInv, NEW p \in Proc, Actions(p) PROVE JoinInv'
    BY DEF Next, Actions, vars, JoinInv, Unopened, OwnQueue, SentByJoiners,
           PatternReceivesJoiners
  <2>2. ASSUME UNCHANGED << fd, box, got >>, NEW l, pc' = [pc EXCEPT ![p] = l],
               l \in {"open", "reopen"} => fd[p] = None,
               l # "clear"
        PROVE  JoinInv'
    <3>1. Unopened'
      BY <2>1, <2>2 DEF TypeOK, JoinInv, Unopened
    <3> QED BY <2>1, <2>2, <3>1
            DEF JoinInv, OwnQueue, SentByJoiners, PatternReceivesJoiners
  <2>3. CASE Clear(p)
    BY <2>1, <2>2, <2>3 DEF Clear, Goto, Fixed, JoinInv, Unopened
  <2>4. CASE OpenExclusive(p)
    <3>1. fd[p] = None
      BY <2>1, <2>4 DEF OpenExclusive, JoinInv, Unopened
    <3>2. CASE name = None
      BY <2>1, <2>4, <3>1, <3>2, OpenKeeps DEF OpenExclusive, Create, Goto, Fixed
    <3>3. CASE name # None
      BY <2>1, <2>2, <2>4, <3>3 DEF OpenExclusive, Goto, Fixed
    <3> QED BY <3>2, <3>3
  <2>5. CASE OpenOrCreate(p)
    <3>1. fd[p] = None /\ p \notin Pattern
      BY <2>1, <2>5 DEF OpenOrCreate, JoinInv, Unopened, Opener, Pattern
    <3> QED BY <2>1, <2>5, <3>1, OpenKeeps DEF OpenOrCreate, Create, Goto, Fixed
  <2>6. CASE OpenFirst(p)
    <3>1. fd[p] = None /\ p \notin Pattern
      BY <2>1, <2>6 DEF OpenFirst, JoinInv, Unopened, Simple, Pattern
    <3>2. CASE name = None
      BY <2>1, <2>6, <3>1, <3>2, OpenKeeps DEF OpenFirst, Create, Goto, Fixed
    <3>3. CASE name # None
      BY <2>1, <2>2, <2>6, <3>1, <3>3 DEF OpenFirst, Goto, Fixed
    <3> QED BY <3>2, <3>3
  <2>7. CASE Reopen(p)
    <3>1. fd[p] = None /\ p \notin Pattern
      BY <2>1, <2>7 DEF Reopen, JoinInv, Unopened, Simple, Pattern
    <3> QED BY <2>1, <2>7, <3>1, OpenKeeps DEF Reopen, Goto, Fixed
  <2>8. CASE Unlink(p)
    BY <2>1, <2>2, <2>8 DEF Unlink, Goto, Fixed
  <2>9. CASE Send(p)
    <3>1. CASE fd[p] # None /\ readable[p]
      <4> DEFINE m == [from |-> p, left |-> toSend'[p]]
      <4>1. fd[p] \in Queue /\ box[fd[p]] \in Seq(Message)
        BY <2>1, <3>1 DEF TypeOK
      <4>2. box' = [box EXCEPT ![fd[p]] = Append(@, m)]
        BY <2>9, <3>1 DEF Send
      <4>3. m.from = p
        OBVIOUS
      <4> HIDE DEF m
      <4>4. fd' = fd
        BY <2>9 DEF Send
      <4>5. ASSUME NEW q \in Proc, NEW k \in DOMAIN box'[q]
            PROVE  box'[q][k].from \in Proc /\ fd[box'[q][k].from] = q
        <5>1. CASE q # fd[p]
          BY <2>1, <4>2, <4>5, <5>1 DEF TypeOK, Queue, JoinInv, SentByJoiners
        <5>2. CASE q = fd[p]
          <6>1. box'[q] = Append(box[q], m) /\ box[q] \in Seq(Message)
            BY <2>1, <4>1, <4>2, <5>2 DEF TypeOK
          <6>2. CASE k = Len(box[q]) + 1
            BY <4>3, <5>2, <6>1, <6>2
          <6>3. CASE k # Len(box[q]) + 1
            <7>1. k \in DOMAIN box[q] /\ box'[q][k] = box[q][k]
              BY <4>5, <6>1, <6>3
            <7> QED BY <2>1, <7>1 DEF JoinInv, SentByJoiners
          <6> QED BY <6>2, <6>3
        <5> QED BY <5>1, <5>2
      <4>6. SentByJoiners'
        BY <4>4, <4>5 DEF SentByJoiners
      <4>7. UNCHANGED << pc, got >>
        BY <2>9 DEF Send
      <4> QED BY <2>1, <4>4, <4>6, <4>7
              DEF JoinInv, Unopened, OwnQueue, PatternReceivesJoiners
    <3>2. CASE ~(fd[p] # None /\ readable[p])
      BY <2>1, <2>9, <3>2 DEF Send, JoinInv, Unopened, OwnQueue, SentByJoiners,
                                   PatternReceivesJoiners
    <3> QED BY <3>1, <3>2
  <2>10. CASE Receive(p)
    <3>1. CASE fd[p] # None
      <4> DEFINE f == fd[p]
      <4>1. f \in Queue /\ box[f] \in Seq(Message) /\ box[f] # << >>
        BY <2>1, <2>10, <3>1 DEF TypeOK, Receive
      <4>2. /\ UNCHANGED << pc, fd >>
            /\ box' = [box EXCEPT ![f] = Tail(@)]
            /\ got' = [got EXCEPT ![p] = Append(@, Head(box[f]))]
        BY <2>10, <3>1 DEF Receive
      <4>3. ASSUME NEW q \in Proc, NEW k \in DOMAIN box'[q]
            PROVE  box'[q][k].from \in Proc /\ fd[box'[q][k].from] = q
        <5>1. CASE q # f
          BY <2>1, <4>2, <4>3, <5>1 DEF TypeOK, Queue, JoinInv, SentByJoiners
        <5>2. CASE q = f
          <6>1. box'[q] = Tail(box[q])
            BY <2>1, <4>1, <4>2, <5>2 DEF TypeOK
          <6>2. k + 1 \in DOMAIN box[q] /\ box'[q][k] = box[q][k + 1]
            BY <4>1, <4>3, <5>2, <6>1
          <6> QED BY <2>1, <6>2 DEF JoinInv, SentByJoiners
        <5> QED BY <5>1, <5>2
      <4>4. SentByJoiners'
        BY <4>2, <4>3 DEF SentByJoiners
      <4>5. ASSUME NEW r \in Pattern, NEW k \in DOMAIN got'[r]
            PROVE  got'[r][k].from \in Proc /\ fd[got'[r][k].from] = r
        <5>1. CASE r # p
          BY <2>1, <4>2, <4>5, <5>1
             DEF TypeOK, Pattern, JoinInv, PatternReceivesJoiners
        <5>2. CASE r = p
          <6>1. f = p
            BY <2>1, <3>1, <4>5, <5>2 DEF JoinInv, OwnQueue
          <6>2. Head(box[p]).from \in Proc /\ fd[Head(box[p]).from] = p
            <7>1. 1 \in DOMAIN box[p] /\ Head(box[p]) = box[p][1]
              BY <4>1, <6>1
            <7> QED BY <2>1, <7>1 DEF JoinInv, SentByJoiners
          <6>3. got'[p] = Append(got[p], Head(box[p])) /\ got[p] \in Seq(Message)
            BY <2>1, <4>2, <6>1 DEF TypeOK
          <6>4. CASE k = Len(got[p]) + 1
            BY <5>2, <6>2, <6>3, <6>4
          <6>5. CASE k # Len(got[p]) + 1
            <7>1. k \in DOMAIN got[p] /\ got'[p][k] = got[p][k]
              BY <4>5, <5>2, <6>3, <6>5
            <7> QED BY <2>1, <4>5, <5>2, <7>1 DEF JoinInv, PatternReceivesJoiners
          <6> QED BY <6>4, <6>5
        <5> QED BY <5>1, <5>2
      <4>6. PatternReceivesJoiners'
        BY <4>2, <4>5 DEF PatternReceivesJoiners
      <4> QED BY <2>1, <4>2, <4>4, <4>6 DEF JoinInv, Unopened, OwnQueue
    <3>2. CASE fd[p] = None
      BY <2>1, <2>10, <3>2 DEF Receive, JoinInv, Unopened, OwnQueue, SentByJoiners,
                                   PatternReceivesJoiners
    <3> QED BY <3>1, <3>2
  <2>11. CASE Finish(p)
    BY <2>1, <2>2, <2>11 DEF Finish, Goto, Fixed
  <2>12. CASE Crash(p)
    BY <2>1, <2>2, <2>12 DEF Crash, Goto, Fixed
  <2> QED BY <2>1, <2>3, <2>4, <2>5, <2>6, <2>7, <2>8, <2>9, <2>10, <2>11, <2>12
          DEF Actions, Step
<1>3. JoinInv => PatternReceivesJoiners
  BY DEF JoinInv
<1> QED BY <1>1, <1>2, <1>3, TypeCorrect, PTL DEF Spec
-----------------------------------------------------------------------------
\* What makes BalancedAreOwed and ReceiverIsOwed inductive.  Before its queue is open a process
\* has neither sent nor received; afterwards it counts what it receives, each message it no
\* longer has to send is in that queue or was received from it, and it ends only when it has
\* sent all; only finitely many processes have received anything yet.
Opening == {"clear", "open", "reopen"}

Sent(p, k) == [from |-> p, left |-> k]
Kept(p, k) == \E i \in DOMAIN box[fd[p]] : box[fd[p]][i] = Sent(p, k)
Received(p, k) ==
    \E r \in Proc : fd[r] = fd[p] /\ \E i \in DOMAIN got[r] : got[r][i] = Sent(p, k)

Fresh == \A p \in Proc : pc[p] \in Opening =>
    fd[p] = None /\ toSend[p] = Sends(p) /\ toReceive[p] = Receives(p) /\ got[p] = << >>

Counts == \A p \in Proc : fd[p] # None =>
    /\ Len(got[p]) = Receives(p) - toReceive[p]
    /\ pc[p] \in {"unlink", "exit"} => toSend[p] = 0

Accounts == \A p \in Proc : fd[p] # None /\ readable[p] =>
    \A k \in Nat : toSend[p] <= k /\ k < Sends(p) => Kept(p, k) \/ Received(p, k)

OwedInv ==
    /\ Fresh /\ Counts /\ Accounts
    /\ \A p \in Proc : Kind[p] # "sender" => readable[p]
    /\ IsFiniteSet({p \in Proc : got[p] # << >>})

LEMMA OwedInit == Init => OwedInv
<1> SUFFICES ASSUME Init
             PROVE  OwedInv
  OBVIOUS
<1>1. /\ \A p \in Proc : fd[p] = None /\ got[p] = << >>
      /\ \A p \in Proc : toSend[p] = Sends(p) /\ toReceive[p] = Receives(p)
      /\ \A p \in Proc : Kind[p] # "sender" => readable[p]
  BY DEF Init
<1>2. Fresh /\ Counts /\ Accounts
  BY <1>1 DEF Fresh, Counts, Accounts
<1>3. {p \in Proc : got[p] # << >>} = {}
  BY <1>1
<1> QED BY <1>1, <1>2, <1>3, FS_EmptySet DEF OwedInv

\* Steps that only move a process on.
LEMMA MoveKeepsOwed ==
    ASSUME TypeOK, OwedInv, NEW p \in Proc, NEW l, pc' = [pc EXCEPT ![p] = l],
           l \in Opening => pc[p] \in Opening,
           l \in {"unlink", "exit"} => fd[p] = None \/ toSend[p] = 0,
           UNCHANGED << fd, box, toSend, toReceive, readable, got >>
    PROVE  OwedInv'
<1>1. \A r \in Proc : pc'[r] = IF r = p THEN l ELSE pc[r]
  BY DEF TypeOK
<1>2. Fresh' /\ Counts'
  BY <1>1 DEF OwedInv, Fresh, Counts, Sends, Receives
<1>3. Accounts'
  BY DEF OwedInv, Accounts, Kept, Received, Sends
<1>4. (\A r \in Proc : Kind[r] # "sender" => readable[r])'
      /\ IsFiniteSet({r \in Proc : got[r] # << >>})'
  BY DEF OwedInv
<1> QED BY <1>2, <1>3, <1>4 DEF OwedInv

\* Steps that open a queue: nothing was sent yet, and nothing received.
LEMMA OpenKeepsOwed ==
    ASSUME TypeOK, OwedInv, NEW p \in Proc, NEW f, pc[p] \in Opening,
           fd' = [fd EXCEPT ![p] = f], pc' = [pc EXCEPT ![p] = "run"],
           UNCHANGED << box, toSend, toReceive, readable, got >>
    PROVE  OwedInv'
<1>1. fd[p] = None /\ toSend[p] = Sends(p) /\ toReceive[p] = Receives(p) /\ got[p] = << >>
  BY DEF OwedInv, Fresh
<1>2. \A r \in Proc : pc'[r] = (IF r = p THEN "run" ELSE pc[r]) /\ fd'[r] = IF r = p THEN f ELSE fd[r]
  BY DEF TypeOK
<1>3. Fresh'
  BY <1>2 DEF OwedInv, Fresh, Opening
<1>4. Counts'
  <2>1. \A n \in Nat : n - n = 0
    OBVIOUS
  <2>2. toReceive[p] \in Nat /\ Len(got[p]) = 0
    BY <1>1 DEF TypeOK
  <2> QED BY <1>1, <1>2, <2>1, <2>2 DEF OwedInv, Counts
<1>5. ASSUME NEW r \in Proc, fd'[r] # None /\ readable[r], NEW k \in Nat, toSend[r] <= k, k < Sends(r)
      PROVE  Kept(r, k)' \/ Received(r, k)'
  <2>1. r # p
    BY <1>1, <1>5 DEF TypeOK
  <2>2. fd'[r] = fd[r] /\ (Kept(r, k) \/ Received(r, k))
    BY <1>2, <1>5, <2>1 DEF OwedInv, Accounts
  <2>3. Kept(r, k) => Kept(r, k)'
    BY <2>2 DEF Kept
  <2>4. ASSUME Received(r, k)
        PROVE  Received(r, k)'
    <3>1. PICK x \in Proc : fd[x] = fd[r] /\ \E i \in DOMAIN got[x] : got[x][i] = Sent(r, k)
      BY <2>4 DEF Received
    <3>2. x # p
      BY <1>1, <3>1
    <3> QED BY <1>2, <2>2, <3>1, <3>2 DEF Received, Sent
  <2> QED BY <2>2, <2>3, <2>4
<1>6. Accounts'
  BY <1>5 DEF Accounts, Sends
<1>7. (\A r \in Proc : Kind[r] # "sender" => readable[r])'
      /\ IsFiniteSet({r \in Proc : got[r] # << >>})'
  BY DEF OwedInv
<1> QED BY <1>3, <1>4, <1>6, <1>7 DEF OwedInv

LEMMA SendKeepsOwed ==
    ASSUME TypeOK, OwedInv, NEW p \in Proc, Send(p)
    PROVE  OwedInv'
<1> DEFINE m == Sent(p, toSend'[p])
<1>1. /\ UNCHANGED << pc, fd, toReceive, readable, got >> /\ pc[p] = "run"
      /\ toSend' = [toSend EXCEPT ![p] = toSend[p] - 1] /\ toSend[p] > 0 /\ toSend[p] \in Nat
      /\ \A r \in Proc : r # p => toSend'[r] = toSend[r]
  BY DEF Send, TypeOK
<1>2. toSend'[p] = toSend[p] - 1
  BY <1>1 DEF TypeOK
<1>3. Fresh'
  BY <1>1 DEF OwedInv, Fresh, Opening, Sends, Receives
<1>4. Counts'
  BY <1>1 DEF OwedInv, Counts, Receives
<1>5. \A r \in Proc : fd[r] # None => \A i \in DOMAIN box[fd[r]] :
        i \in DOMAIN box'[fd[r]] /\ box'[fd[r]][i] = box[fd[r]][i]
  <2>1. CASE fd[p] # None /\ readable[p]
    <3>1. box' = [box EXCEPT ![fd[p]] = Append(box[fd[p]], m)]
      BY <2>1 DEF Send, Sent
    <3>2. fd[p] \in Queue /\ box[fd[p]] \in Seq(Message)
      BY <2>1 DEF TypeOK
    <3>3. \A i \in DOMAIN box[fd[p]] : i \in DOMAIN Append(box[fd[p]], m)
                                    /\ Append(box[fd[p]], m)[i] = box[fd[p]][i]
      <4> HIDE DEF m
      <4> QED BY <3>2
    <3> HIDE DEF m
    <3> QED BY <3>1, <3>2, <3>3 DEF TypeOK
  <2>2. CASE ~(fd[p] # None /\ readable[p])
    BY <2>2 DEF Send
  <2> QED BY <2>1, <2>2
<1>6. \A r \in Proc, k \in Nat : fd[r] # None /\ Kept(r, k) => Kept(r, k)'
  BY <1>1, <1>5 DEF Kept, Sent
<1>7. \A r \in Proc, k \in Nat : Received(r, k) => Received(r, k)'
  BY <1>1 DEF Received, Sent
<1>8. ASSUME fd[p] # None /\ readable[p], NEW k \in Nat, k = toSend'[p]
      PROVE  Kept(p, k)'
  <2>1. box' = [box EXCEPT ![fd[p]] = Append(box[fd[p]], m)]
    BY <1>8 DEF Send, Sent
  <2>2. fd[p] \in Queue /\ box[fd[p]] \in Seq(Message)
    BY <1>8 DEF TypeOK
  <2> DEFINE n == Len(box[fd[p]]) + 1
  <2>3. n \in DOMAIN Append(box[fd[p]], m) /\ Append(box[fd[p]], m)[n] = m
    <3> HIDE DEF m
    <3> QED BY <2>2
  <2>4. box'[fd[p]] = Append(box[fd[p]], m)
    BY <2>1, <2>2 DEF TypeOK
  <2>5. \E i \in DOMAIN box'[fd[p]] : box'[fd[p]][i] = Sent(p, k)
    BY <1>8, <2>3, <2>4
  <2> QED BY <1>1, <2>5 DEF Kept, Sent
<1>9. ASSUME NEW r \in Proc, fd[r] # None /\ readable[r], NEW k \in Nat, toSend'[r] <= k, k < Sends(r)
      PROVE  Kept(r, k)' \/ Received(r, k)'
  <2>1. CASE toSend[r] <= k
    BY <1>6, <1>7, <1>9, <2>1 DEF OwedInv, Accounts
  <2>2. CASE ~(toSend[r] <= k)
    <3>1. r = p /\ k = toSend'[p]
      BY <1>1, <1>2, <1>9, <2>2 DEF TypeOK
    <3> QED BY <1>8, <1>9, <3>1
  <2> QED BY <2>1, <2>2
<1>10. Accounts'
  BY <1>1, <1>9 DEF Accounts, Sends
<1>11. (\A r \in Proc : Kind[r] # "sender" => readable[r])'
       /\ IsFiniteSet({r \in Proc : got[r] # << >>})'
  BY <1>1 DEF OwedInv
<1> QED BY <1>3, <1>4, <1>10, <1>11 DEF OwedInv

LEMMA ReceiveKeepsOwed ==
    ASSUME TypeOK, OwedInv, NEW p \in Proc, Receive(p)
    PROVE  OwedInv'
<1>1. /\ UNCHANGED << pc, fd, toSend, readable >> /\ pc[p] = "run"
      /\ toReceive' = [toReceive EXCEPT ![p] = toReceive[p] - 1] /\ toReceive[p] \in Nat
  BY DEF Receive, TypeOK
<1>2. Fresh'
  <2>1. \A r \in Proc : r # p => toReceive'[r] = toReceive[r] /\ got'[r] = got[r]
    BY <1>1 DEF Receive, TypeOK
  <2> QED BY <1>1, <2>1 DEF OwedInv, Fresh, Opening, Sends, Receives
<1>3. CASE fd[p] = None
  <2>1. UNCHANGED << box, got >>
    BY <1>3 DEF Receive
  <2>2. Counts'
    BY <1>1, <1>3, <2>1 DEF OwedInv, Counts, Receives, TypeOK
  <2>3. Accounts'
    BY <1>1, <2>1 DEF OwedInv, Accounts, Kept, Received, Sends
  <2> QED BY <1>1, <1>2, <2>1, <2>2, <2>3 DEF OwedInv
<1>4. CASE fd[p] # None
  <2> DEFINE q == fd[p]
             m == Head(box[q])
  <2>1. /\ q \in Queue /\ box[q] \in Seq(Message) /\ box[q] # << >> /\ got[p] \in Seq(Message)
        /\ box' = [box EXCEPT ![q] = Tail(box[q])]
        /\ got' = [got EXCEPT ![p] = Append(got[p], m)]
    BY <1>4 DEF Receive, TypeOK
  <2>2. /\ m = box[q][1] /\ m \in Message
        /\ \A i \in DOMAIN box[q] : i # 1 => i - 1 \in DOMAIN Tail(box[q]) /\ Tail(box[q])[i - 1] = box[q][i]
    BY <2>1
  <2> HIDE DEF m
  <2>3. /\ Len(got'[p]) = Len(got[p]) + 1 /\ Len(got[p]) \in Nat
        /\ Len(got[p]) + 1 \in DOMAIN got'[p] /\ got'[p][Len(got[p]) + 1] = m
        /\ \A i \in DOMAIN got[p] : i \in DOMAIN got'[p] /\ got'[p][i] = got[p][i]
    <3>1. got'[p] = Append(got[p], m)
      BY <2>1 DEF TypeOK
    <3> QED BY <2>1, <2>2, <3>1
  <2>4. /\ \A r \in Proc : r # p => got'[r] = got[r]
        /\ \A x \in Queue : x # q => box'[x] = box[x]
        /\ box'[q] = Tail(box[q])
    BY <2>1 DEF TypeOK
  <2>5. Counts'
    <3>1. Len(got[p]) = Receives(p) - toReceive[p] /\ Receives(p) \in Nat
      BY <1>4, CountAssumption DEF OwedInv, Counts, Receives
    <3>2. Len(got'[p]) = Receives(p) - toReceive'[p] /\ toReceive'[p] = toReceive[p] - 1
      BY <1>1, <2>3, <3>1 DEF TypeOK
    <3>3. \A r \in Proc : r # p => toReceive'[r] = toReceive[r]
      BY <1>1 DEF TypeOK
    <3> QED BY <1>1, <2>4, <3>2, <3>3 DEF OwedInv, Counts, Receives
  <2>6. \A r \in Proc, k \in Nat : Received(r, k) => Received(r, k)'
    BY <1>1, <2>3, <2>4 DEF Received, Sent
  <2>7. ASSUME NEW r \in Proc, NEW k \in Nat, fd[r] # None, Kept(r, k)
        PROVE  Kept(r, k)' \/ Received(r, k)'
    <3>1. PICK i \in DOMAIN box[fd[r]] : box[fd[r]][i] = Sent(r, k)
      BY <2>7 DEF Kept
    <3>2. CASE fd[r] # q
      BY <1>1, <2>4, <2>7, <3>1, <3>2 DEF Kept, Sent, TypeOK
    <3>3. CASE fd[r] = q /\ i = 1
      <4>1. got'[p][Len(got[p]) + 1] = Sent(r, k) /\ fd[p] = fd[r]
        BY <2>2, <2>3, <3>1, <3>3
      <4> QED BY <1>1, <2>3, <4>1 DEF Received, Sent
    <3>4. CASE fd[r] = q /\ i # 1
      <4>1. i - 1 \in DOMAIN box'[q] /\ box'[q][i - 1] = Sent(r, k)
        BY <2>2, <2>4, <3>1, <3>4
      <4> QED BY <1>1, <3>4, <4>1 DEF Kept, Sent
    <3> QED BY <3>2, <3>3, <3>4
  <2>8. Accounts'
    BY <1>1, <2>6, <2>7 DEF OwedInv, Accounts, Sends
  <2>9. IsFiniteSet({r \in Proc : got'[r] # << >>})
    <3> DEFINE A == {r \in Proc : got[r] # << >>}
    <3>1. {r \in Proc : got'[r] # << >>} \subseteq A \cup {p}
      BY <2>4
    <3>2. IsFiniteSet(A \cup {p})
      BY FS_AddElement DEF OwedInv
    <3> QED BY <3>1, <3>2, FS_Subset
  <2> QED BY <1>1, <1>2, <2>5, <2>8, <2>9 DEF OwedInv
<1> QED BY <1>3, <1>4

LEMMA OwedStep == TypeOK /\ OwedInv /\ [Next]_vars => OwedInv'
<1>1. CASE UNCHANGED vars
  BY <1>1 DEF vars, OwedInv, Fresh, Counts, Accounts, Kept, Received, Sends, Receives
<1>2. SUFFICES ASSUME TypeOK, OwedInv, NEW p \in Proc, Actions(p)
               PROVE  OwedInv'
  BY <1>1 DEF Next, Actions
<1> DEFINE Opens == /\ pc[p] \in Opening /\ pc' = [pc EXCEPT ![p] = "run"]
                    /\ UNCHANGED << box, toSend, toReceive, readable, got >>
<1>3. CASE Clear(p)
  BY <1>2, <1>3, MoveKeepsOwed DEF Clear, Goto, Fixed, Opening
<1>4. CASE OpenExclusive(p)
  <2>1. CASE name = None
    <3>1. fd' = [fd EXCEPT ![p] = p] /\ Opens
      BY <1>4, <2>1 DEF OpenExclusive, Create, Goto, Fixed, Opening
    <3> QED BY <1>2, <3>1, OpenKeepsOwed
  <2>2. CASE name # None
    BY <1>2, <1>4, <2>2, MoveKeepsOwed DEF OpenExclusive, Goto, Fixed, Opening
  <2> QED BY <2>1, <2>2
<1>5. CASE OpenOrCreate(p)
  <2>1. Opens /\ \E f : fd' = [fd EXCEPT ![p] = f]
    BY <1>5 DEF OpenOrCreate, Create, Goto, Fixed, Opening
  <2> QED BY <1>2, <2>1, OpenKeepsOwed
<1>6. CASE OpenFirst(p)
  <2>1. CASE name = None
    <3>1. fd' = [fd EXCEPT ![p] = p] /\ Opens
      BY <1>6, <2>1 DEF OpenFirst, Create, Goto, Fixed, Opening
    <3> QED BY <1>2, <3>1, OpenKeepsOwed
  <2>2. CASE name # None
    BY <1>2, <1>6, <2>2, MoveKeepsOwed DEF OpenFirst, Goto, Fixed, Opening
  <2> QED BY <2>1, <2>2
<1>7. CASE Reopen(p)
  <2>1. fd' = [fd EXCEPT ![p] = name] /\ Opens
    BY <1>7 DEF Reopen, Goto, Fixed, Opening
  <2> QED BY <1>2, <2>1, OpenKeepsOwed
<1>8. CASE Unlink(p)
  <2>1. fd[p] = None \/ toSend[p] = 0
    BY <1>2, <1>8 DEF Unlink, OwedInv, Counts
  <2> QED BY <1>2, <1>8, <2>1, MoveKeepsOwed DEF Unlink, Goto, Fixed, Opening
<1>9. CASE Finish(p)
  <2>1. \E l \in {"unlink", "exit"} : pc' = [pc EXCEPT ![p] = l]
    BY <1>9 DEF Finish, Goto
  <2> QED BY <1>2, <1>9, <2>1, MoveKeepsOwed DEF Finish, Fixed, Opening
<1>10. CASE Crash(p)
  BY <1>2, <1>10, MoveKeepsOwed DEF Crash, Goto, Fixed, Opening
<1> QED BY <1>2, <1>3, <1>4, <1>5, <1>6, <1>7, <1>8, <1>9, <1>10, SendKeepsOwed, ReceiveKeepsOwed
        DEF Actions, Step

\* A finite set T covers no set that is larger.
LEMMA Covered ==
    ASSUME NEW S, NEW T, IsFiniteSet(T), NEW f, \A s \in S : \E t \in T : f[t] = s
    PROVE  IsFiniteSet(S) /\ Cardinality(S) <= Cardinality(T)
<1> DEFINE U == {f[t] : t \in T}
           g == [t \in T |-> f[t]]
<1>1. g \in Surjection(T, U)
  BY DEF Surjection
<1>2. IsFiniteSet(U) /\ Cardinality(U) <= Cardinality(T)
  BY <1>1, FS_Surjection
<1>3. S \subseteq U
  OBVIOUS
<1> HIDE DEF U, g
<1>4. IsFiniteSet(S) /\ Cardinality(S) <= Cardinality(U)
  BY <1>2, <1>3, FS_Subset
<1> QED BY <1>2, <1>4, FS_CardinalityType

\* Whoever has a queue open and owes nothing has sent all.
LEMMA AllSent ==
    ASSUME TypeOK, OwedInv, NEW r \in Proc, fd[r] # None, ~Owing(r)
    PROVE  toSend[r] = 0
<1>1. toSend[r] \in Nat
      /\ pc[r] \in {"clear", "open", "reopen", "run", "unlink", "exit", "crashed"}
  BY DEF TypeOK
<1>2. pc[r] \notin Opening
  BY DEF OwedInv, Fresh
<1>3. pc[r] \in {"unlink", "exit"} => toSend[r] = 0
  BY DEF OwedInv, Counts
<1> QED BY <1>1, <1>2, <1>3 DEF Owing, Opening

\* If nobody owed p a message, each of those that send and receive one would have sent it to
\* one of them; but p has none.
LEMMA BalancedCounted == TypeOK /\ OwedInv => BalancedAreOwed
<1> SUFFICES ASSUME TypeOK, OwedInv, NEW p \in Opener \cup Pattern, Starving(p),
                    ~\E r \in (Opener \cup Pattern) \cap (Sharing(p) \cup {p}) : Owing(r),
                    ~\E r \in Sharing(p) : Kind[r] = "receiver" /\ got[r] # << >>
             PROVE  FALSE
  BY DEF BalancedAreOwed
<1> DEFINE Balanced == Opener \cup Pattern
           Parties == {r \in Balanced : fd[r] = fd[p]}
           Served == {r \in Parties : got[r] # << >>}
           from == [r \in Served |-> got[r][1].from]
<1>1. /\ Balanced = {r \in Proc : Kind[r] \in {"opener", "pattern"}}
      /\ fd[p] # None /\ box[fd[p]] = << >> /\ toReceive[p] > 0
      /\ \A r \in Proc : /\ got[r] \in Seq(Message) /\ Len(got[r]) \in Nat
                         /\ DOMAIN got[r] = 1 .. Len(got[r]) /\ toReceive[r] \in Nat
      /\ Kind \in [Proc -> Programs]
  BY KindAssumption DEF Opener, Pattern, Starving, TypeOK
<1>2. \A r \in Proc : fd[r] = fd[p] => Len(got[r]) = Receives(r) - toReceive[r]
  BY <1>1 DEF OwedInv, Counts
<1>3. ASSUME NEW s \in Parties
      PROVE  \E r \in Served : from[r] = s
  <2>1. toSend[s] = 0 /\ readable[s] /\ Sends(s) = 1
    <3>1. ~Owing(s)
      BY <1>1, <1>3 DEF Sharing
    <3>2. fd[s] # None /\ Kind[s] # "sender"
      BY <1>1
    <3> QED BY <1>1, <3>1, <3>2, AllSent DEF OwedInv, Sends, Opener, Pattern
  <2>2. ~Kept(s, 0)
    BY <1>1 DEF Kept
  <2>3. PICK r \in Proc : fd[r] = fd[p] /\ \E i \in DOMAIN got[r] : got[r][i] = Sent(s, 0)
    BY <1>1, <2>1, <2>2 DEF OwedInv, Accounts, Received
  <2>4. PICK i \in DOMAIN got[r] : got[r][i] = Sent(s, 0)
    BY <2>3
  <2>5. got[r] # << >> /\ Len(got[r]) >= 1 /\ Receives(r) >= Len(got[r])
    <3>1. Receives(r) \in Nat
      BY CountAssumption DEF Receives
    <3> QED BY <1>1, <1>2, <2>3, <2>4, <3>1
  <2>6. r \in Balanced
    <3>1. Kind[r] # "receiver"
      BY <1>1, <2>3, <2>5 DEF Sharing
    <3>2. Receives(r) # 0
      BY <2>5
    <3> QED BY <1>1, <3>1, <3>2 DEF Receives, Opener, Pattern
  <2>7. i = 1
    <3>1. Receives(r) = 1
      BY <1>1, <2>6 DEF Receives, Opener, Pattern
    <3> QED BY <1>1, <2>4, <2>5, <3>1
  <2>8. r \in Served /\ from[r] = s
    BY <2>3, <2>4, <2>5, <2>6, <2>7 DEF Sent
  <2> QED BY <2>8
<1>4. Served \subseteq Parties \ {p}
  <2>1. Receives(p) = 1
    BY <1>1 DEF Receives, Opener, Pattern
  <2>2. got[p] = << >>
    BY <1>1, <1>2, <2>1
  <2> QED BY <2>2
<1>5. IsFiniteSet(Served)
  <2>1. Served \in SUBSET {r \in Proc : got[r] # << >>}
    BY <1>1
  <2> QED BY <2>1, FS_Subset DEF OwedInv
<1>6. p \in Parties
  OBVIOUS
<1> HIDE DEF Balanced, Parties, Served, from
<1>7. IsFiniteSet(Parties) /\ Cardinality(Parties) <= Cardinality(Served)
  BY <1>3, <1>5, Covered
<1>8. IsFiniteSet(Parties \ {p}) /\ Cardinality(Parties \ {p}) = Cardinality(Parties) - 1
  BY <1>6, <1>7, FS_RemoveElement
<1>9. Cardinality(Served) <= Cardinality(Parties) - 1
  BY <1>4, <1>8, FS_Subset
<1> QED BY <1>5, <1>7, <1>9, FS_CardinalityType

\* If the sender has sent all and nobody else took a message, its Count messages, which differ,
\* are among those of the receiver, which has fewer.
LEMMA ReceiverCounted == TypeOK /\ OwedInv => ReceiverIsOwed
<1> SUFFICES ASSUME TypeOK, OwedInv, NEW p \in Proc, NEW s \in Proc,
                    Kind[p] = "receiver", Starving(p), Kind[s] = "sender", s \in Sharing(p), readable[s],
                    ~Owing(s), ~\E r \in Sharing(p) : got[r] # << >>
             PROVE  FALSE
  BY DEF ReceiverIsOwed
<1> DEFINE Numbers == 0 .. Count - 1
           Places == 1 .. Len(got[p])
           left == [i \in Places |-> got[p][i].left]
<1>1. /\ fd[p] # None /\ fd[s] = fd[p] /\ box[fd[p]] = << >> /\ toReceive[p] > 0
      /\ \A r \in Proc : /\ got[r] \in Seq(Message) /\ Len(got[r]) \in Nat
                         /\ DOMAIN got[r] = 1 .. Len(got[r]) /\ toReceive[r] \in Nat
      /\ Count \in Nat \ {0}
  BY CountAssumption DEF Starving, Sharing, TypeOK
<1>2. Len(got[p]) = Count - toReceive[p]
  BY <1>1 DEF OwedInv, Counts, Receives
<1>3. toSend[s] = 0 /\ Sends(s) = Count
  BY <1>1, AllSent DEF Sends
<1>4. ASSUME NEW k \in Numbers
      PROVE  \E i \in Places : left[i] = k
  <2>1. k \in Nat /\ toSend[s] <= k /\ k < Sends(s)
    BY <1>1, <1>3
  <2>2. ~Kept(s, k)
    BY <1>1 DEF Kept
  <2>3. PICK r \in Proc : fd[r] = fd[p] /\ \E i \in DOMAIN got[r] : got[r][i] = Sent(s, k)
    BY <1>1, <2>1, <2>2 DEF OwedInv, Accounts, Received
  <2>4. PICK i \in DOMAIN got[r] : got[r][i] = Sent(s, k)
    BY <2>3
  <2>5. r = p
    BY <1>1, <2>3, <2>4 DEF Sharing
  <2>6. i \in Places /\ left[i] = k
    BY <1>1, <2>4, <2>5 DEF Sent
  <2> QED BY <2>6
<1>5. /\ IsFiniteSet(Places) /\ Cardinality(Places) = Len(got[p])
      /\ IsFiniteSet(Numbers) /\ Cardinality(Numbers) = Count
  <2>1. 1 \in Int /\ Len(got[p]) \in Int /\ 0 \in Int /\ Count - 1 \in Int
    BY <1>1
  <2>2. /\ IsFiniteSet(Places) /\ Cardinality(Places) = IF 1 > Len(got[p]) THEN 0 ELSE Len(got[p]) - 1 + 1
        /\ IsFiniteSet(Numbers) /\ Cardinality(Numbers) = IF 0 > Count - 1 THEN 0 ELSE Count - 1 - 0 + 1
    BY <2>1, FS_Interval
  <2> HIDE DEF Places, Numbers
  <2> QED BY <1>1, <2>2
<1> HIDE DEF Numbers, Places, left
<1>6. Cardinality(Numbers) <= Cardinality(Places)
  BY <1>4, <1>5, Covered
<1> QED BY <1>1, <1>2, <1>5, <1>6

\* However many openers and patterns share queues, under whatever names and with whatever an
\* earlier run left in them: none of them waits for a message that only a receiver has taken
\* or that one of them still owes.
THEOREM BalancedOwed == Spec => []BalancedAreOwed
BY TypeCorrect, OwedInit, OwedStep, BalancedCounted, PTL DEF Spec

\* With any number of messages and any capacity: a receiver gets all that the sender it shares
\* the queue with has sent, as long as nobody else takes from that queue.
THEOREM ReceiverOwed == Spec => []ReceiverIsOwed
BY TypeCorrect, OwedInit, OwedStep, ReceiverCounted, PTL DEF Spec

\* Both together: no waiting program is forgotten by the ones that send for it.
THEOREM WaitersOwed == Spec => []WaitersAreOwed
<1>1. BalancedAreOwed /\ ReceiverIsOwed => WaitersAreOwed
  BY DEF WaitersAreOwed
<1> QED BY <1>1, BalancedOwed, ReceiverOwed, PTL
=============================================================================
