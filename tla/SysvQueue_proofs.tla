-------------------------- MODULE SysvQueue_proofs --------------------------
(***************************************************************************)
(* Proofs about SysvQueue, for every set of programs, any choice of what   *)
(* is started together, any number of messages per Sender and every        *)
(* capacity of the queue.                                                  *)
(***************************************************************************)
EXTENDS SysvQueue, SequenceTheorems, FiniteSetTheorems, TLAPS

Message == [from : Run \cup {Old}, type : 1 .. Other]

\* What each kind of program sends and receives.
LEMMA SendsOf ==
  /\ \A r \in Typed : Sends(r) = << 3, 2, 1 >>
  /\ \A r \in Run \ Typed : Sends(r) \in Seq({Other})
<1> USE KindsAssumption DEF Run
<1>1. \A r \in Typed : Sends(r) = << 3, 2, 1 >>
  BY DEF Sends
<1>2. \A r \in Plain : Sends(r) = << Other >>
  BY DEF Sends
<1>3. \A r \in Sender : Sends(r) = [k \in 1 .. Count |-> Other]
  BY DEF Sends
<1>4. \A r \in Receiver : Sends(r) = << >>
  BY DEF Sends
<1>5. [k \in 1 .. Count |-> Other] \in Seq({Other})
  BY CountAssumption
<1>6. << Other >> \in Seq({Other}) /\ << >> \in Seq({Other})
  OBVIOUS
<1> QED BY <1>1, <1>2, <1>3, <1>4, <1>5, <1>6

LEMMA ReceivesOf ==
  /\ \A r \in Typed : Receives(r) = << 1, 2, 3 >>
  /\ \A r \in Sender : Receives(r) = << >>
  /\ \A r \in Run \ Typed : Receives(r) \in Seq({AnyType})
<1> USE KindsAssumption DEF Run
<1>1. \A r \in Typed : Receives(r) = << 1, 2, 3 >>
  BY DEF Receives
<1>2. \A r \in Plain : Receives(r) = << AnyType >>
  BY DEF Receives
<1>3. \A r \in Receiver : Receives(r) = [k \in 1 .. Count |-> AnyType]
  BY DEF Receives
<1>4. \A r \in Sender : Receives(r) = << >>
  BY DEF Receives
<1>5. [k \in 1 .. Count |-> AnyType] \in Seq({AnyType})
  BY CountAssumption
<1>6. << AnyType >> \in Seq({AnyType}) /\ << >> \in Seq({AnyType})
  OBVIOUS
<1> QED BY <1>1, <1>2, <1>3, <1>4, <1>5, <1>6

\* A sequence without its i-th element.
LEMMA Removed ==
  ASSUME NEW S, NEW s \in Seq(S), NEW i \in DOMAIN s
  PROVE  /\ RemoveAt(s, i) \in Seq(S)
         /\ Len(RemoveAt(s, i)) = Len(s) - 1
         /\ \A j \in DOMAIN s \ {i} : \E k \in DOMAIN RemoveAt(s, i) : RemoveAt(s, i)[k] = s[j]
<1> DEFINE a == SubSeq(s, 1, i - 1)
           b == SubSeq(s, i + 1, Len(s))
<1>1. /\ i \in 1 .. Len(s) /\ Len(s) \in Nat /\ \A j \in 1 .. Len(s) : s[j] \in S
      /\ DOMAIN s = 1 .. Len(s)
  BY LenProperties
<1>2. a \in Seq(S) /\ Len(a) = i - 1 /\ \A j \in 1 .. i - 1 : a[j] = s[j]
  <2>1. \A j \in 1 .. i - 1 : s[j] \in S
    BY <1>1
  <2>2. 1 \in Int /\ i - 1 \in Int
    BY <1>1
  <2> QED BY <1>1, <2>1, <2>2, SubSeqProperties, Z3
<1>3. b \in Seq(S) /\ Len(b) = Len(s) - i /\ \A j \in 1 .. Len(s) - i : b[j] = s[i + j]
  <2>1. \A j \in i + 1 .. Len(s) : s[j] \in S
    BY <1>1
  <2>2. i + 1 \in Int /\ Len(s) \in Int
    BY <1>1
  <2>3. /\ b \in Seq(S)
        /\ Len(b) = IF i + 1 <= Len(s) THEN Len(s) - (i + 1) + 1 ELSE 0
        /\ \A j \in 1 .. Len(s) - (i + 1) + 1 : b[j] = s[i + 1 + j - 1]
    BY <2>1, <2>2, SubSeqProperties
  <2>4. Len(b) = Len(s) - i /\ Len(s) - (i + 1) + 1 = Len(s) - i
    BY <1>1, <2>3
  <2>5. \A j \in 1 .. Len(s) - i : i + 1 + j - 1 = i + j
    BY <1>1
  <2> QED BY <2>3, <2>4, <2>5
<1> HIDE DEF a, b
<1>4. /\ a \o b \in Seq(S) /\ Len(a \o b) = Len(s) - 1
      /\ \A k \in 1 .. Len(s) - 1 : (a \o b)[k] = IF k <= i - 1 THEN a[k] ELSE b[k - (i - 1)]
  <2>1. Len(a) + Len(b) = Len(s) - 1
    BY <1>1, <1>2, <1>3
  <2>2. /\ a \o b \in Seq(S) /\ Len(a \o b) = Len(a) + Len(b)
        /\ \A k \in 1 .. Len(a) + Len(b) : (a \o b)[k] = IF k <= Len(a) THEN a[k] ELSE b[k - Len(a)]
    BY <1>2, <1>3, ConcatProperties
  <2> QED BY <1>2, <2>1, <2>2
<1>5. RemoveAt(s, i) = a \o b
  BY DEF RemoveAt, a, b
<1>6. ASSUME NEW j \in DOMAIN s \ {i}
      PROVE  \E k \in 1 .. Len(s) - 1 : (a \o b)[k] = s[j]
  <2>1. CASE j < i
    <3>1. j \in 1 .. Len(s) - 1 /\ j <= i - 1
      BY <1>1, <2>1
    <3>2. (a \o b)[j] = s[j]
      BY <1>1, <1>2, <1>4, <3>1
    <3> QED BY <3>1, <3>2
  <2>2. CASE j > i
    <3>1. j - 1 \in 1 .. Len(s) - 1 /\ ~(j - 1 <= i - 1) /\ j - 1 - (i - 1) \in 1 .. Len(s) - i
      BY <1>1, <2>2
    <3>2. (a \o b)[j - 1] = b[j - 1 - (i - 1)]
      BY <1>4, <3>1
    <3>3. b[j - 1 - (i - 1)] = s[i + (j - 1 - (i - 1))] /\ i + (j - 1 - (i - 1)) = j
      BY <1>1, <1>3, <3>1
    <3>4. (a \o b)[j - 1] = s[j]
      BY <3>2, <3>3
    <3> QED BY <3>1, <3>4
  <2>3. j < i \/ j > i
    <3>1. j \in Int /\ i \in Int /\ j # i
      BY <1>1
    <3> QED BY <3>1
  <2> QED BY <2>1, <2>2, <2>3
<1>7. DOMAIN (a \o b) = 1 .. Len(s) - 1
  BY <1>4, LenProperties
<1> QED BY <1>4, <1>5, <1>6, <1>7

LEMMA TypedInit == Init => TypeOK
<1> SUFFICES ASSUME Init
             PROVE  TypeOK
  OBVIOUS
<1> USE CapacityAssumption DEF Other, AnyType
<1>1. box \in Seq(Message) /\ Len(box) <= 1
  <2>1. PICK n \in 0 .. 1, t \in 1 .. Other : box = SubSeq(<< [from |-> Old, type |-> t] >>, 1, n)
    BY DEF Init
  <2> DEFINE m == [from |-> Old, type |-> t]
  <2>2. m \in Message
    BY DEF Message
  <2> HIDE DEF m
  <2>3. box = SubSeq(<< m >>, 1, n) /\ \A i \in 1 .. n : << m >>[i] \in Message
    BY <2>1, <2>2 DEF m
  <2> QED BY <2>3, SubSeqProperties
<1>2. PICK cast \in Casts :
        /\ toSend = [r \in Run |-> IF r \in cast THEN Sends(r) ELSE << >>]
        /\ toReceive = [r \in Run |-> IF r \in cast THEN Receives(r) ELSE << >>]
  BY DEF Init
<1>3. \A r \in Run : Sends(r) \in Seq(1 .. Other)
  <2>1. << 3, 2, 1 >> \in Seq(1 .. Other) /\ \A s \in Seq({Other}) : s \in Seq(1 .. Other)
    OBVIOUS
  <2> QED BY <2>1, SendsOf DEF Run
<1>4. \A r \in Run : Receives(r) \in Seq(AnyType .. 3)
  <2>1. << 1, 2, 3 >> \in Seq(AnyType .. 3) /\ \A s \in Seq({AnyType}) : s \in Seq(AnyType .. 3)
    OBVIOUS
  <2> QED BY <2>1, ReceivesOf DEF Run
<1>5. << >> \in Seq(1 .. Other) /\ << >> \in Seq(AnyType .. 3) /\ << >> \in Seq(Message)
  OBVIOUS
<1>6. toSend \in [Run -> Seq(1 .. Other)] /\ toReceive \in [Run -> Seq(AnyType .. 3)]
  BY <1>2, <1>3, <1>4, <1>5
<1>7. got \in [Run -> Seq(Message)] /\ killed = {}
  BY <1>5 DEF Init
<1>8. Len(box) <= Capacity
  <2>1. Len(box) \in Nat
    BY <1>1, LenProperties
  <2> QED BY <1>1, <2>1
<1> QED BY <1>1, <1>6, <1>7, <1>8 DEF TypeOK, Message

LEMMA TypedStep == TypeOK /\ [Next]_vars => TypeOK'
<1> SUFFICES ASSUME TypeOK, [Next]_vars
             PROVE  TypeOK'
  OBVIOUS
<1>1. /\ box \in Seq(Message) /\ Len(box) <= Capacity /\ Len(box) \in Nat
      /\ toSend \in [Run -> Seq(1 .. Other)] /\ toReceive \in [Run -> Seq(AnyType .. 3)]
      /\ got \in [Run -> Seq(Message)] /\ killed \subseteq Run /\ Capacity \in Nat
  BY CapacityAssumption, LenProperties DEF TypeOK, Message
<1>2. << >> \in Seq(1 .. Other) /\ << >> \in Seq(AnyType .. 3)
  OBVIOUS
<1>3. ASSUME NEW r \in Run, toSend[r] # << >>, Sent(r)
      PROVE  toSend' \in [Run -> Seq(1 .. Other)]
  <2>1. Tail(toSend[r]) \in Seq(1 .. Other)
    BY <1>1, <1>3, HeadTailProperties
  <2> QED BY <1>1, <1>3, <2>1 DEF Sent
<1>4. ASSUME NEW r \in Run, Send(r)
      PROVE  TypeOK'
  <2> DEFINE m == [from |-> r, type |-> Head(toSend[r])]
  <2>1. m \in Message
    <3>1. Head(toSend[r]) \in 1 .. Other
      BY <1>1, <1>4, HeadTailProperties DEF Send
    <3> QED BY <3>1 DEF Message
  <2> HIDE DEF m
  <2>2. box' = Append(box, m)
    BY <1>4 DEF Send, m
  <2>3. box' \in Seq(Message) /\ Len(box') <= Capacity
    BY <1>1, <1>4, <2>1, <2>2, AppendProperties DEF Send
  <2> QED BY <1>1, <1>3, <1>4, <2>3 DEF Send, TypeOK, Message
<1>5. ASSUME NEW r \in Run, SendRefused(r)
      PROVE  TypeOK'
  BY <1>1, <1>3, <1>5 DEF SendRefused, TypeOK, Message
<1>6. ASSUME NEW r \in Run, Receive(r)
      PROVE  TypeOK'
  <2>1. PICK i \in DOMAIN box : got' = [got EXCEPT ![r] = Append(@, box[i])] /\ box' = RemoveAt(box, i)
    BY <1>6 DEF Receive
  <2>2. box' \in Seq(Message) /\ Len(box') <= Capacity
    BY <1>1, <2>1, Removed
  <2>3. box[i] \in Message
    BY <1>1, <2>1, LenProperties
  <2>4. got' \in [Run -> Seq(Message)]
    <3>1. Append(got[r], box[i]) \in Seq(Message)
      BY <1>1, <2>3, AppendProperties
    <3> QED BY <1>1, <2>1, <3>1
  <2>5. toReceive' \in [Run -> Seq(AnyType .. 3)]
    <3>1. Tail(toReceive[r]) \in Seq(AnyType .. 3)
      BY <1>1, <1>6, HeadTailProperties DEF Receive
    <3> QED BY <1>1, <1>6, <3>1 DEF Receive
  <2> QED BY <1>1, <1>6, <2>2, <2>4, <2>5 DEF Receive, TypeOK, Message
<1>7. ASSUME NEW r \in Run, Kill(r)
      PROVE  TypeOK'
  BY <1>1, <1>2, <1>7 DEF Kill, TypeOK, Message
<1>8. CASE UNCHANGED vars
  BY <1>8 DEF vars, TypeOK
<1> QED BY <1>4, <1>5, <1>6, <1>7, <1>8 DEF Next

\* The type invariant.
THEOREM TypeCorrect == Spec => []TypeOK
BY TypedInit, TypedStep, PTL DEF Spec
-----------------------------------------------------------------------------
\* What makes StarvedOnlyByOthers inductive, as long as nothing was killed: each 04 sends its
\* types downwards and receives them upwards; what one of those that take part no longer has
\* to send is in the queue or was received by somebody; a Sender receives nothing; and only
\* finitely many programs have received anything yet.
Started(r) == toReceive[r] # << >> \/ got[r] # << >>
Down(r) == \A k \in 1 .. Len(toSend[r]) : toSend[r][k] = Len(toSend[r]) + 1 - k
Up(r) ==
    /\ Len(toReceive[r]) <= 3
    /\ \A k \in 1 .. Len(toReceive[r]) : toReceive[r][k] = 3 - Len(toReceive[r]) + k
    /\ Started(r) => Len(got[r]) = 3 - Len(toReceive[r])
    /\ \A k \in 1 .. Len(got[r]) : got[r][k].type = k

Msg(r, type) == [from |-> r, type |-> type]
Queued(r, type) == \E i \in DOMAIN box : box[i] = Msg(r, type)
Received(r, type) == \E q \in Run : \E k \in DOMAIN got[q] : got[q][k] = Msg(r, type)

Accounts ==
    killed = {} =>
        /\ \A r \in Typed : Down(r) /\ Up(r)
        /\ \A r \in Typed : Started(r) =>
            \A type \in 1 .. 3 : type <= Len(toSend[r]) \/ Queued(r, type) \/ Received(r, type)
        /\ \A r \in Sender : toReceive[r] = << >> /\ got[r] = << >>
        /\ IsFiniteSet({r \in Run : got[r] # << >>})

LEMMA AccountsInit == Init => Accounts
<1> SUFFICES ASSUME Init
             PROVE  Accounts
  OBVIOUS
<1>1. PICK cast \in Casts :
        /\ toSend = [r \in Run |-> IF r \in cast THEN Sends(r) ELSE << >>]
        /\ toReceive = [r \in Run |-> IF r \in cast THEN Receives(r) ELSE << >>]
  BY DEF Init
<1>2. \A r \in Run : got[r] = << >>
  BY DEF Init
<1>3. ASSUME NEW r \in Typed
      PROVE  /\ Down(r) /\ Up(r)
             /\ Started(r) => \A type \in 1 .. 3 : type <= Len(toSend[r])
  <2>1. CASE r \in cast
    <3>1. toSend[r] = << 3, 2, 1 >> /\ toReceive[r] = << 1, 2, 3 >> /\ got[r] = << >>
      BY <1>1, <1>2, <2>1, SendsOf, ReceivesOf DEF Run
    <3>2. Down(r)
      BY <3>1 DEF Down
    <3>3. Up(r)
      BY <3>1 DEF Up
    <3>4. Len(toSend[r]) = 3
      BY <3>1
    <3> QED BY <3>2, <3>3, <3>4
  <2>2. CASE r \notin cast
    <3>1. toSend[r] = << >> /\ toReceive[r] = << >> /\ got[r] = << >>
      BY <1>1, <1>2, <2>2 DEF Run
    <3> QED BY <3>1 DEF Down, Up, Started
  <2> QED BY <2>1, <2>2
<1>4. \A r \in Sender : toReceive[r] = << >> /\ got[r] = << >>
  BY <1>1, <1>2, ReceivesOf DEF Run
<1>5. IsFiniteSet({r \in Run : got[r] # << >>})
  <2>1. {r \in Run : got[r] # << >>} = {}
    BY <1>2
  <2> QED BY <2>1, FS_EmptySet
<1> QED BY <1>3, <1>4, <1>5 DEF Accounts

\* Taking the first message off a sequence.
LEMMA Shorter ==
  ASSUME NEW S, NEW s \in Seq(S), s # << >>
  PROVE  /\ Len(Tail(s)) = Len(s) - 1 /\ Len(s) \in Nat \ {0}
         /\ Head(s) = s[1]
         /\ \A k \in 1 .. Len(Tail(s)) : Tail(s)[k] = s[k + 1]
BY HeadTailProperties, EmptySeq, LenProperties

\* A message that was sent is in the queue until somebody has received it.
LEMMA Conserved ==
  ASSUME TypeOK, [Next]_vars, NEW q, NEW type, Queued(q, type) \/ Received(q, type)
  PROVE  Queued(q, type)' \/ Received(q, type)'
<1>1. /\ box \in Seq(Message) /\ got \in [Run -> Seq(Message)] /\ toSend \in [Run -> Seq(1 .. Other)]
      /\ \A r \in Run : DOMAIN got[r] = 1 .. Len(got[r]) /\ Len(got[r]) \in Nat
      /\ DOMAIN box = 1 .. Len(box) /\ Len(box) \in Nat
  BY LenProperties DEF TypeOK, Message, Run
<1>2. CASE UNCHANGED << box, got >>
  BY <1>2 DEF Queued, Received, Msg
<1>3. ASSUME NEW r \in Run, Send(r)
      PROVE  Queued(q, type)' \/ Received(q, type)'
  <2> DEFINE m == Msg(r, Head(toSend[r]))
  <2>1. box' = Append(box, m) /\ UNCHANGED got /\ toSend[r] # << >>
    BY <1>3 DEF Send, Msg
  <2>2. m \in Message
    <3>1. Head(toSend[r]) \in 1 .. Other
      BY <1>1, <2>1, HeadTailProperties
    <3> QED BY <3>1 DEF Message, Msg
  <2> HIDE DEF m
  <2>3. \A i \in 1 .. Len(box) : box'[i] = box[i] /\ i \in DOMAIN box'
    <3>1. box' \in Seq(Message) /\ Len(box') = Len(box) + 1 /\ \A i \in 1 .. Len(box) : box'[i] = box[i]
      BY <1>1, <2>1, <2>2, AppendProperties
    <3>2. DOMAIN box' = 1 .. Len(box) + 1
      BY <3>1, LenProperties
    <3> QED BY <1>1, <3>1, <3>2
  <2>4. Queued(q, type) => Queued(q, type)'
    BY <1>1, <2>3 DEF Queued, Msg
  <2>5. Received(q, type) => Received(q, type)'
    BY <2>1 DEF Received, Msg
  <2> QED BY <2>4, <2>5
<1>4. ASSUME NEW r \in Run, Receive(r)
      PROVE  Queued(q, type)' \/ Received(q, type)'
  <2>1. PICK i \in DOMAIN box : got' = [got EXCEPT ![r] = Append(@, box[i])] /\ box' = RemoveAt(box, i)
    BY <1>4 DEF Receive
  <2>2. /\ Len(got[r]) + 1 \in DOMAIN got'[r] /\ got'[r][Len(got[r]) + 1] = box[i]
        /\ \A k \in DOMAIN got[r] : k \in DOMAIN got'[r] /\ got'[r][k] = got[r][k]
    <3>1. got'[r] = Append(got[r], box[i]) /\ got[r] \in Seq(Message) /\ box[i] \in Message
      BY <1>1, <2>1, LenProperties
    <3>2. /\ Append(got[r], box[i]) \in Seq(Message)
          /\ Len(Append(got[r], box[i])) = Len(got[r]) + 1
          /\ \A k \in 1 .. Len(got[r]) : Append(got[r], box[i])[k] = got[r][k]
          /\ Append(got[r], box[i])[Len(got[r]) + 1] = box[i]
      BY <3>1, AppendProperties
    <3>3. DOMAIN got'[r] = 1 .. Len(got[r]) + 1
      BY <3>1, <3>2, LenProperties
    <3> QED BY <1>1, <3>1, <3>2, <3>3
  <2>3. \A x \in Run \ {r} : got'[x] = got[x]
    BY <1>1, <2>1
  <2>4. ASSUME Received(q, type)
        PROVE  Received(q, type)'
    <3>1. PICK x \in Run : \E k \in DOMAIN got[x] : got[x][k] = Msg(q, type)
      BY <2>4 DEF Received
    <3>2. \E k \in DOMAIN got'[x] : got'[x][k] = Msg(q, type)
      BY <2>2, <2>3, <3>1
    <3> QED BY <3>2 DEF Received, Msg
  <2>5. ASSUME Queued(q, type)
        PROVE  Queued(q, type)' \/ Received(q, type)'
    <3>1. PICK j \in DOMAIN box : box[j] = Msg(q, type)
      BY <2>5 DEF Queued
    <3>2. CASE j = i
      <4>1. \E k \in DOMAIN got'[r] : got'[r][k] = Msg(q, type)
        BY <2>2, <3>1, <3>2
      <4> QED BY <4>1 DEF Received, Msg
    <3>3. CASE j # i
      <4>1. \E k \in DOMAIN box' : box'[k] = box[j]
        BY <1>1, <2>1, <3>3, Removed
      <4> QED BY <3>1, <4>1 DEF Queued, Msg
    <3> QED BY <3>2, <3>3
  <2> QED BY <2>4, <2>5
<1>5. ASSUME NEW r \in Run, SendRefused(r) \/ Kill(r)
      PROVE  UNCHANGED << box, got >>
  BY <1>5 DEF SendRefused, Kill
<1> QED BY <1>2, <1>3, <1>4, <1>5 DEF Next, vars

LEMMA AccountsStep == TypeOK /\ Accounts /\ [Next]_vars => Accounts'
<1> SUFFICES ASSUME TypeOK, Accounts, [Next]_vars, killed' = {}
             PROVE  Accounts'
  BY DEF Accounts
<1>1. /\ box \in Seq(Message)
      /\ toSend \in [Run -> Seq(1 .. Other)] /\ toReceive \in [Run -> Seq(AnyType .. 3)]
      /\ got \in [Run -> Seq(Message)] /\ Typed \subseteq Run /\ Sender \subseteq Run
      /\ \A r \in Run : Len(toSend[r]) \in Nat /\ Len(toReceive[r]) \in Nat /\ Len(got[r]) \in Nat
      /\ \A r \in Run : DOMAIN got[r] = 1 .. Len(got[r])
      /\ DOMAIN box = 1 .. Len(box) /\ Len(box) \in Nat
  BY LenProperties DEF TypeOK, Message, Run
<1>2. /\ \A r \in Typed : Down(r) /\ Up(r)
      /\ \A r \in Typed : Started(r) =>
            \A type \in 1 .. 3 : type <= Len(toSend[r]) \/ Queued(r, type) \/ Received(r, type)
      /\ \A r \in Sender : toReceive[r] = << >> /\ got[r] = << >>
      /\ IsFiniteSet({r \in Run : got[r] # << >>})
  <2>1. killed = {}
    BY DEF Next, Send, SendRefused, Receive, Kill, vars
  <2> QED BY <2>1 DEF Accounts
<1>3. ASSUME NEW r \in Run, Send(r)
      PROVE  Accounts'
  <2> DEFINE m == [from |-> r, type |-> Head(toSend[r])]
  <2>1. /\ toSend' = [toSend EXCEPT ![r] = Tail(@)] /\ toSend[r] # << >>
        /\ box' = Append(box, m) /\ UNCHANGED << toReceive, got, killed >>
    BY <1>3 DEF Send, Sent
  <2>2. m \in Message
    <3>1. Head(toSend[r]) \in 1 .. Other
      BY <1>1, <2>1, HeadTailProperties
    <3> QED BY <3>1 DEF Message
  <2>3. /\ \A i \in 1 .. Len(box) : box'[i] = box[i]
        /\ DOMAIN box' = 1 .. Len(box) + 1 /\ box'[Len(box) + 1] = m
    <3> HIDE DEF m
    <3>1. /\ box' \in Seq(Message) /\ Len(box') = Len(box) + 1
          /\ \A i \in 1 .. Len(box) : box'[i] = box[i]
          /\ box'[Len(box) + 1] = m
      BY <1>1, <2>1, <2>2, AppendProperties
    <3> QED BY <3>1, LenProperties
  <2>4. \A q \in Typed, type \in 1 .. 3 :
            Queued(q, type) \/ Received(q, type) => Queued(q, type)' \/ Received(q, type)'
    BY Conserved
  <2>6. ASSUME NEW q \in Typed
        PROVE  /\ Down(q)'
               /\ Started(q)' => \A type \in 1 .. 3 :
                    type <= Len(toSend'[q]) \/ Queued(q, type)' \/ Received(q, type)'
    <3>1. CASE q # r
      <4>1. toSend'[q] = toSend[q]
        BY <1>1, <2>1, <3>1
      <4> QED BY <1>2, <2>1, <2>4, <4>1 DEF Down, Started
    <3>2. CASE q = r
      <4>1. /\ toSend'[r] = Tail(toSend[r])
            /\ Len(toSend'[r]) = Len(toSend[r]) - 1 /\ Len(toSend[r]) \in Nat \ {0}
            /\ Head(toSend[r]) = toSend[r][1]
            /\ \A k \in 1 .. Len(toSend'[r]) : toSend'[r][k] = toSend[r][k + 1]
        BY <1>1, <2>1, Shorter
      <4>2. Down(r)'
        <5>1. \A k \in 1 .. Len(toSend[r]) : toSend[r][k] = Len(toSend[r]) + 1 - k
          BY <1>2, <3>2 DEF Down
        <5>2. ASSUME NEW k \in 1 .. Len(toSend'[r])
              PROVE  toSend'[r][k] = Len(toSend'[r]) + 1 - k
          <6>1. k + 1 \in 1 .. Len(toSend[r])
            BY <4>1
          <6>2. toSend'[r][k] = toSend[r][k + 1]
            BY <4>1
          <6>3. toSend[r][k + 1] = Len(toSend[r]) + 1 - (k + 1)
            BY <5>1, <6>1
          <6>4. \A n \in Nat, j \in Int : n + 1 - (j + 1) = (n - 1) + 1 - j
            OBVIOUS
          <6>5. k \in Int /\ Len(toSend[r]) \in Nat
            BY <4>1
          <6> QED BY <4>1, <6>2, <6>3, <6>4, <6>5
        <5> QED BY <5>2 DEF Down
      <4>3. Head(toSend[r]) = Len(toSend[r])
        <5>1. 1 \in 1 .. Len(toSend[r])
          BY <4>1
        <5>2. toSend[r][1] = Len(toSend[r]) + 1 - 1
          BY <1>2, <3>2, <5>1 DEF Down
        <5> QED BY <4>1, <5>2
      <4>5. ASSUME Started(r)', NEW type \in 1 .. 3
            PROVE  type <= Len(toSend'[r]) \/ Queued(r, type)' \/ Received(r, type)'
        <5>1. Started(r)
          BY <2>1, <4>5 DEF Started
        <5>2. type <= Len(toSend[r]) \/ Queued(r, type) \/ Received(r, type)
          BY <1>2, <3>2, <5>1
        <5>3. CASE type = Len(toSend[r])
          <6>0. Len(box) + 1 \in DOMAIN box' /\ box'[Len(box) + 1] = Msg(r, type)
            BY <1>1, <2>3, <4>3, <5>3 DEF Msg
          <6>1. \E i \in DOMAIN box' : box'[i] = Msg(r, type)
            BY <6>0
          <6> QED BY <6>1 DEF Queued, Msg
        <5>4. CASE type <= Len(toSend[r]) /\ type # Len(toSend[r])
          BY <4>1, <5>4
        <5> QED BY <2>4, <3>2, <5>2, <5>3, <5>4
      <4> QED BY <3>2, <4>2, <4>5
    <3> QED BY <3>1, <3>2
  <2>7. \A q \in Typed : Up(q)'
    BY <1>2, <2>1 DEF Up, Started
  <2>8. /\ \A q \in Sender : toReceive'[q] = << >> /\ got'[q] = << >>
        /\ IsFiniteSet({q \in Run : got'[q] # << >>})
    BY <1>2, <2>1
  <2> QED BY <2>6, <2>7, <2>8 DEF Accounts
<1>4. ASSUME NEW r \in Run, SendRefused(r)
      PROVE  Accounts'
  <2>1. \A q \in Typed : toSend'[q] = toSend[q]
    BY <1>1, <1>4, KindsAssumption DEF SendRefused, Sent
  <2>2. UNCHANGED << box, toReceive, got, killed >>
    BY <1>4 DEF SendRefused
  <2>3. \A q \in Typed : Down(q)' /\ Up(q)' /\ Started(q)' = Started(q)
    BY <1>2, <2>1, <2>2 DEF Down, Up, Started
  <2>4. \A q \in Typed, type \in 1 .. 3 :
            Queued(q, type)' = Queued(q, type) /\ Received(q, type)' = Received(q, type)
    BY <2>2 DEF Queued, Received, Msg
  <2> QED BY <1>2, <2>1, <2>2, <2>3, <2>4 DEF Accounts
<1>5. ASSUME NEW r \in Run, Receive(r)
      PROVE  Accounts'
  <2>1. /\ toReceive' = [toReceive EXCEPT ![r] = Tail(@)] /\ toReceive[r] # << >>
        /\ UNCHANGED << toSend, killed >>
    BY <1>5 DEF Receive
  <2>2. PICK i \in DOMAIN box :
            /\ Matches(box[i], Head(toReceive[r]))
            /\ got' = [got EXCEPT ![r] = Append(@, box[i])] /\ box' = RemoveAt(box, i)
    BY <1>5 DEF Receive
  <2>3. box[i] \in Message
    BY <1>1, LenProperties
  <2>4. /\ got'[r] # << >> /\ Len(got'[r]) = Len(got[r]) + 1
        /\ \A k \in 1 .. Len(got[r]) : got'[r][k] = got[r][k]
        /\ got'[r][Len(got[r]) + 1] = box[i]
        /\ DOMAIN got'[r] = 1 .. Len(got[r]) + 1
    <3>1. got'[r] = Append(got[r], box[i]) /\ got[r] \in Seq(Message)
      BY <1>1, <2>2
    <3>2. /\ Append(got[r], box[i]) \in Seq(Message)
          /\ Append(got[r], box[i]) # << >>
          /\ Len(Append(got[r], box[i])) = Len(got[r]) + 1
          /\ \A k \in 1 .. Len(got[r]) : Append(got[r], box[i])[k] = got[r][k]
          /\ Append(got[r], box[i])[Len(got[r]) + 1] = box[i]
      BY <2>3, <3>1, AppendProperties
    <3> QED BY <3>1, <3>2, LenProperties
  <2>5. \A q \in Run \ {r} : got'[q] = got[q] /\ toReceive'[q] = toReceive[q]
    BY <1>1, <2>1, <2>2
  <2>6. /\ Len(toReceive'[r]) = Len(toReceive[r]) - 1 /\ Len(toReceive[r]) \in Nat \ {0}
        /\ Head(toReceive[r]) = toReceive[r][1]
        /\ \A k \in 1 .. Len(toReceive'[r]) : toReceive'[r][k] = toReceive[r][k + 1]
    <3>1. toReceive'[r] = Tail(toReceive[r]) /\ toReceive[r] \in Seq(AnyType .. 3)
      BY <1>1, <2>1
    <3> QED BY <2>1, <3>1, Shorter
  <2>7. \A q \in Typed, type \in 1 .. 3 :
            Queued(q, type) \/ Received(q, type) => Queued(q, type)' \/ Received(q, type)'
    BY Conserved
  <2>9. ASSUME NEW q \in Typed
        PROVE  Down(q)' /\ Up(q)' /\ (Started(q)' => Started(q))
    <3>1. Down(q)'
      BY <1>2, <2>1 DEF Down
    <3>2. CASE q # r
      BY <1>1, <1>2, <2>5, <3>1, <3>2 DEF Up, Started
    <3>3. CASE q = r
      <4>1. Started(r)
        BY <2>1 DEF Started
      <4>2. /\ Len(toReceive[r]) <= 3 /\ Len(got[r]) = 3 - Len(toReceive[r])
            /\ \A k \in 1 .. Len(toReceive[r]) : toReceive[r][k] = 3 - Len(toReceive[r]) + k
            /\ \A k \in 1 .. Len(got[r]) : got[r][k].type = k
        BY <1>2, <3>3, <4>1 DEF Up
      <4>3. Len(toReceive'[r]) <= 3 /\ Len(got'[r]) = 3 - Len(toReceive'[r])
        BY <1>1, <2>4, <2>6, <4>2
      <4>4. ASSUME NEW k \in 1 .. Len(toReceive'[r])
            PROVE  toReceive'[r][k] = 3 - Len(toReceive'[r]) + k
        <5>1. k + 1 \in 1 .. Len(toReceive[r])
          BY <2>6
        <5>2. toReceive'[r][k] = 3 - Len(toReceive[r]) + (k + 1)
          BY <2>6, <4>2, <5>1
        <5> QED BY <2>6, <5>2
      <4>5. box[i].type = Len(got[r]) + 1
        <5>1. 1 \in 1 .. Len(toReceive[r])
          BY <2>6
        <5>2. Head(toReceive[r]) = Len(got[r]) + 1
          BY <1>1, <2>6, <4>2, <5>1
        <5>3. Head(toReceive[r]) # AnyType
          BY <1>1, <5>2 DEF AnyType
        <5> QED BY <2>2, <5>2, <5>3 DEF Matches
      <4>6. \A k \in 1 .. Len(got'[r]) : got'[r][k].type = k
        <5> SUFFICES ASSUME NEW k \in 1 .. Len(got'[r])
                     PROVE  got'[r][k].type = k
          OBVIOUS
        <5>1. k \in 1 .. Len(got[r]) \/ k = Len(got[r]) + 1
          BY <1>1, <2>4
        <5> QED BY <2>4, <4>2, <4>5, <5>1
      <4> QED BY <3>1, <3>3, <4>1, <4>3, <4>4, <4>6 DEF Up
    <3> QED BY <3>2, <3>3
  <2>10. \A q \in Sender : toReceive'[q] = << >> /\ got'[q] = << >>
    <3>1. r \notin Sender
      BY <1>2, <2>1
    <3> QED BY <1>1, <1>2, <2>5, <3>1
  <2>11. IsFiniteSet({q \in Run : got'[q] # << >>})
    <3>1. {q \in Run : got'[q] # << >>} = {q \in Run : got[q] # << >>} \cup {r}
      BY <2>4, <2>5
    <3> QED BY <1>2, <3>1, FS_AddElement
  <2>12. \A q \in Typed : Started(q)' =>
            \A type \in 1 .. 3 : type <= Len(toSend'[q]) \/ Queued(q, type)' \/ Received(q, type)'
    BY <1>2, <2>1, <2>7, <2>9
  <2> QED BY <2>9, <2>10, <2>11, <2>12 DEF Accounts
<1>6. ASSUME NEW r \in Run, Kill(r)
      PROVE  FALSE
  BY <1>6 DEF Kill
<1>7. CASE UNCHANGED vars
  <2>1. UNCHANGED << box, toSend, toReceive, got, killed >>
    BY <1>7 DEF vars
  <2>2. \A q \in Typed : Down(q)' /\ Up(q)' /\ Started(q)' = Started(q)
    BY <1>2, <2>1 DEF Down, Up, Started
  <2>3. \A q \in Typed, type \in 1 .. 3 :
            Queued(q, type)' = Queued(q, type) /\ Received(q, type)' = Received(q, type)
    BY <2>1 DEF Queued, Received, Msg
  <2> QED BY <1>2, <2>1, <2>2, <2>3 DEF Accounts
<1> QED BY <1>3, <1>4, <1>5, <1>6, <1>7 DEF Next

\* A finite set T covers no set that is larger.
LEMMA Covered ==
    ASSUME NEW S, NEW T, IsFiniteSet(T), NEW f, \A s \in S : \E t \in T : f[t] = s
    PROVE  IsFiniteSet(S) /\ Cardinality(S) <= Cardinality(T)
<1> DEFINE U == {f[t] : t \in T}
           g == [t \in T |-> f[t]]
<1>1. g \in Surjection(T, U)
  BY DEF Surjection
<1>2. IsFiniteSet(U) /\ Cardinality(U) <= Cardinality(T)
  BY <1>1, FS_Surjection
<1>3. S \subseteq U
  OBVIOUS
<1> HIDE DEF U, g
<1>4. IsFiniteSet(S) /\ Cardinality(S) <= Cardinality(U)
  BY <1>2, <1>3, FS_Subset
<1> QED BY <1>2, <1>4, FS_CardinalityType

\* Nor does a part of S cover S, if an element is missing.
LEMMA LeftOut ==
    ASSUME NEW S, IsFiniteSet(S), NEW s \in S, NEW T, T \subseteq S \ {s}
    PROVE  ~(Cardinality(S) <= Cardinality(T))
<1>1. IsFiniteSet(S \ {s}) /\ Cardinality(S \ {s}) = Cardinality(S) - 1
  BY FS_RemoveElement
<1>2. Cardinality(T) <= Cardinality(S) - 1 /\ IsFiniteSet(T)
  BY <1>1, FS_Subset
<1> QED BY <1>2, FS_CardinalityType

\* If a type were neither queued, nor to come, nor taken, all the 04 that take part would have
\* sent it to one another; but one of them has not received it, and the others received
\* one each.
LEMMA NobodyLeftOut == TypeOK /\ Accounts => StarvedOnlyByOthers
<1> SUFFICES ASSUME TypeOK, Accounts, killed = {}, NEW r \in Typed, toReceive[r] # << >>,
                    NEW type, type = Head(toReceive[r]),
                    ~\E i \in DOMAIN box : box[i].type = type,
                    ~ToCome(type), ~Taken(type)
             PROVE  FALSE
  BY DEF StarvedOnlyByOthers
<1>1. /\ toSend \in [Run -> Seq(1 .. Other)] /\ toReceive \in [Run -> Seq(AnyType .. 3)]
      /\ got \in [Run -> Seq(Message)] /\ Typed \subseteq Run
      /\ \A q \in Run : Len(toSend[q]) \in Nat /\ DOMAIN toSend[q] = 1 .. Len(toSend[q])
      /\ \A q \in Run : DOMAIN got[q] = 1 .. Len(got[q]) /\ Len(got[q]) \in Nat
  BY LenProperties DEF TypeOK, Message, Run
<1>2. /\ \A q \in Typed : Down(q) /\ Up(q)
      /\ \A q \in Typed : Started(q) =>
            \A k \in 1 .. 3 : k <= Len(toSend[q]) \/ Queued(q, k) \/ Received(q, k)
      /\ \A q \in Sender : toReceive[q] = << >> /\ got[q] = << >>
      /\ IsFiniteSet({q \in Run : got[q] # << >>})
  BY DEF Accounts
<1>3. type \in 1 .. 3 /\ Len(got[r]) = type - 1
  <2>1. Len(toReceive[r]) \in Nat \ {0} /\ type = toReceive[r][1]
    BY <1>1, Shorter
  <2>2. 1 \in 1 .. Len(toReceive[r]) /\ Len(toReceive[r]) <= 3 /\ Len(got[r]) = 3 - Len(toReceive[r])
    <3>1. Up(r) /\ Started(r)
      BY <1>2 DEF Started
    <3>2. Len(toReceive[r]) <= 3 /\ Len(got[r]) = 3 - Len(toReceive[r])
      BY <3>1 DEF Up
    <3>3. 1 \in 1 .. Len(toReceive[r])
      BY <2>1
    <3> QED BY <3>2, <3>3
  <2>3. type = 3 - Len(toReceive[r]) + 1
    BY <1>2, <2>1, <2>2 DEF Up
  <2> QED BY <2>1, <2>2, <2>3
<1> DEFINE Parties == {q \in Typed : Started(q)}
           Served == {q \in Typed : Len(got[q]) >= type}
<1>4. ASSUME NEW s \in Parties
      PROVE  \E q \in Served : got[q][type] = Msg(s, type)
  <2>1. ~(type <= Len(toSend[s]))
    <3>1. SUFFICES ASSUME type <= Len(toSend[s])
                   PROVE  FALSE
      OBVIOUS
    <3> DEFINE k == Len(toSend[s]) + 1 - type
    <3>2. k \in DOMAIN toSend[s] /\ Len(toSend[s]) + 1 - k = type
      BY <1>1, <1>3, <3>1
    <3>3. toSend[s][k] = type
      BY <1>1, <1>2, <3>2 DEF Down
    <3> QED BY <3>2, <3>3 DEF ToCome
  <2>2. ~Queued(s, type)
    BY DEF Queued, Msg
  <2>0. PICK q \in Run : \E k \in DOMAIN got[q] : got[q][k] = Msg(s, type)
    BY <1>2, <1>3, <2>1, <2>2 DEF Received
  <2>3. PICK k \in DOMAIN got[q] : got[q][k] = Msg(s, type)
    BY <2>0
  <2>4. got[q][k].type = type /\ got[q] # << >>
    BY <1>1, <2>3 DEF Msg
  <2>5. q \in Typed
    BY <1>2, <2>3, <2>4 DEF Taken, Run
  <2>6. k = type
    BY <1>1, <1>2, <2>4, <2>5 DEF Up
  <2>7. q \in Served /\ got[q][type] = Msg(s, type)
    BY <1>1, <2>3, <2>5, <2>6
  <2> QED BY <2>7
<1>5. Served \subseteq Parties \ {r}
  <2>1. \A q \in Served : got[q] # << >>
    BY <1>1, <1>3
  <2>2. r \notin Served
    BY <1>1, <1>3
  <2> QED BY <2>1, <2>2 DEF Started
<1>6. IsFiniteSet(Served)
  <2>1. Served \in SUBSET {q \in Run : got[q] # << >>}
    BY <1>1, <1>3
  <2> QED BY <1>2, <2>1, FS_Subset
<1> DEFINE from == [q \in Served |-> got[q][type].from]
<1>7. ASSUME NEW s \in Parties
      PROVE  \E q \in Served : from[q] = s
  <2>1. PICK q \in Served : got[q][type] = Msg(s, type)
    BY <1>4
  <2>2. from[q] = s
    BY <2>1 DEF Msg
  <2> QED BY <2>2
<1>8. r \in Parties
  BY DEF Started
<1> HIDE DEF Parties, Served, from
<1>9. IsFiniteSet(Parties) /\ Cardinality(Parties) <= Cardinality(Served)
  BY <1>6, <1>7, Covered
<1> QED BY <1>5, <1>8, <1>9, LeftOut

\* However many programs share the queue, with a message of an earlier run in it or none: the
\* child of 04 waits in vain only if a receiver of any type, or a killed process, took its message.
THEOREM OthersStarve == Spec => []StarvedOnlyByOthers
BY TypedInit, TypedStep, AccountsInit, AccountsStep, NobodyLeftOut, PTL DEF Spec
-----------------------------------------------------------------------------
\* The same for 01 and 03, where a child makes one call and takes any type: it has received
\* one message or none, and what its parent no longer has to send is queued or received.
OneEach ==
    killed = {} => \A r \in Plain :
        /\ \A k \in 1 .. Len(toSend[r]) : toSend[r][k] = Other
        /\ Started(r) =>
            /\ Len(toReceive[r]) + Len(got[r]) = 1
            /\ toSend[r] # << >> \/ Queued(r, Other) \/ Received(r, Other)

LEMMA OneEachInit == Init => OneEach
<1> SUFFICES ASSUME Init, NEW r \in Plain
             PROVE  /\ \A k \in 1 .. Len(toSend[r]) : toSend[r][k] = Other
                    /\ Started(r) => Len(toReceive[r]) + Len(got[r]) = 1 /\ toSend[r] # << >>
  BY DEF OneEach
<1>1. r \in Run /\ Sends(r) = << Other >> /\ Receives(r) = << AnyType >>
  BY KindsAssumption DEF Run, Sends, Receives
<1>2. PICK cast \in Casts :
        /\ toSend = [q \in Run |-> IF q \in cast THEN Sends(q) ELSE << >>]
        /\ toReceive = [q \in Run |-> IF q \in cast THEN Receives(q) ELSE << >>]
  BY DEF Init
<1>3. got[r] = << >>
  BY <1>1 DEF Init
<1>4. CASE r \in cast
  <2>1. toSend[r] = << Other >> /\ toReceive[r] = << AnyType >>
    BY <1>1, <1>2, <1>4
  <2> QED BY <1>3, <2>1
<1>5. CASE r \notin cast
  <2>1. toSend[r] = << >> /\ toReceive[r] = << >>
    BY <1>1, <1>2, <1>5
  <2> QED BY <1>3, <2>1 DEF Started
<1> QED BY <1>4, <1>5

LEMMA OneEachStep == TypeOK /\ OneEach /\ [Next]_vars => OneEach'
<1> SUFFICES ASSUME TypeOK, OneEach, [Next]_vars, killed' = {}, NEW q \in Plain
             PROVE  /\ \A k \in 1 .. Len(toSend'[q]) : toSend'[q][k] = Other
                    /\ Started(q)' =>
                        /\ Len(toReceive'[q]) + Len(got'[q]) = 1
                        /\ toSend'[q] # << >> \/ Queued(q, Other)' \/ Received(q, Other)'
  BY DEF OneEach
<1>1. /\ q \in Run /\ box \in Seq(Message)
      /\ toSend \in [Run -> Seq(1 .. Other)] /\ toReceive \in [Run -> Seq(AnyType .. 3)]
      /\ got \in [Run -> Seq(Message)]
      /\ \A r \in Run : Len(toSend[r]) \in Nat /\ Len(toReceive[r]) \in Nat /\ Len(got[r]) \in Nat
  BY LenProperties DEF TypeOK, Message, Run
<1>2. killed = {}
  BY DEF Next, Send, SendRefused, Receive, Kill, vars
<1>3. /\ \A k \in 1 .. Len(toSend[q]) : toSend[q][k] = Other
      /\ Started(q) =>
          /\ Len(toReceive[q]) + Len(got[q]) = 1
          /\ toSend[q] # << >> \/ Queued(q, Other) \/ Received(q, Other)
  BY <1>2 DEF OneEach
<1>4. Queued(q, Other) \/ Received(q, Other) => Queued(q, Other)' \/ Received(q, Other)'
  <2>1. ASSUME NEW type, Queued(q, type) \/ Received(q, type)
        PROVE  Queued(q, type)' \/ Received(q, type)'
    BY <2>1, Conserved
  <2> QED BY <2>1
<1>5. CASE UNCHANGED << toSend, toReceive, got >>
  BY <1>3, <1>4, <1>5 DEF Started
<1>6. ASSUME NEW r \in Run, r # q, Send(r) \/ SendRefused(r) \/ Receive(r)
      PROVE  UNCHANGED << toSend[q], toReceive[q], got[q] >>
  BY <1>1, <1>6 DEF Send, SendRefused, Sent, Receive
<1>7. CASE UNCHANGED << toSend[q], toReceive[q], got[q] >>
  BY <1>3, <1>4, <1>7 DEF Started
<1>8. CASE Send(q)
  <2>1. /\ toSend' = [toSend EXCEPT ![q] = Tail(@)] /\ toSend[q] # << >>
        /\ box' = Append(box, [from |-> q, type |-> Head(toSend[q])])
        /\ UNCHANGED << toReceive, got >>
    BY <1>8 DEF Send, Sent
  <2>2. /\ Len(Tail(toSend[q])) = Len(toSend[q]) - 1 /\ Len(toSend[q]) \in Nat \ {0}
        /\ Head(toSend[q]) = toSend[q][1]
        /\ \A k \in 1 .. Len(Tail(toSend[q])) : Tail(toSend[q])[k] = toSend[q][k + 1]
    BY <1>1, <2>1, Shorter
  <2>3. toSend'[q] = Tail(toSend[q])
    BY <1>1, <2>1
  <2>4. Head(toSend[q]) = Other
    BY <1>3, <2>2
  <2>5. \A k \in 1 .. Len(toSend'[q]) : toSend'[q][k] = Other
    BY <1>3, <2>2, <2>3
  <2>6. Queued(q, Other)'
    <3> DEFINE m == Msg(q, Other)
    <3>1. m \in Message
      BY <1>1 DEF Message, Msg, Other
    <3>2. box' = Append(box, m)
      BY <2>1, <2>4 DEF Msg
    <3> HIDE DEF m
    <3>3. box' \in Seq(Message) /\ Len(box') = Len(box) + 1 /\ box'[Len(box) + 1] = m
      BY <1>1, <3>1, <3>2, AppendProperties
    <3>4. Len(box) + 1 \in DOMAIN box'
      BY <1>1, <3>3, LenProperties
    <3>5. \E i \in DOMAIN box' : box'[i] = m
      BY <3>3, <3>4
    <3> QED BY <3>5 DEF Queued, Msg, m
  <2> QED BY <1>3, <2>1, <2>5, <2>6 DEF Started
<1>9. CASE SendRefused(q)
  BY <1>9, KindsAssumption DEF SendRefused
<1>10. CASE Receive(q)
  <2>1. PICK i \in DOMAIN box : got' = [got EXCEPT ![q] = Append(@, box[i])]
    BY <1>10 DEF Receive
  <2>2. /\ toReceive' = [toReceive EXCEPT ![q] = Tail(@)] /\ toReceive[q] # << >>
        /\ UNCHANGED toSend
    BY <1>10 DEF Receive
  <2>3. Len(toReceive'[q]) = Len(toReceive[q]) - 1
    <3>1. toReceive'[q] = Tail(toReceive[q])
      BY <1>1, <2>2
    <3> QED BY <1>1, <2>2, <3>1, Shorter
  <2>4. Len(got'[q]) = Len(got[q]) + 1
    <3>1. box[i] \in Message
      BY <1>1, <2>1, LenProperties
    <3>2. got'[q] = Append(got[q], box[i])
      BY <1>1, <2>1
    <3> QED BY <1>1, <3>1, <3>2, AppendProperties
  <2>5. Started(q)
    BY <2>2 DEF Started
  <2> QED BY <1>1, <1>3, <1>4, <2>2, <2>3, <2>4, <2>5
<1>11. ASSUME NEW r \in Run, Kill(r)
       PROVE  FALSE
  BY <1>11 DEF Kill
<1> QED BY <1>5, <1>6, <1>7, <1>8, <1>9, <1>10, <1>11 DEF Next, vars

\* A message of 01 or 03 is never one that a child of 04 receives, so when all parents have sent,
\* the queue is empty and no receiver took any, the children of 01 and 03 share as many
\* messages as they are; but one of them has none, and the others have one each.
LEMMA NoPlainLeftOut == TypeOK /\ Accounts /\ OneEach => PlainStarvedOnlyByReceivers
<1> SUFFICES ASSUME TypeOK, Accounts, OneEach, killed = {}, NEW r \in Plain,
                    toReceive[r] # << >>, box = << >>,
                    ~\E q \in Plain : toSend[q] # << >>, ~RobbedPlain
             PROVE  FALSE
  BY DEF PlainStarvedOnlyByReceivers
<1>1. /\ toReceive \in [Run -> Seq(AnyType .. 3)]
      /\ got \in [Run -> Seq(Message)] /\ Plain \subseteq Run
      /\ \A q \in Run : Len(toReceive[q]) \in Nat
      /\ \A q \in Run : DOMAIN got[q] = 1 .. Len(got[q]) /\ Len(got[q]) \in Nat
  BY LenProperties DEF TypeOK, Message, Run
<1>2. /\ \A q \in Typed : Up(q)
      /\ \A q \in Sender : got[q] = << >>
      /\ IsFiniteSet({q \in Run : got[q] # << >>})
  BY DEF Accounts
<1>3. \A q \in Plain : Started(q) =>
        Len(toReceive[q]) + Len(got[q]) = 1 /\ (Queued(q, Other) \/ Received(q, Other))
  BY DEF OneEach
<1> DEFINE Parties == {q \in Plain : Started(q)}
           Served == {q \in Plain : got[q] # << >>}
<1>4. ASSUME NEW s \in Parties
      PROVE  \E q \in Served : got[q][1] = Msg(s, Other)
  <2>1. ~Queued(s, Other)
    BY EmptySeq DEF Queued
  <2>2. PICK q \in Run : \E k \in DOMAIN got[q] : got[q][k] = Msg(s, Other)
    BY <1>3, <2>1 DEF Received
  <2>3. PICK k \in DOMAIN got[q] : got[q][k] = Msg(s, Other)
    BY <2>2
  <2>4. got[q][k].from = s /\ got[q][k].type = Other /\ k \in 1 .. Len(got[q])
    BY <1>1, <2>3 DEF Msg
  <2>5. got[q] # << >>
    BY <2>4, EmptySeq
  <2>6. q \notin Receiver
    BY <2>4 DEF RobbedPlain
  <2>7. q \notin Typed
    <3>1. SUFFICES ASSUME q \in Typed
                   PROVE  FALSE
      OBVIOUS
    <3>2. Len(got[q]) = 3 - Len(toReceive[q]) /\ got[q][k].type = k
      BY <1>2, <2>4, <2>5, <3>1 DEF Up, Started
    <3> QED BY <1>1, <2>4, <3>2 DEF Other
  <2>8. q \in Served
    BY <1>2, <2>5, <2>6, <2>7 DEF Run
  <2>9. k = 1
    <3>1. Len(toReceive[q]) + Len(got[q]) = 1
      BY <1>3, <2>8 DEF Started
    <3> QED BY <1>1, <2>4, <3>1
  <2> QED BY <2>3, <2>8, <2>9
<1>5. Served \subseteq Parties \ {r}
  <2>1. got[r] = << >>
    <3>1. Len(toReceive[r]) + Len(got[r]) = 1 /\ Len(toReceive[r]) \in Nat \ {0}
      BY <1>1, <1>3, Shorter DEF Started
    <3>2. Len(got[r]) = 0
      BY <1>1, <3>1
    <3> QED BY <1>1, <3>2, EmptySeq
  <2> QED BY <2>1 DEF Started
<1>6. IsFiniteSet(Served)
  <2>1. Served \in SUBSET {q \in Run : got[q] # << >>}
    BY <1>1
  <2> QED BY <1>2, <2>1, FS_Subset
<1> DEFINE from == [q \in Served |-> got[q][1].from]
<1>7. ASSUME NEW s \in Parties
      PROVE  \E q \in Served : from[q] = s
  <2>1. PICK q \in Served : got[q][1] = Msg(s, Other)
    BY <1>4
  <2>2. from[q] = s
    BY <2>1 DEF Msg
  <2> QED BY <2>2
<1>8. r \in Parties
  BY DEF Started
<1> HIDE DEF Parties, Served, from
<1>9. IsFiniteSet(Parties) /\ Cardinality(Parties) <= Cardinality(Served)
  BY <1>6, <1>7, Covered
<1> QED BY <1>5, <1>8, <1>9, LeftOut

\* However many programs share the queue, in whatever mixture, with a message of an earlier run in
\* it or none: a child of 01 or 03 waits at an empty queue for a message that no parent will send only if
\* a receiver of simple_sample took one of theirs, or a process was killed.
THEOREM PlainStarve == Spec => []PlainStarvedOnlyByReceivers
BY TypedInit, TypedStep, AccountsInit, AccountsStep, OneEachInit, OneEachStep, NoPlainLeftOut,
   PTL DEF Spec

\* Both together: at the queue that all the programs share, no kind starves itself.
THEOREM CauseOfStarving == Spec => []StarvedForCause
<1>1. StarvedOnlyByOthers /\ PlainStarvedOnlyByReceivers => StarvedForCause
  BY DEF StarvedForCause
<1> QED BY <1>1, OthersStarve, PlainStarve, PTL
=============================================================================
