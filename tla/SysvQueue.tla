------------------------------ MODULE SysvQueue ------------------------------
(***************************************************************************)
(* 05_msgsnd_rcv: the programs that meet at one System V message queue,    *)
(*   Plain             01 and 03, a parent that sends one message and a    *)
(*                     child that receives any one                         *)
(*   Typed             04, a parent that sends the types 3, 2, 1 and a     *)
(*                     child that receives the types 1, 2, 3               *)
(*   Sender, Receiver  simple_sample, Count messages each                  *)
(* in any number.  They all use the key of /tmp/yqueue, or -1 without that *)
(* file.  Nobody removes the queue: a run starts with what others left.    *)
(*                                                                         *)
(* The sleeps only choose between "send first" and "receive first"; here   *)
(* each sender and each receiver is as slow as it likes.                   *)
(***************************************************************************)
EXTENDS Naturals, Sequences, SequencesExt

CONSTANTS
    Plain, Typed, Sender, Receiver,
    Casts,     \* the sets of programs that may be started together
    Old,       \* the sender of what was left in the queue
    Count,     \* 5 in the code
    Capacity   \* messages that fit into the queue (512 of 01, 03 and 04)

Run == Plain \cup Typed \cup Sender \cup Receiver

\* A process runs one of the programs.
ASSUME KindsAssumption ==
    /\ Plain \cap (Typed \cup Sender \cup Receiver) = {}
    /\ Typed \cap (Sender \cup Receiver) = {}
    /\ Sender \cap Receiver = {}
ASSUME CastsAssumption    == Casts \subseteq SUBSET Run
ASSUME OldAssumption      == Old \notin Run
ASSUME CountAssumption    == Count \in Nat
ASSUME CapacityAssumption == Capacity \in Nat \ {0}

AnyType == 0 \* msgtyp of a receiver that takes whatever comes first
Other   == 4 \* any mtype but 1, 2, 3: a process id, or the first 8 bytes of a text

VARIABLES
    box,       \* the messages in the queue
    toSend,    \* the types each program still sends
    toReceive, \* the msgtyp of the calls it still makes
    got,       \* what it has received
    killed     \* did one of its processes die?

vars == << box, toSend, toReceive, got, killed >>

\* The mistakes: l >= 0 in the loop of the parent; MsgType_3 + 1 in that of the child.
SendsToZero(r) ==
    CASE r \in Plain -> << Other >>
      [] r \in Typed -> << 3, 2, 1, 0 >>
      [] r \in Sender -> [k \in 1 .. Count |-> Other]
      [] r \in Receiver -> << >>

ReceivesPastEnd(r) ==
    CASE r \in Plain -> << AnyType >>
      [] r \in Typed -> << 1, 2, 3, 4 >>
      [] r \in Sender -> << >>
      [] r \in Receiver -> [k \in 1 .. Count |-> AnyType]

Sends(r) ==
    CASE r \in Plain -> << Other >>
      [] r \in Typed -> << 3, 2, 1 >>
      [] r \in Sender -> [k \in 1 .. Count |-> Other]
      [] r \in Receiver -> << >>

Receives(r) ==
    CASE r \in Plain -> << AnyType >>
      [] r \in Typed -> << 1, 2, 3 >>
      [] r \in Sender -> << >>
      [] r \in Receiver -> [k \in 1 .. Count |-> AnyType]

Init ==
    /\ \E n \in 0 .. 1, t \in 1 .. Other : box = SubSeq(<< [from |-> Old, type |-> t] >>, 1, n)
    /\ \E cast \in Casts :
        /\ toSend = [r \in Run |-> IF r \in cast THEN Sends(r) ELSE << >>]
        /\ toReceive = [r \in Run |-> IF r \in cast THEN Receives(r) ELSE << >>]
    /\ got = [r \in Run |-> << >>]
    /\ killed = {}

Sent(r) == toSend' = [toSend EXCEPT ![r] = Tail(@)]

\* msgsnd() waits while the queue is full.
Send(r) ==
    /\ toSend[r] # << >> /\ Len(box) < Capacity
    /\ box' = Append(box, [from |-> r, type |-> Head(toSend[r])])
    /\ Sent(r)
    /\ UNCHANGED << toReceive, got, killed >>

\* MyMessageQueue::Send() puts the text where the type belongs: a short one leaves part of
\* the type to chance, and a type that is not positive is refused.
SendRefused(r) ==
    /\ r \in Sender /\ toSend[r] # << >>
    /\ Sent(r)
    /\ UNCHANGED << box, toReceive, got, killed >>

\* The mistake: MSG_EXCEPT, which 05_msgsnd_rcv/README.md mentions.
MatchesExcept(m, type) == type = AnyType \/ m.type # type

Matches(m, type) == type = AnyType \/ m.type = type

\* msgrcv() takes the first message it may take, and waits for one.
Receive(r) ==
    /\ toReceive[r] # << >>
    /\ \E i \in DOMAIN box :
        /\ Matches(box[i], Head(toReceive[r]))
        /\ \A j \in 1 .. i - 1 : ~Matches(box[j], Head(toReceive[r]))
        /\ got' = [got EXCEPT ![r] = Append(@, box[i])]
        /\ box' = RemoveAt(box, i)
    /\ toReceive' = [toReceive EXCEPT ![r] = Tail(@)]
    /\ UNCHANGED << toSend, killed >>

Kill(r) ==
    /\ \/ toSend[r] # << >> /\ toSend' = [toSend EXCEPT ![r] = << >>] /\ UNCHANGED toReceive
       \/ toReceive[r] # << >> /\ toReceive' = [toReceive EXCEPT ![r] = << >>] /\ UNCHANGED toSend
    /\ killed' = killed \cup {r}
    /\ UNCHANGED << box, got >>

Next == \E r \in Run : Send(r) \/ SendRefused(r) \/ Receive(r) \/ Kill(r)

\* The user types the messages of a Sender; nobody has to be killed.
Fairness == \A r \in Run : WF_vars(Send(r) \/ SendRefused(r)) /\ WF_vars(Receive(r))

Spec == Init /\ [][Next]_vars /\ Fairness
-----------------------------------------------------------------------------
(* Properties. *)

\* Every variable stays in its range, and the types are positive.
TypeOK ==
    /\ box \in Seq([from : Run \cup {Old}, type : 1 .. Other]) /\ Len(box) <= Capacity
    /\ toSend \in [Run -> Seq(1 .. Other)]
    /\ toReceive \in [Run -> Seq(AnyType .. 3)]
    /\ got \in [Run -> Seq([from : Run \cup {Old}, type : 1 .. Other])]
    /\ killed \subseteq Run

Taken(type) == \E r \in Plain \cup Receiver : \E k \in DOMAIN got[r] : got[r][k].type = type
ToCome(type) == \E r \in Typed : \E k \in DOMAIN toSend[r] : toSend[r][k] = type

\* The child of 04 waits for a type that is neither queued nor still to be sent only
\* when a receiver that takes any type was faster, or a process was killed.  Several 04 at
\* once take each other's messages, but none of them starves.
StarvedOnlyByOthers ==
    \A r \in Typed :
        toReceive[r] # << >> =>
            LET type == Head(toReceive[r])
            IN  \/ \E i \in DOMAIN box : box[i].type = type
                \/ ToCome(type) \/ Taken(type) \/ killed # {}

\* The children of 01 and 03 take anybody's message, and yet never leave one of their own kind
\* without one: it waits at an empty queue only when a parent has not sent yet, a receiver of
\* simple_sample took what a parent sent, or a process was killed.  04 takes none of theirs,
\* and what they take from 04 or from an earlier run is theirs on top.
RobbedPlain == \E r \in Receiver : \E k \in DOMAIN got[r] : got[r][k].from \in Plain
PlainStarvedOnlyByReceivers ==
    \A r \in Plain :
        toReceive[r] # << >> /\ box = << >> =>
            (\E q \in Plain : toSend[q] # << >>) \/ RobbedPlain \/ killed # {}

\* Whatever is mixed at the one queue, nobody is left without a message by its own kind.
StarvedForCause == StarvedOnlyByOthers /\ PlainStarvedOnlyByReceivers

\* Runs of 01 and 03 alone, or of 04 alone, all end, whether sending or receiving comes first
\* and whichever message an earlier run left (one at most), if the queue holds all they send.
\* The room is a condition of 04, whose children wait first for the type that is sent last: in a
\* full queue they and their parents wait for each other for ever.
Active == {r \in Run : toSend[r] # << >> \/ toReceive[r] # << >>}
Unmixed == Active \subseteq Plain \/ Active \subseteq Typed
RoomForAll ==
    Capacity >= Len(box) + FoldFunction(LAMBDA s, n : Len(s) + n, 0, toSend)
UnmixedEnd == (Unmixed /\ RoomForAll) => <>(Active = {} \/ killed # {})
=============================================================================
