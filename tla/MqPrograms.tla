----------------------------- MODULE MqPrograms -----------------------------
(***************************************************************************)
(* The programs below XX_mq that meet at the message queue "/test":        *)
(*   sender, receiver   XX_simple, through the class MyMessageQueue        *)
(*   opener             01_mq_open, a child that sends and a parent        *)
(*   unlinker           02_mq_unlink                                       *)
(*   pattern            04_patterns, a thread that sends and one that      *)
(*                      receives                                           *)
(* Any number of instances run at once.  A queue outlives its name while   *)
(* some process has it open, so at one time there may be several queues    *)
(* that were all called "/test"; each is known by the process that made it.*)
(***************************************************************************)
EXTENDS Naturals, Sequences

CONSTANTS
    Proc,      \* the processes (an opener and its child are one)
    Kind,      \* which program each of them runs
    Casts,     \* the sets of processes that may be started together
    Old,       \* a queue left over by an earlier run
    None,      \* no queue: the name is free, or a descriptor is -1
    Count,     \* messages sent by a sender and read by a receiver (5 in the code)
    Capacity   \* mq_maxmsg (10 on Linux)

Programs == {"sender", "receiver", "opener", "unlinker", "pattern"}

ASSUME KindAssumption     == Kind \in [Proc -> Programs]
ASSUME CastsAssumption    == Casts \subseteq SUBSET Proc
ASSUME OldAssumption      == Old \notin Proc
ASSUME NoneAssumption     == None \notin Proc \cup {Old}
ASSUME CountAssumption    == Count \in Nat \ {0}
ASSUME CapacityAssumption == Capacity \in Nat \ {0}

Queue   == Proc \cup {Old}
Message == [from : Queue, left : Nat]   \* left: what remained to be sent after it

VARIABLES
    name,      \* the queue "/test" refers to
    box,       \* the messages in each queue
    pc,
    fd,        \* the queue a process has opened
    toSend,
    toReceive,
    readable,  \* can mq_send() read mq_msgsize bytes from where msg is?
    got,       \* the messages a process has received, in order
    raced      \* processes for which the name changed between two calls of their opening

vars == << name, box, pc, fd, toSend, toReceive, readable, got, raced >>

Simple == {p \in Proc : Kind[p] \in {"sender", "receiver"}}
Pattern == {p \in Proc : Kind[p] = "pattern"}
Opener == {p \in Proc : Kind[p] = "opener"}
Unlinker == {p \in Proc : Kind[p] = "unlinker"}

Sends(p) ==
    IF Kind[p] = "sender" THEN Count ELSE IF p \in Opener \cup Pattern THEN 1 ELSE 0

Receives(p) ==
    IF Kind[p] = "receiver" THEN Count ELSE IF p \in Opener \cup Pattern THEN 1 ELSE 0

Init ==
    /\ name \in {None, Old}
    /\ \E old \in {<< >>, << [from |-> Old, left |-> 0] >>} :
        /\ name = None => old = << >>
        /\ box = [q \in Queue |-> IF q = Old THEN old ELSE << >>]
    /\ \E cast \in Casts :
        pc = [p \in Proc |-> CASE p \notin cast -> "exit"
                               [] p \in cast \cap Pattern -> "clear"
                               [] p \in cast \cap Unlinker -> "unlink"
                               [] OTHER -> "open"]
    /\ fd = [p \in Proc |-> None]
    /\ toSend = [p \in Proc |-> Sends(p)]
    /\ toReceive = [p \in Proc |-> Receives(p)]
    /\ readable \in [Proc -> BOOLEAN]
    /\ \A p \in Proc : Kind[p] # "sender" => readable[p]
    /\ got = [p \in Proc |-> << >>]
    /\ raced = {}
-----------------------------------------------------------------------------
(* The name. *)

\* Who is between the two calls that open the queue: mq_open() and mq_open() of
\* MyMessageQueue, mq_unlink() and mq_open() of 04.
MidOpen(p) == pc[p] = "reopen" \/ (p \in Pattern /\ pc[p] = "open")

SetName(p, q) ==
    /\ name' = q
    /\ raced' = IF name = q THEN raced ELSE raced \cup {r \in Proc \ {p} : MidOpen(r)}

Goto(p, l) == pc' = [pc EXCEPT ![p] = l]

Create(p) ==
    /\ SetName(p, p)
    /\ fd' = [fd EXCEPT ![p] = p]

Fixed == UNCHANGED << box, toSend, toReceive, readable, got >>

\* 04: mq_unlink() before anything else.
Clear(p) ==
    /\ p \in Pattern /\ pc[p] = "clear"
    /\ SetName(p, None)
    /\ Goto(p, "open")
    /\ UNCHANGED fd /\ Fixed

\* The mistake: O_EXCL forgotten.
OpenOrJoin(p) ==
    /\ p \in Pattern /\ pc[p] = "open"
    /\ IF name = None
       THEN Create(p)
       ELSE fd' = [fd EXCEPT ![p] = name] /\ UNCHANGED << name, raced >>
    /\ Goto(p, "run")
    /\ Fixed

\* 04: O_EXCL | O_CREAT; the threads run whether it succeeds or not.
OpenExclusive(p) ==
    /\ p \in Pattern /\ pc[p] = "open"
    /\ IF name = None THEN Create(p) ELSE UNCHANGED << name, raced, fd >>
    /\ Goto(p, "run")
    /\ Fixed

\* 01: O_CREAT alone.
OpenOrCreate(p) ==
    /\ p \in Opener /\ pc[p] = "open"
    /\ IF name = None
       THEN Create(p)
       ELSE fd' = [fd EXCEPT ![p] = name] /\ UNCHANGED << name, raced >>
    /\ Goto(p, "run")
    /\ Fixed

\* The mistake: O_CREAT forgotten.
OpenExisting(p) ==
    /\ p \in Simple /\ pc[p] = "open"
    /\ Goto(p, "reopen")
    /\ UNCHANGED << name, raced, fd >> /\ Fixed

\* MyMessageQueue: O_CREAT | O_EXCL first, and if that fails
OpenFirst(p) ==
    /\ p \in Simple /\ pc[p] = "open"
    /\ IF name = None
       THEN Create(p) /\ Goto(p, "run")
       ELSE Goto(p, "reopen") /\ UNCHANGED << name, raced, fd >>
    /\ Fixed

\* without either; ENOENT leaves _mqd at -1.
Reopen(p) ==
    /\ p \in Simple /\ pc[p] = "reopen"
    /\ fd' = [fd EXCEPT ![p] = name]
    /\ Goto(p, "run")
    /\ UNCHANGED << name, raced >> /\ Fixed

\* 02, and the destructor of MyMessageQueue, whoever made the queue.
Unlink(p) ==
    /\ pc[p] = "unlink"
    /\ SetName(p, None)
    /\ Goto(p, "exit")
    /\ UNCHANGED fd /\ Fixed
-----------------------------------------------------------------------------
(* Messages.  Opener and pattern send and receive concurrently. *)

\* The mistake: one round too many.
SendPastEnd(p) ==
    /\ pc[p] = "run" /\ toSend[p] >= 0
    /\ toSend' = [toSend EXCEPT ![p] = @ - 1]
    /\ UNCHANGED << name, raced, pc, fd, box, toReceive, readable, got >>

\* mq_send() waits while the queue is full; it fails on a descriptor of -1, and with
\* EFAULT when the string does not lie within mq_msgsize readable bytes.
Send(p) ==
    /\ pc[p] = "run" /\ toSend[p] > 0
    /\ toSend' = [toSend EXCEPT ![p] = @ - 1]
    /\ IF fd[p] # None /\ readable[p]
       THEN /\ Len(box[fd[p]]) < Capacity
            /\ box' = [box EXCEPT ![fd[p]] = Append(@, [from |-> p, left |-> toSend'[p]])]
       ELSE UNCHANGED box
    /\ UNCHANGED << name, raced, pc, fd, toReceive, readable, got >>

\* The mistake: counting on a reply for every call.
ReceiveSurely(p) ==
    /\ pc[p] = "run" /\ toReceive[p] > 0 /\ fd[p] # None
    /\ toReceive' = [toReceive EXCEPT ![p] = @ - 1]
    /\ box[fd[p]] # << >>
    /\ box' = [box EXCEPT ![fd[p]] = Tail(@)]
    /\ got' = [got EXCEPT ![p] = Append(@, Head(box[fd[p]]))]
    /\ UNCHANGED << name, raced, pc, fd, toSend, readable >>

\* mq_receive() waits while the queue is empty and fails on a descriptor of -1.
Receive(p) ==
    /\ pc[p] = "run" /\ toReceive[p] > 0
    /\ toReceive' = [toReceive EXCEPT ![p] = @ - 1]
    /\ IF fd[p] # None
       THEN /\ box[fd[p]] # << >>
            /\ box' = [box EXCEPT ![fd[p]] = Tail(@)]
            /\ got' = [got EXCEPT ![p] = Append(@, Head(box[fd[p]]))]
       ELSE UNCHANGED << box, got >>
    /\ UNCHANGED << name, raced, pc, fd, toSend, readable >>

\* The mistake: the end of the receiver taken for the end of both.
FinishUnsent(p) ==
    /\ pc[p] = "run" /\ toReceive[p] = 0
    /\ Goto(p, IF p \in Simple THEN "unlink" ELSE "exit")
    /\ UNCHANGED << name, raced, fd >> /\ Fixed

\* Only the destructor of MyMessageQueue unlinks.
Finish(p) ==
    /\ pc[p] = "run" /\ toSend[p] = 0 /\ toReceive[p] = 0
    /\ Goto(p, IF p \in Simple THEN "unlink" ELSE "exit")
    /\ UNCHANGED << name, raced, fd >> /\ Fixed

\* Interrupted at the terminal, or killed: no destructor runs.
Crash(p) ==
    /\ pc[p] \notin {"exit", "crashed"}
    /\ Goto(p, "crashed")
    /\ UNCHANGED << name, raced, fd >> /\ Fixed
-----------------------------------------------------------------------------
Step(p) ==
    \/ Clear(p) \/ OpenExclusive(p) \/ OpenOrCreate(p) \/ OpenFirst(p) \/ Reopen(p)
    \/ Unlink(p) \/ Send(p) \/ Receive(p) \/ Finish(p)

Next == \E p \in Proc : Step(p) \/ Crash(p)

\* Somebody types the messages of the sender; a process that can run does.
Fairness == \A p \in Proc : WF_vars(Send(p)) /\ WF_vars(Receive(p)) /\ WF_vars(Step(p))

Spec == Init /\ [][Next]_vars
NoCrash == \E p \in Proc : Step(p)
FairSpec == Init /\ [][NoCrash]_vars /\ Fairness
-----------------------------------------------------------------------------
(* Properties. *)

\* Every variable stays in its range.
TypeOK ==
    /\ name \in Queue \cup {None}
    /\ box \in [Queue -> Seq(Message)]
    /\ pc \in [Proc -> {"clear", "open", "reopen", "run", "unlink", "exit", "crashed"}]
    /\ fd \in [Proc -> Queue \cup {None}]
    /\ toSend \in [Proc -> Nat] /\ toReceive \in [Proc -> Nat]
    /\ readable \in [Proc -> BOOLEAN]
    /\ got \in [Proc -> Seq(Message)]
    /\ raced \subseteq Proc

\* The two calls that open the queue (O_EXCL and then without; unlink and then O_EXCL)
\* leave a process with the descriptor -1 only when another process removed or made
\* the name between them.  The calls are taken to fail for a name that is there or is missing
\* only (EEXIST, ENOENT), never for want of space, rights or descriptors.
OpenFailsOnlyInRace ==
    \A p \in Proc : (pc[p] = "run" /\ fd[p] = None) => p \in raced

\* 04 clears the name and insists on a new queue, so whatever it receives was sent by a
\* process that joined its own queue: never a message of an earlier run, nor one of a
\* queue it happened to find.
PatternReceivesJoiners ==
    \A p \in Pattern : \A k \in DOMAIN got[p] :
        got[p][k].from \in Proc /\ fd[got[p][k].from] = p

\* p waits for a message in vain, at least for now.
Starving(p) == pc[p] = "run" /\ toReceive[p] > 0 /\ fd[p] # None /\ box[fd[p]] = << >>
Sharing(p)  == {r \in Proc \ {p} : fd[r] = fd[p]}
Owing(p)    == toSend[p] > 0 /\ pc[p] \in {"run", "crashed"}

\* An opener or a pattern is not left without a message by its like, however many share the
\* queue and take each other's: one of them (or itself) has not sent yet, or a receiver, which
\* sends nothing, was here.
BalancedAreOwed ==
    \A p \in Opener \cup Pattern : Starving(p) =>
        \/ \E r \in (Opener \cup Pattern) \cap (Sharing(p) \cup {p}) : Owing(r)
        \/ \E r \in Sharing(p) : Kind[r] = "receiver" /\ got[r] # << >>

\* A receiver that found the queue of a sender is not left without a message by it, whoever
\* unlinks the name: the sender has not sent all, or somebody else took a message.  This is of
\* senders whose oversized reads stay in the heap (readable); the others send nothing.
ReceiverIsOwed ==
    \A p, s \in Proc :
        Kind[p] = "receiver" /\ Starving(p) /\ Kind[s] = "sender" /\ s \in Sharing(p) /\ readable[s] =>
            Owing(s) \/ \E r \in Sharing(p) : got[r] # << >>

\* Whoever waits in mq_receive() is owed a message by those the program counts on, or an
\* outsider took one: a name that is unlinked or made again in between costs nobody a message.
WaitersAreOwed == BalancedAreOwed /\ ReceiverIsOwed

\* Openers and patterns send one message for each one they take, so as long as no receiver
\* is about, every one of them ends whatever queues they share and whoever unlinks those.
\* (04_patterns/01_sent_before_waiting/README.md says of the order in which its two threads
\* start: "this pattern works well, too".)
NoSimple == \A p \in Simple : pc[p] = "exit"
BalancedEnds == NoSimple ~> (\A p \in Proc : pc[p] = "exit")

\* A sender and a receiver that have the same queue open finish their exchange whoever
\* unlinks the name meanwhile, the sender itself included, before the receiver is done, if the
\* reads of Send stay in the heap (readable): a sender whose mq_send() fails with EFAULT keeps
\* its receiver waiting.
SimplePairDelivers ==
    \A s, r \in Proc :
        ( /\ Kind[s] = "sender" /\ pc[s] = "run" /\ toSend[s] = Count /\ readable[s]
          /\ Kind[r] = "receiver" /\ pc[r] = "run"
          /\ fd[s] = fd[r] /\ fd[s] # None )
        ~> pc[r] = "exit"
=============================================================================
