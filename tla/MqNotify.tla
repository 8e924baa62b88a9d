------------------------------ MODULE MqNotify ------------------------------
(***************************************************************************)
(* XX_mq/03_notify: the child asks mq_notify() for SIGUSR1 and waits for   *)
(* it in sigsuspend() before each of its five mq_receive() calls; the      *)
(* parent sends five messages.  mq_notify() fires once, and only for a     *)
(* message that arrives at an empty queue.                                 *)
(*                                                                         *)
(* Parent and child pass 32-byte buffers as if they were mq_msgsize bytes  *)
(* long.  What that does depends on the stack of the process and on the    *)
(* compiler: the parent's mq_send() may fail with EFAULT (~readable); the  *)
(* child's mq_receive(), which has taken the message off the queue by      *)
(* then, may fail too, and overwrites what lies above buf: set, ev and i   *)
(* (localsAbove), and the return address of child().                       *)
(***************************************************************************)
EXTENDS Naturals, Sequences

CONSTANT Messages   \* how many messages are sent and waited for (5 in the code)

ASSUME MessagesAssumption == Messages \in Nat \ {0}

VARIABLES
    prompt,      \* do the sleep() calls of the parent outlast the child's work?
    readable,    \* are there mq_msgsize bytes of stack above the parent's buf?
    localsAbove, \* do set, ev and i lie above buf in the child's frame?
    stale,       \* did "/test" exist before, so that O_EXCL failed: g_mqd = -1?
    exists,      \* is the name "/test" there?
    queue,       \* messages sent and not received
    notify,      \* registration: "none", "SIGUSR1" or (a garbage ev) "other"
    pending,     \* is SIGUSR1 pending for the child?
    caught,      \* is sigHandler installed?
    blocked,     \* does *(&set) block SIGUSR1?  (empty until it is overwritten)
    childPc,
    i,           \* the child's loop counter
    handled,     \* number of times sigHandler ran
    consumed,    \* messages taken off the queue by the child, in order
    parentPc,
    toSend       \* the parent's loop counter

buildVars  == << prompt, readable, localsAbove, stale >>
kernelVars == << queue, notify, pending >>
childVars  == << caught, blocked, childPc, i, handled, consumed >>
parentVars == << parentPc, toSend >>
vars == << buildVars, kernelVars, childVars, parentVars, exists >>

Init ==
    /\ prompt \in BOOLEAN
    /\ readable \in BOOLEAN /\ localsAbove \in BOOLEAN /\ stale \in BOOLEAN
    /\ exists = TRUE
    /\ queue = << >> /\ notify = "none" /\ pending = FALSE
    /\ caught = FALSE /\ blocked = FALSE
    /\ childPc = "sigaction" /\ i = Messages
    /\ handled = 0 /\ consumed = << >>
    /\ parentPc = "send" /\ toSend = Messages

Ended == childPc \in {"exit", "killed"}
-----------------------------------------------------------------------------
(* The child. *)

\* SIGUSR1 interrupts the child wherever it is, sigsuspend() included unless the
\* mask given to it was overwritten, before it does anything else.
Interrupts == pending /\ ~(childPc = "suspended" /\ blocked)

ChildAt(pc) == childPc = pc /\ ~Interrupts

\* sigsuspend() returns once the handler has.
HandleSignal ==
    /\ ~Ended /\ Interrupts
    /\ pending' = FALSE
    /\ IF caught
       THEN /\ handled' = handled + 1
            /\ childPc' = IF childPc = "suspended" THEN "receive" ELSE childPc
       ELSE /\ childPc' = "killed"
            /\ UNCHANGED handled
    /\ UNCHANGED << buildVars, queue, notify, caught, blocked, i, consumed, parentVars, exists >>

SigAction ==
    /\ ChildAt("sigaction")
    /\ caught' = TRUE
    /\ childPc' = "notify"
    /\ UNCHANGED << buildVars, kernelVars, blocked, i, handled, consumed, parentVars, exists >>

\* EBADF for a g_mqd of -1, EBUSY while registered; a garbage ev may be refused, may
\* still ask for SIGUSR1 or for something else.
Register ==
    notify' \in IF stale \/ notify # "none" THEN {notify}
                ELSE IF localsAbove /\ consumed # << >> THEN {"none", "SIGUSR1", "other"}
                ELSE {"SIGUSR1"}

\* The mistakes: forgetting that a registration is used up, or the end of the loop.
MqNotifyOnce ==
    /\ ChildAt("notify")
    /\ IF consumed = << >> THEN Register ELSE UNCHANGED notify
    /\ childPc' = IF i > 0 THEN "suspend" ELSE "return"
    /\ UNCHANGED << buildVars, queue, pending, caught, blocked, i, handled, consumed,
                    parentVars, exists >>

MqNotifyEndless ==
    /\ ChildAt("notify")
    /\ Register
    /\ childPc' = "suspend"
    /\ UNCHANGED << buildVars, queue, pending, caught, blocked, i, handled, consumed,
                    parentVars, exists >>

MqNotify ==
    /\ ChildAt("notify")
    /\ Register
    /\ childPc' = IF i > 0 THEN "suspend" ELSE "return"
    /\ UNCHANGED << buildVars, queue, pending, caught, blocked, i, handled, consumed,
                    parentVars, exists >>

\* The mistake: receiving before waiting.
SigSuspendLate ==
    /\ ChildAt("suspend")
    /\ i' = i - 1
    /\ childPc' = "receive"
    /\ UNCHANGED << buildVars, kernelVars, caught, blocked, handled, consumed, parentVars, exists >>

\* while (i--) sigsuspend(&set)
SigSuspend ==
    /\ ChildAt("suspend")
    /\ i' = i - 1
    /\ childPc' = "suspended"
    /\ UNCHANGED << buildVars, kernelVars, caught, blocked, handled, consumed, parentVars, exists >>

\* Blocks while the queue is empty.  Whether it fails with EFAULT or not, the message
\* is gone and what lies above buf is overwritten.
MqReceive ==
    /\ ChildAt("receive")
    /\ IF stale
       THEN UNCHANGED << queue, consumed, blocked, i >>
       ELSE /\ queue # << >>
            /\ queue' = Tail(queue)
            /\ consumed' = Append(consumed, Head(queue))
            /\ IF localsAbove
               THEN blocked' \in BOOLEAN /\ i' \in 0 .. Messages
               ELSE UNCHANGED << blocked, i >>
    /\ childPc' = "notify"
    /\ UNCHANGED << buildVars, notify, pending, caught, handled, parentVars, exists >>

\* child() returns to main, where the child's branch has nothing left to do; but once
\* a message was received its return address is a copy of the parent's stack, and the
\* child goes on in the parent's branch, or crashes.
Return ==
    /\ ChildAt("return")
    /\ childPc' \in IF consumed = << >> THEN {"exit"} ELSE {"exit", "unlink", "killed"}
    /\ UNCHANGED << buildVars, kernelVars, caught, blocked, i, handled, consumed,
                    parentVars, exists >>

ChildUnlink ==
    /\ ChildAt("unlink")
    /\ exists' = FALSE
    /\ childPc' = "exit"
    /\ UNCHANGED << buildVars, kernelVars, caught, blocked, i, handled, consumed, parentVars >>
-----------------------------------------------------------------------------
(* The parent. *)

\* Is the child waiting, so that a sleeping parent can wake up?
ChildIdle == Ended \/ (childPc = "suspended" /\ ~Interrupts)
                   \/ (childPc = "receive" /\ queue = << >> /\ ~stale)

\* A message for an empty queue is announced, once, unless it goes to a receiver that
\* is already waiting.  An announcement by another signal may kill the child.
Announce ==
    IF queue # << >> \/ childPc = "receive"
    THEN UNCHANGED << notify, pending, childPc >>
    ELSE /\ notify' = "none"
         /\ pending' = (pending \/ (notify = "SIGUSR1" /\ ~Ended))
         /\ childPc' \in IF notify = "other" THEN {childPc, "killed"} ELSE {childPc}

\* The change that would keep LostForGood from holding: a signal with each message.
MqSendSignals ==
    /\ parentPc = "send" /\ (prompt => ChildIdle) /\ toSend > 0
    /\ toSend' = toSend - 1
    /\ queue' = IF stale \/ ~readable THEN queue ELSE Append(queue, toSend')
    /\ pending' = ~Ended
    /\ UNCHANGED << buildVars, notify, childVars, parentPc, exists >>

\* buf[len - 1] = '0' + i; mq_send(...); sleep(2).  The queue holds ten messages.
MqSend ==
    /\ parentPc = "send" /\ (prompt => ChildIdle)
    /\ toSend > 0
    /\ toSend' = toSend - 1
    /\ IF stale \/ ~readable
       THEN UNCHANGED << queue, notify, pending, childPc >>
       ELSE /\ queue' = Append(queue, toSend')
            /\ Announce
    /\ UNCHANGED << buildVars, caught, blocked, i, handled, consumed, parentPc, exists >>

\* The loop is over; waitpid(WNOHANG) may reap the child or not.
WaitPid ==
    /\ parentPc = "send" /\ toSend = 0 /\ (prompt => ChildIdle)
    /\ parentPc' = "unlink"
    /\ UNCHANGED << buildVars, kernelVars, childVars, toSend, exists >>

\* ENOENT if the child was there first.
ParentUnlink ==
    /\ parentPc = "unlink"
    /\ exists' = FALSE
    /\ parentPc' = "exit"
    /\ UNCHANGED << buildVars, kernelVars, childVars, toSend >>
-----------------------------------------------------------------------------
ChildStep == HandleSignal \/ SigAction \/ MqNotify \/ SigSuspend \/ MqReceive \/ Return
                          \/ ChildUnlink
ParentStep == MqSend \/ WaitPid \/ ParentUnlink

Next == ChildStep \/ ParentStep

\* The scheduler runs both processes.
Spec == Init /\ [][Next]_vars /\ WF_vars(ChildStep) /\ WF_vars(ParentStep)
-----------------------------------------------------------------------------
(* Properties. *)

\* Every variable stays in its range.
TypeOK ==
    /\ prompt \in BOOLEAN
    /\ readable \in BOOLEAN /\ localsAbove \in BOOLEAN /\ stale \in BOOLEAN
    /\ exists \in BOOLEAN
    /\ queue \in Seq(0 .. Messages - 1) /\ consumed \in Seq(0 .. Messages - 1)
    /\ notify \in {"none", "SIGUSR1", "other"}
    /\ pending \in BOOLEAN /\ caught \in BOOLEAN /\ blocked \in BOOLEAN
    /\ childPc \in {"sigaction", "notify", "suspend", "suspended", "receive", "return",
                    "unlink", "exit", "killed"}
    /\ i \in 0 .. Messages /\ toSend \in 0 .. Messages /\ handled \in Nat
    /\ parentPc \in {"send", "unlink", "exit"}

\* The child is signalled only for a message that it then finds: mq_receive() after
\* sigsuspend() never blocks, and of the signals it handles at most one is in vain, for the
\* program does not survive that (see LostForGood).
SignalledForMessage ==
    /\ childPc = "receive" => queue # << >>
    /\ handled \in Len(consumed) .. Len(consumed) + 1

\* A child that waits for a signal while a message is queued, its announcement over or
\* never due, waits for ever: no later message is announced, because none finds the
\* queue empty.
Lost == childPc = "suspended" /\ ~pending /\ queue # << >>
LostForGood == [][Lost => Lost']_vars

\* With the sleeps in effect, enough stack and locals out of the way, no notification is
\* lost: all five messages are received, in the order they were sent.
AllReceived ==
    (prompt /\ readable /\ ~localsAbove /\ ~stale) ~>
        consumed = [n \in 1 .. Messages |-> Messages - n]

\* O_EXCL makes mq_open() fail in a run that finds the name of one that was cut short, and the
\* program goes on with the descriptor -1.  It heals what it found: whatever becomes of the child
\* and of the messages, the run removes the name, and the next one can create it.
FreesName == <>[](~exists)

\* No run leaves the name behind, and a lucky one no message either.
LeavesNothing == AllReceived /\ FreesName
=============================================================================
