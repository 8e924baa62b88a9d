------------------------------ MODULE Signals ------------------------------
(***************************************************************************)
(* Linux signal state of one process, as the programs below XX_signal/ and *)
(* XX_mq/03_notify use it (the kernel itself is outside the repository).   *)
(* A standard signal is pending or not, further instances merge into the   *)
(* pending one; a real-time signal is queued, and of several deliverable   *)
(* signals the one with the lowest number is delivered first.              *)
(***************************************************************************)
EXTENDS Naturals

USR1 == "SIGUSR1"
RT1  == "SIG_RT1"
RT2  == "SIG_RT2"

Signal   == {USR1, RT1, RT2}
RealTime == {RT1, RT2}

\* SIGUSR1, SIGRTMIN and SIGRTMIN + 1 on Linux.
Number == [s \in Signal |-> CASE s = USR1 -> 10 [] s = RT1 -> 34 [] s = RT2 -> 35]

NonePending == [s \in Signal |-> 0]

\* kill() and sigqueue() on a process whose pending set is pend.
Post(pend, s) ==
    [pend EXCEPT ![s] = IF s \in RealTime THEN @ + 1 ELSE 1]

Deliverable(pend, mask) == {s \in Signal : pend[s] > 0 /\ s \notin mask}

NextSignal(pend, mask) ==
    CHOOSE s \in Deliverable(pend, mask) :
        \A t \in Deliverable(pend, mask) : Number[s] <= Number[t]

Consume(pend, s) == [pend EXCEPT ![s] = @ - 1]

(***************************************************************************)
(* Dispositions.  sa_mask, SA_RESTART and the flags that an uninitialised  *)
(* struct sigaction may carry (SA_RESETHAND, SA_NODEFER) decide what the   *)
(* delivery of a caught signal does.                                       *)
(***************************************************************************)
Default == [caught |-> FALSE, mask |-> {}, restart |-> FALSE,
            reset |-> FALSE, nodefer |-> FALSE]

Handlers == [caught : {TRUE}, mask : SUBSET Signal, restart : BOOLEAN,
             reset : BOOLEAN, nodefer : BOOLEAN]

\* The mask while the handler of s runs.
HandlerMask(mask, h, s) ==
    mask \cup h.mask \cup (IF h.nodefer THEN {} ELSE {s})
=============================================================================
