----------------------------- MODULE FifoService -----------------------------
(***************************************************************************)
(* What the socket servers promise: a client joins the line of one server; *)
(* only the client at the head of a line is answered, and leaves the line  *)
(* with it.  A client may give up at any time, in a line or outside; a     *)
(* server may close, and its line is gone.                                 *)
(***************************************************************************)
EXTENDS Naturals, Sequences

CONSTANTS Client, Server

VARIABLES line, outcome

Init ==
    /\ line = [s \in Server |-> << >>]
    /\ outcome = [c \in Client |-> "outside"]

Join(c, s) ==
    /\ outcome[c] = "outside"
    /\ outcome' = [outcome EXCEPT ![c] = "waiting"]
    /\ line' = [line EXCEPT ![s] = Append(@, c)]

Answer(s) ==
    /\ line[s] # << >> /\ outcome[Head(line[s])] = "waiting"
    /\ outcome' = [outcome EXCEPT ![Head(line[s])] = "answered"]
    /\ line' = [line EXCEPT ![s] = Tail(@)]

Skip(s) ==
    /\ line[s] # << >> /\ outcome[Head(line[s])] = "failed"
    /\ line' = [line EXCEPT ![s] = Tail(@)]
    /\ UNCHANGED outcome

GiveUp(c) ==
    /\ outcome[c] \in {"outside", "waiting"}
    /\ outcome' = [outcome EXCEPT ![c] = "failed"]
    /\ UNCHANGED line

Close(s) ==
    /\ line' = [line EXCEPT ![s] = << >>]
    /\ UNCHANGED outcome

Next ==
    \/ \E c \in Client : GiveUp(c) \/ \E s \in Server : Join(c, s)
    \/ \E s \in Server : Answer(s) \/ Skip(s) \/ Close(s)

Spec == Init /\ [][Next]_<< line, outcome >>
=============================================================================
