---------------------------- MODULE MCMqPrograms ----------------------------
(* An instance of MqPrograms for TLC. *)
EXTENDS MqPrograms, TLC

CONSTANTS send, receive, open, pattern1, pattern2, unlink

AllProc == {send, receive, open, pattern1, pattern2, unlink}
AllKind == send :> "sender" @@ receive :> "receiver" @@ open :> "opener"
             @@ pattern1 :> "pattern" @@ pattern2 :> "pattern" @@ unlink :> "unlinker"

\* One of each program that keeps the queue open.
MixedCasts == {{send, receive, open, pattern1}}

\* Those whose sends and receives balance; a sender and a receiver, with somebody who may
\* unlink the name at any time.
FairCasts == {{open, pattern1, pattern2, unlink}, {send, receive, unlink}}
=============================================================================
