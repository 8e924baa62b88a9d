-------------------------------- MODULE Pipes --------------------------------
(***************************************************************************)
(* 01_pipe and 02_fifo.  A run of either is a parent and its forked child. *)
(* In 01 the child passes on what the user types until it is "0", and both *)
(* processes keep both ends of the pipe; in 02 the parent opens the FIFO   *)
(* for reading and writing, writes one message and ends, the child opens   *)
(* it for reading and takes one message.  Each run of 01 has its own pipe, *)
(* all runs of 02 meet at the name "fifo".                                 *)
(*                                                                         *)
(* Messages have one length, below PIPE_BUF, and are read whole.           *)
(***************************************************************************)
EXTENDS Naturals, Sequences

CONSTANTS
    PipeRun, FifoRun,
    Casts,     \* the sets of runs that may be started together
    Capacity   \* messages that fit into a pipe (1040 of 01, 2048 of 02)

Run    == PipeRun \cup FifoRun
Parent == Run \X {"parent"}
Child  == Run \X {"child"}
Proc   == Parent \cup Child
Pipe   == PipeRun \cup {"fifo"}

ASSUME RunAssumption      == PipeRun \cap FifoRun = {} /\ "fifo" \notin Run
ASSUME CastsAssumption    == Casts \subseteq SUBSET Run
ASSUME CapacityAssumption == Capacity \in Nat \ {0}

VARIABLES
    file,     \* what "fifo" is in the directory: "none", "fifo" or "other"
    pc,
    content,  \* the messages in each pipe
    readers, writers,   \* the processes that hold each end
    typed     \* the last word of a run of 01: "none", "word", "0" or, at the end of input, ""

vars == << file, pc, content, readers, writers, typed >>

PipeOf(p) == IF p[1] \in PipeRun THEN p[1] ELSE "fifo"
OfPipe(p) == p[1] \in PipeRun
Goto(p, l) == pc' = [pc EXCEPT ![p] = l]

\* The mistake, or rather its absence: the parent closes fd[1].
InheritOne(p) == p[2] = "child"

\* fork() leaves both ends to both processes, and neither closes the one it does not use.
InheritWriteEnd(p) == TRUE

Init ==
    /\ file \in {"none", "fifo", "other"}
    /\ \E cast \in Casts :
        pc = [p \in Proc |-> CASE p[1] \notin cast -> "off"
                               [] p[1] \in cast \cap FifoRun -> IF p \in Parent THEN "stat" ELSE "unborn"
                               [] p[1] \in cast \cap PipeRun -> IF p \in Parent THEN "read" ELSE "type"]
    /\ content = [o \in Pipe |-> << >>]
    /\ readers = [o \in Pipe |-> {p \in Proc : p[1] = o}]
    /\ writers = [o \in Pipe |-> {p \in Proc : p[1] = o /\ InheritWriteEnd(p)}]
    /\ typed = [r \in PipeRun |-> "none"]

\* A process that ends lets go of its ends, and with the last one the pipe is gone.
Leave(p, l) ==
    LET o == PipeOf(p) IN
    /\ Goto(p, l)
    /\ readers' = [readers EXCEPT ![o] = @ \ {p}]
    /\ writers' = [writers EXCEPT ![o] = @ \ {p}]
    /\ content' = [content EXCEPT ![o] = IF readers[o] \cup writers[o] \subseteq {p} THEN << >> ELSE @]
-----------------------------------------------------------------------------
(* 01_pipe. *)

\* cin >> buf: at the end of input the word is empty, now and for ever.
Type(p) ==
    /\ OfPipe(p) /\ pc[p] = "type"
    /\ \E w \in IF typed[p[1]] = "" THEN {""} ELSE {"word", "0", ""} :
        typed' = [typed EXCEPT ![p[1]] = w]
    /\ Goto(p, "write")
    /\ UNCHANGED << file, content, readers, writers >>

\* The mistake: leaving the loop before "0" is written.
PipeWriteNoEnd(p) ==
    LET w == typed[p[1]] IN
    /\ OfPipe(p) /\ pc[p] = "write"
    /\ Len(content[p[1]]) < Capacity
    /\ IF w = "0"
       THEN Leave(p, "done")
       ELSE /\ Goto(p, "type") /\ UNCHANGED << readers, writers >>
            /\ content' = [content EXCEPT ![p[1]] = Append(@, w)]
    /\ UNCHANGED << file, typed >>

\* The child waits while the pipe is full; it never meets SIGPIPE, for it holds a read end.
PipeWrite(p) ==
    LET w == typed[p[1]] IN
    /\ OfPipe(p) /\ pc[p] = "write"
    /\ Len(content[p[1]]) < Capacity
    /\ content' = [content EXCEPT ![p[1]] = Append(@, w)]
    /\ Goto(p, IF w = "0" THEN "leave" ELSE "type")
    /\ UNCHANGED << file, readers, writers, typed >>

\* The parent waits for a message, or for the end of file.
PipeRead(p) ==
    LET c == content[p[1]] IN
    /\ OfPipe(p) /\ pc[p] = "read"
    /\ IF c # << >>
       THEN /\ content' = [content EXCEPT ![p[1]] = Tail(@)]
            /\ Goto(p, IF Head(c) = "0" THEN "leave" ELSE "read")
       ELSE writers[p[1]] = {} /\ Goto(p, "leave") /\ UNCHANGED content
    /\ UNCHANGED << file, readers, writers, typed >>
-----------------------------------------------------------------------------
(* 02_fifo. *)

\* stat(), mkfifo() and fork(); that mkfifo() may find the name taken meanwhile is ignored,
\* and does no harm.
Stat(p) ==
    /\ pc[p] = "stat"
    /\ IF file = "other"
       THEN Goto(p, "failed") /\ UNCHANGED file
       ELSE /\ file' = "fifo"
            /\ pc' = [pc EXCEPT ![p] = "open", ![<< p[1], "child" >>] = "open"]
    /\ UNCHANGED << content, readers, writers, typed >>

\* O_RDWR never waits, and lets in the readers that do.
OpenReadWrite(p) ==
    /\ p \in Parent /\ pc[p] = "open"
    /\ readers' = [readers EXCEPT !["fifo"] = @ \cup {p}]
    /\ writers' = [writers EXCEPT !["fifo"] = @ \cup {p}]
    /\ pc' = [q \in Proc |-> IF q = p THEN "write" ELSE IF pc[q] = "opening" THEN "read" ELSE pc[q]]
    /\ UNCHANGED << file, content, typed >>

\* O_RDONLY waits for a writer; the pipe is there as soon as somebody waits.
OpenRead(p) ==
    /\ p \in Child /\ pc[p] = "open"
    /\ readers' = [readers EXCEPT !["fifo"] = @ \cup {p}]
    /\ Goto(p, IF writers["fifo"] = {} THEN "opening" ELSE "read")
    /\ UNCHANGED << file, content, writers, typed >>

\* The mistake: writing buf before sprintf() has filled it.
FifoWriteBlank(p) ==
    /\ ~OfPipe(p) /\ pc[p] = "write"
    /\ Len(content["fifo"]) < Capacity
    /\ content' = [content EXCEPT !["fifo"] = Append(@, "blank")]
    /\ Goto(p, "leave")
    /\ UNCHANGED << file, readers, writers, typed >>

FifoWrite(p) ==
    /\ ~OfPipe(p) /\ pc[p] = "write"
    /\ Len(content["fifo"]) < Capacity
    /\ content' = [content EXCEPT !["fifo"] = Append(@, "word")]
    /\ Goto(p, "leave")
    /\ UNCHANGED << file, readers, writers, typed >>

\* One message, anybody's, or none when all writers have left: "receive message" is printed
\* in any case.
FifoRead(p) ==
    /\ ~OfPipe(p) /\ pc[p] = "read"
    /\ IF content["fifo"] # << >>
       THEN content' = [content EXCEPT !["fifo"] = Tail(@)]
       ELSE writers["fifo"] = {} /\ UNCHANGED content
    /\ Goto(p, "leave")
    /\ UNCHANGED << file, readers, writers, typed >>
-----------------------------------------------------------------------------
Ended(p) == pc[p] \in {"off", "done", "failed", "crashed"}

Exit(p) == pc[p] = "leave" /\ Leave(p, "done") /\ UNCHANGED << file, typed >>

Crash(p) ==
    /\ ~Ended(p) /\ pc[p] \notin {"unborn", "stat"}
    /\ Leave(p, "crashed")
    /\ UNCHANGED << file, typed >>

Step(p) ==
    \/ PipeWrite(p) \/ PipeRead(p)
    \/ Stat(p) \/ OpenReadWrite(p) \/ OpenRead(p) \/ FifoWrite(p) \/ FifoRead(p)
    \/ Exit(p)

Next == \E p \in Proc : Step(p) \/ Type(p) \/ Crash(p)

\* A process that can run does; nobody has to type, or to kill it.
Spec == Init /\ [][Next]_vars /\ \A p \in Proc : WF_vars(Step(p))
-----------------------------------------------------------------------------
(* Properties. *)

\* Every variable stays in its range; a pipe that nobody holds is empty, and no process that
\* has ended holds one.
TypeOK ==
    /\ file \in {"none", "fifo", "other"}
    /\ pc \in [Proc -> {"off", "unborn", "stat", "open", "opening", "type", "write", "read",
                        "leave", "done", "failed", "crashed"}]
    /\ content \in [Pipe -> Seq({"word", "0", ""})]
    /\ readers \in [Pipe -> SUBSET Proc] /\ writers \in [Pipe -> SUBSET Proc]
    /\ typed \in [PipeRun -> {"none", "word", "0", ""}]
    /\ \A o \in Pipe : readers[o] \cup writers[o] = {} => content[o] = << >>
    /\ \A p \in Proc : pc[p] \in {"done", "failed", "crashed"} =>
                        p \notin readers[PipeOf(p)] \cup writers[PipeOf(p)]

\* Who waits for a partner that has gone waits for ever: a parent of 01 sees no end of file
\* when its child dies, for it is a writer itself; a child of 01 gets no SIGPIPE when its
\* parent dies, for it is a reader; and a child of 02 that opens the FIFO after the last
\* parent has left finds neither a writer nor the message.
Stranded(p) ==
    \/ p \in Parent /\ OfPipe(p) /\ pc[p] = "read" /\ content[p[1]] = << >>
       /\ Ended(<< p[1], "child" >>)
    \/ p \in Child /\ OfPipe(p) /\ pc[p] = "write" /\ Len(content[p[1]]) = Capacity
       /\ Ended(<< p[1], "parent" >>)
    \/ p \in Child /\ pc[p] = "opening" /\ \A q \in Parent : OfPipe(q) \/ Ended(q)
StrandedForGood == [][\A p \in Proc : Stranded(p) => Stranded(p)' \/ pc'[p] = "crashed"]_vars

\* A parent of 01 ends once its child has passed on "0" and ended; a child of 02 ends if it
\* waits for the FIFO before its parent opens it, whatever other runs take from it.
PartnersMeet ==
    /\ \A r \in PipeRun : pc[<< r, "child" >>] = "done" ~> Ended(<< r, "parent" >>)
    /\ \A r \in FifoRun :
        (pc[<< r, "child" >>] \in {"opening", "read"} /\ pc[<< r, "parent" >>] \in {"open", "write"})
            ~> (Ended(<< r, "child" >>) \/ pc[<< r, "parent" >>] = "crashed")
=============================================================================
