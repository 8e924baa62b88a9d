---------------------------- MODULE Pipes_proofs ----------------------------
(***************************************************************************)
(* Proofs about Pipes, for every number of runs, every capacity and any    *)
(* choice of what is started together.                                     *)
(***************************************************************************)
EXTENDS Pipes, SequenceTheorems, TLAPS

Label == {"off", "unborn", "stat", "open", "opening", "type", "write", "read",
          "leave", "done", "failed", "crashed"}
Word == {"word", "0", ""}

\* What TypeOK does not say and its preservation needs: a run of 01 makes no call of 02, a
\* process at work holds the ends it needs, one that has not begun or has ended holds none,
\* and nothing is written before it was typed.
Working == {"type", "write", "read", "leave"}

Ends ==
    /\ \A p \in Proc : OfPipe(p) => pc[p] \in Working \cup {"off", "done", "crashed"}
    /\ \A p \in Proc : pc[p] \in Working \cup {"opening"} => p \in readers[PipeOf(p)]
    /\ \A p \in Proc : OfPipe(p) /\ pc[p] \in Working => p \in writers[PipeOf(p)]
    /\ \A p \in Proc : pc[p] = "stat" => p \notin readers[PipeOf(p)] \cup writers[PipeOf(p)]
    /\ \A p \in Proc : OfPipe(p) /\ pc[p] = "write" => typed[p[1]] # "none"

Typed == TypeOK /\ Ends

\* Every pipe but the FIFO is that of one run.
LEMMA Homes ==
  ASSUME NEW p \in Proc
  PROVE  /\ p[1] \in Run /\ "fifo" \in Pipe
         /\ PipeOf(p) \in Pipe
BY DEF Proc, Parent, Child, Run, Pipe, PipeOf

LEMMA TypedInit == Init => Typed
<1> SUFFICES ASSUME Init
             PROVE  Typed
  OBVIOUS
<1> USE RunAssumption, CastsAssumption
<1>1. PICK cast \in Casts :
        pc = [p \in Proc |-> CASE p[1] \notin cast -> "off"
                               [] p[1] \in cast \cap FifoRun -> IF p \in Parent THEN "stat" ELSE "unborn"
                               [] p[1] \in cast \cap PipeRun -> IF p \in Parent THEN "read" ELSE "type"]
  BY DEF Init
<1>2. \A p \in Proc :
        /\ OfPipe(p) => pc[p] \in {"off", "read", "type"}
        /\ ~OfPipe(p) => pc[p] \in {"off", "stat", "unborn"}
  <2> TAKE p \in Proc
  <2>1. pc[p] = CASE p[1] \notin cast -> "off"
                  [] p[1] \in cast \cap FifoRun -> IF p \in Parent THEN "stat" ELSE "unborn"
                  [] p[1] \in cast \cap PipeRun -> IF p \in Parent THEN "read" ELSE "type"
    BY <1>1
  <2>2. p[1] \in PipeRun \/ p[1] \in FifoRun
    BY Homes DEF Run
  <2>3. ~(p[1] \in PipeRun /\ p[1] \in FifoRun)
    OBVIOUS
  <2> QED BY <2>1, <2>2, <2>3 DEF OfPipe
<1>3. /\ file \in {"none", "fifo", "other"}
      /\ content = [o \in Pipe |-> << >>]
      /\ readers = [o \in Pipe |-> {p \in Proc : p[1] = o}]
      /\ writers = [o \in Pipe |-> {p \in Proc : p[1] = o /\ InheritWriteEnd(p)}]
      /\ typed = [r \in PipeRun |-> "none"]
  BY DEF Init
<1>4. pc \in [Proc -> Label]
  <2>1. \A p \in Proc : pc[p] \in Label
    BY <1>2 DEF Label
  <2> QED BY <1>1, <2>1
<1>5. TypeOK
  <2>1. content \in [Pipe -> Seq(Word)]
    BY <1>3
  <2>2. \A p \in Proc : pc[p] \notin {"done", "failed", "crashed"}
    BY <1>2
  <2> QED BY <1>3, <1>4, <2>1, <2>2 DEF TypeOK, Label, Word
<1>6. Ends
  <2>1. \A p \in Proc : p[1] \in Pipe => p \in readers[p[1]] /\ p \in writers[p[1]]
    BY <1>3 DEF InheritWriteEnd
  <2>2. readers["fifo"] = {} /\ writers["fifo"] = {}
    BY <1>3, Homes DEF Pipe
  <2>3. \A p \in Proc : OfPipe(p) => PipeOf(p) = p[1] /\ p[1] \in Pipe
    BY DEF OfPipe, PipeOf, Pipe
  <2>4. \A p \in Proc : ~OfPipe(p) => PipeOf(p) = "fifo"
    BY DEF OfPipe, PipeOf
  <2> QED BY <1>2, <1>3, <2>1, <2>2, <2>3, <2>4 DEF Ends, Working
<1> QED BY <1>5, <1>6 DEF Typed

\* It is enough to look at the process p that moves, if the others only get past open() or
\* are born, and keep their ends.
LEMMA OthersStay ==
  ASSUME Typed, NEW p \in Proc,
         file' \in {"none", "fifo", "other"}, pc' \in [Proc -> Label],
         content' \in [Pipe -> Seq(Word)],
         readers' \in [Pipe -> SUBSET Proc], writers' \in [Pipe -> SUBSET Proc],
         typed' \in [PipeRun -> Word \cup {"none"}],
         \A r \in PipeRun : typed[r] # "none" => typed'[r] # "none",
         \A o \in Pipe : readers'[o] \cup writers'[o] = {} => content'[o] = << >>,
         \A q \in Proc \ {p} :
            /\ \/ pc'[q] = pc[q]
               \/ pc[q] = "opening" /\ pc'[q] = "read"
               \/ ~OfPipe(q) /\ pc'[q] = "open"
            /\ q \in readers'[PipeOf(q)] <=> q \in readers[PipeOf(q)]
            /\ q \in writers'[PipeOf(q)] <=> q \in writers[PipeOf(q)],
         OfPipe(p) => pc'[p] \in Working \cup {"off", "done", "crashed"},
         pc'[p] \in Working \cup {"opening"} => p \in readers'[PipeOf(p)],
         OfPipe(p) /\ pc'[p] \in Working => p \in writers'[PipeOf(p)],
         pc'[p] \in {"stat", "done", "failed", "crashed"} =>
            p \notin readers'[PipeOf(p)] \cup writers'[PipeOf(p)],
         OfPipe(p) /\ pc'[p] = "write" => typed'[p[1]] # "none"
  PROVE  Typed'
<1>1. \A q \in Proc : pc'[q] \in {"done", "failed", "crashed"} =>
        q \notin readers'[PipeOf(q)] \cup writers'[PipeOf(q)]
  BY DEF Typed, TypeOK
<1>2. TypeOK'
  BY <1>1 DEF TypeOK, Label, Word, PipeOf
<1>3. \A q \in Proc : OfPipe(q) => pc'[q] \in Working \cup {"off", "done", "crashed"}
  BY DEF Typed, Ends, Working
<1>4. \A q \in Proc : pc'[q] \in Working \cup {"opening"} => q \in readers'[PipeOf(q)]
  BY DEF Typed, Ends, Working
<1>5. \A q \in Proc : OfPipe(q) /\ pc'[q] \in Working => q \in writers'[PipeOf(q)]
  BY DEF Typed, Ends, Working
<1>6. \A q \in Proc : pc'[q] = "stat" => q \notin readers'[PipeOf(q)] \cup writers'[PipeOf(q)]
  BY DEF Typed, Ends, Working
<1>7. \A q \in Proc : OfPipe(q) /\ pc'[q] = "write" => typed'[q[1]] # "none"
  BY DEF Typed, Ends, Working, OfPipe
<1>8. Ends'
  BY <1>3, <1>4, <1>5, <1>6, <1>7 DEF Ends, OfPipe, PipeOf
<1> QED BY <1>2, <1>8 DEF Typed

\* What is in the pipes stays made of words.
LEMMA Written ==
  ASSUME NEW f \in [Pipe -> Seq(Word)], NEW o \in Pipe, NEW w \in Word
  PROVE  [f EXCEPT ![o] = Append(@, w)] \in [Pipe -> Seq(Word)]
<1>1. Append(f[o], w) \in Seq(Word)
  BY AppendProperties
<1> QED BY <1>1

LEMMA Taken ==
  ASSUME NEW f \in [Pipe -> Seq(Word)], NEW o \in Pipe, f[o] # << >>
  PROVE  [f EXCEPT ![o] = Tail(@)] \in [Pipe -> Seq(Word)]
<1>1. Tail(f[o]) \in Seq(Word)
  BY HeadTailProperties
<1> QED BY <1>1

LEMMA Left ==
  ASSUME Typed, NEW p \in Proc, NEW l \in {"done", "crashed"},
         Leave(p, l), UNCHANGED << file, typed >>
  PROVE  Typed'
<1> DEFINE o == PipeOf(p)
<1>1. o \in Pipe
  BY Homes
<1>2. pc' = [pc EXCEPT ![p] = l] /\ pc' \in [Proc -> Label] /\ pc'[p] = l
  BY DEF Leave, Goto, Typed, TypeOK, Label
<1>3. /\ readers' = [readers EXCEPT ![o] = @ \ {p}]
      /\ writers' = [writers EXCEPT ![o] = @ \ {p}]
      /\ content' = [content EXCEPT ![o] = IF readers[o] \cup writers[o] \subseteq {p} THEN << >> ELSE @]
  BY DEF Leave
<1>4. /\ readers' \in [Pipe -> SUBSET Proc] /\ readers'[o] = readers[o] \ {p}
      /\ writers' \in [Pipe -> SUBSET Proc] /\ writers'[o] = writers[o] \ {p}
  BY <1>1, <1>3 DEF Typed, TypeOK
<1>5. content' \in [Pipe -> Seq(Word)]
  BY <1>1, <1>3, EmptySeq DEF Typed, TypeOK, Word
<1>6. ASSUME NEW q \in Pipe, readers'[q] \cup writers'[q] = {}
      PROVE  content'[q] = << >>
  <2>1. CASE q = o
    BY <1>1, <1>3, <1>4, <1>6, <2>1 DEF Typed, TypeOK
  <2>2. CASE q # o
    BY <1>1, <1>3, <1>6, <2>2 DEF Typed, TypeOK
  <2> QED BY <2>1, <2>2
<1>7. ASSUME NEW q \in Proc \ {p}
      PROVE  /\ pc'[q] = pc[q]
             /\ q \in readers'[PipeOf(q)] <=> q \in readers[PipeOf(q)]
             /\ q \in writers'[PipeOf(q)] <=> q \in writers[PipeOf(q)]
  <2>1. PipeOf(q) \in Pipe
    BY Homes
  <2> QED BY <1>1, <1>2, <1>3, <2>1 DEF Typed, TypeOK
<1>8. l \notin Working \cup {"opening", "write"}
  BY DEF Working
<1>9. /\ file' \in {"none", "fifo", "other"} /\ typed' \in [PipeRun -> Word \cup {"none"}]
      /\ \A r \in PipeRun : typed[r] # "none" => typed'[r] # "none"
  BY DEF Typed, TypeOK, Word
<1>10. OfPipe(p) => pc'[p] \in Working \cup {"off", "done", "crashed"}
  BY <1>2
<1>11. /\ pc'[p] \notin Working \cup {"opening", "write"}
       /\ p \notin readers'[PipeOf(p)] \cup writers'[PipeOf(p)]
  BY <1>2, <1>4, <1>8
<1> HIDE DEF o
<1> QED BY <1>2, <1>4, <1>5, <1>6, <1>7, <1>9, <1>10, <1>11, OthersStay

LEMMA TypedStep == Typed /\ [Next]_vars => Typed'
<1> SUFFICES ASSUME Typed, Next
             PROVE  Typed'
  BY DEF vars, Typed, TypeOK, Ends, OfPipe, PipeOf
<1>1. PICK p \in Proc : Step(p) \/ Type(p) \/ Crash(p)
  BY DEF Next
<1>2. /\ "fifo" \in Pipe /\ PipeOf(p) \in Pipe /\ p[1] \in Run
      /\ OfPipe(p) => PipeOf(p) = p[1] /\ p[1] \in PipeRun
      /\ ~OfPipe(p) => PipeOf(p) = "fifo"
      /\ \A q \in Proc : PipeOf(q) \in Pipe
  BY Homes DEF PipeOf, OfPipe
<1>3. /\ file \in {"none", "fifo", "other"}
      /\ pc \in [Proc -> Label] /\ content \in [Pipe -> Seq(Word)]
      /\ readers \in [Pipe -> SUBSET Proc] /\ writers \in [Pipe -> SUBSET Proc]
      /\ typed \in [PipeRun -> Word \cup {"none"}]
      /\ \A o \in Pipe : readers[o] \cup writers[o] = {} => content[o] = << >>
  BY DEF Typed, TypeOK, Label, Word
<1>4. /\ OfPipe(p) => pc[p] \in Working \cup {"off", "done", "crashed"}
      /\ pc[p] \in Working \cup {"opening"} => p \in readers[PipeOf(p)]
      /\ OfPipe(p) /\ pc[p] \in Working => p \in writers[PipeOf(p)]
      /\ pc[p] = "stat" => p \notin readers[PipeOf(p)] \cup writers[PipeOf(p)]
      /\ OfPipe(p) /\ pc[p] = "write" => typed[p[1]] # "none"
  BY DEF Typed, Ends
<1>5. CASE Type(p)
  <2>1. PICK w \in Word : typed' = [typed EXCEPT ![p[1]] = w]
    BY <1>5 DEF Type, Word
  <2>2. /\ typed' \in [PipeRun -> Word \cup {"none"}]
        /\ \A r \in PipeRun : typed[r] # "none" => typed'[r] # "none"
        /\ typed'[p[1]] # "none"
    BY <1>2, <1>3, <1>5, <2>1 DEF Word, Type
  <2>3. OfPipe(p) /\ pc[p] = "type" /\ UNCHANGED << file, content, readers, writers >>
    BY <1>5 DEF Type
  <2>4. pc' \in [Proc -> Label] /\ pc'[p] = "write" /\ \A q \in Proc \ {p} : pc'[q] = pc[q]
    BY <1>3, <1>5 DEF Type, Goto, Label
  <2>5. "type" \in Working /\ "write" \in Working
    BY DEF Working
  <2> QED BY <1>2, <1>3, <1>4, <2>2, <2>3, <2>4, <2>5, OthersStay
<1>6. CASE Crash(p)
  BY <1>6, Left DEF Crash
<1>7. CASE Exit(p)
  BY <1>7, Left DEF Exit
<1>8. CASE PipeWrite(p)
  <2>1. OfPipe(p) /\ pc[p] = "write" /\ UNCHANGED << file, readers, writers, typed >>
    BY <1>8 DEF PipeWrite
  <2>2. typed[p[1]] \in Word /\ p \in readers[p[1]]
    BY <1>2, <1>3, <1>4, <2>1 DEF Working
  <2>3. content' = [content EXCEPT ![p[1]] = Append(@, typed[p[1]])]
    BY <1>8 DEF PipeWrite
  <2>4. content' \in [Pipe -> Seq(Word)]
    BY <1>2, <1>3, <2>1, <2>2, <2>3, Written
  <2>5. PICK l \in {"leave", "type"} : pc' = [pc EXCEPT ![p] = l]
    BY <1>8 DEF PipeWrite, Goto
  <2>6. \A o \in Pipe : readers[o] \cup writers[o] = {} => content'[o] = << >>
    BY <1>3, <2>2, <2>3
  <2>7. pc' \in [Proc -> Label] /\ pc'[p] = l /\ \A q \in Proc \ {p} : pc'[q] = pc[q]
    BY <1>3, <2>5 DEF Label
  <2>8. l \in Working /\ l # "write" /\ "write" \in Working
    BY DEF Working
  <2> QED BY <1>2, <1>3, <1>4, <2>1, <2>4, <2>6, <2>7, <2>8, OthersStay DEF Working
<1>9. CASE PipeRead(p) \/ FifoRead(p)
  <2>1. PICK l \in {"leave", "read"} : pc' = [pc EXCEPT ![p] = l]
    BY <1>9 DEF PipeRead, FifoRead, Goto
  <2>2. pc[p] = "read" /\ UNCHANGED << file, readers, writers, typed >>
    BY <1>9 DEF PipeRead, FifoRead
  <2>3. \/ content' = content
        \/ /\ content[PipeOf(p)] # << >>
           /\ content' = [content EXCEPT ![PipeOf(p)] = Tail(@)]
    <3>1. CASE PipeRead(p)
      BY <1>2, <3>1 DEF PipeRead
    <3>2. CASE FifoRead(p)
      BY <1>2, <3>2 DEF FifoRead
    <3> QED BY <1>9, <3>1, <3>2
  <2>4. content' \in [Pipe -> Seq(Word)]
    <3>1. CASE content' = content
      BY <1>3, <3>1
    <3>2. CASE content[PipeOf(p)] # << >> /\ content' = [content EXCEPT ![PipeOf(p)] = Tail(@)]
      BY <1>2, <1>3, <3>2, Taken
    <3> QED BY <2>3, <3>1, <3>2
  <2>5. \A o \in Pipe : readers[o] \cup writers[o] = {} => content'[o] = << >>
    BY <1>2, <1>3, <2>3
  <2>6. pc' \in [Proc -> Label] /\ pc'[p] = l /\ \A q \in Proc \ {p} : pc'[q] = pc[q]
    BY <1>3, <2>1 DEF Label
  <2> QED BY <1>2, <1>3, <1>4, <2>2, <2>4, <2>5, <2>6, OthersStay DEF Working
<1>10. CASE Stat(p)
  <2>1. pc[p] = "stat" /\ ~OfPipe(p) /\ UNCHANGED << content, readers, writers, typed >>
    BY <1>4, <1>10 DEF Stat, Working
  <2>2. file' \in {"none", "fifo", "other"}
    BY <1>3, <1>10 DEF Stat
  <2>3. /\ pc' \in [Proc -> Label] /\ pc'[p] \in {"failed", "open"}
        /\ \A q \in Proc \ {p} : pc'[q] = pc[q] \/ (~OfPipe(q) /\ pc'[q] = "open")
    <3>1. CASE pc' = [pc EXCEPT ![p] = "failed"]
      BY <1>3, <3>1 DEF Label
    <3>2. CASE pc' = [pc EXCEPT ![p] = "open", ![<< p[1], "child" >>] = "open"]
      <4> DEFINE c == << p[1], "child" >>
      <4>1. c \in Proc
        BY <1>2 DEF Proc, Child
      <4>2. c[1] = p[1]
        OBVIOUS
      <4>3. ~OfPipe(c)
        BY <2>1, <4>2 DEF OfPipe
      <4> HIDE DEF c
      <4>4. pc' = [pc EXCEPT ![p] = "open", ![c] = "open"]
        BY <3>2 DEF c
      <4> QED BY <1>3, <4>1, <4>3, <4>4 DEF Label
    <3> QED BY <1>10, <3>1, <3>2 DEF Stat, Goto
  <2> QED BY <1>2, <1>3, <1>4, <2>1, <2>2, <2>3, OthersStay DEF Working
<1>11. CASE OpenReadWrite(p)
  <2>1. ~OfPipe(p) /\ pc[p] = "open" /\ UNCHANGED << file, content, typed >>
    BY <1>4, <1>11 DEF OpenReadWrite, Working
  <2>2. /\ pc' \in [Proc -> Label] /\ pc'[p] = "write"
        /\ \A q \in Proc \ {p} : pc'[q] = pc[q] \/ (pc[q] = "opening" /\ pc'[q] = "read")
    BY <1>3, <1>11 DEF OpenReadWrite, Label
  <2>3. /\ readers' = [readers EXCEPT !["fifo"] = @ \cup {p}]
        /\ writers' = [writers EXCEPT !["fifo"] = @ \cup {p}]
    BY <1>11 DEF OpenReadWrite
  <2>4. /\ readers' \in [Pipe -> SUBSET Proc] /\ writers' \in [Pipe -> SUBSET Proc]
        /\ p \in readers'["fifo"]
        /\ \A o \in Pipe : readers[o] \subseteq readers'[o] /\ writers[o] \subseteq writers'[o]
    BY <1>2, <1>3, <2>3
  <2>5. \A q \in Proc \ {p} : /\ q \in readers'[PipeOf(q)] <=> q \in readers[PipeOf(q)]
                              /\ q \in writers'[PipeOf(q)] <=> q \in writers[PipeOf(q)]
    BY <1>2, <1>3, <2>3
  <2>6. \A o \in Pipe : readers'[o] \cup writers'[o] = {} => content'[o] = << >>
    BY <1>3, <2>1, <2>4
  <2> QED BY <1>2, <1>3, <2>1, <2>2, <2>4, <2>5, <2>6, OthersStay
<1>12. CASE OpenRead(p)
  <2>1. ~OfPipe(p) /\ pc[p] = "open" /\ UNCHANGED << file, content, writers, typed >>
    BY <1>4, <1>12 DEF OpenRead, Working
  <2>2. PICK l \in {"opening", "read"} : pc' = [pc EXCEPT ![p] = l]
    BY <1>12 DEF OpenRead, Goto
  <2>3. readers' = [readers EXCEPT !["fifo"] = @ \cup {p}]
    BY <1>12 DEF OpenRead
  <2>4. /\ readers' \in [Pipe -> SUBSET Proc]
        /\ p \in readers'["fifo"]
        /\ \A o \in Pipe : readers[o] \subseteq readers'[o]
    BY <1>2, <1>3, <2>3
  <2>5. \A q \in Proc \ {p} : q \in readers'[PipeOf(q)] <=> q \in readers[PipeOf(q)]
    BY <1>2, <1>3, <2>3
  <2>6. \A o \in Pipe : readers'[o] \cup writers'[o] = {} => content'[o] = << >>
    BY <1>3, <2>1, <2>4
  <2>7. pc' \in [Proc -> Label] /\ pc'[p] = l /\ \A q \in Proc \ {p} : pc'[q] = pc[q]
    BY <1>3, <2>2 DEF Label
  <2> QED BY <1>2, <1>3, <2>1, <2>4, <2>5, <2>6, <2>7, OthersStay
<1>13. CASE FifoWrite(p)
  <2>1. ~OfPipe(p) /\ pc[p] = "write" /\ UNCHANGED << file, readers, writers, typed >>
    BY <1>13 DEF FifoWrite
  <2>2. p \in readers["fifo"]
    BY <1>2, <1>4, <2>1 DEF Working
  <2>3. content' = [content EXCEPT !["fifo"] = Append(@, "word")] /\ "word" \in Word
    BY <1>13 DEF FifoWrite, Word
  <2>4. content' \in [Pipe -> Seq(Word)]
    BY <1>2, <1>3, <2>3, Written
  <2>5. \A o \in Pipe : readers[o] \cup writers[o] = {} => content'[o] = << >>
    BY <1>3, <2>2, <2>3
  <2>6. pc' \in [Proc -> Label] /\ pc'[p] = "leave" /\ \A q \in Proc \ {p} : pc'[q] = pc[q]
    BY <1>3, <1>13 DEF FifoWrite, Goto, Label
  <2> QED BY <1>2, <1>3, <2>1, <2>2, <2>4, <2>5, <2>6, OthersStay
<1> QED BY <1>1, <1>5, <1>6, <1>7, <1>8, <1>9, <1>10, <1>11, <1>12, <1>13 DEF Step

\* The type invariant, with every set of runs.
THEOREM TypeCorrect == Spec => []TypeOK
<1>1. Typed => TypeOK
  BY DEF Typed
<1> QED BY <1>1, TypedInit, TypedStep, PTL DEF Spec
-----------------------------------------------------------------------------
\* Nobody but the two processes of a run touches its pipe or, past the fork, its program
\* counters, and who has ended does nothing.
LEMMA Apart ==
  ASSUME Typed, NEW q \in Proc, Step(q) \/ Type(q) \/ Crash(q)
  PROVE  /\ ~Ended(q)
         /\ \A r \in PipeRun : q[1] # r => content'[r] = content[r]
         /\ OfPipe(q) => \A p \in Proc \ {q} : pc'[p] = pc[p]
         /\ \A p \in Proc \ {q} : OfPipe(p) => pc'[p] = pc[p]
<1> USE RunAssumption
<1>1. /\ "fifo" \notin PipeRun
      /\ OfPipe(q) => PipeOf(q) = q[1]
      /\ ~OfPipe(q) => PipeOf(q) = "fifo"
  BY DEF PipeOf, OfPipe, Run
<1>2. /\ pc \in [Proc -> Label] /\ content \in [Pipe -> Seq(Word)] /\ PipeRun \subseteq Pipe
      /\ \A p \in Proc : OfPipe(p) => pc[p] \in Working \cup {"off", "done", "crashed"}
  BY DEF Typed, TypeOK, Ends, Label, Word, Pipe
<1>3. CASE Type(q)
  BY <1>1, <1>2, <1>3 DEF Type, Goto, Ended
<1>4. CASE Crash(q) \/ Exit(q)
  <2>1. ~Ended(q)
    BY <1>4 DEF Crash, Exit, Ended
  <2>2. PICK l \in {"crashed", "done"} : Leave(q, l)
    BY <1>4 DEF Crash, Exit
  <2>3. \A p \in Proc \ {q} : pc'[p] = pc[p]
    BY <1>2, <2>2 DEF Leave, Goto
  <2>4. \A r \in Pipe : r # PipeOf(q) => content'[r] = content[r]
    BY <1>2, <2>2 DEF Leave
  <2> QED BY <1>1, <1>2, <2>1, <2>3, <2>4
<1>5. CASE PipeWrite(q) \/ PipeRead(q)
  BY <1>1, <1>2, <1>5 DEF PipeWrite, PipeRead, Goto, Ended
<1>6. CASE FifoWrite(q) \/ FifoRead(q)
  BY <1>1, <1>2, <1>6 DEF FifoWrite, FifoRead, Goto, Ended
<1>7. CASE OpenReadWrite(q) \/ OpenRead(q)
  <2>1. ~OfPipe(q) /\ ~Ended(q) /\ content' = content
    BY <1>2, <1>7 DEF OpenReadWrite, OpenRead, Ended, Working
  <2>2. \A p \in Proc \ {q} : OfPipe(p) => pc'[p] = pc[p]
    BY <1>2, <1>7 DEF OpenReadWrite, OpenRead, Goto, Working
  <2> QED BY <2>1, <2>2
<1>8. CASE Stat(q)
  <2>1. ~OfPipe(q) /\ ~Ended(q) /\ content' = content
    BY <1>2, <1>8 DEF Stat, Ended, Working
  <2> DEFINE c == << q[1], "child" >>
  <2>2. ~OfPipe(c)
    <3>1. c[1] = q[1]
      OBVIOUS
    <3> QED BY <2>1, <3>1 DEF OfPipe
  <2> HIDE DEF c
  <2>3. pc' = [pc EXCEPT ![q] = "failed"] \/ pc' = [pc EXCEPT ![q] = "open", ![c] = "open"]
    BY <1>8 DEF Stat, Goto, c
  <2>4. \A p \in Proc \ {q} : OfPipe(p) => pc'[p] = pc[p]
    BY <1>2, <2>2, <2>3
  <2> QED BY <2>1, <2>4
<1> QED BY <1>3, <1>4, <1>5, <1>6, <1>7, <1>8 DEF Step

\* A stranded process can only be killed: the one at a pipe because it holds the end whose
\* absence would tell it, the one at the FIFO because nobody is left to open it.
LEMMA StrandedStep ==
  ASSUME Typed, Typed', [Next]_vars, NEW p \in Proc, Stranded(p)
  PROVE  Stranded(p)' \/ pc'[p] = "crashed"
<1>1. CASE UNCHANGED vars
  BY <1>1 DEF vars, Stranded, OfPipe, Ended
<1>2. CASE Next
  <2>1. PICK q \in Proc : Step(q) \/ Type(q) \/ Crash(q)
    BY <1>2 DEF Next
  <2>2. /\ ~Ended(q)
        /\ \A r \in PipeRun : q[1] # r => content'[r] = content[r]
        /\ OfPipe(q) => \A s \in Proc \ {q} : pc'[s] = pc[s]
        /\ \A s \in Proc \ {q} : OfPipe(s) => pc'[s] = pc[s]
    BY <2>1, Apart
  <2>3. CASE q = p
    <3>1. CASE Crash(p)
      BY <3>1 DEF Crash, Leave, Goto, Typed, TypeOK
    <3>2. ~Step(p) /\ ~Type(p)
      <4>1. CASE OfPipe(p) /\ p \in Parent /\ pc[p] = "read" /\ content[p[1]] = << >>
        <5>1. writers[p[1]] # {}
          BY <4>1 DEF Typed, Ends, Working, PipeOf, OfPipe
        <5> QED BY <4>1, <5>1 DEF Step, Type, PipeWrite, PipeRead, Stat, OpenReadWrite, OpenRead,
                                  FifoWrite, FifoRead, Exit
      <4>2. CASE OfPipe(p) /\ p \in Child /\ pc[p] = "write" /\ Len(content[p[1]]) = Capacity
        BY <4>2, CapacityAssumption DEF Step, Type, PipeWrite, PipeRead, Stat, OpenReadWrite,
                                        OpenRead, FifoWrite, FifoRead, Exit
      <4>3. CASE pc[p] = "opening"
        BY <4>3 DEF Step, Type, PipeWrite, PipeRead, Stat, OpenReadWrite, OpenRead, FifoWrite,
                    FifoRead, Exit
      <4> QED BY <4>1, <4>2, <4>3 DEF Stranded
    <3> QED BY <2>1, <2>3, <3>1, <3>2
  <2>4. CASE q # p
    <3>1. CASE /\ p \in Parent /\ OfPipe(p) /\ pc[p] = "read" /\ content[p[1]] = << >>
               /\ Ended(<< p[1], "child" >>)
      <4>1. << p[1], "child" >> \in Proc /\ OfPipe(<< p[1], "child" >>) /\ q # << p[1], "child" >>
        BY <2>2, <3>1 DEF Proc, Parent, Child, OfPipe
      <4>2. q[1] # p[1]
        BY <2>4, <3>1, <4>1 DEF Proc, Parent, Child
      <4>3. content'[p[1]] = content[p[1]] /\ pc'[p] = pc[p] /\ Ended(<< p[1], "child" >>)'
        BY <2>2, <2>4, <3>1, <4>1, <4>2 DEF OfPipe, Ended
      <4> QED BY <3>1, <4>3 DEF Stranded, OfPipe
    <3>2. CASE /\ p \in Child /\ OfPipe(p) /\ pc[p] = "write" /\ Len(content[p[1]]) = Capacity
               /\ Ended(<< p[1], "parent" >>)
      <4>1. << p[1], "parent" >> \in Proc /\ OfPipe(<< p[1], "parent" >>) /\ q # << p[1], "parent" >>
        BY <2>2, <3>2 DEF Proc, Parent, Child, OfPipe
      <4>2. q[1] # p[1]
        BY <2>4, <3>2, <4>1 DEF Proc, Parent, Child
      <4>3. content'[p[1]] = content[p[1]] /\ pc'[p] = pc[p] /\ Ended(<< p[1], "parent" >>)'
        BY <2>2, <2>4, <3>2, <4>1, <4>2 DEF OfPipe, Ended
      <4> QED BY <3>2, <4>3 DEF Stranded, OfPipe
    <3>3. CASE p \in Child /\ pc[p] = "opening" /\ \A s \in Parent : OfPipe(s) \/ Ended(s)
      <4>1. q \notin Parent \/ OfPipe(q)
        BY <2>2, <3>3
      <4>2. \A s \in Proc \ {q} : (s = p \/ s \in Parent) => pc'[s] = pc[s]
        <5>1. CASE OfPipe(q)
          BY <2>2, <5>1
        <5>2. CASE q \in Child /\ ~OfPipe(q)
          <6>1. q \notin Parent
            BY <5>2 DEF Parent, Child
          <6>2. CASE Stat(q)
            <7>1. q = << q[1], "child" >>
              BY <5>2 DEF Child
            <7>2. pc' = [pc EXCEPT ![q] = "failed"] \/ pc' = [pc EXCEPT ![q] = "open", ![q] = "open"]
              BY <6>2, <7>1 DEF Stat, Goto
            <7> QED BY <7>2 DEF Typed, TypeOK
          <6>3. CASE OpenRead(q)
            BY <6>3 DEF OpenRead, Goto, Typed, TypeOK
          <6>4. CASE FifoWrite(q) \/ FifoRead(q)
            BY <6>4 DEF FifoWrite, FifoRead, Goto, Typed, TypeOK
          <6>5. CASE Exit(q) \/ Crash(q)
            <7>1. PICK l \in {"done", "crashed"} : Leave(q, l)
              BY <6>5 DEF Exit, Crash
            <7> QED BY <7>1 DEF Leave, Goto, Typed, TypeOK
          <6> QED BY <2>1, <5>2, <6>1, <6>2, <6>3, <6>4, <6>5
                  DEF Step, Type, PipeWrite, PipeRead, OpenReadWrite
        <5> QED BY <4>1, <5>1, <5>2 DEF Proc
      <4>3. \A s \in Parent : OfPipe(s) \/ Ended(s)'
        BY <2>2, <3>3, <4>1, <4>2 DEF Ended, Proc
      <4> QED BY <2>4, <3>3, <4>2, <4>3 DEF Stranded, OfPipe
    <3> QED BY <3>1, <3>2, <3>3 DEF Stranded
  <2> QED BY <2>3, <2>4
<1> QED BY <1>1, <1>2

\* With every set of runs: who waits at a pipe or the FIFO for a partner that has gone waits
\* until it is killed.
THEOREM StrandedStays == Spec => StrandedForGood
<1>1. Typed /\ Typed' /\ [Next]_vars => [\A p \in Proc : Stranded(p) => Stranded(p)' \/ pc'[p] = "crashed"]_vars
  BY StrandedStep
<1> QED BY <1>1, TypedInit, TypedStep, PTL DEF Spec, StrandedForGood
=============================================================================
