------------------------ MODULE SocketServer_proofs ------------------------
(***************************************************************************)
(* Theorems about SocketServer, for any clients, servers, backlog and      *)
(* number of descriptors, and for both families of sockets.                *)
(***************************************************************************)
EXTENDS SocketServer, SequenceTheorems, TLAPS

ServerAction(s) == ServerStep(s) \/ ServerCrash(s)
ClientAction(c) == ClientStep(c) \/ ClientCrash(c)

\* The variables keep their types, and target_fd is a client's exactly between
\* accept() and send().
THEOREM TypeCorrect == Spec => []TypeOK
<1>1. Init => TypeOK
  BY FamilyAssumption DEF Init, TypeOK
<1>2. TypeOK /\ [Next]_vars => TypeOK'
  <2>1. SUFFICES ASSUME TypeOK, Next PROVE TypeOK'
    BY DEF vars, serverVars, clientVars, TypeOK
  <2>2. ASSUME NEW s \in Server, ServerAction(s) PROVE TypeOK'
    <3> USE <2>1
    <3>1. CASE Unlink(s)
      BY <3>1 DEF TypeOK, Unlink, ServerGoto, clientVars
    <3>2. CASE Bind(s)
      BY <3>2 DEF TypeOK, Bind, ServerGoto, clientVars
    <3>3. CASE Listen(s)
      BY <3>3 DEF TypeOK, Listen, ServerGoto, clientVars
    <3>4. CASE Accept(s)
      <4>1. backlog[s] \in Seq(Client) /\ backlog[s] # << >>
        BY <3>4 DEF TypeOK, Accept
      <4>2. Head(backlog[s]) \in Client /\ Tail(backlog[s]) \in Seq(Client)
        BY <4>1
      <4>3. Head(backlog[s]) # None
        BY <4>2, ProcessAssumption
      <4> QED BY <3>4, <4>2, <4>3 DEF TypeOK, Accept, ServerGoto, clientVars
    <3>5. CASE ServerRecv(s)
      <4>1. serving[s] \in Client
        BY <3>5 DEF TypeOK, ServerRecv
      <4> QED BY <3>5, <4>1 DEF TypeOK, ServerRecv, ServerGoto, clientVars
    <3>6. ASSUME NEW how \in {"killed", "crashed"}, Die(s, how),
                 UNCHANGED << clientVars, read, ack >>
          PROVE  TypeOK'
      BY <3>6 DEF TypeOK, Die, ServerGoto, clientVars
    <3>7. CASE ServerSend(s)
      <4>1. CASE Gone(serving[s]) /\ Family = "unix"
        BY <3>6, <3>7, <4>1 DEF ServerSend
      <4>2. CASE ~(Gone(serving[s]) /\ Family = "unix")
        <5>1. serving[s] \in Client
          BY <3>7 DEF TypeOK, ServerSend
        <5>2. ack' \in [Client -> {"none", "sent", "received"}]
          BY <3>7, <4>2, <5>1 DEF TypeOK, ServerSend
        <5>3. /\ UNCHANGED << address, backlog, clientVars, read >>
              /\ srvPc' = [srvPc EXCEPT ![s] = "accept"]
              /\ serving' = [serving EXCEPT ![s] = None]
          BY <3>7, <4>2 DEF ServerSend, ServerGoto
        <5> QED BY <5>2, <5>3 DEF TypeOK, clientVars
      <4> QED BY <4>1, <4>2
    <3>8. CASE ServerCrash(s)
      BY <3>6, <3>8 DEF ServerCrash
    <3> QED BY <2>2, <3>1, <3>2, <3>3, <3>4, <3>5, <3>7, <3>8 DEF ServerAction, ServerStep
  <2>3. ASSUME NEW c \in Client, ClientAction(c) PROVE TypeOK'
    <3> USE <2>1
    <3>1. CASE Connect(c)
      <4>1. PICK s \in Server : backlog' = [backlog EXCEPT ![s] = Append(@, c)]
                             /\ peer' = [peer EXCEPT ![c] = s]
        BY <3>1 DEF Connect
      <4>2. backlog' \in [Server -> Seq(Client)]
        <5>1. Append(backlog[s], c) \in Seq(Client)
          BY DEF TypeOK
        <5> QED BY <4>1, <5>1 DEF TypeOK
      <4> QED BY <3>1, <4>1, <4>2 DEF TypeOK, Connect, ClientGoto
    <3>2. CASE ConnectFails(c)
      BY <3>2 DEF TypeOK, ConnectFails, ClientGoto, serverVars
    <3>3. CASE Send(c)
      BY <3>3 DEF TypeOK, Send, ClientGoto, serverVars
    <3>4. CASE Recv(c)
      BY <3>4 DEF TypeOK, Recv, ClientGoto, serverVars
    <3>5. CASE ClientCrash(c)
      BY <3>5 DEF TypeOK, ClientCrash, ClientGoto, serverVars
    <3> QED BY <2>3, <3>1, <3>2, <3>3, <3>4, <3>5 DEF ClientAction, ClientStep
  <2> QED BY <2>1, <2>2, <2>3 DEF Next, Run, Crash, ServerAction, ClientAction
<1> QED BY <1>1, <1>2, PTL DEF Spec
-----------------------------------------------------------------------------
\* What makes AckAfterRead inductive: only a request that was sent is read, and a server
\* about to send() has read the request, unless its client is gone.
AckInv ==
    /\ AckAfterRead
    /\ \A c \in Client : read[c] => asked[c]
    /\ \A s \in Server : srvPc[s] = "send" => read[serving[s]] \/ Gone(serving[s])

\* The server answers no living client whose request it has not read, although it looks
\* at no return value of recv().
THEOREM AckRead == Spec => []AckAfterRead
<1>1. Init => AckInv
  BY FamilyAssumption DEF Init, AckInv, AckAfterRead
<1>2. TypeOK /\ AckInv /\ [Next]_vars => AckInv'
  <2>1. SUFFICES ASSUME TypeOK, AckInv, Next PROVE AckInv'
    BY DEF vars, serverVars, clientVars, AckInv, AckAfterRead, Gone
  <2> USE <2>1 DEF TypeOK, AckInv, AckAfterRead, Gone
  <2>2. ASSUME NEW s \in Server, ServerAction(s) PROVE AckInv'
    <3>1. CASE Unlink(s) \/ Bind(s) \/ Listen(s) \/ Accept(s)
      BY <3>1 DEF Unlink, Bind, Listen, Accept, ServerGoto, clientVars
    <3>2. CASE ServerRecv(s)
      <4>1. serving[s] \in Client
        BY <3>2 DEF ServerRecv
      <4> QED BY <3>2, <4>1 DEF ServerRecv, ServerGoto, clientVars
    <3>3. ASSUME NEW how \in {"killed", "crashed"}, Die(s, how),
                 UNCHANGED << clientVars, read, ack >>
          PROVE  AckInv'
      BY <3>3 DEF Die, ServerGoto, clientVars
    <3>4. CASE ServerSend(s)
      <4>1. CASE Gone(serving[s]) /\ Family = "unix"
        BY <3>3, <3>4, <4>1 DEF ServerSend
      <4>2. CASE ~(Gone(serving[s]) /\ Family = "unix")
        <5>1. serving[s] \in Client /\ srvPc[s] = "send"
          BY <3>4 DEF ServerSend
        <5>2. /\ UNCHANGED << read, asked, cliPc >>
              /\ srvPc' = [srvPc EXCEPT ![s] = "accept"]
              /\ serving' = [serving EXCEPT ![s] = None]
              /\ ack' = [ack EXCEPT ![serving[s]] = IF Gone(serving[s]) THEN @ ELSE "sent"]
          BY <3>4, <4>2 DEF ServerSend, ServerGoto, clientVars
        <5>3. AckAfterRead'
          BY <5>1, <5>2
        <5> QED BY <5>2, <5>3
      <4> QED BY <4>1, <4>2
    <3>5. CASE ServerCrash(s)
      BY <3>3, <3>5 DEF ServerCrash
    <3> QED BY <2>2, <3>1, <3>2, <3>4, <3>5 DEF ServerAction, ServerStep
  <2>3. ASSUME NEW c \in Client, ClientAction(c) PROVE AckInv'
    <3>1. \A d \in Client : Gone(d) => cliPc'[d] \in {"done", "killed", "crashed"}
      <4>1. ~Gone(c)
        BY <2>3 DEF ClientAction, ClientStep, Connect, ConnectFails, Send, Recv, ClientCrash
      <4>2. PICK l : ClientGoto(c, l)
        BY <2>3 DEF ClientAction, ClientStep, Connect, ConnectFails, Send, Recv, ClientCrash
      <4> QED BY <4>1, <4>2 DEF ClientGoto
    <3>2. UNCHANGED << srvPc, serving, read >> /\ \A d \in Client : asked[d] => asked'[d]
      <4>1. CASE Send(c)
        BY <4>1 DEF Send, serverVars
      <4>2. CASE Connect(c) \/ ConnectFails(c) \/ Recv(c) \/ ClientCrash(c)
        BY <4>2 DEF Connect, ConnectFails, Recv, ClientCrash, serverVars
      <4> QED BY <2>3, <4>1, <4>2 DEF ClientAction, ClientStep
    <3>3. \A d \in Client : ack'[d] # "none" => ack[d] # "none"
      <4>1. CASE Recv(c)
        BY <4>1 DEF Recv
      <4>2. CASE Connect(c) \/ ConnectFails(c) \/ Send(c) \/ ClientCrash(c)
        BY <4>2 DEF Connect, ConnectFails, Send, ClientCrash
      <4> QED BY <2>3, <4>1, <4>2 DEF ClientAction, ClientStep
    <3> QED BY <3>1, <3>2, <3>3
  <2> QED BY <2>1, <2>2, <2>3 DEF Next, Run, Crash, ServerAction, ClientAction
<1>3. AckInv => AckAfterRead
  BY DEF AckInv
<1> QED BY <1>1, <1>2, <1>3, TypeCorrect, PTL DEF Spec
-----------------------------------------------------------------------------
\* What makes UnreachableOnlyInRace inductive: whoever the address or a connection leads to
\* has bound it, and no server comes to bind() while a left-over file is there.
Untried == {"unlink", "bind", "unreachable"}

BoundInv ==
    /\ UnreachableOnlyInRace
    /\ \A s \in Server : address = s => srvPc[s] \notin Untried
    /\ \A c \in Client : peer[c] # None => srvPc[peer[c]] \notin Untried
    /\ \A s \in Server : srvPc[s] = "bind" => address # Leftover

\* A server that cannot be reached lost its address to another server, with any number of
\* them and on both families of sockets.
THEOREM UnreachableRaced == Spec => []UnreachableOnlyInRace
<1>1. Init => BoundInv
  BY FamilyAssumption, ProcessAssumption, LeftoverAssumption DEF Init, BoundInv, UnreachableOnlyInRace
<1>2. TypeOK /\ TypeOK' /\ BoundInv /\ [Next]_vars => BoundInv'
  <2>1. SUFFICES ASSUME TypeOK, TypeOK', BoundInv, Next PROVE BoundInv'
    BY DEF vars, serverVars, clientVars, BoundInv, UnreachableOnlyInRace
  <2> USE <2>1, ProcessAssumption, LeftoverAssumption
          DEF TypeOK, BoundInv, UnreachableOnlyInRace, Untried
  <2>2. ASSUME NEW s \in Server, ServerAction(s) PROVE BoundInv'
    <3>1. CASE Unlink(s)
      BY <3>1 DEF Unlink, ServerGoto, clientVars
    <3>2. CASE Bind(s)
      <4>1. CASE srvPc'[s] = "listen"
        BY <3>2, <4>1 DEF Bind, ServerGoto, clientVars
      <4>2. CASE srvPc'[s] = "unreachable"
        <5>1. \E t \in Server \ {s} : srvPc[t] \notin Untried
          BY <3>2, <4>2 DEF Bind, ServerGoto, Lingers
        <5> QED BY <3>2, <4>2, <5>1 DEF Bind, ServerGoto, clientVars
      <4> QED BY <3>2, <4>1, <4>2 DEF Bind, ServerGoto
    <3>3. CASE Listen(s) \/ Accept(s) \/ ServerRecv(s)
      <4>1. PICK l \in {"accept", "recv", "send"} : srvPc' = [srvPc EXCEPT ![s] = l]
        BY <3>3 DEF Listen, Accept, ServerRecv, ServerGoto
      <4>2. srvPc[s] \notin Untried /\ peer' = peer /\ address' = address
        BY <3>3 DEF Listen, Accept, ServerRecv, clientVars
      <4>3. \A t \in Server : (srvPc'[t] \in Untried) = (srvPc[t] \in Untried)
        BY <4>1, <4>2
      <4>4. \A t \in Server : srvPc'[t] \in Untried => srvPc'[t] = srvPc[t]
        BY <4>1
      <4> QED BY <4>2, <4>3, <4>4
    <3>4. ASSUME NEW how \in {"killed", "crashed"}, Die(s, how), UNCHANGED clientVars
          PROVE  BoundInv'
      <4>1. srvPc' = [srvPc EXCEPT ![s] = how] /\ peer' = peer
        BY <3>4 DEF Die, ServerGoto, clientVars
      <4>2. address' = address \/ address' = None
        BY <3>4 DEF Die
      <4>3. \A t \in Server : srvPc'[t] \in Untried => srvPc[t] \in Untried /\ srvPc'[t] = srvPc[t]
        BY <4>1
      <4> QED BY <4>1, <4>2, <4>3
    <3>5. CASE ServerSend(s)
      <4>1. CASE Gone(serving[s]) /\ Family = "unix"
        BY <3>4, <3>5, <4>1 DEF ServerSend
      <4>2. CASE ~(Gone(serving[s]) /\ Family = "unix")
        <5>1. srvPc[s] = "send" /\ srvPc' = [srvPc EXCEPT ![s] = "accept"]
          BY <3>5, <4>2 DEF ServerSend, ServerGoto
        <5>2. peer' = peer /\ address' = address
          BY <3>5, <4>2 DEF ServerSend, clientVars
        <5>3. \A t \in Server : (srvPc'[t] \in Untried) = (srvPc[t] \in Untried)
          BY <5>1
        <5>4. \A t \in Server : srvPc'[t] \in Untried => srvPc'[t] = srvPc[t]
          BY <5>1
        <5> QED BY <5>2, <5>3, <5>4
      <4> QED BY <4>1, <4>2
    <3>6. CASE ServerCrash(s)
      BY <3>4, <3>6 DEF ServerCrash
    <3> QED BY <2>2, <3>1, <3>2, <3>3, <3>5, <3>6 DEF ServerAction, ServerStep
  <2>3. ASSUME NEW c \in Client, ClientAction(c) PROVE BoundInv'
    <3>1. CASE Connect(c)
      <4>1. PICK s \in Server : address = s /\ peer' = [peer EXCEPT ![c] = s]
        BY <3>1 DEF Connect
      <4> QED BY <3>1, <4>1 DEF Connect
    <3>2. CASE ConnectFails(c) \/ Send(c) \/ Recv(c) \/ ClientCrash(c)
      BY <3>2 DEF ConnectFails, Send, Recv, ClientCrash, serverVars
    <3> QED BY <2>3, <3>1, <3>2 DEF ClientAction, ClientStep
  <2> QED BY <2>1, <2>2, <2>3 DEF Next, Run, Crash, ServerAction, ClientAction
<1>3. BoundInv => UnreachableOnlyInRace
  BY DEF BoundInv
<1> QED BY <1>1, <1>2, <1>3, TypeCorrect, PTL DEF Spec

-----------------------------------------------------------------------------
(* SocketServer implements FifoService. *)

\* What a step does to the lines and to the outcomes: nothing, or one of these.
Still == UNCHANGED << Lines, cliPc, peer, ack >>

Answers(s) ==
    /\ Lines[s] # << >>
    /\ Lines' = [Lines EXCEPT ![s] = Tail(@)]
    /\ ack' = [ack EXCEPT ![Head(Lines[s])] = IF Gone(Head(Lines[s])) THEN @ ELSE "sent"]
    /\ UNCHANGED << cliPc, peer >>

Closes(s) == Lines' = [Lines EXCEPT ![s] = << >>] /\ UNCHANGED << cliPc, peer, ack >>

Joins(c, s) ==
    /\ cliPc[c] = "connect"
    /\ cliPc' = [cliPc EXCEPT ![c] = "send"]
    /\ peer' = [peer EXCEPT ![c] = s]
    /\ Lines' = [Lines EXCEPT ![s] = Append(@, c)]
    /\ UNCHANGED ack

GoesOn(c) ==
    /\ ~Gone(c)
    /\ \E l \in {"send", "recv", "done", "killed", "crashed"} : cliPc' = [cliPc EXCEPT ![c] = l]
    /\ \A d \in Client : ack'[d] = "none" <=> ack[d] = "none"
    /\ UNCHANGED << Lines, peer >>

\* A line is a sequence of clients.
LEMMA LinesTyped == TypeOK => Lines \in [Server -> Seq(Client)]
<1> SUFFICES ASSUME TypeOK, NEW s \in Server
             PROVE  Line(s) \in Seq(Client)
  BY DEF Lines
<1>1. backlog[s] \in Seq(Client)
  BY DEF TypeOK
<1>2. (IF serving[s] = None THEN << >> ELSE << serving[s] >>) \in Seq(Client)
  BY DEF TypeOK
<1> QED BY <1>1, <1>2, ConcatProperties DEF Line

\* What stands at the head of a line, and what is left without it.
LEMMA Headed ==
  ASSUME NEW c \in Client, NEW q \in Seq(Client)
  PROVE  /\ << c >> \o q # << >> /\ Head(<< c >> \o q) = c /\ Tail(<< c >> \o q) = q
         /\ q # << >> => << Head(q) >> \o Tail(q) = q
<1>1. << c >> \in Seq(Client) /\ Len(<< c >>) = 1 /\ << c >>[1] = c
  OBVIOUS
<1> DEFINE r == << c >> \o q
<1>2. /\ r \in Seq(Client) /\ Len(r) = 1 + Len(q)
      /\ \A i \in 1 .. 1 + Len(q) : r[i] = IF i <= 1 THEN << c >>[i] ELSE q[i - 1]
  BY <1>1, ConcatProperties
<1>3. Len(q) \in Nat /\ r[1] = c /\ \A i \in 1 .. Len(q) : r[i + 1] = q[i]
  BY <1>1, <1>2
<1>4. r # << >>
  BY <1>2, <1>3
<1> HIDE DEF r
<1>5. Head(r) = c
  BY <1>2, <1>3, <1>4
<1>6. Tail(r) = q
  <2>1. /\ Tail(r) \in Seq(Client) /\ Len(Tail(r)) = Len(q)
        /\ \A i \in 1 .. Len(q) : Tail(r)[i] = r[i + 1]
    BY <1>2, <1>3, <1>4, HeadTailProperties
  <2> QED BY <1>3, <2>1, SeqEqual
<1>7. ASSUME q # << >> PROVE << Head(q) >> \o Tail(q) = q
  <2>1. Head(q) \in Client /\ Tail(q) \in Seq(Client) /\ Len(Tail(q)) = Len(q) - 1
        /\ Len(q) \in Nat \ {0} /\ Head(q) = q[1]
        /\ \A i \in 1 .. Len(q) - 1 : Tail(q)[i] = q[i + 1]
    BY <1>7, HeadTailProperties, EmptySeq
  <2>2. << Head(q) >> \in Seq(Client) /\ Len(<< Head(q) >>) = 1 /\ << Head(q) >>[1] = q[1]
    BY <2>1
  <2> DEFINE u == << Head(q) >> \o Tail(q)
  <2>3. /\ u \in Seq(Client) /\ Len(u) = Len(q)
        /\ \A i \in 1 .. Len(q) : u[i] = IF i <= 1 THEN << Head(q) >>[i] ELSE Tail(q)[i - 1]
    BY <2>1, <2>2, ConcatProperties
  <2> HIDE DEF u
  <2>4. \A i \in 1 .. Len(q) : u[i] = q[i]
    <3> SUFFICES ASSUME NEW i \in 1 .. Len(q) PROVE u[i] = q[i]
      OBVIOUS
    <3>1. CASE i = 1
      BY <2>1, <2>2, <2>3, <3>1
    <3>2. CASE i # 1
      <4>1. i - 1 \in 1 .. Len(q) - 1 /\ (i - 1) + 1 = i /\ ~(i <= 1)
        BY <2>1, <3>2
      <4>2. u[i] = Tail(q)[i - 1]
        BY <2>1, <2>3, <4>1
      <4> QED BY <2>1, <4>1, <4>2
    <3> QED BY <3>1, <3>2
  <2>5. u = q
    BY <2>1, <2>3, <2>4, SeqEqual
  <2> QED BY <2>5 DEF u
<1> QED BY <1>4, <1>5, <1>6, <1>7 DEF r
-----------------------------------------------------------------------------
\* Only two variables make a line.
LEMMA SameLines ==
  ASSUME UNCHANGED << backlog, serving >>
  PROVE  Lines' = Lines
  BY DEF Lines, Line

LEMMA OneLine ==
  ASSUME TypeOK, TypeOK', NEW s \in Server,
         \A t \in Server \ {s} : backlog'[t] = backlog[t] /\ serving'[t] = serving[t]
  PROVE  Lines' = [Lines EXCEPT ![s] = Line(s)']
  BY DEF Lines, Line, TypeOK

LEMMA EndCloses ==
  ASSUME TypeOK, TypeOK', NEW s \in Server, NEW how, Die(s, how), UNCHANGED << clientVars, ack >>
  PROVE  Closes(s)
<1>1. backlog'[s] = << >> /\ serving'[s] = None
  BY DEF Die, TypeOK
<1>2. Line(s)' = << >> \o << >>
  BY <1>1 DEF Line
<1>3. << >> \o << >> = << >>
  BY EmptySeq, ConcatEmptySeq
<1>4. Lines' = [Lines EXCEPT ![s] = Line(s)']
  <2>1. \A t \in Server \ {s} : backlog'[t] = backlog[t] /\ serving'[t] = serving[t]
    BY DEF Die, TypeOK
  <2> QED BY <2>1, OneLine
<1> QED BY <1>2, <1>3, <1>4 DEF Closes, clientVars

LEMMA ServerMoves ==
  ASSUME TypeOK, TypeOK', NEW s \in Server, ServerAction(s)
  PROVE  Still \/ Answers(s) \/ Closes(s)
<1>1. CASE Unlink(s) \/ Bind(s) \/ Listen(s) \/ ServerRecv(s)
  <2>1. UNCHANGED << backlog, serving, cliPc, peer, ack >>
    BY <1>1 DEF Unlink, Bind, Listen, ServerRecv, clientVars
  <2> QED BY <2>1, SameLines DEF Still
<1>2. CASE Accept(s)
  <2> DEFINE q == backlog[s]
  <2>1. q \in Seq(Client) /\ q # << >> /\ serving[s] = None
    BY <1>2 DEF Accept, TypeOK
  <2>2. Head(q) \in Client /\ Head(q) # None /\ Tail(q) \in Seq(Client)
    BY <2>1, HeadTailProperties, ProcessAssumption
  <2>3. serving'[s] = Head(q) /\ backlog'[s] = Tail(q)
    BY <1>2 DEF Accept, TypeOK
  <2>4. \A t \in Server \ {s} : backlog'[t] = backlog[t] /\ serving'[t] = serving[t]
    BY <1>2 DEF Accept, TypeOK
  <2>5. Line(s)' = << Head(q) >> \o Tail(q)
    BY <2>2, <2>3 DEF Line
  <2>6. Line(s) = q
    BY <2>1, ConcatEmptySeq DEF Line
  <2>7. Line(s)' = Line(s)
    BY <2>1, <2>2, <2>5, <2>6, Headed
  <2>8. Lines' = Lines
    BY <2>4, <2>7, OneLine DEF Lines
  <2> QED BY <1>2, <2>8 DEF Accept, clientVars, Still
<1>3. CASE ServerSend(s)
  <2>1. CASE Gone(serving[s]) /\ Family = "unix"
    BY <1>3, <2>1, EndCloses DEF ServerSend
  <2>2. CASE ~(Gone(serving[s]) /\ Family = "unix")
    <3> DEFINE c == serving[s]
    <3>1. c \in Client /\ c # None /\ backlog[s] \in Seq(Client)
      BY <1>3, ProcessAssumption DEF ServerSend, TypeOK
    <3>2. /\ ack' = [ack EXCEPT ![c] = IF Gone(c) THEN @ ELSE "sent"]
          /\ serving' = [serving EXCEPT ![s] = None]
          /\ UNCHANGED << backlog, cliPc, peer >>
      BY <1>3, <2>2 DEF ServerSend, clientVars
    <3>3. Line(s) = << c >> \o backlog[s]
      BY <3>1 DEF Line
    <3>4. Line(s)' = backlog[s]
      BY <3>1, <3>2, ConcatEmptySeq DEF Line, TypeOK
    <3>5. Lines[s] # << >> /\ Head(Lines[s]) = c /\ Tail(Lines[s]) = Line(s)'
      BY <3>1, <3>3, <3>4, Headed DEF Lines
    <3>6. Lines' = [Lines EXCEPT ![s] = Line(s)']
      <4>1. \A t \in Server \ {s} : backlog'[t] = backlog[t] /\ serving'[t] = serving[t]
        BY <3>2 DEF TypeOK
      <4> QED BY <4>1, OneLine
    <3> QED BY <3>2, <3>5, <3>6 DEF Answers
  <2> QED BY <2>1, <2>2
<1>4. CASE ServerCrash(s)
  BY <1>4, EndCloses DEF ServerCrash
<1> QED BY <1>1, <1>2, <1>3, <1>4 DEF ServerAction, ServerStep

LEMMA AppendToLine ==
  ASSUME NEW S, NEW p \in Seq(S), NEW q \in Seq(S), NEW e \in S
  PROVE  p \o Append(q, e) = Append(p \o q, e)
<1>1. << e >> \in Seq(S)
  OBVIOUS
<1>2. Append(q, e) = q \o << e >>
  BY AppendIsConcat
<1>3. p \o q \in Seq(S)
  BY ConcatProperties
<1>4. Append(p \o q, e) = (p \o q) \o << e >>
  BY <1>3, AppendIsConcat
<1>5. (p \o q) \o << e >> = p \o (q \o << e >>)
  BY <1>1, ConcatAssociative
<1> QED BY <1>2, <1>4, <1>5

LEMMA ClientMoves ==
  ASSUME TypeOK, TypeOK', NEW c \in Client, ClientAction(c)
  PROVE  GoesOn(c) \/ \E s \in Server : Joins(c, s)
<1>1. CASE Connect(c)
  <2>1. PICK s \in Server : /\ backlog' = [backlog EXCEPT ![s] = Append(@, c)]
                            /\ peer' = [peer EXCEPT ![c] = s]
    BY <1>1 DEF Connect
  <2> DEFINE p == IF serving[s] = None THEN << >> ELSE << serving[s] >>
  <2>2. p \in Seq(Client) /\ backlog[s] \in Seq(Client) 
    BY DEF TypeOK
  <2> HIDE DEF p
  <2>3. p \o Append(backlog[s], c) = Append(p \o backlog[s], c)
    BY <2>2, AppendToLine
  <2>6. Line(s)' = p \o Append(backlog[s], c)
    BY <1>1, <2>1 DEF Connect, Line, TypeOK, p
  <2>7. Line(s)' = Append(Lines[s], c)
    BY <2>3, <2>6 DEF Lines, Line, p
  <2>8. Lines' = [Lines EXCEPT ![s] = Line(s)']
    <3>1. \A t \in Server \ {s} : backlog'[t] = backlog[t] /\ serving'[t] = serving[t]
      BY <1>1, <2>1 DEF Connect, TypeOK
    <3> QED BY <3>1, OneLine
  <2> QED BY <1>1, <2>1, <2>7, <2>8 DEF Connect, ClientGoto, Joins
<1>2. CASE ConnectFails(c) \/ Send(c) \/ Recv(c) \/ ClientCrash(c)
  <2>1. UNCHANGED << backlog, serving, peer >>
    BY <1>2 DEF ConnectFails, Send, Recv, ClientCrash, serverVars
  <2>2. ~Gone(c)
    BY <1>2 DEF ConnectFails, Send, Recv, ClientCrash, Gone
  <2>3. \E l \in {"send", "recv", "done", "killed", "crashed"} : cliPc' = [cliPc EXCEPT ![c] = l]
    BY <1>2 DEF ConnectFails, Send, Recv, ClientCrash, ClientGoto
  <2>4. \A d \in Client : ack'[d] = "none" <=> ack[d] = "none"
    BY <1>2 DEF ConnectFails, Send, Recv, ClientCrash, TypeOK
  <2> QED BY <2>1, <2>2, <2>3, <2>4, SameLines DEF GoesOn
<1> QED BY <1>1, <1>2 DEF ClientAction, ClientStep
-----------------------------------------------------------------------------
\* What makes the refinement go through: nobody stands in two lines or twice in one, and
\* whoever stands in a line has not been answered.
Lined ==
    /\ \A s \in Server : \A i \in 1 .. Len(Lines[s]) :
        peer[Lines[s][i]] = s /\ ack[Lines[s][i]] = "none"
    /\ \A s \in Server : \A i, j \in 1 .. Len(Lines[s]) : Lines[s][i] = Lines[s][j] => i = j
    /\ \A c \in Client : cliPc[c] = "connect" => peer[c] = None /\ ack[c] = "none"

LEMMA LinedInit == Init => Lined
<1> SUFFICES ASSUME Init
             PROVE  Lined
  OBVIOUS
<1>1. \A s \in Server : Lines[s] = << >>
  BY EmptySeq, ConcatEmptySeq DEF Init, Lines, Line
<1> QED BY <1>1 DEF Init, Lined

LEMMA LinedStep ==
  ASSUME TypeOK, TypeOK', Lined, [Next]_vars
  PROVE  Lined'
<1> USE ProcessAssumption DEF TypeOK
<1>0. Lines \in [Server -> Seq(Client)]
  BY LinesTyped
<1>1. CASE Still
  BY <1>1 DEF Still, Lined
<1>2. ASSUME NEW s \in Server, Closes(s)
      PROVE  Lined'
  <2>1. Lines' = [Lines EXCEPT ![s] = << >>] /\ UNCHANGED << cliPc, peer, ack >>
    BY <1>2 DEF Closes
  <2>2. Len(<< >>) = 0
    OBVIOUS
  <2> QED BY <1>0, <2>1, <2>2 DEF Lined
<1>3. ASSUME NEW s \in Server, Answers(s)
      PROVE  Lined'
  <2> DEFINE q == Lines[s]
             c == Head(q)
  <2>1. q \in Seq(Client) /\ q # << >>
    BY <1>0, <1>3 DEF Answers
  <2>2. /\ Len(q) \in Nat \ {0} /\ c = q[1] /\ c \in Client
        /\ Tail(q) \in Seq(Client) /\ Len(Tail(q)) = Len(q) - 1
        /\ \A i \in 1 .. Len(q) - 1 : Tail(q)[i] = q[i + 1]
    BY <2>1, HeadTailProperties, EmptySeq
  <2>3. /\ Lines'[s] = Tail(q) /\ \A t \in Server \ {s} : Lines'[t] = Lines[t]
        /\ ack' = [ack EXCEPT ![c] = IF Gone(c) THEN @ ELSE "sent"]
        /\ UNCHANGED << cliPc, peer >>
    BY <1>0, <1>3 DEF Answers
  <2>4. peer[c] = s
    BY <2>2 DEF Lined
  <2> HIDE DEF q, c
  <2>8. Len(Lines'[s]) = Len(q) - 1 /\ \A i \in 1 .. Len(q) - 1 : Lines'[s][i] = q[i + 1]
    BY <2>2, <2>3
  <2>9. \A i \in 1 .. Len(q) - 1 : i + 1 \in 1 .. Len(q) /\ i + 1 # 1
    BY <2>2
  <2>10. \A i, j \in 1 .. Len(q) : q[i] = q[j] => i = j
    BY DEF Lined, q
  <2>5. ASSUME NEW t \in Server, NEW i \in 1 .. Len(Lines'[t])
        PROVE  peer[Lines'[t][i]] = t /\ ack'[Lines'[t][i]] = "none"
    <3>1. CASE t = s
      <4>1. i + 1 \in 1 .. Len(q) /\ i + 1 # 1 /\ Lines'[t][i] = q[i + 1]
        BY <2>8, <2>9, <2>5, <3>1
      <4>2. 1 \in 1 .. Len(q)
        BY <2>2
      <4>3. q[i + 1] # c
        BY <2>2, <2>10, <4>1, <4>2
      <4>4. peer[q[i + 1]] = s /\ ack[q[i + 1]] = "none"
        BY <4>1 DEF Lined, q
      <4> QED BY <2>3, <3>1, <4>1, <4>3, <4>4
    <3>2. CASE t # s
      <4>1. Lines'[t][i] = Lines[t][i] /\ i \in 1 .. Len(Lines[t])
        BY <2>3, <2>5, <3>2
      <4>2. Lines[t][i] # c
        BY <2>4, <3>2, <4>1 DEF Lined
      <4> QED BY <2>3, <4>1, <4>2 DEF Lined
    <3> QED BY <3>1, <3>2
  <2>6. ASSUME NEW t \in Server, NEW i \in 1 .. Len(Lines'[t]), NEW j \in 1 .. Len(Lines'[t]),
               Lines'[t][i] = Lines'[t][j]
        PROVE  i = j
    <3>1. CASE t = s
      <4>1. /\ i + 1 \in 1 .. Len(q) /\ Lines'[t][i] = q[i + 1]
            /\ j + 1 \in 1 .. Len(q) /\ Lines'[t][j] = q[j + 1]
        BY <2>8, <2>9, <2>6, <3>1
      <4>2. i + 1 = j + 1
        BY <2>6, <2>10, <4>1
      <4>3. i \in Int /\ j \in Int
        OBVIOUS
      <4> QED BY <4>2, <4>3
    <3>2. CASE t # s
      BY <2>3, <2>6, <3>2 DEF Lined
    <3> QED BY <3>1, <3>2
  <2>7. ASSUME NEW d \in Client, cliPc'[d] = "connect"
        PROVE  peer'[d] = None /\ ack'[d] = "none"
    <3>1. peer[d] = None /\ ack[d] = "none"
      BY <2>3, <2>7 DEF Lined
    <3> QED BY <2>3, <2>4, <3>1
  <2> QED BY <2>3, <2>5, <2>6, <2>7 DEF Lined
<1>4. ASSUME NEW c \in Client, NEW s \in Server, Joins(c, s)
      PROVE  Lined'
  <2> DEFINE q == Lines[s]
  <2>1. peer[c] = None /\ ack[c] = "none"
    BY <1>4 DEF Joins, Lined
  <2>2. /\ q \in Seq(Client) /\ Len(q) \in Nat
        /\ Len(Append(q, c)) = Len(q) + 1 /\ Append(q, c)[Len(q) + 1] = c
        /\ \A i \in 1 .. Len(q) : Append(q, c)[i] = q[i]
    BY <1>0, AppendProperties
  <2>3. /\ Lines'[s] = Append(q, c) /\ \A t \in Server \ {s} : Lines'[t] = Lines[t]
        /\ peer' = [peer EXCEPT ![c] = s] /\ cliPc' = [cliPc EXCEPT ![c] = "send"]
        /\ UNCHANGED ack
    BY <1>0, <1>4 DEF Joins
  <2>4. \A t \in Server : \A i \in 1 .. Len(Lines[t]) : Lines[t][i] # c /\ Lines[t][i] \in Client
    BY <1>0, <2>1 DEF Lined
  <2>8. /\ Len(Lines'[s]) = Len(q) + 1 /\ Lines'[s][Len(q) + 1] = c
        /\ \A i \in 1 .. Len(q) : Lines'[s][i] = q[i]
    BY <2>2, <2>3
  <2>9. \A i \in 1 .. Len(q) : q[i] # c
    BY <2>4
  <2>10. \A i, j \in 1 .. Len(q) : q[i] = q[j] => i = j
    BY DEF Lined
  <2>11. \A i \in 1 .. Len(q) + 1 : i \in 1 .. Len(q) \/ i = Len(q) + 1
    BY <2>2
  <2>12. \A t \in Server \ {s} : \A i \in 1 .. Len(Lines'[t]) :
            i \in 1 .. Len(Lines[t]) /\ Lines'[t][i] = Lines[t][i]
    BY <2>3
  <2> HIDE DEF q
  <2>5. ASSUME NEW t \in Server, NEW i \in 1 .. Len(Lines'[t])
        PROVE  peer'[Lines'[t][i]] = t /\ ack'[Lines'[t][i]] = "none"
    <3>1. CASE Lines'[t][i] = c
      <4>1. t = s
        <5>1. ASSUME t # s PROVE FALSE
          <6>1. i \in 1 .. Len(Lines[t]) /\ Lines[t][i] = c
            BY <2>5, <2>12, <3>1, <5>1
          <6> QED BY <2>4, <6>1
        <5> QED BY <5>1
      <4> QED BY <2>1, <2>3, <3>1, <4>1
    <3>2. CASE Lines'[t][i] # c
      <4>1. i \in 1 .. Len(Lines[t]) /\ Lines'[t][i] = Lines[t][i]
        <5>1. CASE t = s
          BY <2>5, <2>8, <2>11, <3>2, <5>1 DEF q
        <5>2. CASE t # s
          BY <2>5, <2>12, <5>2
        <5> QED BY <5>1, <5>2
      <4> QED BY <2>3, <2>4, <4>1 DEF Lined
    <3> QED BY <3>1, <3>2
  <2>6. ASSUME NEW t \in Server, NEW i \in 1 .. Len(Lines'[t]), NEW j \in 1 .. Len(Lines'[t]),
               Lines'[t][i] = Lines'[t][j]
        PROVE  i = j
    <3>1. CASE t = s
      <4>1. /\ i \in 1 .. Len(q) \/ i = Len(q) + 1
            /\ j \in 1 .. Len(q) \/ j = Len(q) + 1
        BY <2>6, <2>8, <2>11, <3>1
      <4>2. Lines'[s][i] = Lines'[s][j]
        BY <2>6, <3>1
      <4>3. CASE i \in 1 .. Len(q) /\ j \in 1 .. Len(q)
        BY <2>8, <2>10, <4>2, <4>3
      <4>4. CASE i = Len(q) + 1 \/ j = Len(q) + 1
        BY <2>8, <2>9, <4>1, <4>2, <4>4
      <4> QED BY <4>1, <4>3, <4>4
    <3>2. CASE t # s
      <4>1. \A k, l \in 1 .. Len(Lines[t]) : Lines[t][k] = Lines[t][l] => k = l
        BY DEF Lined
      <4>2. /\ i \in 1 .. Len(Lines[t]) /\ Lines'[t][i] = Lines[t][i]
            /\ j \in 1 .. Len(Lines[t]) /\ Lines'[t][j] = Lines[t][j]
        BY <2>6, <2>12, <3>2
      <4> QED BY <2>6, <4>1, <4>2
    <3> QED BY <3>1, <3>2
  <2>7. ASSUME NEW d \in Client, cliPc'[d] = "connect"
        PROVE  peer'[d] = None /\ ack'[d] = "none"
    BY <2>3, <2>7 DEF Lined
  <2> QED BY <2>5, <2>6, <2>7 DEF Lined
<1>5. ASSUME NEW c \in Client, GoesOn(c)
      PROVE  Lined'
  <2>1. /\ Lines' = Lines /\ peer' = peer
        /\ \A d \in Client : cliPc'[d] = "connect" => cliPc[d] = "connect"
        /\ \A d \in Client : ack'[d] = "none" <=> ack[d] = "none"
    BY <1>5 DEF GoesOn
  <2>2. \A s \in Server : \A i \in 1 .. Len(Lines[s]) : Lines[s][i] \in Client
    BY <1>0
  <2> QED BY <2>1, <2>2 DEF Lined
<1>6. CASE UNCHANGED vars
  <2>1. Still
    BY <1>6, SameLines DEF vars, serverVars, clientVars, Still
  <2> QED BY <1>1, <2>1
<1>7. CASE Next
  <2>1. ASSUME NEW s \in Server, ServerAction(s)
        PROVE  Lined'
    BY <2>1, ServerMoves, <1>1, <1>2, <1>3
  <2>2. ASSUME NEW c \in Client, ClientAction(c)
        PROVE  Lined'
    BY <2>2, ClientMoves, <1>4, <1>5
  <2> QED BY <1>7, <2>1, <2>2 DEF Next, Run, Crash, ServerAction, ClientAction
<1> QED BY <1>6, <1>7
-----------------------------------------------------------------------------
\* What becomes of a client, case by case.
LEMMA OutcomeIs ==
  ASSUME NEW c \in Client
  PROVE  /\ ack[c] # "none" => Outcome(c) = "answered"
         /\ (ack[c] = "none" /\ cliPc[c] = "connect") => Outcome(c) = "outside"
         /\ (ack[c] = "none" /\ cliPc[c] \in {"send", "recv"} /\ peer[c] # None)
                => Outcome(c) = "waiting"
         /\ (ack[c] = "none" /\ cliPc[c] # "connect" /\ ~(cliPc[c] \in {"send", "recv"} /\ peer[c] # None))
                => Outcome(c) = "failed"
  BY DEF Outcome

LEMMA OutcomeWillBe ==
  ASSUME NEW c \in Client
  PROVE  /\ ack'[c] # "none" => Outcome(c)' = "answered"
         /\ (ack'[c] = "none" /\ cliPc'[c] = "connect") => Outcome(c)' = "outside"
         /\ (ack'[c] = "none" /\ cliPc'[c] \in {"send", "recv"} /\ peer'[c] # None)
                => Outcome(c)' = "waiting"
         /\ (ack'[c] = "none" /\ cliPc'[c] # "connect" /\ ~(cliPc'[c] \in {"send", "recv"} /\ peer'[c] # None))
                => Outcome(c)' = "failed"
  BY DEF Outcome

\* Nothing becomes of a client by a step that does not touch it.
LEMMA OthersStay ==
  ASSUME NEW d \in Client, cliPc'[d] = cliPc[d], peer'[d] = peer[d],
         ack'[d] = "none" <=> ack[d] = "none"
  PROVE  Outcome(d)' = Outcome(d)
  BY OutcomeIs, OutcomeWillBe DEF Outcome

\* The outcomes after a step that touches one client.
LEMMA OneOutcome ==
  ASSUME NEW c \in Client,
         \A d \in Client \ {c} : Outcome(d)' = Outcome(d)
  PROVE  Outcomes' = [Outcomes EXCEPT ![c] = Outcome(c)']
  BY DEF Outcomes

LEMMA FifoStep ==
  ASSUME TypeOK, TypeOK', Lined, [Next]_vars
  PROVE  [Fifo!Next]_<< Lines, Outcomes >>
<1> USE ProcessAssumption DEF TypeOK
<1>0. Lines \in [Server -> Seq(Client)] /\ \A c \in Client : Outcomes[c] = Outcome(c)
  BY LinesTyped DEF Outcomes
<1>1. CASE Still
  <2>1. \A d \in Client : Outcome(d)' = Outcome(d)
    BY <1>1, OthersStay DEF Still
  <2> QED BY <1>1, <2>1 DEF Still, Outcomes
<1>2. ASSUME NEW s \in Server, Closes(s)
      PROVE  Fifo!Close(s)
  <2>1. \A d \in Client : Outcome(d)' = Outcome(d)
    BY <1>2, OthersStay DEF Closes
  <2> QED BY <1>2, <2>1 DEF Closes, Fifo!Close, Outcomes
<1>3. ASSUME NEW s \in Server, Answers(s)
      PROVE  Fifo!Answer(s) \/ Fifo!Skip(s)
  <2>1. Lines[s] \in Seq(Client) /\ Lines[s] # << >>
    BY <1>0, <1>3 DEF Answers
  <2>2. PICK c \in Client : c = Head(Lines[s]) /\ c = Lines[s][1] /\ 1 \in 1 .. Len(Lines[s])
    <3>1. Head(Lines[s]) \in Client /\ Head(Lines[s]) = Lines[s][1] /\ 1 \in 1 .. Len(Lines[s])
      BY <2>1, EmptySeq
    <3> QED BY <3>1
  <2>3. peer[c] = s /\ ack[c] = "none" /\ cliPc[c] # "connect"
    BY <2>2 DEF Lined
  <2>4. /\ Lines' = [Lines EXCEPT ![s] = Tail(@)]
        /\ ack' = [ack EXCEPT ![c] = IF Gone(c) THEN @ ELSE "sent"]
        /\ UNCHANGED << cliPc, peer >>
    BY <1>3, <2>2 DEF Answers
  <2>5. \A d \in Client \ {c} : Outcome(d)' = Outcome(d)
    <3>1. \A d \in Client \ {c} : cliPc'[d] = cliPc[d] /\ peer'[d] = peer[d] /\ ack'[d] = ack[d]
      BY <2>4
    <3> QED BY <3>1, OthersStay
  <2>6. CASE Gone(c)
    <3>1. Outcome(c) = "failed"
      BY <2>2, <2>3, <2>6, OutcomeIs DEF Gone
    <3>2. ack' = ack
      BY <2>2, <2>4, <2>6
    <3>3. \A d \in Client : Outcome(d)' = Outcome(d)
      BY <2>4, <3>2, OthersStay
    <3>4. Outcomes' = Outcomes
      BY <3>3 DEF Outcomes
    <3> QED BY <1>0, <2>1, <2>2, <2>4, <3>1, <3>4 DEF Fifo!Skip
  <2>7. CASE ~Gone(c)
    <3>1. cliPc[c] \in {"send", "recv"} /\ peer[c] # None
      BY <2>2, <2>3, <2>7 DEF Gone
    <3>2. Outcome(c) = "waiting"
      BY <2>2, <2>3, <3>1, OutcomeIs
    <3>3. Outcome(c)' = "answered"
      BY <2>2, <2>4, <2>7, OutcomeWillBe
    <3>4. Outcomes' = [Outcomes EXCEPT ![c] = "answered"]
      BY <2>2, <2>5, <3>3, OneOutcome
    <3> QED BY <1>0, <2>1, <2>2, <2>4, <3>2, <3>4 DEF Fifo!Answer
  <2> QED BY <2>6, <2>7
<1>4. ASSUME NEW c \in Client, NEW s \in Server, Joins(c, s)
      PROVE  Fifo!Join(c, s)
  <2>1. /\ cliPc[c] = "connect" /\ ack[c] = "none" /\ ack' = ack
        /\ cliPc' = [cliPc EXCEPT ![c] = "send"] /\ peer' = [peer EXCEPT ![c] = s]
        /\ Lines' = [Lines EXCEPT ![s] = Append(@, c)]
    BY <1>4 DEF Joins, Lined
  <2>2. Outcome(c) = "outside"
    BY <2>1, OutcomeIs
  <2>3. Outcome(c)' = "waiting"
    BY <2>1, OutcomeWillBe
  <2>4. \A d \in Client \ {c} : Outcome(d)' = Outcome(d)
    BY <2>1, OthersStay
  <2>5. Outcomes' = [Outcomes EXCEPT ![c] = "waiting"]
    BY <2>3, <2>4, OneOutcome
  <2> QED BY <1>0, <2>1, <2>2, <2>5 DEF Fifo!Join
<1>5. ASSUME NEW c \in Client, GoesOn(c)
      PROVE  Fifo!GiveUp(c) \/ UNCHANGED << Lines, Outcomes >>
  <2>1. PICK l \in {"send", "recv", "done", "killed", "crashed"} : cliPc' = [cliPc EXCEPT ![c] = l]
    BY <1>5 DEF GoesOn
  <2>2. /\ \A d \in Client : ack'[d] = "none" <=> ack[d] = "none"
        /\ Lines' = Lines /\ peer' = peer /\ cliPc[c] \in {"connect", "send", "recv"}
    BY <1>5 DEF GoesOn, Gone
  <2>3. \A d \in Client \ {c} : Outcome(d)' = Outcome(d)
    BY <2>1, <2>2, OthersStay
  <2>4. Outcomes' = [Outcomes EXCEPT ![c] = Outcome(c)']
    BY <2>3, OneOutcome
  <2>5. Outcome(c)' = Outcome(c) \/ (Outcome(c) \in {"outside", "waiting"} /\ Outcome(c)' = "failed")
    <3>1. CASE ack[c] # "none"
      BY <2>2, <3>1, OutcomeIs, OutcomeWillBe
    <3>2. CASE ack[c] = "none" /\ cliPc[c] = "connect"
      <4>1. peer'[c] = None /\ cliPc'[c] # "connect" /\ ack'[c] = "none"
        BY <2>1, <2>2, <3>2 DEF Lined
      <4> QED BY <3>2, <4>1, OutcomeIs, OutcomeWillBe
    <3>3. CASE ack[c] = "none" /\ cliPc[c] \in {"send", "recv"}
      <4>1. ack'[c] = "none" /\ cliPc'[c] = l /\ peer'[c] = peer[c]
        BY <2>1, <2>2, <3>3
      <4>2. CASE peer[c] = None
        BY <2>1, <3>3, <4>1, <4>2, OutcomeIs, OutcomeWillBe
      <4>3. CASE peer[c] # None
        BY <2>1, <3>3, <4>1, <4>3, OutcomeIs, OutcomeWillBe
      <4> QED BY <4>2, <4>3
    <3> QED BY <2>2, <3>1, <3>2, <3>3
  <2>6. CASE Outcome(c)' = Outcome(c)
    <3>1. Outcomes' = Outcomes
      BY <2>3, <2>6 DEF Outcomes
    <3> QED BY <2>2, <3>1
  <2>7. CASE Outcome(c) \in {"outside", "waiting"} /\ Outcome(c)' = "failed"
    BY <1>0, <2>2, <2>4, <2>7 DEF Fifo!GiveUp
  <2> QED BY <2>5, <2>6, <2>7
<1>6. CASE UNCHANGED vars
  <2>1. Still
    BY <1>6, SameLines DEF vars, serverVars, clientVars, Still
  <2> QED BY <1>1, <2>1
<1>7. CASE Next
  <2>1. ASSUME NEW s \in Server, ServerAction(s)
        PROVE  [Fifo!Next]_<< Lines, Outcomes >>
    BY <2>1, ServerMoves, <1>1, <1>2, <1>3 DEF Fifo!Next
  <2>2. ASSUME NEW c \in Client, ClientAction(c)
        PROVE  [Fifo!Next]_<< Lines, Outcomes >>
    BY <2>2, ClientMoves, <1>4, <1>5 DEF Fifo!Next
  <2> QED BY <1>7, <2>1, <2>2 DEF Next, Run, Crash, ServerAction, ClientAction
<1> QED BY <1>6, <1>7

\* The servers answer every line in its order and nobody twice, for any number of servers
\* and clients, however many of them crash or take over the address of another.
THEOREM Implements == Spec => AnsweredInOrder
<1>1. Init => Fifo!Init
  <2> SUFFICES ASSUME Init
               PROVE  Fifo!Init
    OBVIOUS
  <2>1. Lines = [s \in Server |-> << >>]
    BY EmptySeq, ConcatEmptySeq DEF Init, Lines, Line
  <2>2. \A c \in Client : Outcome(c) = "outside"
    BY OutcomeIs DEF Init
  <2> QED BY <2>1, <2>2 DEF Fifo!Init, Outcomes
<1>2. TypeOK /\ TypeOK' /\ Lined /\ [Next]_vars => Lined' /\ [Fifo!Next]_<< Lines, Outcomes >>
  BY LinedStep, FifoStep
<1> QED BY <1>1, <1>2, LinedInit, TypeCorrect, PTL DEF Spec, AnsweredInOrder, Fifo!Spec
-----------------------------------------------------------------------------
\* What makes OnlyCrashesKill inductive: as long as nobody has crashed, a client ends only
\* with its answer, or without a connection.
NoCrash == (\A s \in Server : srvPc[s] # "crashed") /\ (\A c \in Client : cliPc[c] # "crashed")

Peaceful ==
    (Family = "unix" /\ NoCrash) =>
        /\ \A s \in Server : srvPc[s] # "killed"
        /\ \A c \in Client : cliPc[c] # "killed"
        /\ \A c \in Client : cliPc[c] = "done" => ack[c] # "none" \/ peer[c] = None

\* The client that is being served has not been answered.
LEMMA Serving ==
  ASSUME TypeOK, Lined, NEW s \in Server, serving[s] # None
  PROVE  peer[serving[s]] = s /\ ack[serving[s]] = "none"
<1>1. serving[s] \in Client /\ backlog[s] \in Seq(Client)
  BY DEF TypeOK
<1>2. Lines[s] = << serving[s] >> \o backlog[s]
  BY DEF Lines, Line
<1>3. Lines[s] # << >> /\ Head(Lines[s]) = serving[s] /\ Lines[s] \in Seq(Client)
  BY <1>1, <1>2, Headed, LinesTyped
<1>4. Lines[s][1] = serving[s] /\ 1 \in 1 .. Len(Lines[s])
  BY <1>3, EmptySeq
<1> QED BY <1>4 DEF Lined

LEMMA PeacefulStep ==
  ASSUME TypeOK, TypeOK', Lined, Peaceful, [Next]_vars
  PROVE  Peaceful'
<1> SUFFICES ASSUME Family = "unix", NoCrash'
             PROVE  /\ \A s \in Server : srvPc'[s] # "killed"
                    /\ \A c \in Client : cliPc'[c] # "killed"
                    /\ \A c \in Client : cliPc'[c] = "done" => ack'[c] # "none" \/ peer'[c] = None
  BY DEF Peaceful
<1> USE ProcessAssumption DEF TypeOK
<1>1. ASSUME NEW s \in Server, ServerAction(s)
      PROVE  /\ NoCrash
             /\ cliPc' = cliPc /\ peer' = peer
             /\ \A t \in Server \ {s} : srvPc'[t] = srvPc[t]
  <2>1. CASE Unlink(s) \/ Bind(s) \/ Listen(s) \/ Accept(s) \/ ServerRecv(s)
    BY <2>1 DEF Unlink, Bind, Listen, Accept, ServerRecv, ServerGoto, clientVars, NoCrash
  <2>2. CASE ServerSend(s)
    BY <2>2 DEF ServerSend, Die, ServerGoto, clientVars, NoCrash
  <2>3. CASE ServerCrash(s)
    BY <2>3 DEF ServerCrash, Die, ServerGoto, NoCrash
  <2> QED BY <1>1, <2>1, <2>2, <2>3 DEF ServerAction, ServerStep
<1>2. ASSUME NEW s \in Server, ServerAction(s)
      PROVE  /\ srvPc'[s] # "killed"
             /\ \A c \in Client : ack[c] # "none" => ack'[c] # "none"
  <2>0. Peaceful /\ NoCrash
    BY <1>1, <1>2
  <2>1. CASE Unlink(s) \/ Bind(s) \/ Listen(s) \/ Accept(s) \/ ServerRecv(s)
    BY <2>1 DEF Unlink, Bind, Listen, Accept, ServerRecv, ServerGoto
  <2>2. CASE ServerSend(s)
    <3>1. serving[s] \in Client /\ serving[s] # None
      BY <2>2 DEF ServerSend
    <3>2. ~Gone(serving[s])
      BY <2>0, <3>1, Serving DEF Peaceful, NoCrash, Gone
    <3> QED BY <2>2, <3>1, <3>2 DEF ServerSend, ServerGoto
  <2>3. CASE ServerCrash(s)
    BY <2>3 DEF ServerCrash, Die, ServerGoto, NoCrash
  <2> QED BY <1>2, <2>1, <2>2, <2>3 DEF ServerAction, ServerStep
<1>3. ASSUME NEW c \in Client, ClientAction(c)
      PROVE  /\ NoCrash /\ srvPc' = srvPc
             /\ \A d \in Client \ {c} : cliPc'[d] = cliPc[d] /\ peer'[d] = peer[d] /\ ack'[d] = ack[d]
  <2>1. CASE Connect(c) \/ ConnectFails(c) \/ Send(c) \/ Recv(c)
    BY <2>1 DEF Connect, ConnectFails, Send, Recv, ClientGoto, serverVars, NoCrash
  <2>2. CASE ClientCrash(c)
    BY <2>2 DEF ClientCrash, ClientGoto, NoCrash
  <2> QED BY <1>3, <2>1, <2>2 DEF ClientAction, ClientStep
<1>4. ASSUME NEW c \in Client, ClientAction(c)
      PROVE  /\ cliPc'[c] # "killed"
             /\ cliPc'[c] = "done" => ack'[c] # "none" \/ peer'[c] = None
  <2>0. \A s \in Server : ~Dead(s)
    BY <1>3, <1>4 DEF Peaceful, NoCrash, Dead
  <2>1. CASE Connect(c) \/ ConnectFails(c)
    BY <2>1 DEF Connect, ConnectFails, ClientGoto
  <2>2. CASE Send(c)
    BY <2>0, <2>2 DEF Send, ClientGoto, Connected
  <2>3. CASE Recv(c)
    BY <2>0, <2>3 DEF Recv, ClientGoto, Connected
  <2>4. CASE ClientCrash(c)
    BY <2>4 DEF ClientCrash, ClientGoto, NoCrash
  <2> QED BY <1>4, <2>1, <2>2, <2>3, <2>4 DEF ClientAction, ClientStep
<1>5. CASE UNCHANGED vars
  BY <1>5 DEF vars, serverVars, clientVars, NoCrash, Peaceful
<1>6. CASE Next
  <2>1. CASE \E s \in Server : ServerAction(s)
    <3>1. PICK s \in Server : ServerAction(s)
      BY <2>1
    <3>2. NoCrash /\ cliPc' = cliPc /\ peer' = peer /\ \A t \in Server \ {s} : srvPc'[t] = srvPc[t]
      BY <1>1, <3>1
    <3>3. srvPc'[s] # "killed" /\ \A c \in Client : ack[c] # "none" => ack'[c] # "none"
      BY <1>2, <3>1
    <3>4. /\ \A t \in Server : srvPc[t] # "killed"
          /\ \A c \in Client : cliPc[c] # "killed"
          /\ \A c \in Client : cliPc[c] = "done" => ack[c] # "none" \/ peer[c] = None
      BY <3>2 DEF Peaceful
    <3>5. \A t \in Server : srvPc'[t] # "killed"
      BY <3>2, <3>3, <3>4
    <3>6. \A c \in Client : cliPc'[c] # "killed"
      BY <3>2, <3>4
    <3>7. \A c \in Client : cliPc'[c] = "done" => ack'[c] # "none" \/ peer'[c] = None
      BY <3>2, <3>3, <3>4
    <3> QED BY <3>5, <3>6, <3>7
  <2>2. CASE \E c \in Client : ClientAction(c)
    <3>1. PICK c \in Client : ClientAction(c)
      BY <2>2
    <3>2. /\ NoCrash /\ srvPc' = srvPc
          /\ \A d \in Client \ {c} : cliPc'[d] = cliPc[d] /\ peer'[d] = peer[d] /\ ack'[d] = ack[d]
      BY <1>3, <3>1
    <3>3. cliPc'[c] # "killed" /\ (cliPc'[c] = "done" => ack'[c] # "none" \/ peer'[c] = None)
      BY <1>4, <3>1
    <3>4. /\ \A s \in Server : srvPc[s] # "killed"
          /\ \A d \in Client : cliPc[d] # "killed"
          /\ \A d \in Client : cliPc[d] = "done" => ack[d] # "none" \/ peer[d] = None
      BY <3>2 DEF Peaceful
    <3>5. \A s \in Server : srvPc'[s] # "killed"
      BY <3>2, <3>4
    <3>6. \A d \in Client : cliPc'[d] # "killed"
      BY <3>2, <3>3, <3>4
    <3>7. \A d \in Client : cliPc'[d] = "done" => ack'[d] # "none" \/ peer'[d] = None
      BY <3>2, <3>3, <3>4
    <3> QED BY <3>5, <3>6, <3>7
  <2> QED BY <1>6, <2>1, <2>2 DEF Next, Run, Crash, ServerAction, ClientAction
<1> QED BY <1>5, <1>6

\* On unix sockets SIGPIPE kills nobody as long as no process has crashed.
THEOREM CrashesKill == Spec => []OnlyCrashesKill
<1>1. Init => Peaceful
  BY FamilyAssumption DEF Init, Peaceful
<1>2. TypeOK /\ TypeOK' /\ Lined /\ Peaceful /\ [Next]_vars => Lined' /\ Peaceful'
  BY LinedStep, PeacefulStep
<1>3. Peaceful => OnlyCrashesKill
  BY DEF Peaceful, OnlyCrashesKill, NoCrash
<1> QED BY <1>1, <1>2, <1>3, LinedInit, TypeCorrect, PTL DEF Spec

\* Both together: SIGPIPE needs a crash and a lost address needs another server.
THEOREM ServersStay == Spec => []ServersLast
<1>1. OnlyCrashesKill /\ UnreachableOnlyInRace => ServersLast
  BY DEF ServersLast
<1> QED BY <1>1, CrashesKill, UnreachableRaced, PTL
=============================================================================
