-------------------------- MODULE TlsServer_proofs --------------------------
(***************************************************************************)
(* Theorems about TlsServer, for any clients, servers and limit of         *)
(* descriptors.                                                            *)
(***************************************************************************)
EXTENDS TlsServer, FiniteSetTheorems, TLAPS

ServerAction(s) == ServerStep(s) \/ ServerCrash(s)
ClientAction(c) == ClientStep(c) \/ ClientCrash(c)

LEMMA Actor ==
  ASSUME Next
  PROVE  (\E s \in Server : ServerAction(s)) \/ (\E c \in Peer : ClientAction(c))
BY DEF Next, ServerAction, ClientAction

\* What a queue holds after a client has joined at its end, and after the first has left.
LEMMA Joined ==
  ASSUME NEW q \in Seq(Peer), NEW c \in Peer
  PROVE  /\ Append(q, c) \in Seq(Peer)
         /\ \A d : (\E i \in DOMAIN Append(q, c) : Append(q, c)[i] = d)
                     <=> d = c \/ \E i \in DOMAIN q : q[i] = d
<1>1. Append(q, c) \in Seq(Peer) /\ DOMAIN Append(q, c) = 1 .. Len(q) + 1 /\ DOMAIN q = 1 .. Len(q)
      /\ Len(q) \in Nat
  OBVIOUS
<1>2. \A i \in 1 .. Len(q) + 1 : Append(q, c)[i] = IF i = Len(q) + 1 THEN c ELSE q[i]
  OBVIOUS
<1> QED BY <1>1, <1>2

LEMMA FirstLeft ==
  ASSUME NEW q \in Seq(Peer), q # << >>
  PROVE  /\ Head(q) \in Peer /\ Tail(q) \in Seq(Peer)
         /\ \A d : (\E i \in DOMAIN q : q[i] = d)
                     <=> d = Head(q) \/ \E i \in DOMAIN Tail(q) : Tail(q)[i] = d
<1>1. /\ Head(q) \in Peer /\ Tail(q) \in Seq(Peer) /\ Head(q) = q[1] /\ Len(q) \in Nat \ {0}
      /\ DOMAIN Tail(q) = 1 .. Len(q) - 1 /\ DOMAIN q = 1 .. Len(q)
  OBVIOUS
<1>2. \A i \in 1 .. Len(q) - 1 : Tail(q)[i] = q[i + 1]
  OBVIOUS
<1>3. ASSUME NEW i \in DOMAIN q PROVE q[i] = Head(q) \/ \E j \in DOMAIN Tail(q) : Tail(q)[j] = q[i]
  <2>1. CASE i = 1
    BY <1>1, <2>1
  <2>2. CASE i # 1
    <3>1. i - 1 \in 1 .. Len(q) - 1 /\ (i - 1) + 1 = i
      BY <1>1, <2>2
    <3> QED BY <1>1, <1>2, <3>1
  <2> QED BY <2>1, <2>2
<1>4. ASSUME NEW j \in DOMAIN Tail(q) PROVE j + 1 \in DOMAIN q /\ q[j + 1] = Tail(q)[j]
  BY <1>1, <1>2
<1>5. 1 \in DOMAIN q
  BY <1>1
<1> QED BY <1>1, <1>3, <1>4, <1>5
-----------------------------------------------------------------------------
LEMMA TypeInit == Init => TypeOK
BY PeerAssumption, MaxFdAssumption DEF Init, TypeOK, Peer

LEMMA TypeDie ==
  ASSUME TypeOK, NEW s \in Server, Die(s), UNCHANGED << files, limit, unlucky, clientVars, hello, read, acks >>
  PROVE  TypeOK'
BY DEF TypeOK, Die, ServerGoto, clientVars

LEMMA TypeServer ==
  ASSUME TypeOK, NEW s \in Server, ServerAction(s)
  PROVE  TypeOK'
<1>1. CASE Bind(s)
  BY <1>1 DEF TypeOK, Bind, ServerGoto, clientVars
<1>2. CASE Listen(s)
  BY <1>2 DEF TypeOK, Listen, ServerGoto, clientVars
<1>3. CASE Accept(s)
  <2>1. Head(backlog[s]) \in Peer /\ Tail(backlog[s]) \in Seq(Peer) /\ Head(backlog[s]) # None
    BY <1>3, FirstLeft, PeerAssumption DEF TypeOK, Accept
  <2> QED BY <1>3, <2>1 DEF TypeOK, Accept, ServerGoto, clientVars
<1>4. CASE Setup(s)
  <2>1. /\ target[s] \in Peer /\ ssl' \in [Server -> Peer \cup {None, Fresh}]
        /\ unlucky' = unlucky \/ unlucky' = unlucky \cup {target[s]}
    BY <1>4 DEF TypeOK, Setup
  <2> QED BY <1>4, <2>1 DEF TypeOK, Setup, ServerGoto, clientVars
<1>5. CASE SslAccept(s)
  BY <1>5 DEF TypeOK, SslAccept, ServerGoto, clientVars
<1>6. CASE SslAcceptFails(s)
  <2>1. CASE Die(s)
    BY <1>6, <2>1, TypeDie DEF SslAcceptFails
  <2>2. CASE ~Die(s)
    BY <1>6, <2>2 DEF TypeOK, SslAcceptFails, ServerGoto, clientVars
  <2> QED BY <2>1, <2>2
<1>7. CASE SslRead(s)
  <2>1. CASE Die(s) /\ UNCHANGED read
    BY <1>7, <2>1, TypeDie DEF SslRead
  <2>2. CASE ~(Die(s) /\ UNCHANGED read)
    <3>1. /\ srvPc' = [srvPc EXCEPT ![s] = "write"] /\ srvPc[s] = "read"
          /\ UNCHANGED << files, limit, unlucky, address, backlog, target, ssl, clientVars, hello, acks >>
      BY <1>7, <2>2 DEF SslRead, ServerGoto
    <3>2. read' \in [Peer -> BOOLEAN]
      <4>1. UNCHANGED read \/ \E c \in Peer : read' = [read EXCEPT ![c] = TRUE]
        BY <1>7, <2>2 DEF SslRead, Peer
      <4> QED BY <4>1 DEF TypeOK
    <3> QED BY <3>1, <3>2 DEF TypeOK, clientVars
  <2> QED BY <2>1, <2>2
<1>8. CASE SslWrite(s)
  <2>1. CASE Die(s) /\ UNCHANGED acks
    BY <1>8, <2>1, TypeDie DEF SslWrite
  <2>2. CASE ~(Die(s) /\ UNCHANGED acks)
    <3>1. acks' \in [Peer -> Nat]
      <4>1. CASE Lost(s)
        BY <1>8, <2>2, <4>1 DEF TypeOK, SslWrite
      <4>2. CASE ~Lost(s)
        <5>1. ssl[s] \in Peer /\ acks' = [acks EXCEPT ![ssl[s]] = @ + 1]
          BY <1>8, <2>2, <4>2 DEF TypeOK, SslWrite, Lost
        <5> QED BY <5>1 DEF TypeOK
      <4> QED BY <4>1, <4>2
    <3>2. /\ srvPc' = [srvPc EXCEPT ![s] = "accept"] /\ target' = [target EXCEPT ![s] = None]
          /\ UNCHANGED << files, limit, unlucky, address, backlog, ssl, clientVars, hello, read >>
      BY <1>8, <2>2 DEF SslWrite, ServerGoto
    <3> QED BY <3>1, <3>2 DEF TypeOK, clientVars
  <2> QED BY <2>1, <2>2
<1>9. CASE ServerCrash(s)
  BY <1>9, TypeDie DEF ServerCrash
<1> QED BY <1>1, <1>2, <1>3, <1>4, <1>5, <1>6, <1>7, <1>8, <1>9 DEF ServerAction, ServerStep

LEMMA TypeClient ==
  ASSUME TypeOK, NEW c \in Peer, ClientAction(c)
  PROVE  TypeOK'
<1>1. CASE Connect(c)
  <2>1. \A s \in Server : Append(backlog[s], c) \in Seq(Peer)
    BY Joined DEF TypeOK
  <2> QED BY <1>1, <2>1 DEF TypeOK, Connect, ClientGoto
<1>2. CASE PlainConnectFails(c)
  BY <1>2 DEF TypeOK, PlainConnectFails, ClientGoto, serverVars
<1>3. CASE Hello(c)
  BY <1>3 DEF TypeOK, Hello, ClientGoto, serverVars
<1>4. CASE SslConnect(c)
  BY <1>4 DEF TypeOK, SslConnect, ClientGoto, serverVars
<1>5. CASE SslConnectFails(c)
  BY <1>5 DEF TypeOK, SslConnectFails, ClientGoto, serverVars
<1>6. CASE Write(c)
  BY <1>6 DEF TypeOK, Write, ClientGoto, serverVars
<1>7. CASE Read(c)
  BY <1>7 DEF TypeOK, Read, ClientGoto, serverVars
<1>8. CASE ClientCrash(c)
  BY <1>8 DEF TypeOK, ClientCrash, ClientGoto, serverVars
<1> QED BY <1>1, <1>2, <1>3, <1>4, <1>5, <1>6, <1>7, <1>8 DEF ClientAction, ClientStep

LEMMA TypeStep == TypeOK /\ [Next]_vars => TypeOK'
<1>1. CASE UNCHANGED vars
  BY <1>1 DEF TypeOK, vars, serverVars, clientVars
<1>2. CASE Next
  BY <1>2, Actor, TypeServer, TypeClient
<1> QED BY <1>1, <1>2

\* The variables of the TLS programs keep their types, and target_fd is in use from
\* accept() to SSL_write(), for every number of them.
THEOREM TypeCorrect == Spec => []TypeOK
BY TypeInit, TypeStep, PTL DEF Spec
-----------------------------------------------------------------------------
InLine(c, s) == \E i \in DOMAIN backlog[s] : backlog[s][i] = c

\* Whom a server has to do with has connected to this server.
Mine ==
    /\ \A s \in Server : target[s] # None => peer[target[s]] = s
    /\ \A s \in Server : ssl[s] \notin {None, Fresh} => peer[ssl[s]] = s
    /\ \A s \in Server, c \in Peer : InLine(c, s) => peer[c] = s
    /\ \A c \in Peer : cliPc[c] = "connect" => peer[c] = None

\* What makes AnsweredOnce inductive: an answer that is about to be written is the first.
Answering ==
    /\ AnsweredOnce
    /\ \A s \in Server : (srvPc[s] = "write" /\ ~Lost(s)) => read[ssl[s]] /\ acks[ssl[s]] = 0

\* What makes PassedOverAtLimit inductive: the server has at most limit descriptors, and
\* turns to a connection that is not its client's only without certificate or descriptor, or
\* when memory ran out at this client's turn.
Full(s) == ~files \/ Cardinality(OpenFds(s)) = limit
Turning(s) ==
    /\ ~Dead(s) => Cardinality(OpenFds(s)) <= limit
    /\ srvPc[s] = "handshake" => ssl[s] = target[s]
    /\ (srvPc[s] \in {"read", "write"} /\ ssl[s] # target[s])
            => Gone(target[s]) \/ Full(s) \/ target[s] \in unlucky
    /\ \A c \in Peer : (peer[c] = s /\ PassedOver(c)) => Full(s) \/ c \in unlucky

\* A client changes nothing of the servers but the queue it joins, and an end is for good.
LEMMA ClientFrame ==
  ASSUME TypeOK, NEW c \in Peer, ClientAction(c)
  PROVE  /\ UNCHANGED << files, limit, unlucky, srvPc, target, ssl, read, acks >>
         /\ \A d \in Peer : Gone(d) => Gone(d)'
         /\ \A s \in Server : Lost(s) => Lost(s)'
         /\ \A d \in Peer : cliPc'[d] = "connect" => d # c /\ cliPc[d] = "connect"
         /\ Connect(c) \/ UNCHANGED << peer, backlog >>
<1>1. /\ UNCHANGED << files, limit, unlucky, srvPc, target, ssl, read, acks >>
      /\ Connect(c) \/ UNCHANGED << peer, backlog >>
  BY DEF ClientAction, ClientStep, Connect, PlainConnectFails, Hello, SslConnect, SslConnectFails,
         Write, Read, ClientCrash, serverVars
<1>2. PICK l : cliPc' = [cliPc EXCEPT ![c] = l] /\ l # "connect" /\ (~Gone(c) \/ l = cliPc[c])
  <2>1. CASE ClientStep(c)
    BY <2>1 DEF ClientStep, Connect, PlainConnectFails, Hello, SslConnect, SslConnectFails,
         Write, Read, ClientGoto, Gone
  <2>2. CASE ClientCrash(c)
    BY <2>2 DEF ClientCrash, ClientGoto, Gone
  <2> QED BY <2>1, <2>2 DEF ClientAction
<1>3. /\ \A d \in Peer : Gone(d) => Gone(d)'
      /\ \A d \in Peer : cliPc'[d] = "connect" => d # c /\ cliPc[d] = "connect"
  BY <1>2 DEF Gone, TypeOK
<1>4. \A s \in Server : Lost(s) => Lost(s)'
  BY <1>1, <1>3 DEF Lost, TypeOK
<1> QED BY <1>1, <1>3, <1>4

\* A server changes nothing of the clients but what it has read and written.
LEMMA ServerFrame ==
  ASSUME TypeOK, NEW s \in Server, ServerAction(s)
  PROVE  /\ UNCHANGED << files, limit, cliPc, peer >> /\ unlucky \subseteq unlucky'
         /\ \A t \in Server \ {s} : /\ srvPc'[t] = srvPc[t] /\ backlog'[t] = backlog[t]
                                     /\ target'[t] = target[t] /\ ssl'[t] = ssl[t]
<1> USE DEF TypeOK, clientVars
<1>1. CASE Bind(s) \/ Listen(s) \/ Accept(s) \/ Setup(s) \/ SslAccept(s)
  BY <1>1 DEF Bind, Listen, Accept, Setup, SslAccept, ServerGoto
<1>2. CASE SslAcceptFails(s) \/ SslRead(s) \/ SslWrite(s) \/ ServerCrash(s)
  BY <1>2 DEF SslAcceptFails, SslRead, SslWrite, ServerCrash, Die, ServerGoto
<1> QED BY <1>1, <1>2 DEF ServerAction, ServerStep
-----------------------------------------------------------------------------
LEMMA MineStep ==
  ASSUME TypeOK, Mine, Next
  PROVE  Mine'
<1>1. ASSUME NEW c \in Peer, ClientAction(c) PROVE Mine'
  <2>1. CASE Connect(c)
    <3>1. PICK s \in Server : backlog' = [backlog EXCEPT ![s] = Append(backlog[s], c)]
                              /\ peer' = [peer EXCEPT ![c] = s]
      BY <2>1 DEF Connect
    <3>2. peer[c] = None /\ backlog[s] \in Seq(Peer)
      BY <2>1 DEF Connect, Mine, TypeOK
    <3>3. \A d \in Peer, t \in Server : InLine(d, t)' => InLine(d, t) \/ (d = c /\ t = s)
      BY <3>1, <3>2, Joined DEF InLine, TypeOK
    <3> QED BY <1>1, <3>1, <3>2, <3>3, ClientFrame, PeerAssumption DEF Mine, TypeOK, Peer
  <2>2. CASE UNCHANGED << peer, backlog >>
    BY <1>1, <2>2, ClientFrame DEF Mine, InLine
  <2> QED BY <1>1, <2>1, <2>2, ClientFrame
<1>2. ASSUME NEW s \in Server, ServerAction(s) PROVE Mine'
  <2>1. CASE Accept(s)
    <3>1. /\ backlog[s] \in Seq(Peer) /\ backlog[s] # << >>
          /\ target' = [target EXCEPT ![s] = Head(backlog[s])]
          /\ backlog' = [backlog EXCEPT ![s] = Tail(backlog[s])] /\ UNCHANGED ssl
      BY <2>1 DEF Accept, TypeOK
    <3>2. InLine(Head(backlog[s]), s) /\ Head(backlog[s]) \in Peer
      BY <3>1, FirstLeft DEF InLine
    <3>3. \A d \in Peer, t \in Server : InLine(d, t)' => InLine(d, t)
      BY <3>1, FirstLeft DEF InLine, TypeOK
    <3> QED BY <1>2, <3>1, <3>2, <3>3, ServerFrame DEF Mine, TypeOK
  <2>2. CASE backlog' = backlog \/ backlog' = [backlog EXCEPT ![s] = << >>]
    <3>1. \A d \in Peer, t \in Server : InLine(d, t)' => InLine(d, t)
      <4>1. \A t \in Server : backlog'[t] = backlog[t] \/ backlog'[t] = << >>
        BY <2>2 DEF TypeOK
      <4>2. DOMAIN << >> = {}
        OBVIOUS
      <4> QED BY <4>1, <4>2 DEF InLine
    <3>2. ~Accept(s) => target'[s] \in {target[s], None} /\ ssl'[s] \in {ssl[s], target[s], None, Fresh}
      BY <1>2 DEF ServerAction, ServerStep, Bind, Listen, Setup, SslAccept, SslAcceptFails, SslRead,
                  SslWrite, ServerCrash, Die, TypeOK
    <3> QED BY <1>2, <2>1, <3>1, <3>2, ServerFrame DEF Mine
  <2> QED BY <1>2, <2>1, <2>2 DEF ServerAction, ServerStep, Bind, Listen, Setup, SslAccept,
             SslAcceptFails, SslRead, SslWrite, ServerCrash, Die
<1> QED BY <1>1, <1>2, Actor

LEMMA AnsweringStep ==
  ASSUME TypeOK, Mine, Answering, Next
  PROVE  Answering'
<1>1. ASSUME NEW c \in Peer, ClientAction(c) PROVE Answering'
  BY <1>1, ClientFrame DEF Answering, AnsweredOnce
<1>2. ASSUME NEW s \in Server, ServerAction(s) PROVE Answering'
  <2>1. \A t \in Server : ~Lost(t) => ssl[t] \in Peer /\ peer[ssl[t]] = t
    BY DEF Lost, Mine, TypeOK
  <2>2. CASE SslRead(s) /\ srvPc'[s] = "write"
    <3>1. UNCHANGED << ssl, acks, cliPc >>
      BY <2>2 DEF SslRead, Die, ServerGoto, TypeOK, clientVars
    <3>2. \A d \in Peer : read[d] => read'[d]
      BY <2>2 DEF SslRead, TypeOK, Peer
    <3>3. ~Lost(s) => /\ read' = [read EXCEPT ![ssl[s]] = TRUE] /\ ~read[ssl[s]]
      BY <2>2 DEF SslRead, Lost, Die, ServerGoto, TypeOK
    <3>4. ~Lost(s) => read'[ssl[s]] /\ acks[ssl[s]] = 0
      BY <2>1, <3>3 DEF Answering, AnsweredOnce, TypeOK
    <3>5. \A t \in Server : Lost(t)' <=> Lost(t)
      BY <3>1 DEF Lost, Gone
    <3> QED BY <1>2, <3>1, <3>2, <3>4, <3>5, <2>1, ServerFrame DEF Answering, AnsweredOnce
  <2>3. CASE SslWrite(s) /\ ~UNCHANGED acks
    <3>1. /\ ~Lost(s) /\ acks' = [acks EXCEPT ![ssl[s]] = @ + 1] /\ srvPc[s] = "write"
          /\ srvPc'[s] = "accept" /\ UNCHANGED << ssl, read, cliPc >>
      BY <2>3 DEF SslWrite, ServerGoto, TypeOK, clientVars
    <3>2. read[ssl[s]] /\ acks[ssl[s]] = 0 /\ acks'[ssl[s]] = 1
      BY <2>1, <3>1 DEF Answering, TypeOK
    <3>3. AnsweredOnce'
      BY <2>1, <3>1, <3>2 DEF Answering, AnsweredOnce, TypeOK
    <3>4. ASSUME NEW t \in Server, srvPc'[t] = "write", ~Lost(t)'
          PROVE  read'[ssl'[t]] /\ acks'[ssl'[t]] = 0
      <4>1. t # s /\ srvPc[t] = "write" /\ ~Lost(t)
        BY <1>2, <3>1, <3>4, ServerFrame DEF Lost, Gone
      <4>2. ssl[t] # ssl[s] /\ ssl[t] \in Peer
        BY <2>1, <3>1, <4>1
      <4> QED BY <3>1, <4>1, <4>2 DEF Answering, TypeOK
    <3> QED BY <3>3, <3>4 DEF Answering
  <2>4. CASE UNCHANGED << read, acks >> /\ (srvPc'[s] = "write" => UNCHANGED << srvPc, ssl >>)
    <3>1. ASSUME NEW t \in Server, srvPc'[t] = "write", ~Lost(t)'
          PROVE  srvPc[t] = "write" /\ ~Lost(t) /\ ssl'[t] = ssl[t]
      BY <1>2, <2>4, <3>1, ServerFrame DEF Lost, Gone
    <3> QED BY <2>4, <3>1 DEF Answering, AnsweredOnce
  <2>5. CASE Die(s) /\ UNCHANGED << read, acks >>
    BY <2>4, <2>5 DEF Die, ServerGoto, TypeOK
  <2>6. CASE Bind(s) \/ Listen(s) \/ Accept(s) \/ Setup(s) \/ SslAccept(s) \/ SslAcceptFails(s)
    BY <2>4, <2>5, <2>6 DEF Bind, Listen, Accept, Setup, SslAccept, SslAcceptFails, ServerGoto, TypeOK
  <2>7. CASE SslRead(s)
    BY <2>2, <2>5, <2>7 DEF SslRead, ServerGoto, TypeOK
  <2>8. CASE SslWrite(s)
    BY <2>3, <2>4, <2>5, <2>8 DEF SslWrite, ServerGoto, TypeOK
  <2>9. CASE ServerCrash(s)
    BY <2>5, <2>9 DEF ServerCrash
  <2> QED BY <1>2, <2>6, <2>7, <2>8, <2>9 DEF ServerAction, ServerStep
<1> QED BY <1>1, <1>2, Actor

\* No client is answered twice or before its request was read, for every number of clients
\* and servers, although the server may be using the ssl of the client before.
THEOREM AnswersCounted == Spec => []AnsweredOnce
<1> DEFINE Counting == TypeOK /\ Mine /\ Answering
<1>1. Init => Counting
  <2>1. Init => Mine /\ Answering
    BY PeerAssumption DEF Init, Mine, InLine, Answering, AnsweredOnce
  <2> QED BY <2>1, TypeInit
<1>2. Counting /\ [Next]_vars => Counting'
  <2>1. CASE UNCHANGED vars
    BY <2>1, TypeStep DEF vars, serverVars, clientVars, Mine, InLine, Answering, AnsweredOnce, Lost, Gone
  <2>2. CASE Next
    BY <2>2, TypeStep, MineStep, AnsweringStep
  <2> QED BY <2>1, <2>2
<1>3. Counting => AnsweredOnce
  BY DEF Answering
<1> HIDE DEF Counting
<1> QED BY <1>1, <1>2, <1>3, PTL DEF Spec
-----------------------------------------------------------------------------
LEMMA FdsFinite ==
  ASSUME NEW s \in Server
  PROVE  IsFiniteSet(OpenFds(s)) /\ Cardinality(OpenFds(s)) \in Nat
<1>1. OpenFds(s) \subseteq Peer
  BY DEF OpenFds
<1> QED BY <1>1, PeerAssumption, FS_Subset, FS_CardinalityType

\* The queue and the descriptors of a server in terms of InLine, before and after a step.
ByLine(s) ==
    /\ OpenFds(s) = {c \in Peer : peer[c] = s /\ ~InLine(c, s)}
    /\ \A c \in Peer : peer[c] = s =>
            (PassedOver(c) <=> ~Dead(s) /\ ~Gone(c) /\ acks[c] = 0 /\ ~InLine(c, s) /\ target[s] # c)

LEMMA ByLineNow ==
  ASSUME NEW s \in Server
  PROVE  ByLine(s) /\ ByLine(s)'
<1>1. s # None
  BY PeerAssumption
<1>2. ByLine(s)
  BY <1>1 DEF ByLine, OpenFds, PassedOver, Connected, Queued, InLine
<1>3. ByLine(s)'
  BY <1>1 DEF ByLine, OpenFds, PassedOver, Connected, Queued, InLine, Dead, Gone
<1> QED BY <1>2, <1>3

\* Clients neither use descriptors of the server nor are passed over by what they do.
LEMMA ClientTurns ==
  ASSUME TypeOK, Mine, NEW c \in Peer, ClientAction(c), NEW s \in Server, Turning(s)
  PROVE  Turning(s)'
<1> USE PeerAssumption
<1>0. TypeOK'
  BY TypeClient
<1>1. \A d \in Peer : peer'[d] = s => (peer[d] = s /\ (InLine(d, s) => InLine(d, s)')) \/ InLine(d, s)'
  <2>1. CASE Connect(c)
    <3>1. PICK t \in Server : /\ backlog' = [backlog EXCEPT ![t] = Append(backlog[t], c)]
                              /\ peer' = [peer EXCEPT ![c] = t]
      BY <2>1 DEF Connect
    <3>2. backlog[t] \in Seq(Peer)
      BY DEF TypeOK
    <3>3. ASSUME s = t, NEW d \in Peer PROVE InLine(d, s)' <=> InLine(d, s) \/ d = c
      <4> DEFINE q == backlog[s]
                 r == Append(q, c)
      <4>1. backlog'[s] = r
        BY <3>1, <3>3 DEF TypeOK
      <4>2. q \in Seq(Peer)
        BY DEF TypeOK
      <4>3. (\E i \in DOMAIN r : r[i] = d) <=> d = c \/ \E i \in DOMAIN q : q[i] = d
        <5> HIDE DEF q
        <5>1. \A e : (\E i \in DOMAIN Append(q, c) : Append(q, c)[i] = e)
                        <=> e = c \/ \E i \in DOMAIN q : q[i] = e
          BY <4>2, Joined
        <5> QED BY <5>1
      <4> HIDE DEF r
      <4> QED BY <4>1, <4>3 DEF InLine
    <3>4. s # t => \A d \in Peer : InLine(d, s)' <=> InLine(d, s)
      BY <3>1 DEF InLine, TypeOK
    <3>5. \A d \in Peer : peer'[d] = s => peer[d] = s \/ (d = c /\ s = t)
      BY <3>1 DEF TypeOK
    <3> QED BY <3>3, <3>4, <3>5
  <2> QED BY <2>1, ClientFrame DEF InLine
<1>2. \A d \in Peer : (peer[d] = s /\ ~InLine(d, s)) => peer'[d] = s /\ ~InLine(d, s)'
  <2>1. CASE Connect(c)
    <3>1. PICK t \in Server : /\ backlog' = [backlog EXCEPT ![t] = Append(backlog[t], c)]
                              /\ peer' = [peer EXCEPT ![c] = t]
      BY <2>1 DEF Connect
    <3>2. backlog[t] \in Seq(Peer) /\ peer[c] = None
      BY <2>1 DEF TypeOK, Connect, Mine
    <3>3. \A d \in Peer : InLine(d, s)' => InLine(d, s) \/ d = c
      BY <3>1, <3>2, Joined DEF InLine, TypeOK
    <3> QED BY <3>1, <3>2, <3>3 DEF TypeOK, Peer
  <2> QED BY <2>1, ClientFrame DEF InLine
<1>3. OpenFds(s)' = OpenFds(s)
  BY <1>1, <1>2, ByLineNow DEF ByLine
<1>4. \A d \in Peer : (peer'[d] = s /\ PassedOver(d)') => peer[d] = s /\ PassedOver(d)
  BY <1>1, ClientFrame, ByLineNow DEF ByLine, Dead
<1>5. UNCHANGED << srvPc, target, ssl, files, limit, unlucky >> /\ (Full(s)' <=> Full(s))
  BY <1>3, ClientFrame DEF Full
<1>6. target[s] # None => (Gone(target[s]) => Gone(target[s])')
  BY <1>5, ClientFrame DEF TypeOK
<1> QED BY <1>3, <1>4, <1>5, <1>6 DEF Turning, Dead, TypeOK

\* An answer is never taken back.
LEMMA AcksStay ==
  ASSUME TypeOK, NEW s \in Server, ServerAction(s), NEW c \in Peer, acks'[c] = 0
  PROVE  acks[c] = 0
<1>1. CASE SslWrite(s) /\ ~UNCHANGED acks
  <2>1. ssl[s] \in Peer /\ acks' = [acks EXCEPT ![ssl[s]] = @ + 1]
    BY <1>1 DEF SslWrite, Lost, TypeOK
  <2> QED BY <2>1 DEF TypeOK
<1> QED BY <1>1 DEF ServerAction, ServerStep, Bind, Listen, Accept, Setup, SslAccept, SslAcceptFails,
                    SslRead, SslWrite, ServerCrash

\* A server that leaves its queue alone has the descriptors it had.
LEMMA FdsStay ==
  ASSUME TypeOK, NEW s \in Server, ServerAction(s), NEW t \in Server, backlog'[t] = backlog[t]
  PROVE  /\ OpenFds(t)' = OpenFds(t) /\ (Full(t)' <=> Full(t))
         /\ \A c \in Peer : InLine(c, t)' <=> InLine(c, t)
<1>1. \A c \in Peer : InLine(c, t)' <=> InLine(c, t)
  BY DEF InLine
<1>2. UNCHANGED << peer, files, limit >>
  BY ServerFrame
<1>3. OpenFds(t)' = OpenFds(t)
  BY <1>1, <1>2, ByLineNow DEF ByLine
<1> QED BY <1>1, <1>2, <1>3 DEF Full

LEMMA OtherTurns ==
  ASSUME TypeOK, NEW s \in Server, ServerAction(s), NEW t \in Server \ {s}, Turning(t)
  PROVE  Turning(t)'
<1>1. /\ UNCHANGED << files, limit, cliPc, peer >> /\ unlucky \subseteq unlucky'
      /\ srvPc'[t] = srvPc[t] /\ backlog'[t] = backlog[t] /\ target'[t] = target[t] /\ ssl'[t] = ssl[t]
  BY ServerFrame
<1>2. OpenFds(t)' = OpenFds(t) /\ (Full(t)' <=> Full(t))
  BY <1>1, FdsStay
<1>3. \A c \in Peer : (peer'[c] = t /\ PassedOver(c)') => PassedOver(c)
  BY <1>1, FdsStay, AcksStay, ByLineNow DEF ByLine, Dead, Gone
<1> QED BY <1>1, <1>2, <1>3 DEF Turning, Dead, Gone

LEMMA ServerTurns ==
  ASSUME TypeOK, Mine, NEW s \in Server, ServerAction(s), Turning(s)
  PROVE  Turning(s)'
<1>0. UNCHANGED << files, limit, cliPc, peer >> /\ unlucky \subseteq unlucky'
  BY ServerFrame
<1>1. CASE srvPc'[s] = "ended"
  <2>1. \A c \in Peer : peer'[c] = s => ~PassedOver(c)'
    BY <1>1, ByLineNow DEF ByLine, Dead
  <2> QED BY <1>1, <2>1 DEF Turning, Dead
<1>2. ASSUME backlog'[s] = backlog[s], srvPc[s] # "ended",
             \A c \in Peer : (peer'[c] = s /\ PassedOver(c)') => PassedOver(c) \/ Full(s) \/ c \in unlucky',
             srvPc'[s] = "handshake" => ssl'[s] = target'[s],
             (srvPc'[s] \in {"read", "write"} /\ ssl'[s] # target'[s])
                => Gone(target'[s]) \/ Full(s) \/ target'[s] \in unlucky'
      PROVE  Turning(s)'
  <2>1. OpenFds(s)' = OpenFds(s) /\ (Full(s)' <=> Full(s))
    BY <1>2, FdsStay
  <2> QED BY <1>0, <1>2, <2>1 DEF Turning, Dead, Gone
<1>3. ASSUME backlog'[s] = backlog[s], target'[s] = target[s], srvPc[s] # "ended"
      PROVE  \A c \in Peer : (peer'[c] = s /\ PassedOver(c)') => PassedOver(c)
  BY <1>0, <1>3, FdsStay, AcksStay, ByLineNow DEF ByLine, Dead, Gone
<1>4. CASE Accept(s)
  <2>1. /\ backlog[s] \in Seq(Peer) /\ backlog[s] # << >> /\ target[s] = None
        /\ target'[s] = Head(backlog[s]) /\ backlog'[s] = Tail(backlog[s])
        /\ srvPc[s] = "accept" /\ srvPc'[s] = "setup" /\ UNCHANGED acks
        /\ Cardinality(OpenFds(s)) < limit
    BY <1>4 DEF Accept, ServerGoto, TypeOK
  <2>2. \A c \in Peer : InLine(c, s) <=> c = target'[s] \/ InLine(c, s)'
    <3> DEFINE q == backlog[s]
               r == Tail(q)
    <3>1. backlog'[s] = r /\ target'[s] = Head(q) /\ q \in Seq(Peer) /\ q # << >>
      BY <2>1
    <3>2. \A d : (\E i \in DOMAIN q : q[i] = d) <=> d = Head(q) \/ \E i \in DOMAIN r : r[i] = d
      <4> HIDE DEF q
      <4> QED BY <3>1, FirstLeft
    <3> HIDE DEF r
    <3> QED BY <3>1, <3>2 DEF InLine
  <2>3. OpenFds(s)' \subseteq OpenFds(s) \cup {target'[s]}
    BY <1>0, <2>2, ByLineNow DEF ByLine
  <2>4. Cardinality(OpenFds(s)') <= limit
    <3>1. /\ IsFiniteSet(OpenFds(s) \cup {target'[s]})
          /\ Cardinality(OpenFds(s) \cup {target'[s]}) <= limit
      <4> DEFINE n == Cardinality(OpenFds(s))
                 m == Cardinality(OpenFds(s) \cup {target'[s]})
      <4>1. n \in Nat /\ n < limit /\ limit \in Nat
        BY <2>1, FdsFinite, MaxFdAssumption DEF TypeOK
      <4>2. IsFiniteSet(OpenFds(s) \cup {target'[s]}) /\ (m = n \/ m = n + 1)
        BY FdsFinite, FS_AddElement
      <4> HIDE DEF n, m
      <4>3. m <= limit
        BY <4>1, <4>2
      <4> QED BY <4>2, <4>3 DEF m
    <3>2. Cardinality(OpenFds(s)') <= Cardinality(OpenFds(s) \cup {target'[s]})
      BY <2>3, <3>1, FS_Subset
    <3>3. Cardinality(OpenFds(s)') \in Nat /\ Cardinality(OpenFds(s) \cup {target'[s]}) \in Nat
      BY <2>3, <3>1, FS_Subset, FS_CardinalityType
    <3> QED BY <3>1, <3>2, <3>3 DEF TypeOK
  <2>5. ASSUME NEW c \in Peer, peer'[c] = s, PassedOver(c)' PROVE ~files \/ c \in unlucky
    <3>1. PassedOver(c)
      BY <1>0, <2>1, <2>2, <2>5, ByLineNow, PeerAssumption DEF ByLine, Dead, Gone, Peer
    <3>2. Full(s) \/ c \in unlucky
      BY <1>0, <2>5, <3>1 DEF Turning
    <3> QED BY <2>1, <3>2, FdsFinite DEF Full, TypeOK
  <2> QED BY <1>0, <2>1, <2>4, <2>5 DEF Turning, Full
<1>5. CASE Setup(s)
  <2>1. /\ backlog'[s] = backlog[s] /\ target'[s] = target[s] /\ srvPc[s] = "setup"
        /\ \/ srvPc'[s] = "handshake" /\ ssl'[s] = target[s]
           \/ srvPc'[s] = "read" /\ ~(files /\ Cardinality(OpenFds(s)) < limit)
           \/ srvPc'[s] = "read" /\ target[s] \in unlucky'
    BY <1>5 DEF Setup, Readable, ServerGoto, TypeOK
  <2>2. srvPc'[s] = "read" => Full(s) \/ target[s] \in unlucky'
    BY <2>1, FdsFinite DEF Turning, Full, Dead, TypeOK
  <2> QED BY <1>2, <1>3, <2>1, <2>2
<1>6. CASE Bind(s) \/ Listen(s) \/ SslAccept(s) \/ (SslRead(s) /\ srvPc'[s] # "ended")
  <2>1. /\ backlog'[s] = backlog[s] /\ target'[s] = target[s] /\ ssl'[s] = ssl[s] /\ srvPc[s] # "ended"
        /\ srvPc'[s] = "handshake" => srvPc[s] = "handshake"
        /\ srvPc'[s] \in {"read", "write"} => srvPc[s] \in {"handshake", "read"}
    BY <1>6 DEF Bind, Listen, SslAccept, SslRead, Die, ServerGoto, TypeOK
  <2> QED BY <1>0, <1>2, <1>3, <2>1 DEF Turning, Gone
<1>7. CASE SslAcceptFails(s) /\ srvPc'[s] # "ended"
  <2>1. /\ backlog'[s] = backlog[s] /\ target'[s] = target[s] /\ ssl'[s] = ssl[s]
        /\ srvPc[s] = "handshake" /\ srvPc'[s] \in {"setup", "read"}
    BY <1>7 DEF SslAcceptFails, Die, ServerGoto, TypeOK
  <2> QED BY <1>2, <1>3, <2>1 DEF Turning
<1>8. CASE SslWrite(s) /\ srvPc'[s] # "ended"
  <2>1. /\ backlog'[s] = backlog[s] /\ target'[s] = None /\ srvPc[s] = "write" /\ srvPc'[s] = "accept"
        /\ ~Lost(s) => acks' = [acks EXCEPT ![ssl[s]] = @ + 1]
    BY <1>8 DEF SslWrite, Die, ServerGoto, TypeOK
  <2>2. ASSUME NEW c \in Peer, peer'[c] = s, PassedOver(c)' PROVE PassedOver(c) \/ Full(s) \/ c \in unlucky'
    <3>1. ~Gone(c) /\ acks'[c] = 0 /\ (target[s] # c => PassedOver(c))
      BY <1>0, <2>1, <2>2, FdsStay, AcksStay, ByLineNow DEF ByLine, Dead, Gone
    <3>2. ssl[s] # c
      BY <2>1, <3>1, PeerAssumption DEF Lost, TypeOK, Peer
    <3> QED BY <1>0, <2>1, <3>1, <3>2 DEF Turning
  <2> QED BY <1>2, <2>1, <2>2
<1>9. CASE ServerCrash(s)
  BY <1>1, <1>9 DEF ServerCrash, Die, ServerGoto, TypeOK
<1> QED BY <1>1, <1>4, <1>5, <1>6, <1>7, <1>8, <1>9 DEF ServerAction, ServerStep

\* For every number of clients and servers, a living client is accepted and then passed over
\* only by a server that lacks the certificate or has run out of descriptors, or for which
\* OpenSSL found no memory when it was this client's turn.
THEOREM PassedOverFull == Spec => []PassedOverAtLimit
<1> DEFINE Turns == TypeOK /\ Mine /\ \A s \in Server : Turning(s)
<1>1. Init => Turns
  <2>1. SUFFICES ASSUME Init PROVE Mine /\ \A s \in Server : Turning(s)
    BY TypeInit
  <2>2. Mine
    BY <2>1, PeerAssumption DEF Init, Mine, InLine
  <2>3. ASSUME NEW s \in Server PROVE Turning(s)
    <3>1. OpenFds(s) = {} /\ \A c \in Peer : peer[c] # s
      BY <2>1, PeerAssumption DEF Init, OpenFds
    <3> QED BY <2>1, <3>1, FS_EmptySet, MaxFdAssumption DEF Init, Turning
  <2> QED BY <2>2, <2>3
<1>2. Turns /\ [Next]_vars => Turns'
  <2>1. CASE UNCHANGED vars
    <3>1. UNCHANGED << files, limit, unlucky, srvPc, backlog, target, ssl, cliPc, peer, acks >>
      BY <2>1 DEF vars, serverVars, clientVars
    <3>2. ASSUME NEW s \in Server, Turning(s) PROVE Turning(s)'
      <4>1. OpenFds(s)' = OpenFds(s) /\ \A c \in Peer : PassedOver(c)' <=> PassedOver(c)
        BY <3>1 DEF OpenFds, Queued, PassedOver, Connected, Dead, Gone
      <4> QED BY <3>1, <3>2, <4>1 DEF Turning, Full, Dead, Gone
    <3>3. Mine => Mine'
      BY <3>1 DEF Mine, InLine
    <3> QED BY <2>1, <3>2, <3>3, TypeStep
  <2>2. ASSUME Turns, Next, NEW s \in Server PROVE Turning(s)'
    BY <2>2, Actor, ClientTurns, ServerTurns, OtherTurns
  <2> QED BY <2>1, <2>2, TypeStep, MineStep
<1>3. Turns => PassedOverAtLimit
  BY DEF Turning, Full, PassedOverAtLimit, PassedOver, Connected, TypeOK
<1> HIDE DEF Turns
<1> QED BY <1>1, <1>2, <1>3, PTL DEF Spec
=============================================================================
