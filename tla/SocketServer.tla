---------------------------- MODULE SocketServer ----------------------------
(***************************************************************************)
(* XX_socket/01_basic_unixdomain and 02_basic_inet: a server that accepts  *)
(* a connection, reads one request, sends one acknowledgement and accepts  *)
(* the next, and a client that connects, sends, waits and ends.  The two   *)
(* differ in the address (a path that the server unlinks first, a port)    *)
(* and in what the kernel answers to a process whose peer is gone.         *)
(*                                                                         *)
(* Any number of servers and clients start at any time.  No return value   *)
(* but accept()'s makes either program do anything else than go on.        *)
(***************************************************************************)
EXTENDS Naturals, Sequences, FiniteSets

CONSTANTS
    Client, Server,
    None,
    Family,    \* "unix" or "inet"
    Backlog,   \* the second argument of listen() (5 in the code)
    MaxFd      \* how many accepted sockets a process can have open

ASSUME FamilyAssumption  == Family \in {"unix", "inet"}
ASSUME ProcessAssumption == Client \cap Server = {} /\ None \notin Client \cup Server
ASSUME BacklogAssumption == Backlog \in Nat
ASSUME MaxFdAssumption   == MaxFd \in Nat \ {0}

Leftover == "leftover"   \* a socket file whose server is long gone
ASSUME LeftoverAssumption == Leftover \notin Server \cup {None}

VARIABLES
    address,  \* whom the path or port leads to
    srvPc,
    backlog,  \* connections not yet accepted, per server
    serving,  \* the client behind target_fd, per server
    cliPc,
    peer,     \* the server a client is connected to
    asked,    \* has the request been sent?
    read,     \* has the server read it?
    ack       \* of the client's connection: "none", "sent" or "received"

serverVars == << srvPc, backlog, serving >>
clientVars == << cliPc, peer, asked >>
vars == << address, serverVars, clientVars, read, ack >>

Init ==
    /\ address \in IF Family = "unix" THEN {None, Leftover} ELSE {None}
    /\ srvPc = [s \in Server |-> IF Family = "unix" THEN "unlink" ELSE "bind"]
    /\ backlog = [s \in Server |-> << >>]
    /\ serving = [s \in Server |-> None]
    /\ cliPc = [c \in Client |-> "connect"]
    /\ peer = [c \in Client |-> None]
    /\ asked = [c \in Client |-> FALSE]
    /\ read = [c \in Client |-> FALSE]
    /\ ack = [c \in Client |-> "none"]

Dead(s) == srvPc[s] \in {"killed", "crashed"}
Listening(s) == srvPc[s] \in {"accept", "recv", "send"}
Connected(c) == peer[c] # None /\ ~Dead(peer[c])
Gone(c) == cliPc[c] \in {"done", "killed", "crashed"}

\* target_fd is never closed: whoever was accepted still has a descriptor.
OpenFds(s) ==
    {c \in Client : peer[c] = s /\ ~\E i \in DOMAIN backlog[s] : backlog[s][i] = c}
-----------------------------------------------------------------------------
(* The server. *)

ServerGoto(s, l) == srvPc' = [srvPc EXCEPT ![s] = l]

\* The mistake: relying on bind() to replace the file.
NoUnlink(s) ==
    /\ srvPc[s] = "unlink"
    /\ ServerGoto(s, "bind")
    /\ UNCHANGED << address, backlog, serving, clientVars, read, ack >>

\* unlink(sun_path), whoever listens there.
Unlink(s) ==
    /\ srvPc[s] = "unlink"
    /\ address' = None
    /\ ServerGoto(s, "bind")
    /\ UNCHANGED << backlog, serving, clientVars, read, ack >>

\* Connections of a dead server may keep the port for a while (no SO_REUSEADDR).
Lingers == \E c \in Client : peer[c] # None /\ ~Connected(c)

\* A server whose bind() failed goes on: on a unix socket listen() and every accept()
\* fail too and the loop spins, on an inet socket it listens on a port nobody knows.
Bind(s) ==
    /\ srvPc[s] = "bind"
    /\ \/ /\ address = None
          /\ address' = s
          /\ ServerGoto(s, "listen")
       \/ /\ address # None \/ (Family = "inet" /\ Lingers)
          /\ UNCHANGED address
          /\ ServerGoto(s, "unreachable")
    /\ UNCHANGED << backlog, serving, clientVars, read, ack >>

Listen(s) ==
    /\ srvPc[s] = "listen"
    /\ ServerGoto(s, "accept")
    /\ UNCHANGED << address, backlog, serving, clientVars, read, ack >>

\* With no descriptor left, accept() fails and the loop spins.
Accept(s) ==
    /\ srvPc[s] = "accept" /\ backlog[s] # << >>
    /\ Cardinality(OpenFds(s)) < MaxFd
    /\ serving' = [serving EXCEPT ![s] = Head(backlog[s])]
    /\ backlog' = [backlog EXCEPT ![s] = Tail(@)]
    /\ ServerGoto(s, "recv")
    /\ UNCHANGED << address, clientVars, read, ack >>

\* The mistake: not waiting for the request.
RecvNow(s) ==
    /\ srvPc[s] = "recv"
    /\ read' = [read EXCEPT ![serving[s]] = asked[serving[s]]]
    /\ ServerGoto(s, "send")
    /\ UNCHANGED << address, backlog, serving, clientVars, ack >>

\* Waits for the request, or for the end of a client that did not send one.
ServerRecv(s) ==
    /\ srvPc[s] = "recv"
    /\ asked[serving[s]] \/ Gone(serving[s])
    /\ read' = [read EXCEPT ![serving[s]] = asked[serving[s]]]
    /\ ServerGoto(s, "send")
    /\ UNCHANGED << address, backlog, serving, clientVars, ack >>

\* What is left of a server process that ends: on an inet socket the port is free.
Die(s, how) ==
    /\ ServerGoto(s, how)
    /\ backlog' = [backlog EXCEPT ![s] = << >>]
    /\ serving' = [serving EXCEPT ![s] = None]
    /\ address' = IF Family = "inet" /\ address = s THEN None ELSE address

\* The mistakes: serving one client only, or answering the newcomer.
ServerSendOnce(s) ==
    /\ srvPc[s] = "send"
    /\ ack' = [ack EXCEPT ![serving[s]] = IF Gone(serving[s]) THEN @ ELSE "sent"]
    /\ ServerGoto(s, "unreachable")
    /\ UNCHANGED << address, backlog, serving, clientVars, read >>

ServerSendLast(s) ==
    /\ srvPc[s] = "send"
    /\ LET c == IF backlog[s] = << >> THEN serving[s] ELSE backlog[s][Len(backlog[s])]
       IN  ack' = [ack EXCEPT ![c] = IF Gone(c) THEN @ ELSE "sent"]
    /\ ServerGoto(s, "accept")
    /\ serving' = [serving EXCEPT ![s] = None]
    /\ UNCHANGED << address, backlog, clientVars, read >>

\* send() to a client that has closed: SIGPIPE on a unix socket; on an inet socket the
\* first send() succeeds, and there is only one.
ServerSend(s) ==
    /\ srvPc[s] = "send"
    /\ IF Gone(serving[s]) /\ Family = "unix"
       THEN Die(s, "killed") /\ UNCHANGED ack
       ELSE /\ ack' = [ack EXCEPT ![serving[s]] = IF Gone(serving[s]) THEN @ ELSE "sent"]
            /\ ServerGoto(s, "accept")
            /\ serving' = [serving EXCEPT ![s] = None]
            /\ UNCHANGED << address, backlog >>
    /\ UNCHANGED << clientVars, read >>

ServerCrash(s) ==
    /\ ~Dead(s)
    /\ Die(s, "crashed")
    /\ UNCHANGED << clientVars, read, ack >>
-----------------------------------------------------------------------------
(* The client. *)

ClientGoto(c, l) == cliPc' = [cliPc EXCEPT ![c] = l]

\* connect() waits while the queue of the server is full.
Connect(c) ==
    /\ cliPc[c] = "connect"
    /\ \E s \in Server :
        /\ address = s /\ Listening(s)
        /\ Len(backlog[s]) <= Backlog
        /\ backlog' = [backlog EXCEPT ![s] = Append(@, c)]
        /\ peer' = [peer EXCEPT ![c] = s]
    /\ ClientGoto(c, "send")
    /\ UNCHANGED << address, srvPc, serving, asked, read, ack >>

\* Refused: nobody is there, or not yet listening.
ConnectFails(c) ==
    /\ cliPc[c] = "connect"
    /\ ~\E s \in Server : address = s /\ Listening(s)
    /\ ClientGoto(c, "send")
    /\ UNCHANGED << address, serverVars, peer, asked, read, ack >>

\* send() without a connection: ENOTCONN on a unix socket, SIGPIPE on an inet socket;
\* to a server that is gone: SIGPIPE on a unix socket, at most an error on an inet one.
Send(c) ==
    /\ cliPc[c] = "send"
    /\ IF Connected(c)
       THEN asked' = [asked EXCEPT ![c] = TRUE] /\ ClientGoto(c, "recv")
       ELSE /\ UNCHANGED asked
            /\ ClientGoto(c, IF (peer[c] = None) = (Family = "inet") THEN "killed" ELSE "recv")
    /\ UNCHANGED << address, serverVars, peer, read, ack >>

\* recv() returns the acknowledgement, or 0 or an error when there is no connection or
\* the server has ended without one.
Recv(c) ==
    /\ cliPc[c] = "recv"
    /\ ack[c] = "sent" \/ ~Connected(c)
    /\ ack' = [ack EXCEPT ![c] = IF @ = "sent" THEN "received" ELSE @]
    /\ ClientGoto(c, "done")
    /\ UNCHANGED << address, serverVars, peer, asked, read >>

ClientCrash(c) ==
    /\ ~Gone(c)
    /\ ClientGoto(c, "crashed")
    /\ UNCHANGED << address, serverVars, peer, asked, read, ack >>
-----------------------------------------------------------------------------
ServerStep(s) == Unlink(s) \/ Bind(s) \/ Listen(s) \/ Accept(s) \/ ServerRecv(s) \/ ServerSend(s)
ClientStep(c) == Connect(c) \/ ConnectFails(c) \/ Send(c) \/ Recv(c)

Run == (\E s \in Server : ServerStep(s)) \/ (\E c \in Client : ClientStep(c))
Crash == (\E s \in Server : ServerCrash(s)) \/ (\E c \in Client : ClientCrash(c))
Next == Run \/ Crash

\* A process that can run does; nothing makes one crash.
Fairness ==
    /\ \A s \in Server : WF_vars(ServerStep(s))
    /\ \A c \in Client : WF_vars(ClientStep(c))

Spec == Init /\ [][Next]_vars /\ Fairness
-----------------------------------------------------------------------------
(* Properties. *)

\* Every variable stays in its range, and target_fd is in use from accept() to send().
TypeOK ==
    /\ address \in Server \cup {None, Leftover}
    /\ srvPc \in [Server -> {"unlink", "bind", "listen", "accept", "recv", "send",
                             "unreachable", "killed", "crashed"}]
    /\ backlog \in [Server -> Seq(Client)]
    /\ serving \in [Server -> Client \cup {None}]
    /\ \A s \in Server : serving[s] # None <=> srvPc[s] \in {"recv", "send"}
    /\ cliPc \in [Client -> {"connect", "send", "recv", "done", "killed", "crashed"}]
    /\ peer \in [Client -> Server \cup {None}]
    /\ asked \in [Client -> BOOLEAN]
    /\ read \in [Client -> BOOLEAN]
    /\ ack \in [Client -> {"none", "sent", "received"}]

\* A client is only ever answered after the server has read its request, though the
\* server answers whatever recv() returned, an error or the end of the stream included.
AckAfterRead == \A c \in Client : ack[c] # "none" => read[c]

\* Without a crash somewhere nobody is killed by SIGPIPE on unix sockets: each side
\* waits for the other at the one place where it matters.
OnlyCrashesKill ==
    (Family = "unix" /\ (\A s \in Server : srvPc[s] # "crashed")
                     /\ (\A c \in Client : cliPc[c] # "crashed"))
        => (\A s \in Server : srvPc[s] # "killed") /\ (\A c \in Client : cliPc[c] # "killed")

\* A server that cannot be reached has lost the address to another server that bound it
\* (after this one's unlink(), on a unix socket), never to a left-over file.
UnreachableOnlyInRace ==
    \A s \in Server : srvPc[s] = "unreachable" =>
        \E t \in Server \ {s} : srvPc[t] \notin {"unlink", "bind", "unreachable"}

\* A server that nobody killed or replaced goes on serving.
ServersLast == OnlyCrashesKill /\ UnreachableOnlyInRace

\* Whatever crashes, no client waits for ever while there are descriptors for all of them:
\* it is answered, refused, told of the end of its server, or killed.  Servers replaced by a
\* newcomer that unlinked their path still serve the clients they have.
EveryClientEnds == Cardinality(Client) <= MaxFd => \A c \in Client : <>Gone(c)

\* A connected client gets its acknowledgement unless its server ends or has no descriptor
\* left to accept it, or it is killed itself.
Starved(c) ==
    LET s == peer[c]
    IN  s # None /\ Cardinality(OpenFds(s)) = MaxFd /\ \E i \in DOMAIN backlog[s] : backlog[s][i] = c

ConnectedAnswered ==
    \A c \in Client :
        Connected(c) ~>
            \/ ack[c] = "received" \/ cliPc[c] \in {"crashed", "killed"}
            \/ ~Connected(c) \/ Starved(c)

\* The line of a server is its client and its queue; what has become of a client is
\* decided by its acknowledgement, if there is one.
Line(s) == (IF serving[s] = None THEN << >> ELSE << serving[s] >>) \o backlog[s]
Lines == [s \in Server |-> Line(s)]

Outcome(c) ==
    CASE ack[c] # "none" -> "answered"
      [] ack[c] = "none" /\ cliPc[c] = "connect" -> "outside"
      [] ack[c] = "none" /\ cliPc[c] \in {"send", "recv"} /\ peer[c] # None -> "waiting"
      [] OTHER -> "failed"
Outcomes == [c \in Client |-> Outcome(c)]

Fifo == INSTANCE FifoService WITH line <- Lines, outcome <- Outcomes

\* The clients of each server are answered in the order in which they connected, each
\* of them at most once.
AnsweredInOrder == Fifo!Spec
=============================================================================
