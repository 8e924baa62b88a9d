------------------------------ MODULE TlsServer ------------------------------
(***************************************************************************)
(* XX_socket/03_ssl_inet: a server that sets up a TLS connection on each   *)
(* socket it accepts, reads one request and answers it, and a client that  *)
(* tries connect() and then the handshake again every second until they    *)
(* succeed.  The plain client of 02_basic_inet uses the same port.         *)
(*                                                                         *)
(* A handshake is four steps: hello (client), reply (server), finished     *)
(* (client), and the return of SSL_accept().  What OpenSSL does with a     *)
(* peer that has gone differs between its versions: SSL_accept() returns   *)
(* -1 or 0, or writes an alert and the process dies of SIGPIPE.            *)
(*                                                                         *)
(* The queue of listen() (5) holds all clients.  Every round of the server *)
(* takes a new SSL_CTX and a new SSL and frees neither, so that OpenSSL    *)
(* may find no memory when it sets one up; it is assumed to have enough in *)
(* a handshake that has begun, and in the clients.                         *)
(***************************************************************************)
EXTENDS Naturals, Sequences, FiniteSets

CONSTANTS
    Client, Plain, Server,
    Casts,  \* the sets of processes that may be started together
    None,
    Fresh,  \* an SSL to which SSL_set_fd() could give no descriptor
    MaxFd   \* bound on the number of descriptors a server has for its clients

Peer == Client \cup Plain

ASSUME PeerAssumption == /\ IsFiniteSet(Peer) /\ Client \cap Plain = {}
                         /\ Server \cap Peer = {} /\ None \notin Peer \cup Server
                         /\ Fresh \notin Peer \cup Server \cup {None}
ASSUME CastsAssumption == Casts \subseteq SUBSET (Peer \cup Server)
ASSUME MaxFdAssumption == MaxFd \in Nat \ {0}

VARIABLES
    files,    \* can server.crt and server.key be read?
    limit,    \* the descriptors a server has left after listen()
    unlucky,  \* the peers for which OpenSSL found no memory in Setup
    address,  \* the server that has the port
    srvPc,
    backlog,  \* connections not yet accepted, per server
    target,   \* the peer behind target_fd, per server
    ssl,      \* the peer that ssl talks to, until it is assigned again in a later round;
              \* None: never assigned, or nullptr
    cliPc,
    peer,     \* the server a client is connected to
    hello,    \* of each connection: "none", "hello", "reply", "finished", or "plain" text
    read,     \* has the server read the client's request?
    acks      \* acknowledgements written to a client that can still read them

serverVars == << srvPc, backlog, target, ssl >>
clientVars == << cliPc, peer >>
vars == << files, limit, unlucky, address, serverVars, clientVars, hello, read, acks >>

Init ==
    /\ files \in BOOLEAN /\ limit \in 1 .. MaxFd /\ unlucky = {}
    /\ address = None
    /\ \E cast \in Casts :  \* who is not in it has ended before it began
        /\ srvPc = [s \in Server |-> IF s \in cast THEN "bind" ELSE "ended"]
        /\ cliPc = [c \in Peer |-> IF c \in cast THEN "connect" ELSE "ended"]
    /\ backlog = [s \in Server |-> << >>]
    /\ target = [s \in Server |-> None] /\ ssl = [s \in Server |-> None]
    /\ peer = [c \in Peer |-> None]
    /\ hello = [c \in Peer |-> "none"]
    /\ read = [c \in Peer |-> FALSE]
    /\ acks = [c \in Peer |-> 0]

Dead(s) == srvPc[s] = "ended"
Listening(s) == srvPc[s] \in {"accept", "setup", "handshake", "read", "write"}
Connected(c) == peer[c] # None /\ ~Dead(peer[c])
Gone(c) == cliPc[c] \in {"done", "ended"}
Queued(c) == peer[c] # None /\ \E i \in DOMAIN backlog[peer[c]] : backlog[peer[c]][i] = c

\* target_fd is never closed.
OpenFds(s) == {c \in Peer : peer[c] = s /\ ~Queued(c)}
-----------------------------------------------------------------------------
(* The server. *)

ServerGoto(s, l) == srvPc' = [srvPc EXCEPT ![s] = l]

Lingers == \E c \in Peer : peer[c] # None /\ ~Connected(c)

\* As in SocketServer: a failed bind() is reported and then ignored.
Bind(s) ==
    /\ srvPc[s] = "bind"
    /\ \/ address = None /\ address' = s /\ ServerGoto(s, "listen")
       \/ (address # None \/ Lingers) /\ UNCHANGED address /\ ServerGoto(s, "unreachable")
    /\ UNCHANGED << files, limit, unlucky, backlog, target, ssl, clientVars, hello, read, acks >>

Listen(s) ==
    /\ srvPc[s] = "listen"
    /\ ServerGoto(s, "accept")
    /\ UNCHANGED << files, limit, unlucky, address, backlog, target, ssl, clientVars, hello,
                    read, acks >>

\* With no descriptor left accept() fails, and the loop spins.
Accept(s) ==
    /\ srvPc[s] = "accept" /\ backlog[s] # << >>
    /\ Cardinality(OpenFds(s)) < limit
    /\ target' = [target EXCEPT ![s] = Head(backlog[s])]
    /\ backlog' = [backlog EXCEPT ![s] = Tail(@)]
    /\ ServerGoto(s, "setup")
    /\ UNCHANGED << files, limit, unlucky, address, ssl, clientVars, hello, read, acks >>

\* Reading server.crt and server.key takes the files, and a descriptor for a moment.
Readable(s) == files /\ Cardinality(OpenFds(s)) < limit

\* The mistake: leaving the loop with the ssl of an earlier round, instead of a new one.
SetupReuses(s) ==
    /\ srvPc[s] = "setup"
    /\ IF Readable(s) /\ ssl[s] = None
       THEN ssl' = [ssl EXCEPT ![s] = target[s]] /\ ServerGoto(s, "handshake")
       ELSE UNCHANGED ssl /\ ServerGoto(s, "read")
    /\ UNCHANGED << files, limit, unlucky, address, backlog, target, clientVars, hello, read, acks >>

\* From SSL_CTX_new() to SSL_set_fd().  Every failure leaves the loop: ssl is what it was
\* where SSL_CTX_new() or the reading of the files failed, nullptr where SSL_new() did, and
\* without a descriptor where SSL_set_fd() did.
Setup(s) ==
    /\ srvPc[s] = "setup"
    /\ \/ /\ Readable(s)
          /\ ssl' = [ssl EXCEPT ![s] = target[s]] /\ ServerGoto(s, "handshake")
          /\ UNCHANGED unlucky
       \/ ~Readable(s) /\ ServerGoto(s, "read") /\ UNCHANGED << ssl, unlucky >>
       \/ /\ unlucky' = unlucky \cup {target[s]}
          /\ ServerGoto(s, "read")
          /\ \/ UNCHANGED ssl
             \/ Readable(s) /\ \E x \in {None, Fresh} : ssl' = [ssl EXCEPT ![s] = x]
    /\ UNCHANGED << files, limit, address, backlog, target, clientVars, hello, read, acks >>

\* SSL_accept() answers a hello and returns 1 when the client has finished.  On plain text
\* it fails a few times, and then waits for the rest of a record that never comes.
SslAccept(s) ==
    /\ srvPc[s] = "handshake"
    /\ \/ /\ hello[target[s]] = "hello"
          /\ hello' = [hello EXCEPT ![target[s]] = "reply"]
          /\ UNCHANGED srvPc
       \/ hello[target[s]] = "finished" /\ ServerGoto(s, "read") /\ UNCHANGED hello
    /\ UNCHANGED << files, limit, unlucky, address, backlog, target, ssl, clientVars, read, acks >>

\* What is left of a server that ends.
Die(s) ==
    /\ ServerGoto(s, "ended")
    /\ backlog' = [backlog EXCEPT ![s] = << >>]
    /\ target' = [target EXCEPT ![s] = None]
    /\ ssl' = [ssl EXCEPT ![s] = None]
    /\ address' = IF address = s THEN None ELSE address

\* The mistake: back to accept() with the descriptor in hand.
SslAcceptGivesUp(s) ==
    /\ srvPc[s] = "handshake" /\ Gone(target[s])
    /\ ServerGoto(s, "accept")
    /\ UNCHANGED << files, limit, unlucky, address, backlog, target, ssl, clientVars, hello,
                    read, acks >>

\* The client has gone.  Below 0: sleep(1) and everything again on the same descriptor, as
\* often as it takes; 0 counts as success.
SslAcceptFails(s) ==
    /\ srvPc[s] = "handshake" /\ Gone(target[s])
    /\ \/ /\ \E l \in {"setup", "read"} : ServerGoto(s, l)
          /\ UNCHANGED << address, backlog, target, ssl >>
       \/ Die(s)
    /\ UNCHANGED << files, limit, unlucky, clientVars, hello, read, acks >>

\* Is nobody left behind ssl?
Lost(s) == IF ssl[s] \in {None, Fresh} THEN TRUE ELSE Gone(ssl[s])

\* The mistake: not waiting for the request.
SslReadNow(s) ==
    /\ srvPc[s] = "read"
    /\ ServerGoto(s, "write")
    /\ UNCHANGED read
    /\ UNCHANGED << files, limit, unlucky, address, backlog, target, ssl, clientVars, hello, acks >>

\* SSL_read() waits for a request that has not been read, or for the end of the client.  An
\* ssl that was never assigned, or nullptr, kills the server or makes both calls fail; they
\* also fail on an SSL without a descriptor.
SslRead(s) ==
    /\ srvPc[s] = "read"
    /\ \/ /\ ServerGoto(s, "write")
          /\ \/ \E c \in Client :
                /\ ssl[s] = c /\ cliPc[c] = "read" /\ ~read[c]
                /\ read' = [read EXCEPT ![c] = TRUE]
             \/ Lost(s) /\ UNCHANGED read
          /\ UNCHANGED << address, backlog, target, ssl >>
       \/ ssl[s] = None /\ Die(s) /\ UNCHANGED read
    /\ UNCHANGED << files, limit, unlucky, clientVars, hello, acks >>

\* The mistake: reading the next request from the same client.
SslWriteLoop(s) ==
    /\ srvPc[s] = "write"
    /\ acks' = IF Lost(s) THEN acks ELSE [acks EXCEPT ![ssl[s]] = @ + 1]
    /\ ServerGoto(s, "read")
    /\ UNCHANGED << files, limit, unlucky, address, backlog, target, ssl, clientVars, hello, read >>

\* Whatever SSL_read() returned.  The answer to a client that has gone is lost, or kills.
SslWrite(s) ==
    /\ srvPc[s] = "write"
    /\ \/ /\ acks' = IF Lost(s) THEN acks ELSE [acks EXCEPT ![ssl[s]] = @ + 1]
          /\ ServerGoto(s, "accept")
          /\ target' = [target EXCEPT ![s] = None]
          /\ UNCHANGED << address, backlog, ssl >>
       \/ Lost(s) /\ ssl[s] # Fresh /\ Die(s) /\ UNCHANGED acks
    /\ UNCHANGED << files, limit, unlucky, clientVars, hello, read >>

ServerCrash(s) ==
    /\ ~Dead(s)
    /\ Die(s)
    /\ UNCHANGED << files, limit, unlucky, clientVars, hello, read, acks >>
-----------------------------------------------------------------------------
(* The TLS client, and the plain one. *)

ClientGoto(c, l) == cliPc' = [cliPc EXCEPT ![c] = l]

\* While nobody listens a TLS client tries again every second; the plain one goes on and is
\* killed by SIGPIPE in send().
Connect(c) ==
    /\ cliPc[c] = "connect"
    /\ \E s \in Server :
        /\ address = s /\ Listening(s)
        /\ backlog' = [backlog EXCEPT ![s] = Append(@, c)]
        /\ peer' = [peer EXCEPT ![c] = s]
    /\ ClientGoto(c, "hello")
    /\ UNCHANGED << files, limit, unlucky, address, srvPc, target, ssl, hello, read, acks >>

PlainConnectFails(c) ==
    /\ c \in Plain /\ cliPc[c] = "connect"
    /\ ~\E s \in Server : address = s /\ Listening(s)
    /\ ClientGoto(c, "ended")
    /\ UNCHANGED << files, limit, unlucky, address, serverVars, peer, hello, read, acks >>

\* The first step of SSL_connect(), or the send() of the plain client.
Hello(c) ==
    /\ cliPc[c] = "hello" /\ Connected(c)
    /\ hello' = [hello EXCEPT ![c] = IF c \in Plain THEN "plain" ELSE "hello"]
    /\ ClientGoto(c, IF c \in Plain THEN "read" ELSE "handshake")
    /\ UNCHANGED << files, limit, unlucky, address, serverVars, peer, read, acks >>

SslConnect(c) ==
    /\ cliPc[c] = "handshake" /\ hello[c] = "reply"
    /\ hello' = [hello EXCEPT ![c] = "finished"]
    /\ ClientGoto(c, "write")
    /\ UNCHANGED << files, limit, unlucky, address, serverVars, peer, read, acks >>

\* The server has gone: SSL_connect() fails now and in every later attempt ("endless"), or
\* SIGPIPE ends the client.
SslConnectFails(c) ==
    /\ cliPc[c] \in {"hello", "handshake"} /\ ~Connected(c)
    /\ \/ ClientGoto(c, IF c \in Plain THEN "read" ELSE "endless")
       \/ ClientGoto(c, "ended")
    /\ UNCHANGED << files, limit, unlucky, address, serverVars, peer, hello, read, acks >>

Write(c) ==
    /\ cliPc[c] = "write"
    /\ \/ ClientGoto(c, "read")
       \/ ~Connected(c) /\ ClientGoto(c, "ended")
    /\ UNCHANGED << files, limit, unlucky, address, serverVars, peer, hello, read, acks >>

\* SSL_read(), SSL_shutdown() and close(), or the recv() of the plain client.
Read(c) ==
    /\ cliPc[c] = "read"
    /\ \/ (acks[c] > 0 \/ ~Connected(c)) /\ ClientGoto(c, "done")
       \/ ~Connected(c) /\ ClientGoto(c, "ended")
    /\ UNCHANGED << files, limit, unlucky, address, serverVars, peer, hello, read, acks >>

\* SslAcceptFails covers what the server makes of an unfinished handshake.
ClientCrash(c) ==
    /\ ~Gone(c)
    /\ ClientGoto(c, "ended")
    /\ hello' = [hello EXCEPT ![c] = "none"]
    /\ UNCHANGED << files, limit, unlucky, address, serverVars, peer, read, acks >>
-----------------------------------------------------------------------------
ServerStep(s) ==
    \/ Bind(s) \/ Listen(s) \/ Accept(s) \/ Setup(s) \/ SslAccept(s) \/ SslAcceptFails(s)
    \/ SslRead(s) \/ SslWrite(s)
ClientStep(c) ==
    \/ Connect(c) \/ PlainConnectFails(c) \/ Hello(c) \/ SslConnect(c) \/ SslConnectFails(c)
    \/ Write(c) \/ Read(c)

Next ==
    \/ \E s \in Server : ServerStep(s) \/ ServerCrash(s)
    \/ \E c \in Peer : ClientStep(c) \/ ClientCrash(c)

\* A process that can run does; nothing makes one crash.
Fairness ==
    /\ \A s \in Server : WF_vars(ServerStep(s))
    /\ \A c \in Peer : WF_vars(ClientStep(c))

Spec == Init /\ [][Next]_vars /\ Fairness
-----------------------------------------------------------------------------
(* Properties. *)

\* Every variable stays in its range, and target_fd is in use from accept() on.
TypeOK ==
    /\ files \in BOOLEAN /\ limit \in 1 .. MaxFd /\ unlucky \subseteq Peer
    /\ address \in Server \cup {None}
    /\ srvPc \in [Server -> {"bind", "listen", "accept", "setup", "handshake", "read", "write",
                             "unreachable", "ended"}]
    /\ backlog \in [Server -> Seq(Peer)]
    /\ target \in [Server -> Peer \cup {None}] /\ ssl \in [Server -> Peer \cup {None, Fresh}]
    /\ \A s \in Server : target[s] # None <=> srvPc[s] \in {"setup", "handshake", "read", "write"}
    /\ cliPc \in [Peer -> {"connect", "hello", "handshake", "write", "read", "endless",
                           "done", "ended"}]
    /\ peer \in [Peer -> Server \cup {None}]
    /\ hello \in [Peer -> {"none", "hello", "reply", "finished", "plain"}]
    /\ read \in [Peer -> BOOLEAN]
    /\ acks \in [Peer -> Nat]

\* No client is answered twice, or before its own request was read, although ssl may still
\* be that of the client before: SSL_read() then returns only when that client has gone.
AnsweredOnce == \A c \in Peer : acks[c] <= 1 /\ (acks[c] > 0 => read[c])

\* A living client is passed over, its connection accepted but never served, only by a
\* server that cannot read its certificate (the file is missing, or the descriptors that
\* were never closed have used up the limit), or for which OpenSSL found no memory when it
\* was this client's turn: what failed in the rounds of others does it no harm, although it
\* leaves them an ssl of another round.
PassedOver(c) ==
    LET s == peer[c]
    IN  Connected(c) /\ ~Gone(c) /\ acks[c] = 0 /\ ~Queued(c) /\ target[s] # c
PassedOverAtLimit ==
    \A c \in Peer :
        PassedOver(c) => ~files \/ Cardinality(OpenFds(peer[c])) = limit \/ c \in unlucky

\* A client that comes at any time, before a server too, is answered by the server that has
\* the port, unless one of the two ends, OpenSSL found no memory for this client, or the
\* server is held up: by the handshake with a plain client, by that with a client which has
\* gone, or for want of files or descriptors.
HeldUp(s) ==
    \/ ~files \/ Cardinality(OpenFds(s)) = limit
    \/ srvPc[s] = "handshake" /\ (target[s] \in Plain \/ Gone(target[s]))
RetryAnswered ==
    \A c \in Client, s \in Server :
        (cliPc[c] = "connect" /\ address = s /\ Listening(s))
            ~> \/ cliPc[c] = "done" /\ acks[c] = 1
               \/ cliPc[c] = "ended" \/ c \in unlucky \/ Dead(s) \/ HeldUp(s)
=============================================================================
