# Models and proofs for linux-std

The repository is a collection of small C++ programs, each of which tries out one
interprocess facility of Linux: signals, POSIX and System V message queues, semaphores,
pipes, threads, sockets, TLS. Every program is a handful of processes or threads, most of
them ordered by `sleep()`. What is hard to test in them is what happens when they are
ordered differently: a signal that comes before its handler, a name that disappears between
two calls, a notification that nobody waits for, a peer that has gone. This directory models
those programs in TLA+, checks the models with TLC, and proves part of what is checked with
TLAPS for any number of processes.

## 1. Inventory

| part | processes and state | how they interact | what is hard | what makes it correct |
|---|---|---|---|---|
| `XX_signal/01`–`09` | a parent and a forked child: signal mask, pending signals, dispositions, a flag in shared memory (02) | `kill`, `sigqueue`, `waitpid(WNOHANG)`, handlers | a signal may come before `sigaction`, between `sigaction` and `pause`, inside another handler, or go to a reaped id; uninitialised `sa_flags`, `sa_mask` and `status` | the child is not killed by the signal it waits for, no wake-up is lost, handlers run in the promised order |
| `XX_mq/03_notify` | parent, child, one queue, one registration | `mq_notify` → `SIGUSR1` → `sigsuspend` → `mq_receive` | the registration fires once and only for an empty queue; the buffers are shorter than the length passed with them | every message is received; a receive never blocks |
| `XX_mq/01`, `02`, `04`, `XX_simple` | separate programs, a queue per name and time | all use the name `/test`; `mq_open` twice, `mq_unlink` by anybody | opening takes two calls; a queue lives on without its name; crashes leave it behind | a program gets a queue, and the messages meant for it |
| `XX_socket/01`, `02` | server loop, clients | connect, one request, one acknowledgement | crashed peers, SIGPIPE, a second server on the same path, descriptors that are never closed | answers come in order and only to requests; no client waits for ever |
| `04_pthread` | main and a thread: mutex, condition variable | lock, signal, wait, join | a wait without a predicate, sleeps as ordering | main joins the thread |
| `XX_socket/03_ssl_inet` | as above, with TLS | `connect` and the handshake are retried every second | a `break` out of the setup leaves `ssl` at the client before; one stuck handshake holds up everybody; descriptors run out | a client is answered once, after its request; a retry ends in an answer |
| `05_msgsnd_rcv` | one System V queue for all, kept between runs | `msgsnd`, `msgrcv` by type or of any type | all share one key (−1 when `ftok` fails); sent in the order 3, 2, 1 and received in the order 1, 2, 3 | a receiver gets a message of its type, unless somebody took it |
| `XX_sem` | named semaphore and two programs; unnamed one, a parent and a child | `sem_open`, `sem_wait`, `sem_post`, unlink, initialise, destroy | a `stat` of a name that never exists; a second run initialises the semaphore again; destroy while the child uses it | a post wakes the waiter, and nothing else does |
| `01_pipe`, `02_fifo` | parent, child | one pipe or FIFO | end of file that never comes; a writer that leaves before the reader comes | whoever has a partner ends |
| `XX_shm`, `XX_mmap`, `XX_inotify` | single programs | files and shared memory | no state between two steps | – |

`PROJECT.json` lists under "components" what is modelled, and under "hazards" each of the
hard places at its line with the properties that watch it. Build files, PlantUML diagrams,
plog, the TLS keys and a committed binary are not modelled.

## 2. Modules

    Signals  <-  SignalPrograms  <-  SignalPrograms_proofs        XX_signal/01 - 09
    MqNotify    <-  MqNotify_proofs    XX_mq/03_notify
    MqPrograms  <-  MCMqPrograms       XX_mq/01, 02, 04, XX_simple
                <-  MqPrograms_proofs
    FifoService <-  SocketServer       XX_socket/01, 02   (refinement)
                    <-  SocketServer_proofs
    CondWait                           04_pthread
    Semaphores  <-  Semaphores_proofs  XX_sem
    SysvQueue   <-  SysvQueue_proofs   05_msgsnd_rcv
    Pipes       <-  Pipes_proofs       01_pipe, 02_fifo
    TlsServer   <-  TlsServer_proofs   XX_socket/03_ssl_inet, with the client of 02

**Signals, SignalPrograms.** `Signals` is the kernel: pending sets (a standard signal merges
with a pending one, a real-time signal queues), which signal is delivered next, the mask while
a handler runs. In `SignalPrograms` each `child()` and `parent()` is written down as the
sequence of system calls it makes (`Child01` … `Parent09`), with `Goto` for a loop, and there
is one action per system call (`SigAction`, `SigProcMask`, `Wait`, `WaitPid`, …), two for the
delivery of a signal (`Kills`, `EnterHandler`) and one for the return of a handler. `prog` is
the program that runs. A `struct sigaction` with unassigned fields may have any value in them
(`NoFlags`, `NoMask`); a status that `waitpid` did not store may read as anything. With
`prompt` true the sleeps are counted down by `Tick`, which only happens when both processes
wait (`Idle`: no signal to deliver, the call it is in does not return, and the other text has
ended or is in a wait too); with `prompt` false a sleep takes any time. `fork()` succeeds. A
child that has ended is a zombie until `waitpid` reaps it. `left` is what ended the loop of 03: a
failed `open`, too little data, an error of `read`, or an interrupted one (EINTR).

**MqNotify.** One action per call of `child()` and `parent()`. The messages are numbered as
the parent numbers them. The short buffers (32 bytes passed as `mq_msgsize`) are undefined
behaviour; the builds tried differ in whether the parent's `mq_send` fails with EFAULT
(`readable`), in whether the child's `set`, `ev` and `i` lie where the message is written
(`localsAbove`), and in where `child()` returns to: a gcc -O2 build received the five
messages and then ran the parent's `mq_unlink` in the child. Each of these is a choice.
`stale` is the left-over name that makes `O_EXCL` fail.

**MqPrograms.** Any set of processes, each of them one of the five programs; a queue is known
by the process that made it, so that several queues that were all once called `/test` can be
told apart. `name` is what `/test` refers to, `fd` the queue a process has open (`None` is
the descriptor −1). `raced` records the processes for which another one changed the name
between the two calls of their opening. The two threads of 04 and the two processes of 01
are one process that sends and receives in either order. A sender's message is typed by
hand; whether the 8192 bytes that `Send` asks the kernel to read lie in the heap is the
choice `readable`. `Crash` is the end of a process without destructors.

**SocketServer, FifoService.** Servers and clients in any number. What the two families do
differently is in four places: the `unlink` before `bind`, `bind` after a crash
(EADDRINUSE, no SO_REUSEADDR), and the two `send`s (SIGPIPE or an error when the peer is
gone or was never there; tried out on Linux). A server whose `bind` failed is "unreachable":
it goes on, but no client will find it. `FifoService` is the promise: lines of clients, only
the head of a line is answered, nobody twice. `SocketServer` implements it with the line of a
server being the client it serves followed by its listen queue (`AnsweredInOrder`).

**CondWait.** The three patterns of `01.cpp` as sequences of pthread calls; the build selects
the third, the other two are there because their correctness does not need the sleeps.
`pthread_create` may fail, whereupon `pthread_join` is called with a garbage id.

**Semaphores.** Com1 (main.cpp), Com2 (main2.cpp) and runs of 02 in any number. As in
`MqPrograms` a semaphore is known by the process that made it, so that two that were both
called `/sem_test` differ; `name` is what a name leads to, `sem` what a process uses. Com1
asks `stat` for a file that `sem_open` never makes (it makes `/dev/shm/sem.sem_test`), so its
first branch, with the `sem_unlink`, is always taken. 02 makes `/shm_sem` with mode 0: a
second run finds it only as root, and then initialises it again. `deaf` records the parents
that slept on a semaphore when that happened; glibc forgets how many sleep, so a later post
need not wake them. `posted` and `woken` are history, for the properties.

**SysvQueue.** Each program is the list of types it sends and the list of types it waits for;
parent and child work through them independently, so that the sleeps, which only decide who
comes first, are left open. `AnyType` is the msgtyp 0, `Other` every mtype but 1, 2, 3: the
process ids of 01 and 03, and what `simple_sample` leaves in the place of the type, for its
`Send` puts the text there (and the kernel reads `_MSG_SIZ - 1` bytes behind those 8, a little
beyond the buffer). If that is no positive number, `msgsnd` refuses it (`SendRefused`).
Nobody removes the queue: one message of an earlier run may be in it. A process runs one
program, so the four sets of processes are disjoint (`KindsAssumption`).

**Pipes.** `readers` and `writers` are the processes that hold an end: both processes of 01
hold both (`InheritWriteEnd`). In 02 `open` for reading waits for a writer ("opening") and the
parent's `open` for both lets all waiting readers in. With its last end a pipe loses its
content (`Leave`). After the end of input `cin` yields the empty word for ever.

**TlsServer.** The server and the client of 03 with both retry loops. A handshake is four
steps (`hello`); what OpenSSL returns of a peer that has gone differs between its versions and
is a choice: −1 (again on the same descriptor), 0 (which the code takes for success) or
SIGPIPE. `ssl` and `target` are two variables because the code's are. The setup has five exits
(`Setup`): where `SSL_CTX_new` or the reading of the certificate fails `ssl` stays at the client
before, or unassigned; where `SSL_new` fails it is nullptr (`None`), and where `SSL_set_fd` does
it has no descriptor (`Fresh`). A context and an SSL are leaked in every round, so OpenSSL may
find no memory in any; `unlucky` are the clients it happened to. `OpenFds` counts the descriptors that are never
closed; reading the certificate takes one more for a moment. The plain client of
`02_basic_inet` uses the same port. `files` says whether server.crt and server.key are there.

Operators whose comment begins "The mistake" (or "The change") are changes to the code, each
of which violates a property when it takes the place of the definition it is modelled on (see
"mutants" in `PROJECT.json`): they show that the properties are not vacuous.

## 3. Runs

| run | instance | states | what it shows |
|---|---|---|---|
| `signals` | all nine programs, prompt and not, endless parents cut off after 3 signals | 187 957 | see below |
| `signal_status` | same, 1 signal | – | **violation** of `StatusTruthful`: the status of a running child is read uninitialised |
| `notify` | 5 messages, as in the code | 5 572 | one-shot notification and overrun |
| `mq_mixed` | sender, receiver, opener, pattern; 2 messages, queues of 2; crashes | 2 010 439 | who gets which queue |
| `mq_fair` | opener, two patterns, unlinker; or sender, receiver, unlinker | 31 341 | termination |
| `socket_unix` | 2 servers, 3 clients, backlog 0, 3 descriptors; crashes | 344 985 | safety, termination, refinement |
| `socket_inet` | same, 2 descriptors | 124 690 | who is answered when descriptors run out |
| `cond` | 3 patterns, prompt, spurious | 220 | lost wake-up |
| `semaphores` | 2 Com1 and 2 Com2, or 2 runs of 02; root or not, left-over names; crashes | 119 421 | posts and wake-ups |
| `sysv` | five casts of up to 3 programs, an old message, queue of 6; crashes | 23 797 | who takes whose message |
| `pipes` | a pipe of 2 messages, or 3 runs at the FIFO; crashes | 36 166 | partners that have gone |
| `tls` | three casts of up to 2 servers, 2 TLS clients and a plain one, 1–3 descriptors; crashes | 170 200 | retries, stale `ssl`, answers, clients passed over |

*signals.* A child is killed only by a signal that overtakes a sleep and comes before its
`sigaction`, in 02, where the parent waits for the flag, by none, or by a second signal where
a garbage `sa_flags` has removed the handler; with SA_RESTART no signal makes the `read` of 03
fail, so that its child leaves the loop only where `open` failed, or `read` returned too little
or an error of another kind (`EndsAsMeant`). No wake-up is lost by `sigsuspend` and `sigwaitinfo` whatever the sleeps
last; `pause` needs them (`ChildEnds`), and at every moment of such a wait the child has its
signal in hand or its parent a `kill` ahead (`WakeupToCome`). 07 receives SIG_RT1,
SIG_RT1, SIG_RT2 and then waits for ever in its first `pause`: the three handlers have all
run by then (`RealTimeHang`).
Handlers nest only where `sa_flags` or `sa_mask` are left uninitialised, and the child of 08
handles one of the ten signals (`HandlersInTurn`). Only the endless parents go on signalling
an id they have reaped, and that of 01 if its child was killed (`SignalsOwnChild`).

*notify.* The child is signalled for messages only: `mq_receive` after `sigsuspend` never
blocks, and at most one signal is handled in vain (`SignalledForMessage`). Once the child
waits for a signal while a message is queued, nothing will ever wake it (`LostForGood`),
which is what an unlucky build or a slow child ends in. `LeavesNothing` says two things of the
end of a run: with the sleeps in effect and a lucky build all five messages arrive in order
(`AllReceived`), and every run ends with the name removed (`FreesName`), also the one that
found a left-over name, failed in `mq_open` and went on with −1, so that the next can create it.

*mq_mixed, mq_fair.* The descriptor −1 comes only from a race in which somebody changed the
name (`OpenFailsOnlyInRace`; `mq_open` is taken to fail with EEXIST and ENOENT only); 04 receives nothing of an earlier run
(`PatternReceivesJoiners`). Who waits at an empty queue is owed a message (`WaitersAreOwed`):
an opener or a pattern by one of its like, unless a receiver was there (`BalancedAreOwed`), a
receiver by the sender it shares the queue with, unless somebody else took one or the sender's
reads leave the heap, whose `mq_send` fails (`ReceiverIsOwed`). Hence programs that send as many messages as they take always end
(`BalancedEnds`), and unlinking the name under a sender and a receiver that have met does them no
harm, again if the sender's reads stay in the heap (`SimplePairDelivers`). Queues hold ten messages in reality and `Count` is 5; with two
of each, a full queue, an empty queue and a sender ahead of its receiver all occur.

*socket_unix, socket_inet.* A request is read before it is acknowledged, although neither
side looks at what `recv` returned (`AckAfterRead`). Servers last (`ServersLast`): without a
crash SIGPIPE kills nobody (`OnlyCrashesKill`), and one is unreachable only because of another
(`UnreachableOnlyInRace`), although on unix sockets each removes the other's path. No client
waits for ever (`EveryClientEnds`, `ConnectedAnswered`) unless the descriptors that are never
closed have run out. Backlog 0 (one waiting connection) makes clients wait in
`connect`, which 5 with three clients would not; three clients are one served, one in the
queue, one outside. Two servers are enough for one to take the other's address.

*cond.* With a long enough sleep, or without the condition variable, main joins (`Joins`); a
signal before the wait is lost, as item 6 of `04_pthread/README.md` says, and nothing in
pattern 3 wakes the thread afterwards (`MissedForGood`).

*semaphores.* The number of processes woken on a semaphore never exceeds that of the posts to
it, whoever initialises it again, and a run that is alone with its semaphore destroys it only
after its child's `sem_post` (`WakesNeedPosts`). A Com1 whose semaphore a second Com1 has
unlinked waits for ever, for Com2 can only reach the newer one (`OrphanForGood`). A post wakes
the waiter if that is alone with its semaphore, even if the post comes first (`PostWakes`).
Two of each are enough for a name to change between any two calls, and for two processes to
wait on one semaphore or to post to it; nothing in the code counts further.

*sysv.* No kind of program starves itself (`StarvedForCause`): the child of 04 waits in vain
only if a receiver of any type took its message or a process was killed, never because of
other runs of 04 (`StarvedOnlyByOthers`); the children of 01 and 03 take anybody's message,
and one of them is left at an empty queue only if a receiver of `simple_sample` took one of
theirs (`PlainStarvedOnlyByReceivers`; the cast of two 01 and a receiver is there for it). Runs of 01 and 03
alone, and runs of 04 alone, always end, whether one message of an earlier run is in the queue
or none, provided it holds all that is sent (`UnmixedEnd`): 04 receives first what it sends
last, so that in a full queue its two sides wait for each other for ever, which the code does
nothing about and no property forbids. Six messages are two runs of 04; the old message makes
the queue too small for both, so that the wait for room occurs.
`Count` is 5 in the code and makes `simple_sample` take two messages of the others here.

*pipes.* The pipe's parent that has lost its child sees no end of file, its child that has
lost its parent gets no SIGPIPE, and a FIFO reader that comes after the last writer finds
neither a writer nor the message; each waits for ever (`StrandedForGood`). A parent of 01 ends
once its child has passed on "0" and ended, a child of 02 ends if it waits before its parent
opens (`PartnersMeet`). A pipe of two messages fills up and empties; three runs at the FIFO
are one that meets, one that is robbed of its message and one that is late.

*tls.* No client is answered twice or before its own request was read, although `ssl` may be
that of the client before, or nobody's (`AnsweredOnce`); a living client is passed over only
for want of the certificate or of descriptors, or because OpenSSL found no memory when it was
its turn (`PassedOverAtLimit`): not because of what failed for another client. A client that
comes at any time, before the server too, is answered, unless one of the two ends, OpenSSL found
no memory for it, or the server is held up by a plain client, by a handshake with a client that
has gone, or for want of files or descriptors (`RetryAnswered`). The casts are one server with all
three clients, and two servers with two TLS clients or one of each sort: all five processes
together take TLC too long for liveness, and the safety properties are proved for any number.
Three clients and up to three descriptors cover no limit reached, reached by the last client, and
by each before; two servers, that one takes the other's port.

Deadlock checking is off in all runs because every program is meant to stop. The bounds are
`MaxKill` (endless parents), `Messages`, `Count`, `Capacity`, `Backlog`, `MaxFd`, the sets of
processes, and `Casts`, the sets of them that are started together.

### Fairness

Each process or thread is weakly fair, as the Linux scheduler is: a process that can execute
its next call does so. `Tick` is fair because time passes. Nothing else is: nobody has to type
input (`ReadReturns`), nobody has to crash, `pthread_cond_wait` need not wake spuriously. In
`MqPrograms` the send and the receive of one process are fair on their own, being two
processes or threads; there, and in `SysvQueue`, the user is assumed to type the sender's
messages. In `Semaphores` a parent in `deaf` is owed nothing; in `Pipes` nobody has to type
(`Type`). The TLS client that fails in an endless handshake stays there: only properties that
exclude it (its server has ended) promise more.

### Finding

`signal_status`: after `waitpid(pid, &status, WNOHANG)` has returned 0 the programs examine
`status`, which was never assigned (`XX_signal/09_waitinfo/src/main.cpp:45`, likewise 01, 02,
03, 05, 08 and `03_notify`; only 04 tests the return value). Built with gcc, 05 and 09 print
that the child received a signal while it is still running.

## 4. Proofs

The theorems are in the modules `*_proofs`; they hold for every set of processes, assignment
of programs or casts, capacity, backlog and descriptor limit that satisfies the ASSUMEs of
the module they extend (TLC evaluates these in the runs).

- `SignalPrograms_proofs!TypeCorrect`, `EndsMeant`, `OwnChild` and `InTurn`: `Spec => []TypeOK`,
  `[]EndsAsMeant`, `[]SignalsOwnChild` and `[]HandlersInTurn`, all from one invariant `IInv`.
  The eighteen texts enter once, through `ChildFits` and `ParentFits` (`Texts`: which calls a
  text holds, where its jumps lead, with which calls it sets up its handlers); after that no proof
  looks at a text. That a child is not killed needs two halves. Before its handler is in place
  no signal may be under way: `Early` says that with exact sleeps the parent is still in its
  first `sleep` (in 04, with at least 3 seconds more to go than the child), `Flagged` that in
  02 the parent waits for the flag. Afterwards `Own` (only signals of the program are pending)
  and `Caught` (these are caught or blocked) leave no default action; the blocked ones are
  `Suspends` for 08, where `sigsuspend` puts the blocking mask back before a second signal can
  come, and `InfoWait` for 09. `HandlersInTurn` follows from `Turn` (a running handler has the
  program's signals blocked, as `sa_mask` or the missing SA_NODEFER says) and `Suspends`;
  `SignalsOwnChild` from `Reaped`: where the parent's text ends, no `kill` follows `waitpid`.
- `SignalPrograms_proofs!WakeupComes`: `Spec => []WakeupToCome`. `Wakes` adds to `IInv` that as
  long as nothing was sent every `kill` is ahead (`Unsent`); that a signal, once sent, stays
  pending until the child is past its wait (`Lasts`), for which 05 and 06 must have reached
  their `pause` before the first is sent (`Ready`, by the exact sleeps) while 08 and 09 have it
  blocked; and that no mask is left to block it in the wait (`Unmasked`, and `Opened` for the
  mask that 08 saved). With `pause` in place of `sigsuspend` the step that restores the mask
  breaks `Lasts`, which is why the program uses `sigsuspend`.
- `MqPrograms_proofs!TypeCorrect`: `Spec => []TypeOK`.
- `MqPrograms_proofs!OpenFails`: `Spec => []OpenFailsOnlyInRace`. The property is not
  inductive: it says nothing of a process that is still opening. The invariant adds that a
  process between its two calls finds the name in the state its first call left it in (taken
  for the programs of `XX_simple`, free for 04) unless it is in `raced`; every change of the
  name goes through `SetName`, which puts the others that are between their calls into
  `raced`.
- `MqPrograms_proofs!PatternFresh`: `Spec => []PatternReceivesJoiners`. The invariant adds
  that a process of kind "pattern" only ever opens its own queue, and that whatever lies in
  the queue of a process was sent by a process that has that queue open; a queue that was
  never made is empty, and no process closes its descriptor.
- `MqPrograms_proofs!WaitersOwed`: `Spec => []WaitersAreOwed`, from `BalancedOwed` and
  `ReceiverOwed`. `OwedInv` keeps accounts: a process that has its queue open has received as
  many messages as it no longer waits for, and ends only when it has sent all it should
  (`Counts`); each message it no longer has to send is in that queue or was received by
  somebody who has it open (`Accounts`). If nobody at an empty queue has anything left to
  send, each of its openers and patterns has sent its one message and each of these was
  received; no more than one by each opener and pattern, and none by the one that waits, so
  that an outsider must have taken one. For a receiver the same with the numbers of the
  sender's messages: the pigeonhole principle on finite sets, for any number of processes.
- `SocketServer_proofs!TypeCorrect` and `AckRead`: `Spec => []AckAfterRead`. The invariant
  adds that a server about to send serves a client whose request it has read unless that
  client has gone, so that an acknowledgement is never recorded without the request.
- `SocketServer_proofs!ServersStay`: `Spec => []ServersLast`, from `UnreachableRaced` here and
  `CrashesKill` below.
- `SocketServer_proofs!UnreachableRaced`: `Spec => []UnreachableOnlyInRace`. `BoundInv` adds
  that whoever the address or a connection leads to has got past `bind`, and that on a unix
  socket the left-over file is gone once a server comes to `bind`.
- `SocketServer_proofs!Implements`: `Spec => AnsweredInOrder`, that is, `SocketServer` with the
  lines and outcomes of its clients implements `FifoService`. The mapping is a sequence per
  server (the client served, then the queue) and an outcome per client; one lemma per action
  says which step of `FifoService` it is. The invariant `Lined` says that a line holds
  clients of its server only, not yet answered and each once, and that a client which has
  not connected is in no line: without it a client could join twice or leave from the
  middle.
- `SocketServer_proofs!CrashesKill`: `Spec => []OnlyCrashesKill`. `Peaceful` adds that, on unix
  sockets and before any crash, a client that is done was answered or never connected; by
  `Lined` the one being served is neither, so `send` does not meet a closed connection.
- `MqNotify_proofs!TypeCorrect` and `SignalsAnnounce`: `Spec => []SignalledForMessage`.
  `Announced` adds that a pending signal announces a message that is still queued, that no
  signal was in vain before it, and that after one in vain the queue stays non-empty, so that
  no other message is announced.
- `MqNotify_proofs!LostStays`: `Spec => LostForGood`. The child cannot move in `Lost`, and a
  message sent to a queue that is not empty announces nothing.
- `SysvQueue_proofs!TypeCorrect`: `Spec => []TypeOK`.
- `SysvQueue_proofs!OthersStarve`: `Spec => []StarvedOnlyByOthers`. `Accounts` says that what a
  04 that has started no longer has to send lies in the queue or was received by somebody, and
  that a 04 has received exactly one message of each type it no longer waits for. If a 04
  waits for a type that no program of another kind has taken, that is not queued and that
  nobody has still to send, then every 04 that takes part has sent it and each of these
  messages was received by a 04; as each 04 received at most one and the waiting one none,
  there are fewer receipts than messages: a contradiction, by the cardinalities of finite
  sets, for any number of processes.
- `SysvQueue_proofs!PlainStarve`: `Spec => []PlainStarvedOnlyByReceivers`, the same for 01 and 03.
  `OneEach` says that a child of theirs has received one message or none, and that what its
  parent no longer sends is queued or was received. 04 can receive none of these, for their
  type is `Other`. With the queue empty and all of them sent, each was received by one of the
  children or by a receiver; the waiting child has none, so there are not enough children.
- `SysvQueue_proofs!CauseOfStarving`: `Spec => []StarvedForCause`, both together.
- `Pipes_proofs!TypeCorrect`: `Spec => []TypeOK`. `Ends` adds which calls a run of 01 makes,
  that a process at work holds the ends it needs, and that nothing is written before it was
  typed; `OthersStay` reduces every step to the process that takes it.
- `Pipes_proofs!StrandedStays`: `Spec => StrandedForGood`. By `Ends` the waiting parent of 01
  is itself a writer and the waiting child a reader, so neither end of file nor SIGPIPE comes;
  `Apart` says that nobody outside a run touches its pipe or moves its processes.
- `Semaphores_proofs!TypeCorrect`: `Spec => []TypeOK`; the invariant `Local` adds which calls
  each kind of program makes (`Roles`), that a name leads only to semaphores of its kind
  (`Places`), and that no Com1 gets a left-over semaphore (`Fresh`).
- `Semaphores_proofs!WakeCounted`: `Spec => []WakesNeedPosts`. The property speaks of
  semaphores somebody waits on; `Counted` says the same of every semaphore that was made, so
  that it is there when the wait begins. `History` ties `posted` and `woken` to the program
  counters: a process posts, and is woken, once. That a parent is alone with its semaphore
  enters only at the end: if it destroyed it (`DestroyedLate`) it was woken, somebody has
  posted, and the poster is its child.
- `Semaphores_proofs!OrphansWait`: `Spec => OrphanForGood`. An orphan's semaphore stays
  unreachable because a name is only ever given to a semaphore by its maker or by a process
  that found it there (`Unmade`: what was not made yet is nobody's).
- `TlsServer_proofs!TypeCorrect` and `AnswersCounted`: `Spec => []AnsweredOnce`. The invariant
  `Mine` says that target, `ssl` and queue of a server are connected to it, so that two
  servers never answer the same client; `Answering`, that a server about to write to a living
  client has read its request and not answered it.
- `TlsServer_proofs!PassedOverFull`: `Spec => []PassedOverAtLimit`. `Turning` adds that a
  server never has more than `limit` descriptors, that `ssl` is the target during the
  handshake, and that a server which turns to another connection than its client's has lost
  that client, the certificate, its last descriptor, or OpenSSL's memory in `Setup` for that
  client (`unlucky`). Descriptors and `unlucky` only accumulate, which is why
  a client that was passed over stays so legitimately.

`WakeupComes`, `WaitersOwed` and `CauseOfStarving` are the safety cores of liveness properties
(`ChildEnds`; `BalancedEnds` and `SimplePairDelivers`; `UnmixedEnd`): that whoever waits is owed
something is proved for every instance, that the debt is then paid, which is the scheduler's
doing, is model-checked.

Only model-checked: liveness (`ChildEnds`, `RealTimeHang`, `LeavesNothing`, `BalancedEnds`,
`SimplePairDelivers`, `EveryClientEnds`, `ConnectedAnswered`, `Joins`, `PostWakes`,
`UnmixedEnd`, `PartnersMeet`, `RetryAnswered`), which rests on fairness and ENABLED, and these
TLAPS does not handle; and `CondWait`, which has no constants, so that TLC's run covers all of
its states and a proof could add nothing. `MaxKill` cuts off parents that would loop for ever;
the theorems about the signal programs hold for every value of it, the liveness properties
were checked with 3.

## 5. Not modelled

- `XX_shm`, `XX_mmap`: straight lines of system calls in one process; what matters in them is
  the size and the bytes of a file, and no interleaving the code knows of.
- `XX_inotify`: a loop that prints what `read` returns.
- A TLS client that meets the plain server: its handshake reads the acknowledgement and fails
  for ever.
- The failure of calls that have all they need. `fork`, `pipe`, `msgget`, `socket`, `sigaction`,
  the `mmap` of 02 of `XX_signal` and of `XX_sem/02_unnamed`, `sem_init`, `sem_wait`, `sem_post`,
  `mkfifo` and the `open` of the FIFO succeed; `mq_open` fails with EEXIST and ENOENT only, never
  with ENOSPC, EACCES or EMFILE; the client of 03 has memory for `SSL_CTX_new`, `SSL_new` and
  `SSL_set_fd`, and so has OpenSSL on either side once a handshake has begun. Modelled are the
  failures of the `open` and `read` of `XX_signal/03_restart`, of `bind`, `connect`, `accept`,
  `pthread_create`, of the server's setup in 03, and of every call on the descriptor −1.
- What the code does without remedy is in the models, but no property can forbid it: the
  parents that signal an id they have reaped, the receiver of a sender whose `mq_send` fails with
  EFAULT, the endless handshake with a server that has ended, the empty messages after the end of
  standard input, the full queue of `05_msgsnd_rcv/04.cpp`. PROJECT.json lists these as hazards
  with a note.
- In 05 of `XX_signal` a failed `fork` would signal every process of the user; the models
  start after it.
- The code behind `#if 0` and `#else` that is not compiled, `05_msgsnd_rcv/02.cpp` (a stub),
  Makefiles, diagrams, plog, keys.

## 6. Plan

1. Done: signals, queues, sockets, threads, semaphores, System V queues, pipes, TLS.
2. Done: the refinement of `FifoService`, and every safety and action property of the signal
   programs, the queues, sockets, semaphores, the TLS pair and the pipes, for all constants.
3. Done: the safety cores of the liveness properties of the signal programs, the POSIX queues
   and the System V queue. The same could be stated of the semaphores, the pipes and the
   servers; for a `Sender` and its `Receiver` at the System V queue the outsiders that may take
   a message are all the other kinds, which leaves little to say.
