--------------------------- MODULE SignalPrograms ---------------------------
(***************************************************************************)
(* The nine programs below XX_signal/.  Each forks once; the child sets up *)
(* its signal state and waits, the parent sends it signals.  A program is  *)
(* written down as the two sequences of system calls that its child() and  *)
(* parent() make, and the actions below execute those calls.               *)
(*                                                                         *)
(* The programs order their processes with sleep().  With prompt = TRUE    *)
(* time passes only when both processes are waiting, so a process never    *)
(* oversleeps; with prompt = FALSE a sleep lasts arbitrarily long and the  *)
(* processes interleave freely.                                            *)
(***************************************************************************)
EXTENDS Signals, Sequences

CONSTANT
    MaxKill     \* bound on the signals sent by a parent that loops for ever

ASSUME MaxKillAssumption == MaxKill \in Nat \ {0}

Repeat(n, block) == [i \in 1 .. n * Len(block) |-> block[((i - 1) % Len(block)) + 1]]

Call(op)     == [op |-> op]
Sleep(n)     == [op |-> "sleep", secs |-> n]
Kill(s)      == [op |-> "kill", sig |-> s]
Block(S)     == [op |-> "block", set |-> S]
SetMask(S)   == [op |-> "setmask", set |-> S]
WaitInfo(S)  == [op |-> "sigwaitinfo", set |-> S]
Goto(i)      == [op |-> "goto", to |-> i]

\* sigaction(s, ...): hs is the set of dispositions the call may install, more
\* than one when fields of the struct sigaction were never assigned.
Catch(s, hs) == [op |-> "sigaction", sig |-> s, handlers |-> hs]

Fully(m, r) == {h \in Handlers : h.mask = m /\ h.restart = r /\ ~h.reset /\ ~h.nodefer}
NoMask(r)   == {h \in Handlers : h.restart = r /\ ~h.reset /\ ~h.nodefer}
NoFlags     == Handlers
-----------------------------------------------------------------------------
(* Mistakes that the properties at the end of the module exclude: a forgotten *)
(* sleep, flag or mask, two calls in the wrong order.                         *)

Child02FlagFirst == << Call("setflag"), Catch(USR1, NoFlags), Sleep(2), Call("exit") >>
Parent02Polls == << Call("awaitflag") >> \o Repeat(10, << Kill(USR1), Call("waitpid") >>)
                   \o << Call("exit") >>
Child07Waiting(m, block, secs) ==
    << Catch(RT1, Fully(m, FALSE)), Catch(RT2, Fully(m, FALSE)),
       Block(block), Sleep(secs), Call("restore"),
       Call("pause"), Call("pause"), Call("pause"), Call("exit") >>
Child07NoMask  == Child07Waiting({}, RealTime, 8)
Child07Early   == Child07Waiting(RealTime, RealTime, 1)
Child08Pause == << Block({USR1}), Sleep(5), Catch(USR1, Fully({}, FALSE)),
                   Call("restore"), Call("pause"), Call("exit") >>
-----------------------------------------------------------------------------
(* The programs. *)

Child01  == << Catch(USR1, Fully({USR1}, TRUE)), Sleep(1), Goto(2) >>
Parent01 == << Sleep(1), Kill(USR1), Sleep(2), Call("waitpid"), Goto(2) >>

Child02  == << Catch(USR1, NoFlags), Call("setflag"), Sleep(2), Call("exit") >>
Parent02 == << Call("awaitflag") >> \o Repeat(10, << Kill(USR1) >>)
              \o << Call("waitpid"), Call("exit") >>

Child03  == << Catch(USR1, NoMask(TRUE)), Call("open"), Call("read"), Sleep(3), Goto(3) >>
Parent03 == << Sleep(8), Kill(USR1), Sleep(5), Call("waitpid"), Goto(2) >>

Child04  == << Sleep(2), Catch(USR1, NoFlags) >>
              \o Repeat(5, << Block({USR1}), Sleep(1), Call("restore") >>)
              \o << Call("exit") >>
Parent04 == << Sleep(5), Kill(USR1), Call("waitpid_checked"), Sleep(1), Goto(2) >>

Child05  == << Catch(USR1, NoFlags), Call("pause"), Call("exit") >>
Parent05 == << Sleep(3), Kill(USR1), Call("waitpid"), Call("exit") >>

Child06  == << Catch(USR1, Fully({}, FALSE)), Call("pause"), Call("exit") >>
Parent06 == << Sleep(3), Kill(USR1), Call("exit") >>

Child07  == << Catch(RT1, Fully(RealTime, FALSE)), Catch(RT2, Fully(RealTime, FALSE)),
               Block(RealTime), Sleep(8), Call("restore"),
               Call("pause"), Call("pause"), Call("pause"), Call("exit") >>
Parent07 == << Sleep(3), Kill(RT1), Sleep(1), Kill(RT2), Sleep(1), Kill(RT1), Call("exit") >>

Child08  == << Block({USR1}), Sleep(5), Catch(USR1, Fully({}, FALSE)),
               Call("sigsuspend"), Call("exit") >>
Parent08 == << Sleep(1) >> \o Repeat(10, << Kill(USR1), Sleep(1) >>)
              \o << Call("waitpid"), Call("exit") >>

Child09  == << SetMask({USR1}), WaitInfo({USR1}), Call("exit") >>
Parent09 == << Sleep(5), Kill(USR1), Call("waitpid"), Sleep(5), Call("exit") >>

Program == << [child |-> Child01, parent |-> Parent01],
              [child |-> Child02, parent |-> Parent02],
              [child |-> Child03, parent |-> Parent03],
              [child |-> Child04, parent |-> Parent04],
              [child |-> Child05, parent |-> Parent05],
              [child |-> Child06, parent |-> Parent06],
              [child |-> Child07, parent |-> Parent07],
              [child |-> Child08, parent |-> Parent08],
              [child |-> Child09, parent |-> Parent09] >>

\* sigHandler() of 02 sleeps for 3 seconds, the other handlers only print.
HandlerSleep(n) == IF n = 2 THEN 3 ELSE 0
-----------------------------------------------------------------------------
VARIABLES
    prog,     \* which program runs, 1 .. 9
    prompt,   \* do sleep() durations order the two processes?
    pc,       \* next (or, when inside, current) call of each process
    inside,   \* is the process inside a call that blocks it?
    timer,    \* seconds left of the sleep() a process is in
    mask,     \* signals the child blocks
    saved,    \* the mask the child saved in prev (04, 07) or tmp (08)
    held,     \* the mask that sigsuspend() restores when it returns
    pend,     \* signals pending for the child
    disp,     \* the child's dispositions
    frames,   \* handlers running in the child, innermost first
    log,      \* signals whose handler the child has entered, in order
    child,    \* "running", "zombie" or "reaped"
    fate,     \* how the child ended: "none", "exit" or "killed"
    flag,     \* *flg of 02, in memory shared by the two processes
    sent,     \* number of signals sent so far
    report,   \* what the parent last printed of the child's status
    stray,    \* has the parent signalled a process id it had already reaped?
    left      \* what the child of 03 returned upon: "open", "data", "error", "EINTR", or "no"

runVars    == << prog, prompt >>
procVars   == << pc, inside, timer >>
signalVars == << mask, saved, held, pend, disp, frames, log >>
parentVars == << sent, report, stray >>
vars == << runVars, procVars, signalVars, child, fate, flag, parentVars, left >>

Delay(n) == IF prompt THEN n ELSE 0

Text(p) == Program[prog][p]
Op(p)   == Text(p)[pc[p]]

Init ==
    /\ prog \in DOMAIN Program /\ prompt \in BOOLEAN
    /\ pc = [p \in {"child", "parent"} |-> 1]
    /\ inside = [p \in {"child", "parent"} |-> FALSE]
    /\ timer = [p \in {"child", "parent"} |-> 0]
    /\ mask = {} /\ saved = {} /\ held = {}
    /\ pend = NonePending
    /\ disp = [s \in Signal |-> Default]
    /\ frames = << >> /\ log = << >>
    /\ child = "running" /\ fate = "none"
    /\ flag = FALSE
    /\ sent = 0 /\ report = "nothing" /\ stray = FALSE
    /\ left = "no"

\* A pending signal that is not blocked is delivered before the process
\* executes anything else.
ChildRuns  == child = "running" /\ frames = << >> /\ Deliverable(pend, mask) = {}
ChildAt(op) == ChildRuns /\ Op("child").op = op

Enter(p)   == ~inside[p] /\ inside' = [inside EXCEPT ![p] = TRUE] /\ UNCHANGED pc
Advance(p) == pc' = [pc EXCEPT ![p] = @ + 1] /\ inside' = [inside EXCEPT ![p] = FALSE]
-----------------------------------------------------------------------------
(* System calls of the child. *)

SigAction ==
    /\ ChildAt("sigaction")
    /\ \E h \in Op("child").handlers : disp' = [disp EXCEPT ![Op("child").sig] = h]
    /\ Advance("child")
    /\ UNCHANGED << runVars, timer, mask, saved, held, pend, frames, log, child, fate, flag,
                    parentVars, left >>

SigProcMask ==
    /\ \/ ChildAt("block") /\ mask' = mask \cup Op("child").set /\ saved' = mask
       \/ ChildAt("setmask") /\ mask' = Op("child").set /\ UNCHANGED saved
       \/ ChildAt("restore") /\ mask' = saved /\ UNCHANGED saved
    /\ Advance("child")
    /\ UNCHANGED << runVars, timer, held, pend, disp, frames, log, child, fate, flag,
                    parentVars, left >>

SetFlag ==
    /\ ChildAt("setflag")
    /\ flag' = TRUE
    /\ Advance("child")
    /\ UNCHANGED << runVars, timer, signalVars, child, fate, parentVars, left >>

\* pause(), read() and sigwaitinfo() block; sigsuspend() also swaps the mask,
\* in the same step, which is what it is for.
Wait ==
    /\ \/ ChildAt("pause") \/ ChildAt("read") \/ ChildAt("sigwaitinfo")
       \/ ChildAt("sigsuspend")
    /\ Enter("child")
    /\ IF Op("child").op = "sigsuspend"
       THEN held' = mask /\ mask' = saved
       ELSE UNCHANGED << held, mask >>
    /\ UNCHANGED << runVars, timer, saved, pend, disp, frames, log, child, fate, flag,
                    parentVars, left >>

\* sigwaitinfo() takes a signal of its set that is pending, blocked or not.
SigWaitInfo ==
    /\ ChildAt("sigwaitinfo") /\ inside["child"]
    /\ \E s \in Op("child").set :
        /\ pend[s] > 0
        /\ pend' = Consume(pend, s)
    /\ Advance("child")
    /\ UNCHANGED << runVars, timer, mask, saved, held, disp, frames, log, child, fate, flag,
                    parentVars, left >>

\* child() returns: main() has nothing more to do.
Return(why) ==
    /\ child' = "zombie" /\ fate' = "exit"
    /\ left' = why
    /\ UNCHANGED << pc, inside >>

\* open("/dev/zero") in 03.
Open ==
    /\ ChildAt("open")
    /\ \/ Advance("child") /\ UNCHANGED << child, fate, left >>
       \/ Return("open")
    /\ UNCHANGED << runVars, timer, signalVars, flag, parentVars >>

\* The read(1, ...) of 03 returns what was asked for, and the loop goes on; or less, or -1
\* (EBADF where the output cannot be read, EIO), and the loop is left.
ReadReturns ==
    /\ ChildAt("read") /\ inside["child"]
    /\ \/ Advance("child") /\ UNCHANGED << child, fate, left >>
       \/ Return("data") \/ Return("error")
    /\ UNCHANGED << runVars, timer, signalVars, flag, parentVars >>

ChildExit ==
    /\ ChildAt("exit")
    /\ child' = "zombie" /\ fate' = "exit"
    /\ UNCHANGED << runVars, procVars, signalVars, flag, parentVars, left >>
-----------------------------------------------------------------------------
(* Delivery of a signal to the child. *)

Kills ==
    /\ child = "running" /\ Deliverable(pend, mask) # {}
    /\ ~disp[NextSignal(pend, mask)].caught
    /\ child' = "zombie" /\ fate' = "killed"
    /\ UNCHANGED << runVars, procVars, signalVars, flag, parentVars, left >>

\* The frame remembers the mask to put back; for the handler that ends a
\* sigsuspend() that is the mask sigsuspend() replaced.
EnterHandler ==
    /\ child = "running" /\ Deliverable(pend, mask) # {}
    /\ LET s == NextSignal(pend, mask)
           h == disp[s]
           suspended == frames = << >> /\ inside["child"] /\ Op("child").op = "sigsuspend"
       IN  /\ h.caught
           /\ frames' = << [sig |-> s, restart |-> h.restart,
                            back |-> IF suspended THEN held ELSE mask] >> \o frames
           /\ mask' = HandlerMask(mask, h, s)
           /\ disp' = IF h.reset THEN [disp EXCEPT ![s] = Default] ELSE disp
           /\ pend' = Consume(pend, s)
           /\ log' = Append(log, s)
    /\ timer' = [timer EXCEPT !["child"] = Delay(HandlerSleep(prog))]
    /\ UNCHANGED << runVars, pc, inside, saved, held, child, fate, flag, parentVars, left >>

\* Once the outermost handler returns, the call it interrupted returns too,
\* unless it is a read() that SA_RESTART restarts; a read() that returns early
\* leaves the loop of 03.
LeaveHandler ==
    /\ child = "running" /\ frames # << >> /\ timer["child"] = 0
    /\ Deliverable(pend, mask) = {}
    /\ frames' = Tail(frames)
    /\ mask' = Head(frames).back
    /\ IF Len(frames) > 1 \/ ~inside["child"]
       THEN UNCHANGED << pc, inside, child, fate, left >>
       ELSE IF Op("child").op = "read"
            THEN IF Head(frames).restart
                 THEN UNCHANGED << pc, inside, child, fate, left >>
                 ELSE Return("EINTR")
            ELSE Advance("child") /\ UNCHANGED << child, fate, left >>
    /\ UNCHANGED << runVars, timer, saved, held, pend, disp, log, flag, parentVars >>
-----------------------------------------------------------------------------
(* System calls of the parent. *)

ParentAt(op) == pc["parent"] \in DOMAIN Text("parent") /\ Op("parent").op = op

\* A loop without an end is followed for at most MaxKill signals.
Endless == \E i \in DOMAIN Text("parent") : Text("parent")[i].op = "goto"

SendSignal ==
    /\ ParentAt("kill")
    /\ Endless => sent < MaxKill
    /\ sent' = sent + 1
    /\ pend' = IF child = "running" THEN Post(pend, Op("parent").sig) ELSE pend
    /\ stray' = (stray \/ child = "reaped")
    /\ Advance("parent")
    /\ UNCHANGED << runVars, timer, mask, saved, held, disp, frames, log, child, fate, flag,
                    report, left >>

\* while (!*flg) sleep(2);
AwaitFlag ==
    /\ ParentAt("awaitflag") /\ ~inside["parent"]
    /\ IF flag
       THEN Advance("parent") /\ UNCHANGED timer
       ELSE /\ inside' = [inside EXCEPT !["parent"] = TRUE]
            /\ timer' = [timer EXCEPT !["parent"] = Delay(2)]
            /\ UNCHANGED pc
    /\ UNCHANGED << runVars, signalVars, child, fate, flag, parentVars, left >>

\* The mistake: taking every return of waitpid() for the end of the child.
WaitPidReaps ==
    /\ ParentAt("waitpid") \/ ParentAt("waitpid_checked")
    /\ child' = "reaped"
    /\ report' = fate
    /\ Advance("parent")
    /\ UNCHANGED << runVars, timer, signalVars, fate, flag, sent, stray, left >>

\* waitpid(pid, &status, WNOHANG) stores a status only when it reaps the child;
\* otherwise WIFSIGNALED looks at a variable that was never assigned.  Program
\* 04 looks at it only when the call did not return 0, which it also does not
\* when there is no child left to wait for.
WaitPid ==
    /\ ParentAt("waitpid") \/ ParentAt("waitpid_checked")
    /\ child' = IF child = "zombie" THEN "reaped" ELSE child
    /\ report' \in CASE child = "zombie" -> {fate}
                     [] child = "running" /\ Op("parent").op = "waitpid_checked" -> {report}
                     [] OTHER -> {"exit", "killed"}
    /\ Advance("parent")
    /\ UNCHANGED << runVars, timer, signalVars, fate, flag, sent, stray, left >>

ParentExit ==
    /\ ParentAt("exit")
    /\ Advance("parent")
    /\ UNCHANGED << runVars, timer, signalVars, child, fate, flag, parentVars, left >>
-----------------------------------------------------------------------------
(* Calls of both, and time. *)

Runs(p) == IF p = "child" THEN ChildRuns ELSE pc["parent"] \in DOMAIN Text("parent")

StartSleep(p) ==
    /\ Runs(p) /\ Op(p).op = "sleep"
    /\ Enter(p)
    /\ timer' = [timer EXCEPT ![p] = Delay(Op(p).secs)]
    /\ UNCHANGED << runVars, signalVars, child, fate, flag, parentVars, left >>

EndSleep(p) ==
    /\ Runs(p) /\ Op(p).op \in {"sleep", "awaitflag"} /\ inside[p] /\ timer[p] = 0
    /\ IF Op(p).op = "sleep"
       THEN Advance(p)
       ELSE inside' = [inside EXCEPT ![p] = FALSE] /\ UNCHANGED pc
    /\ UNCHANGED << runVars, timer, signalVars, child, fate, flag, parentVars, left >>

Jump(p) ==
    /\ Runs(p) /\ Op(p).op = "goto"
    /\ pc' = [pc EXCEPT ![p] = Op(p).to]
    /\ UNCHANGED << runVars, inside, timer, signalVars, child, fate, flag, parentVars, left >>

ChildStep ==
    \/ SigAction \/ SigProcMask \/ SetFlag \/ Open \/ Wait \/ SigWaitInfo \/ ChildExit
    \/ Kills \/ EnterHandler \/ LeaveHandler
    \/ StartSleep("child") \/ EndSleep("child") \/ Jump("child")

ParentStep ==
    \/ SendSignal \/ AwaitFlag \/ WaitPid \/ ParentExit
    \/ StartSleep("parent") \/ EndSleep("parent") \/ Jump("parent")

\* Neither process has anything to do before a second has passed.
ChildWaits == child = "running" =>
    /\ Deliverable(pend, mask) = {}
    /\ IF frames # << >>
       THEN timer["child"] > 0
       ELSE /\ inside["child"]
            /\ Op("child").op \in {"sleep", "pause", "read", "sigsuspend", "sigwaitinfo"}
            /\ Op("child").op = "sleep" => timer["child"] > 0
            /\ Op("child").op = "sigwaitinfo" => \A s \in Op("child").set : pend[s] = 0

ParentWaits == pc["parent"] \in DOMAIN Text("parent") =>
    /\ Op("parent").op \in {"sleep", "awaitflag", "kill"}
    /\ IF Op("parent").op = "kill"
       THEN Endless /\ sent >= MaxKill
       ELSE inside["parent"] /\ timer["parent"] > 0

Idle == ChildWaits /\ ParentWaits

Tick ==
    /\ prompt /\ Idle
    /\ \E p \in DOMAIN timer : timer[p] > 0
    /\ timer' = [p \in DOMAIN timer |-> IF timer[p] > 0 THEN timer[p] - 1 ELSE 0]
    /\ UNCHANGED << runVars, pc, inside, signalVars, child, fate, flag, parentVars, left >>

Next == ChildStep \/ ParentStep \/ ReadReturns \/ Tick

\* Both processes are scheduled and time passes; nobody has to type anything.
Spec == Init /\ [][Next]_vars /\ WF_vars(ChildStep) /\ WF_vars(ParentStep) /\ WF_vars(Tick)
-----------------------------------------------------------------------------
(* Properties. *)

Frame == [sig : Signal, restart : BOOLEAN, back : SUBSET Signal]

\* Every variable stays in its range, and a reaped child has a fate.
TypeOK ==
    /\ prog \in DOMAIN Program /\ prompt \in BOOLEAN
    /\ pc \in [{"child", "parent"} -> Nat \ {0}]
    /\ inside \in [{"child", "parent"} -> BOOLEAN]
    /\ timer \in [{"child", "parent"} -> Nat]
    /\ mask \subseteq Signal /\ saved \subseteq Signal /\ held \subseteq Signal
    /\ pend \in [Signal -> Nat]
    /\ disp \in [Signal -> Handlers \cup {Default}]
    /\ frames \in Seq(Frame) /\ log \in Seq(Signal)
    /\ child \in {"running", "zombie", "reaped"}
    /\ fate \in {"none", "exit", "killed"}
    /\ (fate = "none") <=> (child = "running")
    /\ flag \in BOOLEAN /\ stray \in BOOLEAN
    /\ left \in {"no", "open", "data", "error", "EINTR"}
    /\ sent \in Nat /\ report \in {"nothing", "exit", "killed"}

\* The number of calls after which the child of each program has installed its handlers
\* or blocked its signal.
Setup == << 1, 1, 1, 2, 1, 1, 2, 1, 1 >>

\* How the children end.  One is killed only by a signal that comes before its sigaction()
\* or sigprocmask(), which takes a sleep() that lasts too long, and not even then in 02, where
\* the parent waits for *flg; or by a further signal after a garbage SA_RESETHAND removed its
\* handler.  With SA_RESTART in 03 no signal ever makes the read() fail, so that its child ends
\* only where open() fails or read() returns too little or an error of another kind.
EndsAsMeant ==
    /\ fate = "killed" =>
        \/ prog \in {2, 4, 5} /\ log # << >>
        \/ prog # 2 /\ ~prompt /\ pc["child"] <= Setup[prog]
    /\ left # "EINTR"

\* 07_rt_signal/src/main.cpp:80-83: the three queued signals are received in the order
\* SIG_RT1, SIG_RT1, SIG_RT2, although SIG_RT2 was sent second; but all in the one moment
\* that unblocks them, so that the pause() that follows never returns.
RealTimeHang ==
    (prompt /\ prog = 7) ~>
        [](child = "running" /\ inside["child"] /\ Op("child").op = "pause"
           /\ log = << RT1, RT1, RT2 >>)

\* No wake-up is lost: the children that wait in sigsuspend() and sigwaitinfo() for a signal
\* they have blocked end whatever the sleeps last, and so do those that do not wait; the
\* pause() of 05 and 06 needs a parent that sleeps long enough.
ChildEnds == (prog \in {2, 4, 8, 9} \/ (prompt /\ prog \in {5, 6})) ~> child # "running"

\* What that rests on at every moment: a child in one of those waits has the signal in hand,
\* where the call can take it, or a kill() of its parent is still ahead.
InWait ==
    /\ child = "running" /\ frames = << >> /\ inside["child"]
    /\ Op("child").op \in {"pause", "sigsuspend", "sigwaitinfo"}
InHand == pend[USR1] > 0 /\ (USR1 \notin mask \/ Op("child").op = "sigwaitinfo")
KillAhead ==
    \E i \in DOMAIN Text("parent") : i >= pc["parent"] /\ Text("parent")[i].op = "kill"
WakeupToCome ==
    (prog \in {8, 9} \/ (prompt /\ prog \in {5, 6})) /\ InWait => InHand \/ KillAhead

\* Nobody but the endless parents of 03 and 04 goes on signalling the id of a child that it
\* has reaped; the one of 01 does if its child was killed.
SignalsOwnChild == stray => (prog \in {3, 4} \/ (prog = 1 /\ fate = "killed"))

\* Handlers do not interrupt each other where sa_mask and sa_flags are assigned (07 has two,
\* and names both signals in the mask of each); and the sigsuspend() of 08 lets one of the ten
\* signals in, the others stay blocked.
HandlersInTurn ==
    /\ prog \notin {2, 4, 5} => Len(frames) <= 1
    /\ prog = 8 => Len(log) <= 1

\* What the other programs print, "child process received signal.." or "exit normally"
\* (09_waitinfo/src/main.cpp:45-52), is how the child ended.
StatusTruthful == report # "nothing" => (child = "reaped" /\ fate = report)
=============================================================================
