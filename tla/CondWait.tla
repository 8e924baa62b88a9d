------------------------------ MODULE CondWait ------------------------------
(***************************************************************************)
(* 04_pthread: main and one thread, in the three patterns of the file:     *)
(* join (func1_1), a mutex (func2_1), a condition variable (func3_1).  A   *)
(* pattern is the sequence of pthread calls each of the two makes.         *)
(*                                                                         *)
(* With prompt = TRUE a sleep() ends only when the other thread waits or   *)
(* sleeps too; otherwise a thread may be slower than any sleep().          *)
(***************************************************************************)
EXTENDS Naturals, Sequences

\* The mistakes: signalling at once, or twice.
MainNoSleep ==
    << << "create", "join" >>,
       << "create", "lock", "sleep", "unlock", "join" >>,
       << "create", "lock", "signal", "sleep", "unlock", "join" >> >>
MainSignalsTwice ==
    << << "create", "join" >>,
       << "create", "sleep", "lock", "sleep", "unlock", "join" >>,
       << "create", "sleep", "lock", "signal", "unlock", "sleep", "signal", "join" >> >>

Main ==
    << << "create", "join" >>,
       << "create", "sleep", "lock", "sleep", "unlock", "join" >>,
       << "create", "sleep", "lock", "signal", "sleep", "unlock", "join" >> >>

Thread ==
    << << "sleep" >>,
       << "lock", "sleep", "unlock" >>,
       << "lock", "wait", "unlock" >> >>

VARIABLES
    pattern,
    prompt,   \* does sleep() order the threads?
    spurious, \* may pthread_cond_wait() return without a signal?
    pc,       \* next call of each thread; past the last one it has returned
    started,  \* has pthread_create() made the thread?
    owner,    \* who holds the mutex
    cond,     \* the thread at the condition: "outside", "waiting" or "woken"
    signals,  \* pthread_cond_signal() calls so far
    failed    \* did pthread_create() fail, so that tid is garbage?

runVars == << pattern, prompt, spurious >>
vars == << runVars, pc, started, owner, cond, signals, failed >>

Both  == {"main", "thread"}
Other(t) == IF t = "main" THEN "thread" ELSE "main"
Text(t) == IF t = "main" THEN Main[pattern] ELSE Thread[pattern]
Ended(t) == pc[t] > Len(Text(t))
At(t, op) ==
    /\ pc[t] \in DOMAIN Text(t) /\ Text(t)[pc[t]] = op
    /\ t = "thread" => started

Advance(t) == pc' = [pc EXCEPT ![t] = @ + 1]

Init ==
    /\ pattern \in 1 .. 3 /\ prompt \in BOOLEAN /\ spurious \in BOOLEAN
    /\ pc = [t \in Both |-> 1]
    /\ started = FALSE /\ owner = "nobody" /\ cond = "outside"
    /\ signals = 0 /\ failed = FALSE

\* Nothing a thread can do before time passes or the other one acts.
Waits(t) ==
    \/ Ended(t) \/ At(t, "sleep")
    \/ t = "thread" /\ ~started
    \/ At(t, "lock") /\ owner # "nobody"
    \/ At(t, "join") /\ ~Ended("thread")
    \/ At(t, "wait") /\ (cond = "waiting" \/ (cond = "woken" /\ owner # "nobody"))

\* A failure is reported and otherwise ignored.
Create ==
    /\ At("main", "create")
    /\ \/ started' = TRUE /\ UNCHANGED failed
       \/ failed' = TRUE /\ UNCHANGED started
    /\ Advance("main")
    /\ UNCHANGED << runVars, owner, cond, signals >>

Sleep(t) ==
    /\ At(t, "sleep")
    /\ prompt => Waits(Other(t))
    /\ Advance(t)
    /\ UNCHANGED << runVars, started, owner, cond, signals, failed >>

Lock(t) ==
    /\ At(t, "lock") /\ owner = "nobody"
    /\ owner' = t
    /\ Advance(t)
    /\ UNCHANGED << runVars, started, cond, signals, failed >>

\* Unlocking a mutex one does not hold is undefined; here it stays as it is.
Unlock(t) ==
    /\ At(t, "unlock")
    /\ owner' = IF owner = t THEN "nobody" ELSE owner
    /\ Advance(t)
    /\ UNCHANGED << runVars, started, cond, signals, failed >>

\* pthread_cond_wait() gives up the mutex and waits in one step,
Wait ==
    /\ At("thread", "wait") /\ cond = "outside"
    /\ owner' = "nobody" /\ cond' = "waiting"
    /\ UNCHANGED << runVars, pc, started, signals, failed >>

\* and has the mutex again when it returns.
Return ==
    /\ At("thread", "wait") /\ cond = "woken" /\ owner = "nobody"
    /\ owner' = "thread" /\ cond' = "outside"
    /\ Advance("thread")
    /\ UNCHANGED << runVars, started, signals, failed >>

WakeSpuriously ==
    /\ spurious /\ cond = "waiting"
    /\ cond' = "woken"
    /\ UNCHANGED << runVars, pc, started, owner, signals, failed >>

\* A signal nobody waits for is forgotten.
Signal ==
    /\ At("main", "signal")
    /\ cond' = IF cond = "waiting" THEN "woken" ELSE cond
    /\ signals' = signals + 1
    /\ Advance("main")
    /\ UNCHANGED << runVars, started, owner, failed >>

\* Joining a garbage tid is undefined: it fails, or main does not get past it.
Join ==
    /\ At("main", "join")
    /\ Ended("thread") \/ failed
    /\ Advance("main")
    /\ UNCHANGED << runVars, started, owner, cond, signals, failed >>

MainStep == Create \/ Sleep("main") \/ Lock("main") \/ Unlock("main") \/ Signal \/ Join
ThreadStep == Sleep("thread") \/ Lock("thread") \/ Unlock("thread") \/ Wait \/ Return

Next == MainStep \/ ThreadStep \/ WakeSpuriously

\* The scheduler runs both threads; nobody has to wake spuriously.
Spec == Init /\ [][Next]_vars /\ WF_vars(MainStep) /\ WF_vars(ThreadStep)
-----------------------------------------------------------------------------
(* Properties. *)

\* Every variable stays in its range.
TypeOK ==
    /\ pattern \in 1 .. 3 /\ prompt \in BOOLEAN /\ spurious \in BOOLEAN
    /\ pc \in [Both -> 1 .. 8]
    /\ started \in BOOLEAN /\ failed \in BOOLEAN
    /\ owner \in Both \cup {"nobody"}
    /\ cond \in {"outside", "waiting", "woken"}
    /\ signals \in 0 .. 1

\* 04_pthread/README.md, item 6: a signal that comes before the wait is not remembered,
\* and nothing main does later wakes the thread.
Missed == ~spurious /\ signals > 0 /\ cond = "waiting"
MissedForGood == [][Missed => Missed']_vars

\* Mutex and join alone need no luck: main always ends.  With the condition variable it
\* does if the sleep before the signal was long enough.
Joins == (prompt \/ pattern \in {1, 2}) ~> (Ended("main") \/ failed)
=============================================================================
