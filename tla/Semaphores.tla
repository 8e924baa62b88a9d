----------------------------- MODULE Semaphores -----------------------------
(***************************************************************************)
(* XX_sem.  01_named: Com1 (main.cpp) makes the semaphore "/sem_test" and  *)
(* waits, Com2 (main2.cpp) posts to it.  02_unnamed: a Run is a parent     *)
(* that puts a semaphore into the shared memory "/shm_sem", and its child  *)
(* that posts to it.  Any number of each may be started, at any time.      *)
(*                                                                         *)
(* A semaphore outlives its name while a process has it open; each is      *)
(* known by the process that made it, or, if an earlier run left it        *)
(* behind, by its name.                                                    *)
(***************************************************************************)
EXTENDS Naturals, FiniteSets

CONSTANTS
    Com1, Com2, Run,
    Casts,   \* the sets of processes that may be started together
    None

Names  == {"sem_test", "shm_sem"}
User   == Com1 \cup Com2 \cup Run
Object == Com1 \cup Run \cup Names

ASSUME CastsAssumption == Casts \subseteq SUBSET User
ASSUME UserAssumption ==
    /\ IsFiniteSet(User)
    /\ Com1 \cap Com2 = {} /\ Com1 \cap Run = {} /\ Com2 \cap Run = {}
    /\ Names \cap User = {} /\ None \notin Object

VARIABLES
    root,      \* is 02 run by root?
    name,      \* the semaphore each name leads to
    value,
    sem,       \* sp or psem: the semaphore a process uses
    pc,        \* next call of Com1, Com2 and of the parent of a Run
    child,     \* next call of the child of a Run
    posted,    \* who has posted (a Run through its child)
    woken,     \* whose sem_wait() has returned
    destroyed, \* semaphores that were destroyed
    deaf       \* parents that slept on a semaphore while it was initialised again

vars == << root, name, value, sem, pc, child, posted, woken, destroyed, deaf >>

Init ==
    /\ root \in BOOLEAN
    /\ name \in [Names -> Names \cup {None}] /\ \A n \in Names : name[n] \in {n, None}
    /\ value \in [Object -> 0 .. 1] /\ \A o \in Object : value[o] = 1 => o \in Names /\ name[o] = o
    /\ sem = [u \in User |-> None]
    /\ \E cast \in Casts :
        pc = [u \in User |-> CASE u \notin cast -> "off"
                               [] u \in cast \cap Com1 -> "unlink"
                               [] u \in cast \cap Com2 -> "open"
                               [] u \in cast \cap Run -> "shm_open"]
    /\ child = [r \in Run |-> "none"]
    /\ posted = {} /\ woken = {} /\ destroyed = {} /\ deaf = {}

Goto(u, l) == pc' = [pc EXCEPT ![u] = l]

SetName(n, o) == name' = [name EXCEPT ![n] = o]
-----------------------------------------------------------------------------
(* Com1 and Com2. *)

\* stat() asks for a file that sem_open() never makes, so that Com1 always goes this way.
\* sem_unlink() takes "sem_test" for "/sem_test": it is gone, whoever uses it.
Unlink(c) ==
    /\ c \in Com1
    /\ \/ pc[c] = "unlink" /\ Goto(c, "open")
       \/ pc[c] = "unlinkAgain" /\ Goto(c, "done")
    /\ SetName("sem_test", None)
    /\ UNCHANGED << root, value, sem, child, posted, woken, destroyed, deaf >>

\* The mistake: an initial value of 1.
OpenWithOne(c) ==
    /\ c \in Com1 /\ pc[c] = "open"
    /\ LET old == name["sem_test"]
           o   == IF old = None THEN c ELSE old
       IN  /\ sem' = [sem EXCEPT ![c] = o]
           /\ SetName("sem_test", o)
           /\ value' = IF old = None THEN [value EXCEPT ![c] = 1] ELSE value
           /\ Goto(c, "wait")
    /\ UNCHANGED << root, child, posted, woken, destroyed, deaf >>

\* O_CREAT without O_EXCL: another Com1 may have made the semaphore meanwhile.
Open(c) ==
    /\ c \in Com1 /\ pc[c] = "open"
    /\ LET old == name["sem_test"]
           o   == IF old = None THEN c ELSE old
       IN  /\ sem' = [sem EXCEPT ![c] = o]
           /\ SetName("sem_test", o)
           /\ value' = IF old = None THEN [value EXCEPT ![c] = 0] ELSE value
           /\ Goto(c, "wait")
    /\ UNCHANGED << root, child, posted, woken, destroyed, deaf >>

\* The mistake: not looking at the result.
OpenUnchecked(d) ==
    /\ d \in Com2 /\ pc[d] = "open"
    /\ sem' = [sem EXCEPT ![d] = name["sem_test"]]
    /\ Goto(d, "post")
    /\ UNCHANGED << root, name, value, child, posted, woken, destroyed, deaf >>

\* Fails when there is no such name.
OpenExisting(d) ==
    /\ d \in Com2 /\ pc[d] = "open"
    /\ sem' = [sem EXCEPT ![d] = name["sem_test"]]
    /\ Goto(d, IF name["sem_test"] = None THEN "failed" ELSE "post")
    /\ UNCHANGED << root, name, value, child, posted, woken, destroyed, deaf >>

\* The mistake: posting again.
PostTwice(d) ==
    /\ d \in Com2 /\ (pc[d] = "post" \/ (pc[d] = "done" /\ value[sem[d]] = 0))
    /\ value' = [value EXCEPT ![sem[d]] = @ + 1]
    /\ posted' = posted \cup {d}
    /\ Goto(d, "done")
    /\ UNCHANGED << root, name, sem, child, woken, destroyed, deaf >>

Post(d) ==
    /\ d \in Com2 /\ pc[d] = "post"
    /\ value' = [value EXCEPT ![sem[d]] = @ + 1]
    /\ posted' = posted \cup {d}
    /\ Goto(d, "done")
    /\ UNCHANGED << root, name, sem, child, woken, destroyed, deaf >>

\* sem_wait() of Com1 or of a parent.
Wait(u) ==
    /\ pc[u] = "wait" /\ value[sem[u]] > 0
    /\ value' = [value EXCEPT ![sem[u]] = @ - 1]
    /\ woken' = woken \cup {u}
    /\ Goto(u, IF u \in Com1 THEN "unlinkAgain" ELSE "shm_unlink")
    /\ UNCHANGED << root, name, sem, child, posted, destroyed, deaf >>
-----------------------------------------------------------------------------
(* The parent and the child of 02. *)

\* The mode is 0: only root can open an object that is already there.  The error is printed,
\* and sem_init() gets the address MAP_FAILED.
ShmOpen(r) ==
    /\ r \in Run /\ pc[r] = "shm_open"
    /\ LET old == name["shm_sem"]
           o   == IF old = None THEN r ELSE old
       IN  IF old = None \/ root
           THEN /\ sem' = [sem EXCEPT ![r] = o]
                /\ SetName("shm_sem", o)
                /\ Goto(r, "init")
           ELSE Goto(r, "killed") /\ UNCHANGED << name, sem >>
    /\ UNCHANGED << root, value, child, posted, woken, destroyed, deaf >>

\* sem_init(psem, 1, 0) and fork().  Whatever was in the semaphore is lost, the number of
\* those that sleep on it included: a later post need not wake them.
InitAndFork(r) ==
    /\ r \in Run /\ pc[r] = "init"
    /\ value' = [value EXCEPT ![sem[r]] = 0]
    /\ destroyed' = destroyed \ {sem[r]}
    /\ deaf' = deaf \cup {q \in Run : pc[q] = "wait" /\ sem[q] = sem[r]}
    /\ Goto(r, "getvalue")
    /\ child' = [child EXCEPT ![r] = "post"]
    /\ UNCHANGED << root, name, sem, posted, woken >>

GetValue(r) ==
    /\ r \in Run /\ pc[r] = "getvalue"
    /\ Goto(r, "wait")
    /\ UNCHANGED << root, name, value, sem, child, posted, woken, destroyed, deaf >>

ShmUnlink(r) ==
    /\ r \in Run /\ pc[r] = "shm_unlink"
    /\ SetName("shm_sem", None)
    /\ Goto(r, "destroy")
    /\ UNCHANGED << root, value, sem, child, posted, woken, destroyed, deaf >>

Destroy(r) ==
    /\ r \in Run /\ pc[r] = "destroy"
    /\ destroyed' = destroyed \cup {sem[r]}
    /\ Goto(r, "done")
    /\ UNCHANGED << root, name, value, sem, child, posted, woken, deaf >>

\* The mistake: waking the parent only if it waits already.
ChildPostIfWaited(r) ==
    /\ child[r] = "post"
    /\ value' = [value EXCEPT ![sem[r]] = IF pc[r] = "wait" THEN @ + 1 ELSE @]
    /\ posted' = posted \cup {r}
    /\ child' = [child EXCEPT ![r] = "getvalue"]
    /\ UNCHANGED << root, name, sem, pc, woken, destroyed, deaf >>

\* After sleep(3).
ChildPost(r) ==
    /\ child[r] = "post"
    /\ value' = [value EXCEPT ![sem[r]] = @ + 1]
    /\ posted' = posted \cup {r}
    /\ child' = [child EXCEPT ![r] = "getvalue"]
    /\ UNCHANGED << root, name, sem, pc, woken, destroyed, deaf >>

\* Possibly of a semaphore that the parent has destroyed.
ChildGetValue(r) ==
    /\ child[r] = "getvalue"
    /\ child' = [child EXCEPT ![r] = "done"]
    /\ UNCHANGED << root, name, value, sem, pc, posted, woken, destroyed, deaf >>
-----------------------------------------------------------------------------
Final == {"off", "done", "failed", "killed", "crashed"}
Ended(u) == pc[u] \in Final

\* sem_open() may fail for want of memory, and any process may be killed.
Crash(u) ==
    /\ ~Ended(u)
    /\ \/ Goto(u, "crashed")
       \/ pc[u] = "open" /\ Goto(u, "failed")
    /\ UNCHANGED << root, name, value, sem, child, posted, woken, destroyed, deaf >>

ChildCrash(r) ==
    /\ child[r] \in {"post", "getvalue"}
    /\ child' = [child EXCEPT ![r] = "crashed"]
    /\ UNCHANGED << root, name, value, sem, pc, posted, woken, destroyed, deaf >>

Step(u) ==
    \/ Unlink(u) \/ Open(u) \/ OpenExisting(u) \/ Post(u) \/ Wait(u)
    \/ ShmOpen(u) \/ InitAndFork(u) \/ GetValue(u) \/ ShmUnlink(u) \/ Destroy(u)
ChildStep(r) == ChildPost(r) \/ ChildGetValue(r)

Next ==
    \/ \E u \in User : Step(u) \/ Crash(u)
    \/ \E r \in Run : ChildStep(r) \/ ChildCrash(r)

\* A process that can run does; sleeping on a semaphore that was initialised again is no
\* guarantee.
Fairness ==
    /\ \A u \in User : WF_vars(u \notin deaf /\ Step(u))
    /\ \A r \in Run : WF_vars(ChildStep(r))

Spec == Init /\ [][Next]_vars /\ Fairness
-----------------------------------------------------------------------------
(* Properties. *)

\* Every variable stays in its range, and whoever is past its open has a semaphore.
TypeOK ==
    /\ root \in BOOLEAN
    /\ name \in [Names -> Object \cup {None}]
    /\ value \in [Object -> Nat]
    /\ sem \in [User -> Object \cup {None}]
    /\ pc \in [User -> Final \cup {"unlink", "open", "wait", "unlinkAgain", "post", "shm_open",
                                   "init", "getvalue", "shm_unlink", "destroy"}]
    /\ child \in [Run -> {"none", "post", "getvalue", "done", "crashed"}]
    /\ posted \subseteq Com2 \cup Run /\ woken \subseteq Com1 \cup Run
    /\ destroyed \subseteq Object /\ deaf \subseteq Run
    /\ \A u \in User : pc[u] \notin Final \cup {"unlink", "open", "shm_open"} => sem[u] # None
    /\ \A r \in Run : child[r] # "none" => sem[r] # None

Posters(o) == {u \in posted : sem[u] = o}
Sleepers(o) == {u \in woken : sem[u] = o}

\* Is it the semaphore of somebody who waits on it, or has waited?
Awaited(o) ==
    \/ \E c \in Com1 : sem[c] = o
    \/ \E r \in Run : sem[r] = o /\ child[r] # "none"

\* Do no two processes wait on the semaphore of u?
Alone(u) == \A v \in (Com1 \cup Run) \ {u} : sem[v] # sem[u]

\* Nobody is woken without a post to the very semaphore it waits on, whatever an earlier
\* run left in it, however many share it and whoever initialises it again.  A parent that
\* shares it with no other run therefore destroys it after its child's sem_post().
WakesNeedPosts ==
    /\ \A o \in Object :
        Awaited(o) => Cardinality(Sleepers(o)) + value[o] <= Cardinality(Posters(o))
    /\ \A r \in Run : (sem[r] \in destroyed /\ child[r] # "none" /\ Alone(r)) => r \in posted

\* A Com1 whose semaphore another Com1 has unlinked, with nothing in it and no Com2 on its
\* way to post, waits for ever: Com2 can only reach the newer one.
Orphan(c) ==
    /\ pc[c] = "wait" /\ value[sem[c]] = 0 /\ name["sem_test"] # sem[c]
    /\ \A d \in Com2 : sem[d] = sem[c] => pc[d] # "post"
OrphanForGood == [][\A c \in Com1 : Orphan(c) => Orphan(c)' \/ pc'[c] = "crashed"]_vars

\* A post wakes the waiter as long as the semaphore has only one: a Com1 that is alone ends
\* after a Com2 has posted to its semaphore, a parent after its child has, even if the post
\* comes before the wait.
PostWakes ==
    /\ \A c \in Com1, d \in Com2 : (d \in posted /\ sem[d] = sem[c]) ~> (Ended(c) \/ ~Alone(c))
    /\ \A r \in Run : (r \in posted) ~> (Ended(r) \/ ~Alone(r))
=============================================================================
