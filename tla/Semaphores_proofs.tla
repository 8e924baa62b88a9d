-------------------------- MODULE Semaphores_proofs --------------------------
(***************************************************************************)
(* Theorems about Semaphores, for any processes and any casts.             *)
(***************************************************************************)
EXTENDS Semaphores, FiniteSetTheorems, TLAPS

\* A step of the processes of u: a Run acts through its parent and through its child.
Moves(u) ==
    \/ Step(u) \/ Crash(u)
    \/ u \in Run /\ (ChildStep(u) \/ ChildCrash(u))
-----------------------------------------------------------------------------
\* What makes TypeOK inductive: each process makes the calls of its own program.
Roles ==
    /\ \A c \in Com1 : pc[c] \in Final \cup {"unlink", "open", "wait", "unlinkAgain"}
    /\ \A d \in Com2 : pc[d] \in Final \cup {"open", "post"}
    /\ \A r \in Run : pc[r] \in Final \cup {"shm_open", "init", "getvalue", "wait",
                                            "shm_unlink", "destroy"}

\* Each name leads to a semaphore made under it, or left behind under it, and each process
\* uses a semaphore of its own kind.
Places ==
    /\ name["sem_test"] \in Com1 \cup {"sem_test", None}
    /\ name["shm_sem"] \in Run \cup {"shm_sem", None}
    /\ \A u \in Com1 \cup Com2 : sem[u] \in Com1 \cup {"sem_test", None}
    /\ \A r \in Run : sem[r] \in Run \cup {"shm_sem", None}

\* No Com1 opens what an earlier run left behind, for it has removed that name.
Fresh ==
    /\ \A c \in Com1 : pc[c] = "open" => name["sem_test"] # "sem_test"
    /\ \A c \in Com1 : sem[c] # "sem_test"

\* posted and woken are what the program counters say.
History ==
    /\ \A d \in Com2 : pc[d] \in {"open", "post"} => d \notin posted
    /\ \A r \in Run : child[r] \in {"none", "post"} => r \notin posted
    /\ \A r \in Run : pc[r] \in {"shm_open", "init"} => child[r] = "none"
    /\ \A r \in Run : (pc[r] \in {"getvalue", "wait"} \/ r \in woken) => child[r] # "none"
    /\ \A u \in Com1 \cup Run : pc[u] \in {"unlink", "open", "shm_open", "init", "getvalue", "wait"}
                                    => u \notin woken
    /\ \A r \in Run : pc[r] \in {"shm_unlink", "destroy"} => r \in woken

\* Nobody is woken without a post, also on a semaphore that was made and is not yet used.
Counted ==
    \A o \in Object :
        (o \in Com1 \cup Run \/ Awaited(o)) =>
            Cardinality(Sleepers(o)) + value[o] <= Cardinality(Posters(o))

\* Only a parent that has been woken destroys its semaphore.
DestroyedLate == \A o \in destroyed : \E r \in Run : r \in woken /\ sem[r] = o
-----------------------------------------------------------------------------
\* Every step is one of a user.
LEMMA Mover ==
  ASSUME Next
  PROVE  \E u \in User : Moves(u)
BY DEF Next, Moves, User

\* Each process stays in its program, whose names and semaphores are its own.
Local == TypeOK /\ Roles /\ Places /\ Fresh

LEMMA LocalInit == Init => Local
<1>1. SUFFICES ASSUME Init PROVE Local
  OBVIOUS
<1>2. TypeOK
  BY <1>1, UserAssumption DEF Init, TypeOK, Object, Names, User, Final
<1>3. Roles
  BY <1>1, UserAssumption DEF Init, Roles, User, Final
<1>4. Places /\ Fresh
  BY <1>1, UserAssumption DEF Init, Places, Fresh, User, Names, Object, Final
<1> QED BY <1>2, <1>3, <1>4 DEF Local

LEMMA LocalStep == Local /\ [Next]_vars => Local'
<1>1. SUFFICES ASSUME Local, NEW u \in User, Moves(u) PROVE Local'
  BY Mover DEF Local, TypeOK, Roles, Places, Fresh, vars, Posters, Sleepers
<1> USE UserAssumption DEF Local, TypeOK, Roles, Places, Fresh, Object, User, Names, Final, Goto
<1>2. CASE Unlink(u)
  BY <1>1, <1>2 DEF Unlink, SetName
<1>3. CASE Open(u)
  BY <1>1, <1>3 DEF Open, SetName
<1>4. CASE OpenExisting(u)
  BY <1>1, <1>4 DEF OpenExisting
<1>5. CASE Post(u)
  BY <1>1, <1>5 DEF Post
<1>6. CASE Wait(u)
  BY <1>1, <1>6 DEF Wait
<1>7. CASE ShmOpen(u)
  BY <1>1, <1>7 DEF ShmOpen, SetName
<1>8. CASE InitAndFork(u)
  BY <1>1, <1>8 DEF InitAndFork
<1>9. CASE GetValue(u)
  BY <1>1, <1>9 DEF GetValue
<1>10. CASE ShmUnlink(u)
  BY <1>1, <1>10 DEF ShmUnlink, SetName
<1>11. CASE Destroy(u)
  BY <1>1, <1>11 DEF Destroy
<1>12. CASE Crash(u)
  BY <1>1, <1>12 DEF Crash, Ended
<1>13. CASE u \in Run /\ ChildPost(u)
  BY <1>1, <1>13 DEF ChildPost
<1>14. CASE u \in Run /\ ChildGetValue(u)
  BY <1>1, <1>14 DEF ChildGetValue
<1>15. CASE u \in Run /\ ChildCrash(u)
  BY <1>1, <1>15 DEF ChildCrash
<1> QED BY <1>1, <1>2, <1>3, <1>4, <1>5, <1>6, <1>7, <1>8, <1>9, <1>10, <1>11, <1>12, <1>13, <1>14, <1>15 DEF Moves, Step, ChildStep

\* Every variable of the semaphore programs keeps its type, whatever is started together.
THEOREM TypeCorrect == Spec => []TypeOK
<1>1. Local => TypeOK
  BY DEF Local
<1> QED BY <1>1, LocalInit, LocalStep, PTL DEF Spec
-----------------------------------------------------------------------------
\* The sets that are counted are finite, and all that a step can add to them is u.
LEMMA Finite ==
  ASSUME TypeOK, NEW o \in Object
  PROVE  /\ IsFiniteSet(Posters(o)) /\ IsFiniteSet(Sleepers(o))
         /\ Cardinality(Posters(o)) \in Nat /\ Cardinality(Sleepers(o)) \in Nat
<1>1. Posters(o) \subseteq User /\ Sleepers(o) \subseteq User
  BY DEF TypeOK, Posters, Sleepers, User
<1>2. IsFiniteSet(Posters(o)) /\ IsFiniteSet(Sleepers(o))
  BY <1>1, FS_Subset, UserAssumption
<1> QED BY <1>2, FS_CardinalityType

LEMMA AddPoster ==
  ASSUME TypeOK, NEW u \in User, u \notin posted, posted' = posted \cup {u}, UNCHANGED sem,
         NEW o \in Object
  PROVE  Cardinality(Posters(o)') = Cardinality(Posters(o)) + IF sem[u] = o THEN 1 ELSE 0
<1>1. CASE sem[u] = o
  <2>1. Posters(o)' = Posters(o) \cup {u} /\ u \notin Posters(o)
    BY <1>1 DEF Posters
  <2> QED BY <1>1, <2>1, Finite, FS_AddElement
<1>2. CASE sem[u] # o
  <2>1. Posters(o)' = Posters(o)
    BY <1>2 DEF Posters
  <2> QED BY <1>2, <2>1, Finite
<1> QED BY <1>1, <1>2

LEMMA AddSleeper ==
  ASSUME TypeOK, NEW u \in User, u \notin woken, woken' = woken \cup {u}, UNCHANGED sem,
         NEW o \in Object
  PROVE  Cardinality(Sleepers(o)') = Cardinality(Sleepers(o)) + IF sem[u] = o THEN 1 ELSE 0
<1>1. CASE sem[u] = o
  <2>1. Sleepers(o)' = Sleepers(o) \cup {u} /\ u \notin Sleepers(o)
    BY <1>1 DEF Sleepers
  <2> QED BY <1>1, <2>1, Finite, FS_AddElement
<1>2. CASE sem[u] # o
  <2>1. Sleepers(o)' = Sleepers(o)
    BY <1>2 DEF Sleepers
  <2> QED BY <1>2, <2>1, Finite
<1> QED BY <1>1, <1>2

\* A process that opens its semaphore has neither posted nor been woken.
LEMMA OpenCountsNothing ==
  ASSUME TypeOK, NEW u \in User, NEW x, u \notin posted, u \notin woken,
         sem' = [sem EXCEPT ![u] = x], UNCHANGED << posted, woken >>, NEW o \in Object
  PROVE  Posters(o)' = Posters(o) /\ Sleepers(o)' = Sleepers(o)
BY DEF TypeOK, Posters, Sleepers, User
-----------------------------------------------------------------------------
Inv == Local /\ History /\ Counted /\ DestroyedLate

LEMMA InvInit == Init => Inv
<1>1. SUFFICES ASSUME Init PROVE History /\ Counted /\ DestroyedLate
  BY LocalInit DEF Inv
<1>2. History /\ DestroyedLate
  BY <1>1, UserAssumption DEF Init, History, DestroyedLate, User
<1>3. Counted
  <2>1. SUFFICES ASSUME NEW o \in Object, o \in Com1 \cup Run \/ Awaited(o)
                 PROVE  Cardinality(Sleepers(o)) + value[o] <= Cardinality(Posters(o))
    BY DEF Counted
  <2>2. o \in Com1 \cup Run
    BY <1>1, <2>1, UserAssumption DEF Init, Awaited, User, Object
  <2>3. value[o] = 0
    BY <1>1, <2>2, UserAssumption DEF Init, User, Object, Names
  <2>4. Sleepers(o) = {} /\ Posters(o) = {}
    BY <1>1 DEF Init, Sleepers, Posters
  <2> QED BY <2>3, <2>4, FS_EmptySet
<1> QED BY <1>2, <1>3

LEMMA HistoryStep ==
  ASSUME Local, History, NEW u \in User, Moves(u)
  PROVE  History'
<1> USE UserAssumption DEF Local, TypeOK, Roles, History, User, Final, Goto
<1>1. CASE Unlink(u)
  BY <1>1 DEF Unlink, SetName
<1>2. CASE Open(u)
  BY <1>2 DEF Open, SetName
<1>3. CASE OpenExisting(u)
  BY <1>3 DEF OpenExisting
<1>4. CASE Post(u)
  BY <1>4 DEF Post
<1>5. CASE Wait(u)
  BY <1>5 DEF Wait
<1>6. CASE ShmOpen(u)
  BY <1>6 DEF ShmOpen, SetName
<1>7. CASE InitAndFork(u)
  BY <1>7 DEF InitAndFork
<1>8. CASE GetValue(u)
  BY <1>8 DEF GetValue
<1>9. CASE ShmUnlink(u)
  BY <1>9 DEF ShmUnlink, SetName
<1>10. CASE Destroy(u)
  BY <1>10 DEF Destroy
<1>11. CASE Crash(u)
  BY <1>11 DEF Crash, Ended
<1>12. CASE u \in Run /\ ChildPost(u)
  BY <1>12 DEF ChildPost
<1>13. CASE u \in Run /\ ChildGetValue(u)
  BY <1>13 DEF ChildGetValue
<1>14. CASE u \in Run /\ ChildCrash(u)
  BY <1>14 DEF ChildCrash
<1> QED BY <1>1, <1>2, <1>3, <1>4, <1>5, <1>6, <1>7, <1>8, <1>9, <1>10, <1>11, <1>12, <1>13, <1>14 DEF Moves, Step, ChildStep

LEMMA DestroyedStep ==
  ASSUME Local, History, DestroyedLate, NEW u \in User, Moves(u)
  PROVE  DestroyedLate'
<1> USE UserAssumption DEF Local, TypeOK, Roles, History, DestroyedLate, User, Final, Goto
<1>1. CASE Unlink(u)
  BY <1>1 DEF Unlink, SetName
<1>2. CASE Open(u)
  BY <1>2 DEF Open, SetName
<1>3. CASE OpenExisting(u)
  BY <1>3 DEF OpenExisting
<1>4. CASE Post(u)
  BY <1>4 DEF Post
<1>5. CASE Wait(u)
  BY <1>5 DEF Wait
<1>6. CASE ShmOpen(u)
  BY <1>6 DEF ShmOpen, SetName
<1>7. CASE InitAndFork(u)
  BY <1>7 DEF InitAndFork
<1>8. CASE GetValue(u)
  BY <1>8 DEF GetValue
<1>9. CASE ShmUnlink(u)
  BY <1>9 DEF ShmUnlink, SetName
<1>10. CASE Destroy(u)
  BY <1>10 DEF Destroy
<1>11. CASE Crash(u)
  BY <1>11 DEF Crash, Ended
<1>12. CASE u \in Run /\ ChildPost(u)
  BY <1>12 DEF ChildPost
<1>13. CASE u \in Run /\ ChildGetValue(u)
  BY <1>13 DEF ChildGetValue
<1>14. CASE u \in Run /\ ChildCrash(u)
  BY <1>14 DEF ChildCrash
<1> QED BY <1>1, <1>2, <1>3, <1>4, <1>5, <1>6, <1>7, <1>8, <1>9, <1>10, <1>11, <1>12, <1>13, <1>14 DEF Moves, Step, ChildStep

\* A step in which nobody posts, wakes or opens, and no semaphore gains: nothing to count.
LEMMA CountedIdle ==
  ASSUME Local, Counted, NEW o \in Object, o \in Com1 \cup Run \/ Awaited(o),
         UNCHANGED << sem, posted, woken >>, value'[o] \in Nat, value'[o] <= value[o]
  PROVE  Cardinality(Sleepers(o)') + value'[o] <= Cardinality(Posters(o)')
<1>1. Sleepers(o)' = Sleepers(o) /\ Posters(o)' = Posters(o)
  BY DEF Sleepers, Posters
<1>2. value[o] \in Nat
  BY DEF Local, TypeOK
<1> QED BY <1>1, <1>2, Finite DEF Counted, Local

LEMMA CountedStep ==
  ASSUME Local, History, Counted, NEW u \in User, Moves(u)
  PROVE  Counted'
<1> SUFFICES ASSUME NEW o \in Object, o \in Com1 \cup Run \/ Awaited(o)'
             PROVE  Cardinality(Sleepers(o)') + value'[o] <= Cardinality(Posters(o)')
  BY DEF Counted
<1>a. /\ Cardinality(Posters(o)) \in Nat /\ Cardinality(Sleepers(o)) \in Nat
      /\ value[o] \in Nat
  BY Finite DEF Local, TypeOK
<1>b. o \in Com1 \cup Run \/ Awaited(o) =>
        Cardinality(Sleepers(o)) + value[o] <= Cardinality(Posters(o))
  BY DEF Counted
<1>1. CASE UNCHANGED << value, sem, posted, woken >> /\ (Awaited(o)' => Awaited(o))
  BY <1>1, <1>a, CountedIdle
<1>2. CASE Open(u)
  <2>1. u \in Com1 /\ u \notin posted /\ u \notin woken
    BY <1>2, UserAssumption DEF Open, History, Local, TypeOK
  <2>2. PICK x \in Com1 : /\ sem' = [sem EXCEPT ![u] = x]
                          /\ value' = value \/ value' = [value EXCEPT ![u] = 0]
    BY <1>2, <2>1 DEF Open, Local, Places, Fresh
  <2>3. Posters(o)' = Posters(o) /\ Sleepers(o)' = Sleepers(o)
    BY <1>2, <2>1, <2>2, OpenCountsNothing DEF Open, Local
  <2>4. o \in Com1 \cup Run \/ Awaited(o)
    BY <1>2, <2>1, <2>2, UserAssumption DEF Open, Awaited, Local, TypeOK, User
  <2>5. value'[o] \in Nat /\ value'[o] <= value[o]
    BY <2>2, <1>a DEF Local, TypeOK
  <2> QED BY <2>3, <2>4, <2>5, <1>a, <1>b
<1>3. CASE OpenExisting(u) \/ ShmOpen(u)
  <2>1. u \notin posted /\ u \notin woken
    BY <1>3, UserAssumption DEF OpenExisting, ShmOpen, History, Local, TypeOK
  <2>2. PICK x : sem' = [sem EXCEPT ![u] = x]
    <3>1. sem = [sem EXCEPT ![u] = sem[u]]
      BY DEF Local, TypeOK
    <3> QED BY <1>3, <3>1 DEF OpenExisting, ShmOpen
  <2>3. Posters(o)' = Posters(o) /\ Sleepers(o)' = Sleepers(o)
    BY <1>3, <2>1, <2>2, OpenCountsNothing DEF OpenExisting, ShmOpen, Local
  <2>4. o \in Com1 \cup Run \/ Awaited(o)
    BY <1>3, <2>2, UserAssumption DEF OpenExisting, ShmOpen, Awaited, History, Local, TypeOK, User
  <2> QED BY <1>3, <2>3, <2>4, <1>b DEF OpenExisting, ShmOpen
<1>4. CASE Post(u) \/ (u \in Run /\ ChildPost(u))
  <2>1. /\ u \notin posted /\ posted' = posted \cup {u}
        /\ sem[u] \in Object /\ value' = [value EXCEPT ![sem[u]] = @ + 1]
        /\ UNCHANGED << sem, woken >>
    BY <1>4, UserAssumption DEF Post, ChildPost, History, Local, TypeOK, Final
  <2>2. Awaited(o)' => Awaited(o)
    BY <1>4 DEF Post, ChildPost, Awaited, Local, TypeOK
  <2>3. Cardinality(Posters(o)') = Cardinality(Posters(o)) + IF sem[u] = o THEN 1 ELSE 0
    BY <2>1, AddPoster DEF Local
  <2>4. Sleepers(o)' = Sleepers(o)
    BY <2>1 DEF Sleepers
  <2>5. value'[o] = value[o] + IF sem[u] = o THEN 1 ELSE 0
    BY <2>1, <1>a DEF Local, TypeOK
  <2> QED BY <2>2, <2>3, <2>4, <2>5, <1>a, <1>b
<1>5. CASE Wait(u)
  <2>1. /\ u \notin woken /\ woken' = woken \cup {u}
        /\ sem[u] \in Object /\ value[sem[u]] > 0
        /\ value' = [value EXCEPT ![sem[u]] = @ - 1]
        /\ UNCHANGED << sem, posted, child >>
    BY <1>5, UserAssumption DEF Wait, History, Local, TypeOK, Roles, User, Final
  <2>2. Awaited(o)' => Awaited(o)
    BY <2>1 DEF Awaited
  <2>3. Cardinality(Sleepers(o)') = Cardinality(Sleepers(o)) + IF sem[u] = o THEN 1 ELSE 0
    BY <2>1, AddSleeper DEF Local
  <2>4. Posters(o)' = Posters(o)
    BY <2>1 DEF Posters
  <2>5. value'[o] = value[o] - IF sem[u] = o THEN 1 ELSE 0
    BY <2>1, <1>a DEF Local, TypeOK
  <2> QED BY <2>2, <2>3, <2>4, <2>5, <1>a, <1>b
<1>6. CASE InitAndFork(u)
  <2>1. u \in Run /\ value' = [value EXCEPT ![sem[u]] = 0] /\ UNCHANGED << sem, posted, woken >>
    BY <1>6 DEF InitAndFork
  <2>2. value'[o] \in Nat /\ value'[o] <= value[o]
    BY <2>1, <1>a DEF Local, TypeOK
  <2>3. CASE o \in Com1 \cup Run \/ Awaited(o)
    BY <2>1, <2>2, <2>3, CountedIdle
  <2>4. CASE o \notin Com1 \cup Run /\ ~Awaited(o)
    <3>1. sem[u] = o
      BY <1>6, <2>1, <2>4 DEF InitAndFork, Awaited, Local, TypeOK
    <3>2. value'[o] = 0
      BY <2>1, <3>1 DEF Local, TypeOK
    <3>3. Sleepers(o)' = {}
      BY <2>1, <2>4 DEF Sleepers, Awaited, History, Local, TypeOK
    <3>4. IsFiniteSet(Posters(o)') /\ Cardinality(Posters(o)') \in Nat
      <4>1. Posters(o)' = Posters(o)
        BY <2>1 DEF Posters
      <4> QED BY <4>1, Finite DEF Local
    <3> QED BY <3>2, <3>3, <3>4, FS_EmptySet
  <2> QED BY <2>3, <2>4
<1>7. CASE Unlink(u) \/ GetValue(u) \/ ShmUnlink(u) \/ Destroy(u) \/ Crash(u)
  BY <1>7, <1>1 DEF Unlink, GetValue, ShmUnlink, Destroy, Crash, Awaited
<1>8. CASE u \in Run /\ (ChildGetValue(u) \/ ChildCrash(u))
  BY <1>8, <1>1 DEF ChildGetValue, ChildCrash, Awaited, Local, TypeOK
<1> QED BY <1>2, <1>3, <1>4, <1>5, <1>6, <1>7, <1>8 DEF Moves, Step, ChildStep

LEMMA InvStep == Inv /\ [Next]_vars => Inv'
<1>1. CASE UNCHANGED vars
  BY <1>1, LocalStep DEF Inv, History, Counted, DestroyedLate, Awaited, Sleepers, Posters, vars
<1>2. CASE Next
  <2>1. SUFFICES ASSUME Inv, Next PROVE Inv'
    BY <1>2
  <2>2. PICK u \in User : Moves(u)
    BY <2>1, Mover
  <2> QED BY <2>1, <2>2, LocalStep, HistoryStep, CountedStep, DestroyedStep DEF Inv
<1> QED BY <1>1, <1>2

\* Nobody is woken without a post to its semaphore, and a parent that has it for itself
\* destroys it only after its child has posted, however many programs run.
THEOREM WakeCounted == Spec => []WakesNeedPosts
<1>1. Inv => WakesNeedPosts
  <2>1. SUFFICES ASSUME Inv, NEW r \in Run, sem[r] \in destroyed, child[r] # "none", Alone(r)
                 PROVE  r \in posted
    BY DEF Inv, Counted, WakesNeedPosts
  <2>2. r \in woken
    BY <2>1 DEF Inv, DestroyedLate, Alone
  <2>3. sem[r] \in Object /\ Awaited(sem[r])
    BY <2>1 DEF Inv, Local, TypeOK, Awaited
  <2>4. /\ Cardinality(Sleepers(sem[r])) \in Nat /\ IsFiniteSet(Sleepers(sem[r]))
        /\ Cardinality(Posters(sem[r])) \in Nat /\ value[sem[r]] \in Nat
    BY <2>1, <2>3, Finite DEF Inv, Local, TypeOK
  <2>5. Cardinality(Sleepers(sem[r])) # 0
    BY <2>2, <2>4, FS_EmptySet DEF Sleepers
  <2>6. Cardinality(Posters(sem[r])) # 0
    BY <2>1, <2>3, <2>4, <2>5 DEF Inv, Counted
  <2>7. PICK u \in posted : sem[u] = sem[r]
    BY <2>6, FS_EmptySet DEF Posters
  <2>8. u \notin Com2
    BY <2>1, <2>3, <2>7, UserAssumption DEF Inv, Local, Places, User, Object, Names
  <2>9. u \in Run
    BY <2>1, <2>7, <2>8 DEF Inv, Local, TypeOK
  <2> QED BY <2>1, <2>7, <2>9 DEF Alone
<1> QED BY <1>1, InvInit, InvStep, PTL DEF Spec
-----------------------------------------------------------------------------
\* What makes OrphanForGood hold in a step: a semaphore that a Com1 has still to make is
\* under no name and in nobody's hands, so that making it brings no old one back.
Unmade ==
    \A c \in Com1 : pc[c] \in {"unlink", "open"} =>
        name["sem_test"] # c /\ \A u \in User : sem[u] # c

LEMMA UnmadeStep == Local /\ Unmade /\ [Next]_vars => Unmade'
<1>1. CASE UNCHANGED vars
  BY <1>1 DEF Unmade, vars
<1>2. CASE Local /\ Unmade /\ Next
  <2>1. PICK u \in User : Moves(u)
    BY <1>2, Mover
  <2> USE UserAssumption, <1>2 DEF Local, TypeOK, Roles, Places, Unmade, Names, User, Object, Final, Goto
  <2>2. CASE Unlink(u)
    BY <2>1, <2>2 DEF Unlink, SetName
  <2>3. CASE Open(u)
    BY <2>1, <2>3 DEF Open, SetName
  <2>4. CASE OpenExisting(u)
    BY <2>1, <2>4 DEF OpenExisting
  <2>5. CASE Post(u)
    BY <2>1, <2>5 DEF Post
  <2>6. CASE Wait(u)
    BY <2>1, <2>6 DEF Wait
  <2>7. CASE ShmOpen(u)
    BY <2>1, <2>7 DEF ShmOpen, SetName
  <2>8. CASE InitAndFork(u)
    BY <2>1, <2>8 DEF InitAndFork
  <2>9. CASE GetValue(u)
    BY <2>1, <2>9 DEF GetValue
  <2>10. CASE ShmUnlink(u)
    BY <2>1, <2>10 DEF ShmUnlink, SetName
  <2>11. CASE Destroy(u)
    BY <2>1, <2>11 DEF Destroy
  <2>12. CASE Crash(u)
    BY <2>1, <2>12 DEF Crash, Ended
  <2>13. CASE u \in Run /\ ChildPost(u)
    BY <2>1, <2>13 DEF ChildPost
  <2>14. CASE u \in Run /\ ChildGetValue(u)
    BY <2>1, <2>14 DEF ChildGetValue
  <2>15. CASE u \in Run /\ ChildCrash(u)
    BY <2>1, <2>15 DEF ChildCrash
  <2> QED BY <2>1, <2>2, <2>3, <2>4, <2>5, <2>6, <2>7, <2>8, <2>9, <2>10, <2>11, <2>12, <2>13, <2>14, <2>15 DEF Moves, Step, ChildStep
<1> QED BY <1>1, <1>2

LEMMA OrphanStep ==
  ASSUME Local, Unmade, [Next]_vars, NEW c \in Com1, Orphan(c)
  PROVE  Orphan(c)' \/ pc'[c] = "crashed"
<1>1. CASE UNCHANGED vars
  BY <1>1 DEF Orphan, vars
<1>2. CASE Next
  <2>1. PICK u \in User : Moves(u)
    BY <1>2, Mover
  <2> USE UserAssumption DEF Local, TypeOK, Roles, Places, Fresh, Unmade, Names, User, Object, Final, Goto, Orphan
  <2>2. CASE Unlink(u)
    BY <2>1, <2>2 DEF Unlink, SetName
  <2>3. CASE Open(u)
    BY <2>1, <2>3 DEF Open, SetName
  <2>4. CASE OpenExisting(u)
    BY <2>1, <2>4 DEF OpenExisting
  <2>5. CASE Post(u)
    BY <2>1, <2>5 DEF Post
  <2>6. CASE Wait(u)
    BY <2>1, <2>6 DEF Wait
  <2>7. CASE ShmOpen(u)
    BY <2>1, <2>7 DEF ShmOpen, SetName
  <2>8. CASE InitAndFork(u)
    BY <2>1, <2>8 DEF InitAndFork
  <2>9. CASE GetValue(u)
    BY <2>1, <2>9 DEF GetValue
  <2>10. CASE ShmUnlink(u)
    BY <2>1, <2>10 DEF ShmUnlink, SetName
  <2>11. CASE Destroy(u)
    BY <2>1, <2>11 DEF Destroy
  <2>12. CASE Crash(u)
    BY <2>1, <2>12 DEF Crash, Ended
  <2>13. CASE u \in Run /\ ChildPost(u)
    BY <2>1, <2>13 DEF ChildPost
  <2>14. CASE u \in Run /\ ChildGetValue(u)
    BY <2>1, <2>14 DEF ChildGetValue
  <2>15. CASE u \in Run /\ ChildCrash(u)
    BY <2>1, <2>15 DEF ChildCrash
  <2> QED BY <2>1, <2>2, <2>3, <2>4, <2>5, <2>6, <2>7, <2>8, <2>9, <2>10, <2>11, <2>12, <2>13, <2>14, <2>15 DEF Moves, Step, ChildStep
<1> QED BY <1>1, <1>2

\* However many Com1 and Com2 are started, a Com1 whose semaphore was unlinked under it, with
\* no Com2 about to post to that one, never gets on.
THEOREM OrphansWait == Spec => OrphanForGood
<1>1. Init => Unmade
  <2>1. SUFFICES ASSUME Init PROVE Unmade
    OBVIOUS
  <2> QED BY <2>1, UserAssumption DEF Init, Unmade, Names, User, Object
<1>2. Local /\ Unmade /\ [Next]_vars
        => [\A c \in Com1 : Orphan(c) => Orphan(c)' \/ pc'[c] = "crashed"]_vars
  BY OrphanStep
<1> QED BY <1>1, <1>2, LocalInit, LocalStep, UnmadeStep, PTL DEF Spec, OrphanForGood
=============================================================================
