----------------------- MODULE SignalPrograms_proofs -----------------------
(***************************************************************************)
(* Theorems about SignalPrograms: for every bound on the signals that an   *)
(* endless parent sends.                                                   *)
(***************************************************************************)
EXTENDS SignalPrograms, SequenceTheorems, TLAPS

\* The programs whose struct sigaction is not assigned completely.
Careless == {2, 4, 5}

\* The signals that the two processes of program n mention.
Uses(n)  == IF n = 7 THEN RealTime ELSE {USR1}

\* The calls that block.
Blocking == {"sleep", "pause", "read", "sigsuspend", "sigwaitinfo"}

\* What a handler that program n installs has.
Meant(n, h) ==
    /\ h \in Handlers
    /\ n \notin Careless => ~h.reset /\ ~h.nodefer
    /\ n = 7 => h.mask = RealTime
    /\ n = 3 => h.restart

\* A system call of the child of program n: its arguments, and which programs make it.
ChildCall(n, c) ==
    /\ c.op = "sleep" => c.secs \in Nat
    /\ c.op \in {"block", "setmask", "sigwaitinfo"} => c.set \subseteq Signal
    /\ c.op = "sigaction" => n # 9 /\ c.sig \in Uses(n) /\ \A h \in c.handlers : Meant(n, h)
    /\ c.op \in {"open", "read"} => n = 3
    /\ c.op = "exit" => n \notin {1, 3}
    /\ c.op = "goto" => n \in {1, 3} /\ c.to \in {2, 3}

\* The text of the child of program n: where a call leads, and the calls up to Setup.
ChildFits(n, C) ==
    /\ DOMAIN C \subseteq Nat \ {0} /\ {1, 2} \subseteq DOMAIN C
    /\ \A i \in DOMAIN C :
        /\ ChildCall(n, C[i])
        /\ C[i].op \notin {"exit", "goto"} => i + 1 \in DOMAIN C
        /\ C[i].op = "goto" => C[i].to \in DOMAIN C
        /\ C[i].op = "setflag" => n = 2 /\ i = 2
    /\ n \in {1, 2, 3, 5, 6, 7} => C[1].op = "sigaction"
    /\ n = 4 => C[1] = Sleep(2) /\ C[2].op = "sigaction"
    /\ n = 7 => C[1].sig = RT1 /\ C[2].op = "sigaction" /\ C[2].sig = RT2
    /\ n = 8 => /\ DOMAIN C = 1 .. 5
                /\ C[1] = Block({USR1}) /\ C[2].op = "sleep" /\ C[3].op = "sigaction"
                /\ C[4].op = "sigsuspend" /\ C[5].op = "exit"
    /\ n = 9 => /\ DOMAIN C = 1 .. 3
                /\ C[1] = SetMask({USR1}) /\ C[2].op = "sigwaitinfo" /\ C[3].op = "exit"

\* A system call of the parent of program n.
ParentCall(n, c) ==
    /\ c.op = "sleep" => c.secs \in Nat
    /\ c.op = "kill" => c.sig \in Uses(n)
    /\ c.op = "goto" => n \in {1, 3, 4} /\ c.to = 2

\* The text of the parent of program n: it waits first; after its waitpid() it kills no more.
ParentFits(n, P) ==
    /\ DOMAIN P \subseteq Nat \ {0} /\ 1 \in DOMAIN P
    /\ \A i \in DOMAIN P : ParentCall(n, P[i])
    /\ IF n = 2 THEN P[1].op = "awaitflag"
       ELSE P[1].op = "sleep" /\ P[1].secs >= 1 /\ (n = 4 => P[1].secs = 5)
    /\ n \notin {1, 3, 4} => \A i, j \in DOMAIN P :
          P[i].op \in {"waitpid", "waitpid_checked"} /\ j > i => P[j].op # "kill"

-----------------------------------------------------------------------------
(* The texts of the programs. *)

\* Repeat(n, block) is n times as long as its block and has no other elements.
LEMMA RepeatRange ==
    ASSUME NEW n \in Nat, NEW S, NEW block \in Seq(S), block # << >>
    PROVE  Repeat(n, block) \in Seq(S) /\ Len(Repeat(n, block)) = n * Len(block)
<1> DEFINE k == Len(block)
<1>1. k \in Nat /\ k > 0
  OBVIOUS
<1>2. n * k \in Nat
  BY <1>1
<1>3. \A i \in 1 .. n * k : ((i - 1) % k) + 1 \in 1 .. k
  <2> SUFFICES ASSUME NEW i \in 1 .. n * k PROVE ((i - 1) % k) + 1 \in 1 .. k
    OBVIOUS
  <2>1. i - 1 \in Int
    BY <1>2
  <2>2. (i - 1) % k \in 0 .. k - 1
    BY <1>1, <2>1
  <2> HIDE DEF k
  <2>3. QED
    BY <1>1, <2>2
<1>4. \A j \in 1 .. k : block[j] \in S
  OBVIOUS
<1>5. Repeat(n, block) = [i \in 1 .. n * k |-> block[((i - 1) % k) + 1]]
  BY DEF Repeat
<1> HIDE DEF k
<1>6. \A i \in 1 .. n * k : block[((i - 1) % k) + 1] \in S
  BY <1>3, <1>4
<1>7. Repeat(n, block) \in [1 .. n * k -> S]
  BY <1>5, <1>6
<1> QED
  BY <1>1, <1>2, <1>7, LenProperties DEF k

\* The elements of a sequence that was put together from three.
LEMMA Joined ==
    ASSUME NEW T, NEW S \in SUBSET T, NEW a \in Seq(T), NEW b \in Seq(S), NEW c \in Seq(T)
    PROVE  /\ DOMAIN (a \o b \o c) = 1 .. Len(a) + Len(b) + Len(c)
           /\ \A i \in 1 .. Len(a) : (a \o b \o c)[i] = a[i]
           /\ \A i \in Len(a) + 1 .. Len(a) + Len(b) : (a \o b \o c)[i] \in S
           /\ \A i \in 1 .. Len(c) : (a \o b \o c)[Len(a) + Len(b) + i] = c[i]
<1>1. b \in Seq(T) /\ \A i \in 1 .. Len(b) : b[i] \in S
  OBVIOUS
<1>2. a \o b \o c \in Seq(T) /\ Len(a \o b \o c) = Len(a) + Len(b) + Len(c)
  BY <1>1
<1>3. /\ DOMAIN (a \o b \o c) = 1 .. Len(a) + Len(b) + Len(c)
      /\ \A i \in 1 .. Len(a) : (a \o b \o c)[i] = a[i]
      /\ \A i \in Len(a) + 1 .. Len(a) + Len(b) : (a \o b \o c)[i] = b[i - Len(a)]
      /\ \A i \in 1 .. Len(c) : (a \o b \o c)[Len(a) + Len(b) + i] = c[i]
  BY <1>1, <1>2
<1>4. \A i \in Len(a) + 1 .. Len(a) + Len(b) : b[i - Len(a)] \in S
  BY <1>1
<1> QED
  BY <1>3, <1>4

\* The fields of the calls.
LEMMA Ops ==
    /\ \A o : Call(o).op = o
    /\ \A k : Sleep(k).op = "sleep" /\ Sleep(k).secs = k
    /\ \A s : Kill(s).op = "kill" /\ Kill(s).sig = s
    /\ \A S : Block(S).op = "block" /\ Block(S).set = S
    /\ \A S : SetMask(S).op = "setmask" /\ SetMask(S).set = S
    /\ \A S : WaitInfo(S).op = "sigwaitinfo" /\ WaitInfo(S).set = S
    /\ \A i : Goto(i).op = "goto" /\ Goto(i).to = i
    /\ \A s, H : Catch(s, H).op = "sigaction" /\ Catch(s, H).sig = s /\ Catch(s, H).handlers = H
  BY DEF Call, Sleep, Kill, Block, SetMask, WaitInfo, Goto, Catch

\* The calls that fit the child of program n.
LEMMA ChildCalls ==
    ASSUME NEW n
    PROVE  /\ \A o \in {"pause", "restore", "setflag", "sigsuspend"} : ChildCall(n, Call(o))
           /\ n \notin {1, 3} => ChildCall(n, Call("exit"))
           /\ n = 3 => ChildCall(n, Call("open")) /\ ChildCall(n, Call("read"))
           /\ n \in {1, 3} => ChildCall(n, Goto(2)) /\ ChildCall(n, Goto(3))
           /\ \A k \in Nat : ChildCall(n, Sleep(k))
           /\ \A S \in SUBSET Signal :
                ChildCall(n, Block(S)) /\ ChildCall(n, SetMask(S)) /\ ChildCall(n, WaitInfo(S))
           /\ \A s \in Uses(n) : \A H :
                n # 9 /\ (\A h \in H : Meant(n, h)) => ChildCall(n, Catch(s, H))
  BY Ops DEF ChildCall

\* Every child's text fits: the texts that are written out,
LEMMA Text1 == ChildFits(1, Child01)
<1> DEFINE H == Fully({USR1}, TRUE)
<1>1. \A h \in H : Meant(1, h)
  BY DEF Fully, Meant, Careless
<1>2. DOMAIN Child01 = 1 .. 3
  BY DEF Child01
<1>3. /\ Child01[1] = Catch(USR1, H) /\ Child01[2] = Sleep(1) /\ Child01[3] = Goto(2)
  BY DEF Child01
<1> HIDE DEF H
<1>4. /\ Uses(1) = {USR1}
      /\ {USR1} \in SUBSET Signal /\ RealTime \in SUBSET Signal
  BY DEF Uses, RealTime, Signal
<1>5. \A i \in 1 .. 3 : ChildCall(1, Child01[i])
  BY <1>1, <1>3, <1>4, ChildCalls
<1> QED
  BY <1>2, <1>3, <1>5, Ops DEF ChildFits

LEMMA Text2 == ChildFits(2, Child02)
<1> DEFINE H == NoFlags
<1>1. \A h \in H : Meant(2, h)
  BY DEF NoFlags, Meant, Careless
<1>2. DOMAIN Child02 = 1 .. 4
  BY DEF Child02
<1>3. /\ Child02[1] = Catch(USR1, H) /\ Child02[2] = Call("setflag") /\ Child02[3] = Sleep(2)
      /\ Child02[4] = Call("exit")
  BY DEF Child02
<1> HIDE DEF H
<1>4. /\ Uses(2) = {USR1}
      /\ {USR1} \in SUBSET Signal /\ RealTime \in SUBSET Signal
  BY DEF Uses, RealTime, Signal
<1>5. \A i \in 1 .. 4 : ChildCall(2, Child02[i])
  BY <1>1, <1>3, <1>4, ChildCalls
<1> QED
  BY <1>2, <1>3, <1>5, Ops DEF ChildFits

LEMMA Text3 == ChildFits(3, Child03)
<1> DEFINE H == NoMask(TRUE)
<1>1. \A h \in H : Meant(3, h)
  BY DEF NoMask, Meant, Careless
<1>2. DOMAIN Child03 = 1 .. 5
  BY DEF Child03
<1>3. /\ Child03[1] = Catch(USR1, H) /\ Child03[2] = Call("open") /\ Child03[3] = Call("read")
      /\ Child03[4] = Sleep(3) /\ Child03[5] = Goto(3)
  BY DEF Child03
<1> HIDE DEF H
<1>4. /\ Uses(3) = {USR1}
      /\ {USR1} \in SUBSET Signal /\ RealTime \in SUBSET Signal
  BY DEF Uses, RealTime, Signal
<1>5. \A i \in 1 .. 5 : ChildCall(3, Child03[i])
  BY <1>1, <1>3, <1>4, ChildCalls
<1> QED
  BY <1>2, <1>3, <1>5, Ops DEF ChildFits

LEMMA Text5 == ChildFits(5, Child05)
<1> DEFINE H == NoFlags
<1>1. \A h \in H : Meant(5, h)
  BY DEF NoFlags, Meant, Careless
<1>2. DOMAIN Child05 = 1 .. 3
  BY DEF Child05
<1>3. /\ Child05[1] = Catch(USR1, H) /\ Child05[2] = Call("pause") /\ Child05[3] = Call("exit")
  BY DEF Child05
<1> HIDE DEF H
<1>4. /\ Uses(5) = {USR1}
      /\ {USR1} \in SUBSET Signal /\ RealTime \in SUBSET Signal
  BY DEF Uses, RealTime, Signal
<1>5. \A i \in 1 .. 3 : ChildCall(5, Child05[i])
  BY <1>1, <1>3, <1>4, ChildCalls
<1> QED
  BY <1>2, <1>3, <1>5, Ops DEF ChildFits

LEMMA Text6 == ChildFits(6, Child06)
<1> DEFINE H == Fully({}, FALSE)
<1>1. \A h \in H : Meant(6, h)
  BY DEF Fully, Meant, Careless
<1>2. DOMAIN Child06 = 1 .. 3
  BY DEF Child06
<1>3. /\ Child06[1] = Catch(USR1, H) /\ Child06[2] = Call("pause") /\ Child06[3] = Call("exit")
  BY DEF Child06
<1> HIDE DEF H
<1>4. /\ Uses(6) = {USR1}
      /\ {USR1} \in SUBSET Signal /\ RealTime \in SUBSET Signal
  BY DEF Uses, RealTime, Signal
<1>5. \A i \in 1 .. 3 : ChildCall(6, Child06[i])
  BY <1>1, <1>3, <1>4, ChildCalls
<1> QED
  BY <1>2, <1>3, <1>5, Ops DEF ChildFits

LEMMA Text7 == ChildFits(7, Child07)
<1> DEFINE H == Fully(RealTime, FALSE)
<1>1. \A h \in H : Meant(7, h)
  BY DEF Fully, Meant, Careless
<1>2. DOMAIN Child07 = 1 .. 9
  BY DEF Child07
<1>3. /\ Child07[1] = Catch(RT1, H) /\ Child07[2] = Catch(RT2, H) /\ Child07[3] = Block(RealTime)
      /\ Child07[4] = Sleep(8) /\ Child07[5] = Call("restore") /\ Child07[6] = Call("pause")
      /\ Child07[7] = Call("pause") /\ Child07[8] = Call("pause") /\ Child07[9] = Call("exit")
  BY DEF Child07
<1> HIDE DEF H
<1>4. /\ Uses(7) = {RT1, RT2}
      /\ {USR1} \in SUBSET Signal /\ RealTime \in SUBSET Signal
  BY DEF Uses, RealTime, Signal
<1>5. \A i \in 1 .. 9 : ChildCall(7, Child07[i])
  BY <1>1, <1>3, <1>4, ChildCalls
<1> QED
  BY <1>2, <1>3, <1>5, Ops DEF ChildFits

LEMMA Text8 == ChildFits(8, Child08)
<1> DEFINE H == Fully({}, FALSE)
<1>1. \A h \in H : Meant(8, h)
  BY DEF Fully, Meant, Careless
<1>2. DOMAIN Child08 = 1 .. 5
  BY DEF Child08
<1>3. /\ Child08[1] = Block({USR1}) /\ Child08[2] = Sleep(5) /\ Child08[3] = Catch(USR1, H)
      /\ Child08[4] = Call("sigsuspend") /\ Child08[5] = Call("exit")
  BY DEF Child08
<1> HIDE DEF H
<1>4. /\ Uses(8) = {USR1}
      /\ {USR1} \in SUBSET Signal /\ RealTime \in SUBSET Signal
  BY DEF Uses, RealTime, Signal
<1>5. \A i \in 1 .. 5 : ChildCall(8, Child08[i])
  BY <1>1, <1>3, <1>4, ChildCalls
<1> QED
  BY <1>2, <1>3, <1>5, Ops DEF ChildFits

LEMMA Text9 == ChildFits(9, Child09)
<1>2. DOMAIN Child09 = 1 .. 3
  BY DEF Child09
<1>3. /\ Child09[1] = SetMask({USR1}) /\ Child09[2] = WaitInfo({USR1}) /\ Child09[3] = Call("exit")
  BY DEF Child09
<1>4. /\ Uses(9) = {USR1}
      /\ {USR1} \in SUBSET Signal /\ RealTime \in SUBSET Signal
  BY DEF Uses, RealTime, Signal
<1>5. \A i \in 1 .. 3 : ChildCall(9, Child09[i])
  BY <1>3, <1>4, ChildCalls
<1> QED
  BY <1>2, <1>3, <1>5, Ops DEF ChildFits

\* and the one with a loop.
LEMMA Text4 == ChildFits(4, Child04)
<1> DEFINE H == NoFlags
           S == {Block({USR1}), Sleep(1), Call("restore")}
           T == S \cup {Sleep(2), Catch(USR1, H), Call("exit")}
           first == << Sleep(2), Catch(USR1, H) >>
           block == << Block({USR1}), Sleep(1), Call("restore") >>
           last == << Call("exit") >>
           R == Repeat(5, block)
<1>1. \A h \in H : Meant(4, h)
  BY DEF NoFlags, Meant, Careless
<1>2. S \in SUBSET T /\ first \in Seq(T) /\ block \in Seq(S) /\ last \in Seq(T) /\ block # << >>
  OBVIOUS
<1>3. Len(first) = 2 /\ Len(block) = 3 /\ Len(last) = 1
  OBVIOUS
<1>4. first[1] = Sleep(2) /\ first[2] = Catch(USR1, H) /\ last[1] = Call("exit")
  OBVIOUS
<1>5. Child04 = first \o R \o last
  BY DEF Child04
<1> HIDE DEF H, S, T, first, block, last
<1>6. R \in Seq(S) /\ Len(R) = 5 * Len(block)
  BY <1>2, RepeatRange
<1>7. R \in Seq(S)
  BY <1>6
<1>8. Len(R) = 15
  BY <1>3, <1>6
<1> HIDE DEF R
<1>9. /\ DOMAIN Child04 = 1 .. Len(first) + Len(R) + Len(last)
      /\ \A i \in 1 .. Len(first) : Child04[i] = first[i]
      /\ \A i \in Len(first) + 1 .. Len(first) + Len(R) : Child04[i] \in S
      /\ \A i \in 1 .. Len(last) : Child04[Len(first) + Len(R) + i] = last[i]
  BY <1>2, <1>5, <1>7, Joined
<1>10. /\ DOMAIN Child04 = 1 .. 18
       /\ Child04[1] = Sleep(2) /\ Child04[2] = Catch(USR1, H)
       /\ Child04[18] = Call("exit")
       /\ \A i \in 3 .. 17 : Child04[i] \in S
  BY <1>3, <1>4, <1>8, <1>9
<1>11. USR1 \in Uses(4) /\ {USR1} \in SUBSET Signal
  BY DEF Uses, Signal
<1>12. \A c \in S : ChildCall(4, c) /\ c.op \in {"block", "sleep", "restore"}
  BY <1>11, ChildCalls, Ops DEF S
<1>13. ChildCall(4, Child04[1]) /\ ChildCall(4, Child04[2]) /\ ChildCall(4, Child04[18])
  BY <1>1, <1>10, <1>11, ChildCalls
<1>14. \A i \in 1 .. 18 : ChildCall(4, Child04[i])
  BY <1>10, <1>12, <1>13
<1>15. \A i \in 1 .. 17 : Child04[i].op \notin {"exit", "goto", "setflag"}
  BY <1>10, <1>12, Ops
<1>16. Child04[18].op = "exit" /\ Child04[2].op = "sigaction"
  BY <1>10, Ops
<1> QED
  BY <1>10, <1>14, <1>15, <1>16 DEF ChildFits

\* The calls that fit the parent of program n.
LEMMA ParentCalls ==
    ASSUME NEW n
    PROVE  /\ \A o \in {"awaitflag", "waitpid", "waitpid_checked", "exit"} : ParentCall(n, Call(o))
           /\ n \in {1, 3, 4} => ParentCall(n, Goto(2))
           /\ \A k \in Nat : ParentCall(n, Sleep(k))
           /\ \A s \in Uses(n) : ParentCall(n, Kill(s))
  BY Ops DEF ParentCall

\* Every parent's text fits: the texts that are written out,
LEMMA ParentText1 == ParentFits(1, Parent01)
<1>1. DOMAIN Parent01 = 1 .. 5
  BY DEF Parent01
<1>2. /\ Parent01[1] = Sleep(1) /\ Parent01[2] = Kill(USR1) /\ Parent01[3] = Sleep(2)
      /\ Parent01[4] = Call("waitpid") /\ Parent01[5] = Goto(2)
  BY DEF Parent01
<1>3. Uses(1) = {USR1}
  BY DEF Uses, RealTime
<1>4. \A i \in 1 .. 5 : ParentCall(1, Parent01[i])
  BY <1>2, <1>3, ParentCalls
<1> QED
  BY <1>1, <1>2, <1>4, Ops DEF ParentFits

LEMMA ParentText3 == ParentFits(3, Parent03)
<1>1. DOMAIN Parent03 = 1 .. 5
  BY DEF Parent03
<1>2. /\ Parent03[1] = Sleep(8) /\ Parent03[2] = Kill(USR1) /\ Parent03[3] = Sleep(5)
      /\ Parent03[4] = Call("waitpid") /\ Parent03[5] = Goto(2)
  BY DEF Parent03
<1>3. Uses(3) = {USR1}
  BY DEF Uses, RealTime
<1>4. \A i \in 1 .. 5 : ParentCall(3, Parent03[i])
  BY <1>2, <1>3, ParentCalls
<1> QED
  BY <1>1, <1>2, <1>4, Ops DEF ParentFits

LEMMA ParentText4 == ParentFits(4, Parent04)
<1>1. DOMAIN Parent04 = 1 .. 5
  BY DEF Parent04
<1>2. /\ Parent04[1] = Sleep(5) /\ Parent04[2] = Kill(USR1) /\ Parent04[3] = Call("waitpid_checked")
      /\ Parent04[4] = Sleep(1) /\ Parent04[5] = Goto(2)
  BY DEF Parent04
<1>3. Uses(4) = {USR1}
  BY DEF Uses, RealTime
<1>4. \A i \in 1 .. 5 : ParentCall(4, Parent04[i])
  BY <1>2, <1>3, ParentCalls
<1> QED
  BY <1>1, <1>2, <1>4, Ops DEF ParentFits

LEMMA ParentText5 == ParentFits(5, Parent05)
<1>1. DOMAIN Parent05 = 1 .. 4
  BY DEF Parent05
<1>2. /\ Parent05[1] = Sleep(3) /\ Parent05[2] = Kill(USR1) /\ Parent05[3] = Call("waitpid")
      /\ Parent05[4] = Call("exit")
  BY DEF Parent05
<1>3. Uses(5) = {USR1}
  BY DEF Uses, RealTime
<1>4. \A i \in 1 .. 4 : ParentCall(5, Parent05[i])
  BY <1>2, <1>3, ParentCalls
<1> QED
  BY <1>1, <1>2, <1>4, Ops DEF ParentFits

LEMMA ParentText6 == ParentFits(6, Parent06)
<1>1. DOMAIN Parent06 = 1 .. 3
  BY DEF Parent06
<1>2. /\ Parent06[1] = Sleep(3) /\ Parent06[2] = Kill(USR1) /\ Parent06[3] = Call("exit")
  BY DEF Parent06
<1>3. Uses(6) = {USR1}
  BY DEF Uses, RealTime
<1>4. \A i \in 1 .. 3 : ParentCall(6, Parent06[i])
  BY <1>2, <1>3, ParentCalls
<1> QED
  BY <1>1, <1>2, <1>4, Ops DEF ParentFits

LEMMA ParentText7 == ParentFits(7, Parent07)
<1>1. DOMAIN Parent07 = 1 .. 7
  BY DEF Parent07
<1>2. /\ Parent07[1] = Sleep(3) /\ Parent07[2] = Kill(RT1) /\ Parent07[3] = Sleep(1)
      /\ Parent07[4] = Kill(RT2) /\ Parent07[5] = Sleep(1) /\ Parent07[6] = Kill(RT1)
      /\ Parent07[7] = Call("exit")
  BY DEF Parent07
<1>3. Uses(7) = {RT1, RT2}
  BY DEF Uses, RealTime
<1>4. \A i \in 1 .. 7 : ParentCall(7, Parent07[i])
  BY <1>2, <1>3, ParentCalls
<1> QED
  BY <1>1, <1>2, <1>4, Ops DEF ParentFits

LEMMA ParentText9 == ParentFits(9, Parent09)
<1>1. DOMAIN Parent09 = 1 .. 5
  BY DEF Parent09
<1>2. /\ Parent09[1] = Sleep(5) /\ Parent09[2] = Kill(USR1) /\ Parent09[3] = Call("waitpid")
      /\ Parent09[4] = Sleep(5) /\ Parent09[5] = Call("exit")
  BY DEF Parent09
<1>3. Uses(9) = {USR1}
  BY DEF Uses, RealTime
<1>4. \A i \in 1 .. 5 : ParentCall(9, Parent09[i])
  BY <1>2, <1>3, ParentCalls
<1> QED
  BY <1>1, <1>2, <1>4, Ops DEF ParentFits

\* and the two with a loop.
LEMMA ParentText2 == ParentFits(2, Parent02)
<1> DEFINE S == {Kill(USR1)}
           T == S \cup {Call("awaitflag"), Call("waitpid"), Call("exit")}
           first == << Call("awaitflag") >>
           block == << Kill(USR1) >>
           last == << Call("waitpid"), Call("exit") >>
           R == Repeat(10, block)
<1>2. S \in SUBSET T /\ first \in Seq(T) /\ block \in Seq(S) /\ last \in Seq(T) /\ block # << >>
  OBVIOUS
<1>3. Len(first) = 1 /\ Len(block) = 1 /\ Len(last) = 2
  OBVIOUS
<1>4. first[1] = Call("awaitflag") /\ last[1] = Call("waitpid") /\ last[2] = Call("exit")
  OBVIOUS
<1>5. Parent02 = first \o R \o last
  BY DEF Parent02
<1> HIDE DEF S, T, first, block, last
<1>6. R \in Seq(S) /\ Len(R) = 10 * Len(block)
  BY <1>2, RepeatRange
<1>7. R \in Seq(S)
  BY <1>6
<1>8. Len(R) = 10
  BY <1>3, <1>6
<1> HIDE DEF R
<1>9. /\ DOMAIN Parent02 = 1 .. Len(first) + Len(R) + Len(last)
      /\ \A i \in 1 .. Len(first) : Parent02[i] = first[i]
      /\ \A i \in Len(first) + 1 .. Len(first) + Len(R) : Parent02[i] \in S
      /\ \A i \in 1 .. Len(last) : Parent02[Len(first) + Len(R) + i] = last[i]
  BY <1>2, <1>5, <1>7, Joined
<1>10. /\ DOMAIN Parent02 = 1 .. 13
       /\ Parent02[1] = Call("awaitflag")
       /\ Parent02[12] = Call("waitpid") /\ Parent02[13] = Call("exit")
       /\ \A i \in 2 .. 11 : Parent02[i] \in S
  BY <1>3, <1>4, <1>8, <1>9
<1>11. \A c \in S : ParentCall(2, c) /\ c.op = "kill"
  BY ParentCalls, Ops DEF S, Uses
<1>12. ParentCall(2, Parent02[1]) /\ ParentCall(2, Parent02[12]) /\ ParentCall(2, Parent02[13])
  BY <1>10, ParentCalls
<1>13. \A i \in 1 .. 13 : ParentCall(2, Parent02[i])
  BY <1>10, <1>11, <1>12
<1>14. \A i \in 1 .. 11 : Parent02[i].op \notin {"waitpid", "waitpid_checked"}
  BY <1>10, <1>11, Ops
<1>15. Parent02[1].op = "awaitflag" /\ Parent02[13].op # "kill"
  BY <1>10, Ops
<1> QED
  BY <1>10, <1>13, <1>14, <1>15 DEF ParentFits

LEMMA ParentText8 == ParentFits(8, Parent08)
<1> DEFINE S == {Kill(USR1), Sleep(1)}
           T == S \cup {Sleep(1), Call("waitpid"), Call("exit")}
           first == << Sleep(1) >>
           block == << Kill(USR1), Sleep(1) >>
           last == << Call("waitpid"), Call("exit") >>
           R == Repeat(10, block)
<1>2. S \in SUBSET T /\ first \in Seq(T) /\ block \in Seq(S) /\ last \in Seq(T) /\ block # << >>
  OBVIOUS
<1>3. Len(first) = 1 /\ Len(block) = 2 /\ Len(last) = 2
  OBVIOUS
<1>4. first[1] = Sleep(1) /\ last[1] = Call("waitpid") /\ last[2] = Call("exit")
  OBVIOUS
<1>5. Parent08 = first \o R \o last
  BY DEF Parent08
<1> HIDE DEF S, T, first, block, last
<1>6. R \in Seq(S) /\ Len(R) = 10 * Len(block)
  BY <1>2, RepeatRange
<1>7. R \in Seq(S)
  BY <1>6
<1>8. Len(R) = 20
  BY <1>3, <1>6
<1> HIDE DEF R
<1>9. /\ DOMAIN Parent08 = 1 .. Len(first) + Len(R) + Len(last)
      /\ \A i \in 1 .. Len(first) : Parent08[i] = first[i]
      /\ \A i \in Len(first) + 1 .. Len(first) + Len(R) : Parent08[i] \in S
      /\ \A i \in 1 .. Len(last) : Parent08[Len(first) + Len(R) + i] = last[i]
  BY <1>2, <1>5, <1>7, Joined
<1>10. /\ DOMAIN Parent08 = 1 .. 23
       /\ Parent08[1] = Sleep(1)
       /\ Parent08[22] = Call("waitpid") /\ Parent08[23] = Call("exit")
       /\ \A i \in 2 .. 21 : Parent08[i] \in S
  BY <1>3, <1>4, <1>8, <1>9
<1>11. \A c \in S : ParentCall(8, c) /\ c.op \in {"kill", "sleep"}
  <2>1. USR1 \in Uses(8)
    BY DEF Uses
  <2> QED
    BY <2>1, ParentCalls, Ops DEF S
<1>12. ParentCall(8, Parent08[1]) /\ ParentCall(8, Parent08[22]) /\ ParentCall(8, Parent08[23])
  BY <1>10, ParentCalls
<1>13. \A i \in 1 .. 23 : ParentCall(8, Parent08[i])
  BY <1>10, <1>11, <1>12
<1>14. \A i \in 1 .. 21 : Parent08[i].op \notin {"waitpid", "waitpid_checked"}
  BY <1>10, <1>11, Ops
<1>15. /\ Parent08[1].op = "sleep" /\ Parent08[1].secs = 1
       /\ Parent08[22].op # "kill" /\ Parent08[23].op # "kill"
  BY <1>10, Ops
<1> QED
  BY <1>10, <1>13, <1>14, <1>15 DEF ParentFits

\* Every program's two texts fit,
LEMMA Texts ==
    ASSUME NEW n \in DOMAIN Program
    PROVE  /\ n \in 1 .. 9
           /\ ChildFits(n, Program[n].child) /\ ParentFits(n, Program[n].parent)
<1>1. DOMAIN Program = 1 .. 9
  BY DEF Program
<1>2. Program[1].child = Child01 /\ Program[1].parent = Parent01
  BY DEF Program
<1>3. Program[2].child = Child02 /\ Program[2].parent = Parent02
  BY DEF Program
<1>4. Program[3].child = Child03 /\ Program[3].parent = Parent03
  BY DEF Program
<1>5. Program[4].child = Child04 /\ Program[4].parent = Parent04
  BY DEF Program
<1>6. Program[5].child = Child05 /\ Program[5].parent = Parent05
  BY DEF Program
<1>7. Program[6].child = Child06 /\ Program[6].parent = Parent06
  BY DEF Program
<1>8. Program[7].child = Child07 /\ Program[7].parent = Parent07
  BY DEF Program
<1>9. Program[8].child = Child08 /\ Program[8].parent = Parent08
  BY DEF Program
<1>10. Program[9].child = Child09 /\ Program[9].parent = Parent09
  BY DEF Program
<1> QED
  BY <1>1, <1>2, <1>3, <1>4, <1>5, <1>6, <1>7, <1>8, <1>9, <1>10,
     Text1, Text2, Text3, Text4, Text5, Text6, Text7, Text8, Text9,
     ParentText1, ParentText2, ParentText3, ParentText4, ParentText5, ParentText6, ParentText7,
     ParentText8, ParentText9

\* in particular those of the program that runs.
LEMMA TextsHere ==
    ASSUME prog \in DOMAIN Program
    PROVE  prog \in 1 .. 9 /\ ChildFits(prog, Text("child")) /\ ParentFits(prog, Text("parent"))
  BY Texts DEF Text

\* The values of Setup.
LEMMA Setups ==
    /\ Setup[1] = 1 /\ Setup[2] = 1 /\ Setup[3] = 1 /\ Setup[4] = 2 /\ Setup[5] = 1
    /\ Setup[6] = 1 /\ Setup[7] = 2 /\ Setup[8] = 1 /\ Setup[9] = 1
  BY DEF Setup

\* A disposition is that of a handler exactly when it is caught.
LEMMA Dispositions ==
    ASSUME NEW h \in Handlers \cup {Default}
    PROVE  /\ h.caught <=> h \in Handlers
           /\ h.mask \subseteq Signal /\ h.restart \in BOOLEAN
           /\ Default \notin Handlers /\ ~Default.caught /\ ~Default.reset /\ ~Default.nodefer
<1>1. ~Default.caught /\ ~Default.reset /\ ~Default.nodefer /\ Default.mask = {}
  BY DEF Default
<1>2. Default.restart = FALSE
  BY DEF Default
<1>3. \A g \in Handlers : g.caught = TRUE /\ g.mask \subseteq Signal /\ g.restart \in BOOLEAN
  BY DEF Handlers
<1>4. Default \notin Handlers
  BY <1>1, <1>3
<1>5. CASE h \in Handlers
  BY <1>1, <1>3, <1>4, <1>5
<1>6. CASE h = Default
  BY <1>1, <1>2, <1>4, <1>6
<1> QED
  BY <1>5, <1>6

-----------------------------------------------------------------------------
(* The invariant. *)

\* The parts of TypeOK.
PcOK == pc \in [{"child", "parent"} -> Nat \ {0}] /\ inside \in [{"child", "parent"} -> BOOLEAN]
TimerOK == timer \in [{"child", "parent"} -> Nat]
MasksOK  == mask \subseteq Signal /\ saved \subseteq Signal /\ held \subseteq Signal
PendOK == pend \in [Signal -> Nat]
DispOK == disp \in [Signal -> Handlers \cup {Default}]
FramesOK == frames \in Seq(Frame)
LogOK == log \in Seq(Signal)

LifeOK ==
    /\ child \in {"running", "zombie", "reaped"}
    /\ fate \in {"none", "exit", "killed"}
    /\ (fate = "none") <=> (child = "running")

\* They make up TypeOK.
LEMMA TypeParts ==
    TypeOK <=> /\ prog \in DOMAIN Program /\ prompt \in BOOLEAN
               /\ PcOK /\ TimerOK /\ MasksOK /\ PendOK /\ DispOK /\ FramesOK /\ LogOK /\ LifeOK
               /\ flag \in BOOLEAN /\ stray \in BOOLEAN /\ left \in {"no", "open", "data", "error", "EINTR"}
               /\ sent \in Nat /\ report \in {"nothing", "exit", "killed"}
  BY DEF TypeOK, PcOK, TimerOK, MasksOK, PendOK, DispOK, FramesOK, LogOK, LifeOK

\* The child is at a call of its text, and inside it only if it blocks.
InText ==
    /\ pc["child"] \in DOMAIN Text("child")
    /\ inside["child"] => Op("child").op \in Blocking

\* Only signals that the program uses are ever pending.
Own == \A s \in Signal \ Uses(prog) : pend[s] = 0

\* What is installed is what the program installs: with the mask and the flags it assigned.
Installed == \A s \in Signal :
    /\ prog \notin Careless => ~disp[s].reset /\ ~disp[s].nodefer
    /\ disp[s].caught =>
        /\ prog = 7 => disp[s].mask = RealTime
        /\ prog = 3 => disp[s].restart
        /\ prog # 9
        /\ prog = 8 => pc["child"] >= 4
    /\ prog = 7 /\ pc["child"] >= 2 => disp[RT1].caught

\* After Setup every signal the program uses is caught, unless a garbage SA_RESETHAND took
\* effect, or the signal is blocked: up to sigsuspend() in 08, for good in 09.
Caught == pc["child"] > Setup[prog] =>
    \/ prog \in Careless /\ log # << >>
    \/ prog = 8 /\ pc["child"] <= 3
    \/ prog = 9
    \/ \A s \in Uses(prog) : disp[s].caught

\* The handlers of 03 restart the read() they interrupt.
ReadsOn == prog = 3 => \A k \in DOMAIN frames : frames[k].restart

\* Where the mask was assigned, a running handler has every signal of the program blocked.
Turn == prog \notin Careless =>
    Len(frames) <= 1 /\ (frames # << >> => Uses(prog) \subseteq mask)

\* In 08 SIGUSR1 is blocked but while the child is in sigsuspend(), and the handler that ends
\* the call puts the blocking mask back.
Suspends == prog = 8 =>
    /\ Len(log) <= 1
    /\ pc["child"] <= 4 /\ frames = << >> => log = << >>
    /\ pc["child"] \in {2, 3, 5} \/ (pc["child"] = 4 /\ ~inside["child"]) => USR1 \in mask
    /\ pc["child"] = 4 /\ inside["child"] => USR1 \in held
    /\ frames # << >> => pc["child"] = 4 /\ inside["child"] /\ USR1 \in Head(frames).back

\* In 09 SIGUSR1 is never delivered: it is blocked from the first call on.
InfoWait == prog = 9 => frames = << >> /\ (pc["child"] >= 2 => USR1 \in mask)

\* In 02 no signal is sent before the flag is set, which is after sigaction().
Flagged == prog = 2 =>
    /\ pc["child"] <= 2 => ~flag
    /\ ~flag => pc["parent"] = 1 /\ pend[USR1] = 0

\* When sleeps are exact, the parent is still in the sleep() it begins with while the child
\* installs its handlers; in 04 the child sleeps for 2 of those 5 seconds.
Early == prompt /\ prog # 2 /\ pc["child"] <= Setup[prog] =>
    /\ child = "running" /\ frames = << >>
    /\ pc["parent"] = 1 /\ \A s \in Signal : pend[s] = 0
    /\ inside["parent"] => timer["parent"] > 0
    /\ prog = 4 =>
        /\ inside["parent"] =>
            /\ pc["child"] = 1 /\ ~inside["child"] => timer["parent"] = 5
            /\ pc["child"] = 1 /\ inside["child"] => timer["parent"] >= timer["child"] + 3
            /\ pc["child"] = 2 => timer["parent"] >= 3
        /\ inside["child"] => timer["child"] <= 2

\* Where the parent's text ends, no kill() follows the waitpid() that reaped the child; the
\* child of 01 does not exit.
Reaped ==
    /\ prog \notin {1, 3, 4} /\ child = "reaped" =>
        \A i \in DOMAIN Text("parent") : i >= pc["parent"] => Text("parent")[i].op # "kill"
    /\ prog = 1 => fate # "exit"

\* The inductive invariant.
IInv ==
    /\ TypeOK /\ InText /\ Own /\ Installed /\ Caught /\ ReadsOn /\ Turn /\ Suspends /\ InfoWait
    /\ Flagged /\ Early /\ Reaped /\ EndsAsMeant /\ SignalsOwnChild

-----------------------------------------------------------------------------
(* What the steps do. *)

\* What a step does to the child's place in its text: nothing, or one of these.
ChildStays == pc'["child"] = pc["child"] /\ inside'["child"] = inside["child"]

ChildEnters ==
    /\ child = "running" /\ frames = << >> /\ Op("child").op \in Blocking
    /\ Op("child").op = "sleep" \/ Wait
    /\ pc'["child"] = pc["child"] /\ inside'["child"]

ChildAdvances ==
    /\ child = "running" /\ Op("child").op \notin {"exit", "goto"}
    /\ \/ SigAction \/ SigProcMask \/ SetFlag \/ Open
       \/ inside["child"] /\ (LeaveHandler \/ Op("child").op \in {"sleep", "sigwaitinfo", "read"})
    /\ pc'["child"] = pc["child"] + 1 /\ ~inside'["child"]

ChildJumps ==
    /\ child = "running" /\ Op("child").op = "goto" /\ Op("child").to = pc'["child"]
    /\ inside'["child"] = inside["child"]

ChildMoves == ChildStays \/ ChildEnters \/ ChildAdvances \/ ChildJumps

\* It does nothing else, and which program runs is fixed.
LEMMA Moves ==
    ASSUME PcOK, InText, Next
    PROVE  prog' = prog /\ prompt' = prompt /\ ChildMoves
<1> USE DEF PcOK
<1>1. CASE SigAction
  BY <1>1 DEF SigAction, ChildMoves, ChildAdvances, ChildAt, ChildRuns, Advance, runVars
<1>2. CASE SigProcMask
  BY <1>2 DEF SigProcMask, ChildMoves, ChildAdvances, ChildAt, ChildRuns, Advance, runVars
<1>3. CASE SetFlag
  BY <1>3 DEF SetFlag, ChildMoves, ChildAdvances, ChildAt, ChildRuns, Advance, runVars
<1>22. CASE Open
  BY <1>22 DEF Open, Return, ChildMoves, ChildAdvances, ChildStays, ChildAt, ChildRuns, Advance, runVars
<1>4. CASE Wait
  BY <1>4 DEF Wait, ChildMoves, ChildEnters, ChildAt, ChildRuns, Enter, runVars, Blocking
<1>5. CASE SigWaitInfo
  BY <1>5 DEF SigWaitInfo, ChildMoves, ChildAdvances, ChildAt, ChildRuns, Advance, runVars
<1>6. CASE ReadReturns
  BY <1>6 DEF ReadReturns, Return, ChildMoves, ChildAdvances, ChildStays, ChildAt, ChildRuns, Advance, runVars
<1>7. CASE ChildExit
  BY <1>7 DEF ChildExit, ChildMoves, ChildStays, procVars, runVars
<1>8. CASE Kills
  BY <1>8 DEF Kills, ChildMoves, ChildStays, procVars, runVars
<1>9. CASE EnterHandler
  BY <1>9 DEF EnterHandler, ChildMoves, ChildStays, runVars
<1>10. CASE LeaveHandler
  BY <1>10 DEF LeaveHandler, Return, ChildMoves, ChildStays, ChildAdvances, Advance, InText, Blocking, runVars
<1>11. CASE SendSignal
  BY <1>11 DEF SendSignal, ChildMoves, ChildStays, Advance, runVars
<1>12. CASE AwaitFlag
  BY <1>12 DEF AwaitFlag, ChildMoves, ChildStays, Advance, runVars
<1>13. CASE WaitPid
  BY <1>13 DEF WaitPid, ChildMoves, ChildStays, Advance, runVars
<1>14. CASE ParentExit
  BY <1>14 DEF ParentExit, ChildMoves, ChildStays, Advance, runVars
<1>15. CASE StartSleep("child")
  BY <1>15 DEF StartSleep, Runs, ChildRuns, Enter, ChildMoves, ChildEnters, Blocking, runVars
<1>16. CASE StartSleep("parent")
  BY <1>16 DEF StartSleep, Enter, ChildMoves, ChildStays, runVars
<1>17. CASE EndSleep("child")
  BY <1>17 DEF EndSleep, Runs, ChildRuns, Advance, InText, Blocking, ChildMoves, ChildAdvances, runVars
<1>18. CASE EndSleep("parent")
  BY <1>18 DEF EndSleep, Advance, ChildMoves, ChildStays, runVars
<1>19. CASE Jump("child")
  BY <1>19 DEF Jump, Runs, ChildRuns, ChildMoves, ChildJumps, runVars
<1>20. CASE Jump("parent")
  BY <1>20 DEF Jump, ChildMoves, ChildStays, runVars
<1>21. CASE Tick
  BY <1>21 DEF Tick, ChildMoves, ChildStays, runVars
<1> QED
  BY <1>1, <1>2, <1>3, <1>4, <1>5, <1>6, <1>7, <1>8, <1>9, <1>10, <1>11, <1>12, <1>13, <1>14,
     <1>15, <1>16, <1>17, <1>18, <1>19, <1>20, <1>21, <1>22 DEF Next, ChildStep, ParentStep

\* The child does not go back, but for the loops of 01 and 03.
LEMMA ChildGoesOn ==
    ASSUME prog \in DOMAIN Program, PcOK, InText, Next
    PROVE  /\ prog \notin {1, 3} => pc'["child"] >= pc["child"]
           /\ prog \in {1, 3} => pc'["child"] >= pc["child"] \/ pc'["child"] \in {2, 3}
           /\ pc'["child"] \in Nat \ {0}
<1>1. ChildFits(prog, Text("child")) /\ ChildMoves /\ pc["child"] \in Nat \ {0}
  BY TextsHere, Moves DEF PcOK
<1> QED
  BY <1>1 DEF ChildMoves, ChildStays, ChildEnters, ChildAdvances, ChildJumps, ChildFits, ChildCall,
              InText, Op

\* Only sigaction() and sigprocmask() lead past themselves.
LEMMA Sticks ==
    ASSUME prog \in DOMAIN Program, PcOK, InText, Next
    PROVE  /\ Op("child").op = "sigaction" => ChildStays \/ SigAction
           /\ Op("child").op \in {"block", "setmask"} => ChildStays \/ SigProcMask
<1>1. ChildMoves
  BY Moves
<1>2. ASSUME Op("child").op \in {"sigaction", "block", "setmask"}
      PROVE  ChildStays \/ (ChildAdvances /\ (SigAction \/ SigProcMask))
  <2>1. ~inside["child"] /\ ~SetFlag /\ ~Open
    BY <1>2 DEF InText, Blocking, SetFlag, Open, ChildAt
  <2> QED
    BY <1>1, <1>2, <2>1 DEF ChildMoves, ChildEnters, ChildAdvances, ChildJumps, Blocking
<1>3. SigAction => Op("child").op = "sigaction"
  BY DEF SigAction, ChildAt
<1>4. SigProcMask => Op("child").op \in {"block", "setmask", "restore"}
  BY DEF SigProcMask, ChildAt
<1> QED
  BY <1>2, <1>3, <1>4

\* Setup ends with a sigaction(), where it does not end with a sigprocmask().
LEMMA LeavesSetup ==
    ASSUME prog \in DOMAIN Program, PcOK, InText, Next, prog \notin {8, 9},
           pc["child"] <= Setup[prog], pc'["child"] > Setup[prog]
    PROVE  SigAction /\ pc["child"] = Setup[prog]
<1>1. /\ prog \in 1 .. 9 /\ ChildFits(prog, Text("child")) /\ ChildMoves
      /\ pc["child"] \in Nat \ {0}
  BY TextsHere, Moves DEF PcOK
<1>2. ~ChildStays
  BY <1>1, Setups DEF ChildStays
<1>3. prog = 4 /\ pc["child"] = 1 => Op("child").op = "sleep"
  BY <1>1, Ops DEF ChildFits, Op
<1>4. ~(prog = 4 /\ pc["child"] = 1)
  BY <1>1, <1>3, Setups DEF ChildMoves, ChildStays, ChildEnters, ChildAdvances, ChildJumps
<1>5. Op("child").op = "sigaction"
  BY <1>1, <1>4, Setups DEF ChildFits, Op
<1>6. SigAction
  BY <1>2, <1>5, Sticks
<1>7. pc'["child"] = pc["child"] + 1
  BY <1>6 DEF SigAction, Advance, PcOK
<1> QED
  BY <1>1, <1>6, <1>7, Setups

\* A step that neither changes the mask nor enters or leaves a handler.
Calm == UNCHANGED << mask, held, disp, frames, log >>

\* The other steps are five actions.
LEMMA SignalMoves ==
    ASSUME Next
    PROVE  Calm \/ SigAction \/ SigProcMask \/ Wait \/ EnterHandler \/ LeaveHandler
<1>1. CASE SetFlag \/ Open \/ SigWaitInfo \/ ReadReturns \/ ChildExit \/ Kills
  BY <1>1 DEF SetFlag, Open, SigWaitInfo, ReadReturns, ChildExit, Kills, Calm, signalVars
<1>2. CASE ParentStep
  BY <1>2 DEF ParentStep, SendSignal, AwaitFlag, WaitPid, ParentExit, StartSleep, EndSleep, Jump,
              Calm, signalVars
<1>3. CASE StartSleep("child") \/ EndSleep("child") \/ Jump("child") \/ Tick
  BY <1>3 DEF StartSleep, EndSleep, Jump, Tick, Calm, signalVars
<1> QED
  BY <1>1, <1>2, <1>3 DEF Next, ChildStep

\* The actions that change what is pending.
LEMMA PendMoves ==
    ASSUME Next
    PROVE  pend' = pend \/ SendSignal \/ SigWaitInfo \/ EnterHandler
<1>1. CASE SigAction \/ SigProcMask \/ SetFlag \/ Open \/ Wait \/ ReadReturns \/ ChildExit \/ Kills
           \/ LeaveHandler
  BY <1>1 DEF SigAction, SigProcMask, SetFlag, Open, Wait, ReadReturns, ChildExit, Kills,
              LeaveHandler, signalVars
<1>2. CASE ParentStep
  BY <1>2 DEF ParentStep, AwaitFlag, WaitPid, ParentExit, StartSleep, EndSleep, Jump, signalVars
<1>3. CASE StartSleep("child") \/ EndSleep("child") \/ Jump("child") \/ Tick
  BY <1>3 DEF StartSleep, EndSleep, Jump, Tick, signalVars
<1> QED
  BY <1>1, <1>2, <1>3 DEF Next, ChildStep

\* The signal that is delivered is one that is pending and not blocked.
LEMMA NextIsPending ==
    ASSUME PendOK, Deliverable(pend, mask) # {}
    PROVE  /\ NextSignal(pend, mask) \in Signal
           /\ pend[NextSignal(pend, mask)] > 0 /\ NextSignal(pend, mask) \notin mask
<1> DEFINE D == Deliverable(pend, mask)
<1>1. D \subseteq Signal
  BY DEF Deliverable
<1>2. Number[USR1] = 10 /\ Number[RT1] = 34 /\ Number[RT2] = 35
  BY DEF Number, Signal, USR1, RT1, RT2
<1>3. \E s \in D : \A t \in D : Number[s] <= Number[t]
  <2>1. CASE USR1 \in D
    BY <1>1, <1>2, <2>1 DEF Signal
  <2>2. CASE USR1 \notin D /\ RT1 \in D
    BY <1>1, <1>2, <2>2 DEF Signal
  <2>3. CASE USR1 \notin D /\ RT1 \notin D
    BY <1>1, <1>2, <2>3 DEF Signal
  <2> QED
    BY <2>1, <2>2, <2>3
<1>4. NextSignal(pend, mask) \in D
  BY <1>3 DEF NextSignal
<1> QED
  BY <1>4 DEF Deliverable

\* Consume() and Post() change the count of one signal.
LEMMA ConsumeProps ==
    ASSUME PendOK, NEW s \in Signal, pend[s] > 0
    PROVE  /\ Consume(pend, s) \in [Signal -> Nat]
           /\ \A t \in Signal \ {s} : Consume(pend, s)[t] = pend[t]
           /\ Consume(pend, s)[s] = pend[s] - 1
  BY DEF Consume, PendOK

LEMMA PostProps ==
    ASSUME PendOK, NEW s \in Signal
    PROVE  /\ Post(pend, s) \in [Signal -> Nat]
           /\ \A t \in Signal \ {s} : Post(pend, s)[t] = pend[t]
  BY DEF Post, PendOK

\* As long as no signal is pending, none is delivered.
LEMMA NoneSent ==
    ASSUME PendOK, \A s \in Signal : pend[s] = 0, Next, InText, prog \in DOMAIN Program
    PROVE  /\ pend' = pend \/ SendSignal
           /\ Deliverable(pend, mask) = {}
           /\ ~EnterHandler /\ ~Kills /\ ~SigWaitInfo
<1>1. Deliverable(pend, mask) = {}
  BY DEF Deliverable
<1>2. ~SigWaitInfo
  <2> SUFFICES ASSUME SigWaitInfo PROVE FALSE
    OBVIOUS
  <2>1. Op("child").set \subseteq Signal
    BY TextsHere DEF SigWaitInfo, ChildAt, Op, InText, ChildFits, ChildCall
  <2>2. PICK s \in Op("child").set : pend[s] > 0
    BY DEF SigWaitInfo
  <2> QED
    BY <2>1, <2>2
<1> QED
  BY <1>1, <1>2, PendMoves DEF EnterHandler, Kills

\* sigaction() installs a handler that the program means.
LEMMA Installs ==
    ASSUME prog \in DOMAIN Program, PcOK, InText, DispOK, SigAction
    PROVE  /\ prog # 9 /\ Op("child").op = "sigaction" /\ Op("child").sig \in Uses(prog)
           /\ Op("child").sig \in Signal
           /\ \E h \in Handlers : /\ Meant(prog, h)
                                /\ disp' = [disp EXCEPT ![Op("child").sig] = h]
           /\ pc'["child"] = pc["child"] + 1
           /\ UNCHANGED << prog, log, frames, mask, held >>
<1>1. ChildFits(prog, Text("child")) /\ Uses(prog) \subseteq Signal
  BY TextsHere DEF Uses, RealTime, Signal
<1>2. Op("child").op = "sigaction" /\ ChildCall(prog, Op("child"))
  BY <1>1 DEF SigAction, ChildAt, Op, InText, ChildFits
<1>3. PICK h \in Op("child").handlers : disp' = [disp EXCEPT ![Op("child").sig] = h]
  BY DEF SigAction
<1>4. Meant(prog, h) /\ h \in Handlers
  BY <1>2, <1>3 DEF ChildCall, Meant
<1>5. /\ pc'["child"] = pc["child"] + 1
      /\ UNCHANGED << prog, log, frames, mask, held >>
  BY DEF SigAction, Advance, PcOK, runVars
<1> QED
  BY <1>1, <1>2, <1>3, <1>4, <1>5 DEF ChildCall

\* The delivery of s: its effect, and that s is a signal of the program that is caught.
Delivers(s) ==
    LET h == disp[s]
        suspended == frames = << >> /\ inside["child"] /\ Op("child").op = "sigsuspend"
    IN  /\ s \in Signal /\ s \in Uses(prog) /\ s \notin mask
        /\ child = "running" /\ h \in Handlers /\ h.caught
        /\ disp' = IF h.reset THEN [disp EXCEPT ![s] = Default] ELSE disp
        /\ mask' = HandlerMask(mask, h, s)
        /\ log' = Append(log, s)
        /\ frames' = << [sig |-> s, restart |-> h.restart,
                         back |-> IF suspended THEN held ELSE mask] >> \o frames
        /\ UNCHANGED << prog, pc, inside, held >>

\* A handler is entered only by such a delivery.
LEMMA Enters ==
    ASSUME prog \in DOMAIN Program, PendOK, Own, DispOK, EnterHandler
    PROVE  \E s \in Signal : Delivers(s)
<1> DEFINE s == NextSignal(pend, mask)
<1>1. s \in Signal /\ pend[s] > 0 /\ s \notin mask
  BY NextIsPending DEF EnterHandler
<1>2. s \in Uses(prog)
  BY <1>1 DEF Own
<1>3. disp[s].caught
  BY DEF EnterHandler
<1>4. disp[s] \in Handlers
  BY <1>1, <1>3, Dispositions DEF DispOK
<1>5. Delivers(s)
  BY <1>1, <1>2, <1>3, <1>4 DEF EnterHandler, Delivers, runVars
<1> QED
  BY <1>1, <1>5

\* The frames when one is added,
LEMMA Pushed ==
    ASSUME FramesOK, NEW f \in Frame
    PROVE  /\ << f >> \o frames \in Seq(Frame)
           /\ Len(<< f >> \o frames) = Len(frames) + 1
           /\ Head(<< f >> \o frames) = f
           /\ \A k \in DOMAIN (<< f >> \o frames) :
                (<< f >> \o frames)[k] = f \/ \E j \in DOMAIN frames : (<< f >> \o frames)[k] = frames[j]
<1> DEFINE g == << f >>
<1>1. g \in Seq(Frame) /\ Len(g) = 1 /\ g[1] = f
  OBVIOUS
<1> HIDE DEF g
<1>2. /\ g \o frames \in Seq(Frame) /\ Len(g \o frames) = Len(g) + Len(frames)
      /\ \A k \in 1 .. Len(g) + Len(frames) :
           (g \o frames)[k] = IF k <= Len(g) THEN g[k] ELSE frames[k - Len(g)]
  BY <1>1, ConcatProperties DEF FramesOK
<1>3. /\ Len(frames) \in Nat /\ DOMAIN frames = 1 .. Len(frames)
      /\ DOMAIN (g \o frames) = 1 .. Len(g \o frames)
  BY <1>2, LenProperties DEF FramesOK
<1>4. Len(g \o frames) = Len(frames) + 1 /\ (g \o frames)[1] = f
  BY <1>1, <1>2, <1>3
<1>5. Head(g \o frames) = f
  BY <1>2, <1>3, <1>4
<1>6. ASSUME NEW k \in DOMAIN (g \o frames)
      PROVE  (g \o frames)[k] = f \/ \E j \in DOMAIN frames : (g \o frames)[k] = frames[j]
  <2>1. CASE k = 1
    BY <1>4, <2>1
  <2>2. CASE k # 1
    <3>1. (g \o frames)[k] = frames[k - 1] /\ k - 1 \in DOMAIN frames
      BY <1>1, <1>2, <1>3, <2>2
    <3> QED
      BY <3>1
  <2> QED
    BY <2>1, <2>2
<1> QED
  BY <1>2, <1>4, <1>5, <1>6 DEF g

\* and when one is removed.
LEMMA Popped ==
    ASSUME FramesOK, frames # << >>
    PROVE  /\ Tail(frames) \in Seq(Frame) /\ Len(Tail(frames)) = Len(frames) - 1
           /\ Head(frames) \in Frame
           /\ \A k \in DOMAIN Tail(frames) : \E j \in DOMAIN frames : Tail(frames)[k] = frames[j]
<1>1. /\ Tail(frames) \in Seq(Frame) /\ Len(Tail(frames)) = Len(frames) - 1
      /\ Head(frames) \in Frame /\ Len(frames) \in Nat
  BY DEF FramesOK
<1>2. ASSUME NEW k \in DOMAIN Tail(frames)
      PROVE  \E j \in DOMAIN frames : Tail(frames)[k] = frames[j]
  <2>1. k \in 1 .. Len(frames) - 1
    BY <1>1
  <2>2. Tail(frames)[k] = frames[k + 1] /\ k + 1 \in DOMAIN frames
    BY <2>1 DEF FramesOK
  <2> QED
    BY <2>2
<1> QED
  BY <1>1, <1>2

\* The frame of the handler of s.
Interrupts(f, s) ==
    /\ f \in Frame /\ f.restart = disp[s].restart
    /\ f.back = IF frames = << >> /\ inside["child"] /\ Op("child").op = "sigsuspend"
                THEN held ELSE mask
    /\ frames' = << f >> \o frames

\* A delivery adds such a frame.
LEMMA Interrupted ==
    ASSUME NEW s \in Signal, Delivers(s), MasksOK
    PROVE  \E f : Interrupts(f, s)
<1> DEFINE b == IF frames = << >> /\ inside["child"] /\ Op("child").op = "sigsuspend"
                THEN held ELSE mask
           f == [sig |-> s, restart |-> disp[s].restart, back |-> b]
<1>1. b \in SUBSET Signal
  BY DEF MasksOK
<1>2. disp[s].restart \in BOOLEAN
  BY Dispositions DEF Delivers
<1>3. f \in Frame
  BY <1>1, <1>2 DEF Frame
<1>4. f.restart = disp[s].restart /\ f.back = b
  OBVIOUS
<1>5. frames' = << f >> \o frames
  BY DEF Delivers
<1> QED
  BY <1>3, <1>4, <1>5 DEF Interrupts

\* The parent's place.  A step of the child leaves it alone,
ParentStays ==
    /\ pc'["parent"] = pc["parent"] /\ inside'["parent"] = inside["parent"]
    /\ timer'["parent"] = timer["parent"]

LEMMA ParentIdles ==
    ASSUME PcOK, TimerOK, ChildStep \/ ReadReturns
    PROVE  ParentStays /\ UNCHANGED << sent, report, stray >>
<1> USE DEF PcOK, TimerOK, ParentStays
<1>1. CASE SigAction \/ SigProcMask \/ SetFlag \/ SigWaitInfo
  BY <1>1 DEF SigAction, SigProcMask, SetFlag, SigWaitInfo, Advance, parentVars
<1>2. CASE Open \/ Wait \/ ReadReturns
  BY <1>2 DEF Open, Wait, ReadReturns, Return, Advance, Enter, parentVars
<1>3. CASE ChildExit \/ Kills \/ EnterHandler
  BY <1>3 DEF ChildExit, Kills, EnterHandler, procVars, parentVars
<1>4. CASE LeaveHandler
  BY <1>4 DEF LeaveHandler, Return, Advance, parentVars
<1>5. CASE StartSleep("child") \/ EndSleep("child") \/ Jump("child")
  BY <1>5 DEF StartSleep, EndSleep, Jump, Advance, Enter, parentVars
<1> QED
  BY <1>1, <1>2, <1>3, <1>4, <1>5 DEF ChildStep

\* a step of the parent leaves the child's alone,
LEMMA ChildIdles ==
    ASSUME PcOK, TimerOK, ParentStep
    PROVE  ChildStays /\ timer'["child"] = timer["child"] /\ UNCHANGED << frames, fate, flag, left, log >>
<1> USE DEF PcOK, TimerOK, ChildStays
<1>1. CASE SendSignal \/ AwaitFlag \/ WaitPid \/ ParentExit
  BY <1>1 DEF SendSignal, AwaitFlag, WaitPid, ParentExit, Advance, signalVars
<1>2. CASE StartSleep("parent") \/ EndSleep("parent") \/ Jump("parent")
  BY <1>2 DEF StartSleep, EndSleep, Jump, Advance, Enter, signalVars
<1> QED
  BY <1>1, <1>2 DEF ParentStep

ParentAdvances == pc'["parent"] = pc["parent"] + 1 /\ ~inside'["parent"]

\* and leads on, into a sleep, to a jump, or back to *flg.
LEMMA ParentMoves ==
    ASSUME PcOK, TimerOK, ParentStep
    PROVE  /\ pc["parent"] \in DOMAIN Text("parent")
           /\ \/ pc'["parent"] = pc["parent"] /\ Op("parent").op = "awaitflag"
              \/ pc'["parent"] = pc["parent"] /\ StartSleep("parent")
              \/ ParentAdvances /\ Op("parent").op # "awaitflag"
              \/ ParentAdvances /\ flag
              \/ Op("parent").op = "goto"
<1> USE DEF PcOK, TimerOK, ParentAdvances
<1>1. CASE SendSignal
  BY <1>1 DEF SendSignal, ParentAt, Advance
<1>2. CASE AwaitFlag
  BY <1>2 DEF AwaitFlag, ParentAt, Advance
<1>3. CASE WaitPid
  BY <1>3 DEF WaitPid, ParentAt, Advance
<1>4. CASE ParentExit
  BY <1>4 DEF ParentExit, ParentAt, Advance
<1>5. CASE StartSleep("parent")
  BY <1>5 DEF StartSleep, Runs, Enter
<1>6. CASE EndSleep("parent")
  BY <1>6 DEF EndSleep, Runs, Advance
<1>7. CASE Jump("parent")
  BY <1>7 DEF Jump, Runs
<1> QED
  BY <1>1, <1>2, <1>3, <1>4, <1>5, <1>6, <1>7 DEF ParentStep

\* The parent does not go back, but for the loops of 01, 03 and 04.
LEMMA ParentGoesOn ==
    ASSUME prog \in DOMAIN Program, PcOK, TimerOK, Next
    PROVE  pc'["parent"] >= pc["parent"] \/ prog \in {1, 3, 4}
<1>1. ParentFits(prog, Text("parent")) /\ pc["parent"] \in Nat
  BY TextsHere DEF PcOK
<1>2. CASE ParentStep
  BY <1>1, <1>2, ParentMoves DEF ParentAdvances, ParentFits, ParentCall, Op, StartSleep, Enter
<1>3. CASE ChildStep \/ ReadReturns
  BY <1>1, <1>3, ParentIdles DEF ParentStays
<1>4. CASE Tick
  BY <1>1, <1>4 DEF Tick
<1> QED
  BY <1>2, <1>3, <1>4 DEF Next

\* Only the child of 02 sets the flag.
LEMMA FlagMoves == Next => flag' = flag \/ (SetFlag /\ flag' = TRUE)
<1> SUFFICES ASSUME Next PROVE flag' = flag \/ (SetFlag /\ flag' = TRUE)
  OBVIOUS
<1>1. CASE SigAction \/ SigProcMask \/ SetFlag \/ Wait \/ SigWaitInfo \/ ChildExit
  BY <1>1 DEF SigAction, SigProcMask, SetFlag, Wait, SigWaitInfo, ChildExit
<1>5. CASE Open \/ ReadReturns
  BY <1>5 DEF Open, ReadReturns
<1>2. CASE Kills \/ EnterHandler \/ LeaveHandler
  BY <1>2 DEF Kills, EnterHandler, LeaveHandler
<1>3. CASE ParentStep
  BY <1>3 DEF ParentStep, SendSignal, AwaitFlag, WaitPid, ParentExit, StartSleep, EndSleep, Jump
<1>4. CASE StartSleep("child") \/ EndSleep("child") \/ Jump("child") \/ Tick
  BY <1>4 DEF StartSleep, EndSleep, Jump, Tick
<1> QED
  BY <1>1, <1>2, <1>3, <1>4, <1>5 DEF Next, ChildStep

\* How the child's end comes about.
LEMMA LifeMoves ==
    ASSUME Next
    PROVE  \/ UNCHANGED << child, fate >>
           \/ WaitPid /\ fate' = fate /\ child' = (IF child = "zombie" THEN "reaped" ELSE child)
           \/ /\ child = "running" /\ child' = "zombie"
              /\ \/ fate' = "killed" /\ Kills
                 \/ fate' = "exit" /\ Op("child").op \in {"exit", "open", "read"}
<1>1. CASE SigAction \/ SigProcMask \/ SetFlag \/ Wait \/ SigWaitInfo
  BY <1>1 DEF SigAction, SigProcMask, SetFlag, Wait, SigWaitInfo
<1>2. CASE Open \/ ReadReturns
  BY <1>2 DEF Open, ReadReturns, Return, ChildAt, ChildRuns
<1>3. CASE ChildExit
  BY <1>3 DEF ChildExit, ChildAt, ChildRuns
<1>4. CASE Kills
  BY <1>4 DEF Kills
<1>5. CASE EnterHandler
  BY <1>5 DEF EnterHandler
<1>6. CASE LeaveHandler
  BY <1>6 DEF LeaveHandler, Return
<1>7. CASE WaitPid
  BY <1>7 DEF WaitPid
<1>8. CASE SendSignal \/ AwaitFlag \/ ParentExit
  BY <1>8 DEF SendSignal, AwaitFlag, ParentExit
<1>9. CASE StartSleep("child") \/ EndSleep("child") \/ Jump("child") \/ Tick
  BY <1>9 DEF StartSleep, EndSleep, Jump, Tick
<1>10. CASE StartSleep("parent") \/ EndSleep("parent") \/ Jump("parent")
  BY <1>10 DEF StartSleep, EndSleep, Jump
<1> QED
  BY <1>1, <1>2, <1>3, <1>4, <1>5, <1>6, <1>7, <1>8, <1>9, <1>10 DEF Next, ChildStep, ParentStep

\* A signal ends a read() only if its handler does not restart it.
LEMMA LeftMoves ==
    ASSUME Next
    PROVE  \/ left' = left \/ left' \in {"open", "data", "error"}
           \/ Op("child").op = "read" /\ frames # << >> /\ ~Head(frames).restart /\ left' = "EINTR"
<1>1. CASE SigAction \/ SigProcMask \/ SetFlag \/ Wait \/ SigWaitInfo \/ ChildExit
  BY <1>1 DEF SigAction, SigProcMask, SetFlag, Wait, SigWaitInfo, ChildExit
<1>2. CASE Open \/ ReadReturns
  BY <1>2 DEF Open, ReadReturns, Return
<1>3. CASE Kills \/ EnterHandler
  BY <1>3 DEF Kills, EnterHandler
<1>4. CASE LeaveHandler
  BY <1>4 DEF LeaveHandler, Return
<1>5. CASE ParentStep
  BY <1>5 DEF ParentStep, SendSignal, AwaitFlag, WaitPid, ParentExit, StartSleep, EndSleep, Jump
<1>6. CASE StartSleep("child") \/ EndSleep("child") \/ Jump("child") \/ Tick
  BY <1>6 DEF StartSleep, EndSleep, Jump, Tick
<1> QED
  BY <1>1, <1>2, <1>3, <1>4, <1>5, <1>6 DEF Next, ChildStep

\* The child ends once, and is reaped once.
LEMMA LifeStep ==
    ASSUME LifeOK, Next
    PROVE  LifeOK' /\ (fate # "none" => fate' = fate) /\ (child = "reaped" => child' = "reaped")
  BY LifeMoves DEF LifeOK

-----------------------------------------------------------------------------
(* The parts of the invariant, one by one. *)

\* The types of the places after a call.
LEMMA AdvanceOK ==
    ASSUME PcOK, NEW p \in {"child", "parent"}
    PROVE  /\ Advance(p) => PcOK'
           /\ Enter(p) => PcOK'
           /\ UNCHANGED << pc, inside >> => PcOK'
<1>1. ASSUME Advance(p) PROVE PcOK'
  <2>1. /\ pc' = [pc EXCEPT ![p] = @ + 1] /\ inside' = [inside EXCEPT ![p] = FALSE]
    BY <1>1 DEF Advance
  <2>2. pc[p] + 1 \in Nat \ {0}
    BY DEF PcOK
  <2>3. pc' \in [{"child", "parent"} -> Nat \ {0}]
    BY <2>1, <2>2 DEF PcOK
  <2>4. inside' \in [{"child", "parent"} -> BOOLEAN]
    BY <2>1 DEF PcOK
  <2> QED
    BY <2>3, <2>4 DEF PcOK
<1>2. ASSUME Enter(p) PROVE PcOK'
  BY <1>2 DEF Enter, PcOK
<1>3. ASSUME UNCHANGED << pc, inside >> PROVE PcOK'
  BY <1>3 DEF PcOK
<1> QED
  BY <1>1, <1>2, <1>3

\* Every part of the invariant is kept by every step.
LEMMA PcStep ==
    ASSUME prog \in DOMAIN Program, PcOK, TimerOK, InText, Next
    PROVE  PcOK' /\ TimerOK'
<1>1. /\ ChildFits(prog, Text("child")) /\ ParentFits(prog, Text("parent"))
  BY TextsHere
<1>2. CASE SigAction \/ SigProcMask \/ SetFlag \/ SigWaitInfo
  <2>1. Advance("child") /\ timer' = timer
    BY <1>2 DEF SigAction, SigProcMask, SetFlag, SigWaitInfo
  <2> QED
    BY <2>1, AdvanceOK DEF TimerOK
<1>3. CASE Open \/ Wait \/ ReadReturns
  <2>1. (Advance("child") \/ Enter("child") \/ UNCHANGED << pc, inside >>) /\ timer' = timer
    BY <1>3 DEF Open, Wait, ReadReturns, Return
  <2> QED
    BY <2>1, AdvanceOK DEF TimerOK
<1>4. CASE ChildExit \/ Kills
  BY <1>4 DEF ChildExit, Kills, procVars, PcOK, TimerOK
<1>5. CASE EnterHandler
  <2>1. Delay(HandlerSleep(prog)) \in Nat
    BY DEF Delay, HandlerSleep
  <2> QED
    BY <1>5, <2>1 DEF EnterHandler, PcOK, TimerOK
<1>6. CASE LeaveHandler
  <2>1. (Advance("child") \/ UNCHANGED << pc, inside >>) /\ timer' = timer
    BY <1>6 DEF LeaveHandler, Return
  <2> QED
    BY <2>1, AdvanceOK DEF TimerOK
<1>7. CASE SendSignal \/ WaitPid \/ ParentExit
  <2>1. Advance("parent") /\ timer' = timer
    BY <1>7 DEF SendSignal, WaitPid, ParentExit
  <2> QED
    BY <2>1, AdvanceOK DEF TimerOK
<1>8. CASE AwaitFlag
  <2>1. Delay(2) \in Nat
    BY DEF Delay
  <2> QED
    BY <1>8, <2>1, AdvanceOK DEF AwaitFlag, PcOK, TimerOK
<1>9. CASE StartSleep("child")
  <2>1. Op("child").secs \in Nat
    BY <1>1, <1>9 DEF StartSleep, InText, ChildFits, ChildCall, Op
  <2>2. Delay(Op("child").secs) \in Nat
    BY <2>1 DEF Delay
  <2> QED
    BY <1>9, <2>2, AdvanceOK DEF StartSleep, TimerOK
<1>10. CASE StartSleep("parent")
  <2>1. Op("parent").secs \in Nat
    BY <1>1, <1>10 DEF StartSleep, Runs, ParentFits, ParentCall, Op
  <2>2. Delay(Op("parent").secs) \in Nat
    BY <2>1 DEF Delay
  <2> QED
    BY <1>10, <2>2, AdvanceOK DEF StartSleep, TimerOK
<1>11. CASE EndSleep("child") \/ EndSleep("parent")
  <2>1. PICK p \in {"child", "parent"} : EndSleep(p)
    BY <1>11
  <2>2. timer' = timer /\ (Advance(p) \/ (pc' = pc /\ inside' = [inside EXCEPT ![p] = FALSE]))
    BY <2>1 DEF EndSleep
  <2> QED
    BY <2>2, AdvanceOK DEF PcOK, TimerOK
<1>12. CASE Jump("child")
  <2>1. Op("child").to \in {2, 3}
    BY <1>1, <1>12 DEF Jump, InText, ChildFits, ChildCall, Op
  <2> QED
    BY <1>12, <2>1 DEF Jump, PcOK, TimerOK
<1>13. CASE Jump("parent")
  <2>1. Op("parent").to = 2
    BY <1>1, <1>13 DEF Jump, Runs, ParentFits, ParentCall, Op
  <2> QED
    BY <1>13, <2>1 DEF Jump, PcOK, TimerOK
<1>14. CASE Tick
  BY <1>14 DEF Tick, PcOK, TimerOK
<1> QED
  BY <1>2, <1>3, <1>4, <1>5, <1>6, <1>7, <1>8, <1>9, <1>10, <1>11, <1>12, <1>13, <1>14
     DEF Next, ChildStep, ParentStep

LEMMA MasksStep ==
    ASSUME prog \in DOMAIN Program, PcOK, InText, PendOK, Own, DispOK, LogOK, FramesOK, MasksOK, Next
    PROVE  MasksOK' /\ LogOK'
<1>1. CASE EnterHandler
  <2>1. PICK s \in Signal : Delivers(s)
    BY <1>1, Enters
  <2>2. mask' \subseteq Signal
    BY <2>1, Dispositions DEF Delivers, HandlerMask, MasksOK
  <2>3. log' \in Seq(Signal)
    BY <2>1 DEF Delivers, LogOK
  <2> QED
    BY <1>1, <2>2, <2>3 DEF EnterHandler, MasksOK, LogOK
<1>2. CASE LeaveHandler
  <2>1. Head(frames) \in Frame
    BY <1>2, Popped DEF LeaveHandler
  <2>2. Head(frames).back \subseteq Signal
    BY <2>1 DEF Frame
  <2> QED
    BY <1>2, <2>2 DEF LeaveHandler, MasksOK, LogOK
<1>3. CASE SigProcMask
  <2>1. Op("child").op \in {"block", "setmask"} => Op("child").set \subseteq Signal
    BY TextsHere DEF InText, ChildFits, ChildCall, Op
  <2> QED
    BY <1>3, <2>1 DEF SigProcMask, ChildAt, MasksOK, LogOK
<1>4. CASE Wait
  BY <1>4 DEF Wait, MasksOK, LogOK
<1>5. CASE SigAction
  BY <1>5 DEF SigAction, MasksOK, LogOK
<1>6. CASE SetFlag \/ Open \/ SigWaitInfo \/ ReadReturns \/ ChildExit \/ Kills
  BY <1>6 DEF SetFlag, Open, SigWaitInfo, ReadReturns, ChildExit, Kills, signalVars, MasksOK, LogOK
<1>7. CASE ParentStep
  BY <1>7 DEF ParentStep, SendSignal, AwaitFlag, WaitPid, ParentExit, StartSleep, EndSleep, Jump,
              signalVars, MasksOK, LogOK
<1>8. CASE StartSleep("child") \/ EndSleep("child") \/ Jump("child") \/ Tick
  BY <1>8 DEF StartSleep, EndSleep, Jump, Tick, signalVars, MasksOK, LogOK
<1> QED
  BY <1>1, <1>2, <1>3, <1>4, <1>5, <1>6, <1>7, <1>8 DEF Next, ChildStep

LEMMA ReportStep ==
    ASSUME TypeOK, Next
    PROVE  /\ flag' \in BOOLEAN /\ stray' \in BOOLEAN /\ left' \in {"no", "open", "data", "error", "EINTR"}
           /\ sent' \in Nat /\ report' \in {"nothing", "exit", "killed"}
<1>1. flag' \in BOOLEAN
  BY FlagMoves DEF TypeOK
<1>2. left' \in {"no", "open", "data", "error", "EINTR"}
  BY LeftMoves DEF TypeOK
<1>3. CASE SendSignal
  <2>1. report' = report /\ sent' = sent + 1 /\ stray' \in BOOLEAN
    BY <1>3 DEF SendSignal
  <2> QED
    BY <1>1, <1>2, <2>1 DEF TypeOK
<1>4. CASE WaitPid
  <2>1. /\ stray' = stray /\ sent' = sent
        /\ report' \in CASE child = "zombie" -> {fate}
                          [] child = "running" /\ Op("parent").op = "waitpid_checked" -> {report}
                          [] OTHER -> {"exit", "killed"}
    BY <1>4 DEF WaitPid
  <2>2. CASE child = "zombie"
    <3>1. report' = fate
      BY <2>1, <2>2, Zenon
    <3> QED
      BY <1>1, <1>2, <2>1, <2>2, <3>1 DEF TypeOK
  <2>3. CASE child # "zombie"
    <3>1. report' = report \/ report' \in {"exit", "killed"}
      BY <2>1, <2>3, Zenon
    <3>2. stray' = stray /\ sent' = sent
      BY <2>1, Zenon
    <3> QED
      BY <1>1, <1>2, <3>1, <3>2 DEF TypeOK
  <2> QED
    BY <2>2, <2>3
<1>5. CASE UNCHANGED << sent, report, stray >>
  BY <1>1, <1>2, <1>5 DEF TypeOK
<1>6. SendSignal \/ WaitPid \/ UNCHANGED << sent, report, stray >>
  <2>1. CASE ParentStep
    BY <2>1 DEF ParentStep, AwaitFlag, ParentExit, StartSleep, EndSleep, Jump, parentVars
  <2>2. CASE ChildStep \/ ReadReturns
    BY <2>2, ParentIdles DEF TypeOK, PcOK, TimerOK
  <2>3. CASE Tick
    BY <2>3 DEF Tick, parentVars
  <2> QED
    BY <2>1, <2>2, <2>3 DEF Next
<1> QED
  BY <1>3, <1>4, <1>5, <1>6

LEMMA InTextStep ==
    ASSUME prog \in DOMAIN Program, PcOK, InText, Next
    PROVE  InText'
<1>1. ChildFits(prog, Text("child")) /\ prog' = prog /\ ChildMoves
  BY TextsHere, Moves
<1>2. Text("child")' = Text("child")
  BY <1>1 DEF Text
<1>3. CASE ChildStays
  BY <1>2, <1>3 DEF ChildStays, InText, Op
<1>4. CASE ChildEnters
  BY <1>2, <1>4 DEF ChildEnters, InText, Op
<1>5. CASE ChildAdvances
  BY <1>1, <1>2, <1>5 DEF ChildAdvances, InText, ChildFits, Op
<1>6. CASE ChildJumps
  <2>1. ~inside["child"]
    BY <1>6 DEF ChildJumps, InText, Blocking
  <2> QED
    BY <1>1, <1>2, <1>6, <2>1 DEF ChildJumps, InText, ChildFits, ChildCall, Op, PcOK
<1> QED
  BY <1>1, <1>3, <1>4, <1>5, <1>6 DEF ChildMoves

LEMMA OwnStep ==
    ASSUME prog \in DOMAIN Program, PcOK, InText, PendOK, Own, Next
    PROVE  PendOK' /\ Own'
<1>1. prog' = prog /\ ChildFits(prog, Text("child")) /\ ParentFits(prog, Text("parent"))
      /\ Uses(prog) \subseteq Signal
  BY TextsHere, Moves DEF Uses, RealTime, Signal
<1>2. CASE pend' = pend
  BY <1>1, <1>2 DEF Own, PendOK
<1>3. CASE SendSignal
  <2> DEFINE s == Op("parent").sig
  <2>1. s \in Uses(prog)
    BY <1>1, <1>3 DEF SendSignal, ParentAt, Op, ParentFits, ParentCall
  <2>2. pend' = pend \/ pend' = Post(pend, s)
    BY <1>3 DEF SendSignal
  <2> HIDE DEF s
  <2> QED
    BY <1>1, <2>1, <2>2, PostProps DEF Own, PendOK
<1>4. CASE SigWaitInfo
  <2>1. Op("child").set \subseteq Signal
    BY <1>1, <1>4 DEF SigWaitInfo, ChildAt, Op, InText, ChildFits, ChildCall
  <2>2. PICK s \in Op("child").set : pend[s] > 0 /\ pend' = Consume(pend, s)
    BY <1>4 DEF SigWaitInfo
  <2> QED
    BY <1>1, <2>1, <2>2, ConsumeProps DEF Own, PendOK
<1>5. CASE EnterHandler
  <2> DEFINE s == NextSignal(pend, mask)
  <2>1. s \in Signal /\ pend[s] > 0
    BY <1>5, NextIsPending DEF EnterHandler
  <2>2. pend' = Consume(pend, s)
    BY <1>5 DEF EnterHandler
  <2> HIDE DEF s
  <2> QED
    BY <1>1, <2>1, <2>2, ConsumeProps DEF Own, PendOK
<1> QED
  BY <1>2, <1>3, <1>4, <1>5, PendMoves

LEMMA InstalledStep ==
    ASSUME prog \in DOMAIN Program, PcOK, InText, PendOK, Own, DispOK, Installed, Next
    PROVE  DispOK' /\ Installed'
<1>1. prog' = prog /\ ChildFits(prog, Text("child")) /\ prog \in 1 .. 9 /\ ChildMoves
  BY TextsHere, Moves
<1>2. pc'["child"] >= pc["child"] \/ prog \notin {7, 8}
  BY <1>1, ChildGoesOn
<1>3. CASE SigAction
  <2>1. PICK h \in Handlers : Meant(prog, h) /\ disp' = [disp EXCEPT ![Op("child").sig] = h]
    BY <1>3, Installs
  <2>2. /\ prog # 9 /\ Op("child").op = "sigaction" /\ Op("child").sig \in Signal
        /\ pc'["child"] = pc["child"] + 1 /\ pc["child"] \in Nat
    BY <1>3, Installs DEF PcOK
  <2>3. DispOK'
    BY <2>1, <2>2 DEF DispOK
  <2>4. prog = 8 => pc'["child"] >= 4
    BY <1>1, <2>2, Ops DEF ChildFits, InText, Op
  <2>5. prog = 7 /\ pc["child"] = 1 => Op("child").sig = RT1
    BY <1>1 DEF ChildFits, Op
  <2>6. h.caught
    BY Dispositions
  <2>7. \A s \in Signal : disp'[s] = IF s = Op("child").sig THEN h ELSE disp[s]
    BY <2>1, <2>2 DEF DispOK
  <2>8. prog = 7 /\ pc'["child"] >= 2 => disp'[RT1].caught
    BY <2>2, <2>5, <2>6, <2>7 DEF Installed, Signal
  <2> QED
    BY <1>1, <2>1, <2>2, <2>3, <2>4, <2>7, <2>8 DEF Installed, Meant
<1>4. CASE EnterHandler
  <2>1. PICK s \in Signal : Delivers(s)
    BY <1>4, Enters
  <2>2. /\ pc' = pc /\ disp' = IF disp[s].reset THEN [disp EXCEPT ![s] = Default] ELSE disp
    BY <2>1 DEF Delivers
  <2>3. DispOK'
    BY <2>2 DEF DispOK
  <2>4. \A t \in Signal : disp'[t] = disp[t] \/ (disp'[t] = Default /\ prog \in Careless)
    BY <2>2 DEF DispOK, Installed
  <2>5. ~Default.caught /\ 7 \notin Careless
    BY DEF Default, Careless
  <2> QED
    BY <1>1, <2>2, <2>3, <2>4, <2>5 DEF Installed, Signal
<1>5. CASE disp' = disp /\ ~SigAction
  <2>1. DispOK'
    BY <1>5 DEF DispOK
  <2>2. prog = 7 /\ pc["child"] = 1 => pc'["child"] = 1
    <3> SUFFICES ASSUME prog = 7, pc["child"] = 1 PROVE pc'["child"] = 1
      OBVIOUS
    <3>1. Op("child").op = "sigaction"
      BY <1>1 DEF ChildFits, Op
    <3>2. ~inside["child"] /\ ~SigProcMask /\ ~SetFlag /\ ~Open
      BY <3>1 DEF InText, Blocking, SigProcMask, SetFlag, Open, ChildAt
    <3> QED
      BY <1>1, <1>5, <3>1, <3>2 DEF ChildMoves, ChildStays, ChildEnters, ChildAdvances, ChildJumps, Blocking
  <2>3. prog = 7 /\ pc'["child"] >= 2 => pc["child"] >= 2
    BY <1>1, <2>2, <1>2 DEF PcOK
  <2>4. prog = 8 /\ pc["child"] >= 4 => pc'["child"] >= 4
    BY <1>2, ChildGoesOn DEF PcOK
  <2> QED
    BY <1>1, <1>5, <2>1, <2>3, <2>4 DEF Installed
<1> QED
  BY <1>3, <1>4, <1>5, SignalMoves DEF Calm, SigProcMask, Wait, LeaveHandler

LEMMA CaughtStep ==
    ASSUME prog \in DOMAIN Program, PcOK, InText, PendOK, Own, DispOK, LogOK,
           Installed, Caught, Next
    PROVE  Caught'
<1>1. /\ prog' = prog /\ ChildFits(prog, Text("child")) /\ prog \in 1 .. 9 /\ ChildMoves
      /\ pc["child"] \in Nat \ {0} /\ pc'["child"] \in Nat \ {0}
  BY TextsHere, Moves, ChildGoesOn DEF PcOK
<1> SUFFICES ASSUME pc'["child"] > Setup[prog], prog # 9,
                    ~(prog = 8 /\ pc'["child"] <= 3)
             PROVE  \/ prog \in Careless /\ log' # << >>
                    \/ \A s \in Uses(prog) : disp'[s].caught
  BY <1>1 DEF Caught
<1>2. CASE SigAction
  <2>1. PICK h \in Handlers : disp' = [disp EXCEPT ![Op("child").sig] = h]
    BY <1>2, Installs
  <2>2. /\ Op("child").op = "sigaction" /\ Op("child").sig \in Uses(prog)
        /\ Op("child").sig \in Signal /\ log' = log /\ pc'["child"] = pc["child"] + 1
    BY <1>2, Installs
  <2>3. h.caught
    BY Dispositions
  <2>4. \A s \in Signal : disp'[s] = IF s = Op("child").sig THEN h ELSE disp[s]
    BY <2>1, <2>2 DEF DispOK
  <2>5. CASE prog # 7
    BY <2>2, <2>3, <2>4, <2>5 DEF Uses
  <2>6. CASE prog = 7 /\ pc["child"] > 2
    <3>1. \A s \in Uses(prog) : disp[s].caught
      BY <2>6, Setups DEF Caught, Careless
    <3> QED
      BY <2>3, <2>4, <2>6, <3>1 DEF Uses, RealTime, Signal
  <2>7. CASE prog = 7 /\ pc["child"] = 2
    <3>1. Op("child").sig = RT2
      BY <1>1, <2>7 DEF ChildFits, Op
    <3>2. disp[RT1].caught
      BY <2>7 DEF Installed, Signal
    <3> QED
      BY <2>3, <2>4, <2>7, <3>1, <3>2 DEF Uses, RealTime, Signal
  <2> QED
    BY <1>1, <2>2, <2>5, <2>6, <2>7, Setups
<1>3. CASE EnterHandler
  <2>1. PICK s \in Signal : Delivers(s)
    BY <1>3, Enters
  <2>2. /\ pc' = pc /\ disp' = IF disp[s].reset THEN [disp EXCEPT ![s] = Default] ELSE disp
        /\ log' = Append(log, s)
    BY <2>1 DEF Delivers
  <2>3. log' # << >>
    BY <2>2 DEF LogOK
  <2>4. prog \notin Careless => disp' = disp
    BY <2>2 DEF Installed
  <2> QED
    BY <2>2, <2>3, <2>4 DEF Caught
<1>4. CASE disp' = disp /\ log' = log /\ ~SigAction
  <2>1. pc["child"] > Setup[prog] \/ prog = 8
    BY <1>1, <1>4, LeavesSetup, Setups
  <2>2. ASSUME prog = 8 PROVE pc["child"] > 3
    <3>1. /\ Text("child")[1].op = "block" /\ Text("child")[2].op = "sleep"
          /\ Text("child")[3].op = "sigaction"
      BY <1>1, <2>2, Ops DEF ChildFits
    <3>2. pc["child"] # 3
      BY <1>4, <2>2, <3>1, Sticks DEF Op, ChildStays
    <3>3. pc["child"] # 1 /\ pc["child"] # 2
      BY <1>1, <2>2, <3>1 DEF ChildMoves, ChildStays, ChildEnters, ChildAdvances, ChildJumps, Op
    <3> QED
      BY <1>1, <3>2, <3>3
  <2>3. pc["child"] > Setup[prog] /\ ~(prog = 8 /\ pc["child"] <= 3)
    BY <1>1, <2>1, <2>2, Setups
  <2> QED
    BY <1>4, <2>3 DEF Caught
<1> QED
  BY <1>2, <1>3, <1>4, SignalMoves DEF Calm, SigProcMask, Wait, LeaveHandler

LEMMA FramesStep ==
    ASSUME prog \in DOMAIN Program, PcOK, InText, PendOK, Own, DispOK, FramesOK, MasksOK,
           Installed, ReadsOn, Next
    PROVE  FramesOK' /\ ReadsOn'
<1>1. prog' = prog
  BY Moves
<1>2. CASE EnterHandler
  <2>1. PICK s \in Signal : Delivers(s)
    BY <1>2, Enters
  <2>2. PICK f : Interrupts(f, s)
    BY <2>1, Interrupted
  <2>3. /\ frames' \in Seq(Frame)
        /\ \A k \in DOMAIN frames' : frames'[k] = f \/ \E j \in DOMAIN frames : frames'[k] = frames[j]
    BY <2>2, Pushed DEF Interrupts
  <2>4. prog = 3 => f.restart
    BY <2>1, <2>2 DEF Delivers, Interrupts, Installed
  <2> QED
    BY <1>1, <2>3, <2>4 DEF FramesOK, ReadsOn
<1>3. CASE LeaveHandler
  <2>1. frames # << >> /\ frames' = Tail(frames)
    BY <1>3 DEF LeaveHandler
  <2> QED
    BY <1>1, <2>1, Popped DEF FramesOK, ReadsOn
<1>4. CASE frames' = frames
  BY <1>1, <1>4 DEF FramesOK, ReadsOn
<1> QED
  BY <1>2, <1>3, <1>4, SignalMoves DEF Calm, SigAction, SigProcMask, Wait

LEMMA TurnStep ==
    ASSUME prog \in DOMAIN Program, PcOK, InText, PendOK, Own, DispOK, FramesOK, MasksOK,
           Installed, Turn, Next
    PROVE  Turn'
<1>1. prog' = prog /\ prog \in 1 .. 9
  BY TextsHere, Moves
<1> SUFFICES ASSUME prog \notin Careless
             PROVE  Len(frames') <= 1 /\ (frames' # << >> => Uses(prog) \subseteq mask')
  BY <1>1 DEF Turn
<1>2. CASE EnterHandler
  <2>1. PICK s \in Signal : Delivers(s)
    BY <1>2, Enters
  <2>2. PICK f : Interrupts(f, s)
    BY <2>1, Interrupted
  <2>3. frames = << >>
    BY <2>1 DEF Turn, Delivers
  <2>4. Len(frames') = Len(frames) + 1
    BY <2>2, Pushed DEF Interrupts
  <2>5. Len(frames') = 1
    BY <2>3, <2>4
  <2>6. s \in Uses(prog) /\ ~disp[s].nodefer /\ (prog = 7 => disp[s].mask = RealTime)
    BY <2>1 DEF Delivers, Installed
  <2>7. mask' = mask \cup disp[s].mask \cup {s}
    BY <2>1, <2>6 DEF Delivers, HandlerMask
  <2>8. Uses(prog) \subseteq mask'
    BY <2>6, <2>7 DEF Uses
  <2> QED
    BY <2>5, <2>8
<1>3. CASE LeaveHandler
  <2>1. frames # << >> /\ frames' = Tail(frames)
    BY <1>3 DEF LeaveHandler
  <2>2. Len(frames') = Len(frames) - 1 /\ frames' \in Seq(Frame) /\ Len(frames) <= 1
    BY <2>1, Popped DEF Turn
  <2>3. Len(frames') = 0
    BY <2>2 DEF FramesOK
  <2> QED
    BY <2>2, <2>3
<1>4. CASE frames' = frames /\ mask' = mask
  BY <1>4 DEF Turn
<1>5. CASE frames' = frames /\ frames = << >>
  BY <1>5 DEF Turn
<1> QED
  BY <1>2, <1>3, <1>4, <1>5, SignalMoves DEF Calm, SigAction, SigProcMask, Wait, ChildAt, ChildRuns

LEMMA SuspendsStep ==
    ASSUME prog \in DOMAIN Program, PcOK, InText, PendOK, Own, DispOK, LogOK, FramesOK, MasksOK,
           Installed, Turn, Suspends, Next
    PROVE  Suspends'
<1>1. prog' = prog /\ ChildFits(prog, Text("child")) /\ ChildMoves
  BY TextsHere, Moves
<1> SUFFICES ASSUME prog = 8
             PROVE  /\ Len(log') <= 1
                    /\ pc'["child"] <= 4 /\ frames' = << >> => log' = << >>
                    /\ pc'["child"] \in {2, 3, 5} \/ (pc'["child"] = 4 /\ ~inside'["child"]) => USR1 \in mask'
                    /\ pc'["child"] = 4 /\ inside'["child"] => USR1 \in held'
                    /\ frames' # << >> =>
                        pc'["child"] = 4 /\ inside'["child"] /\ USR1 \in Head(frames').back
  BY <1>1 DEF Suspends
<1>2. /\ pc["child"] \in 1 .. 5
      /\ pc["child"] = 1 => Op("child").op = "block" /\ Op("child").set = {USR1}
      /\ pc["child"] = 2 => Op("child").op = "sleep"
      /\ pc["child"] = 3 => Op("child").op = "sigaction"
      /\ pc["child"] = 4 => Op("child").op = "sigsuspend"
      /\ pc["child"] = 5 => Op("child").op = "exit"
  BY <1>1, Ops DEF InText, ChildFits, Op
<1>3. CASE SigAction
  <2>1. /\ Op("child").op = "sigaction" /\ frames = << >> /\ UNCHANGED << log, frames, mask, held >>
    BY <1>3, Installs DEF SigAction, ChildAt, ChildRuns
  <2>2. pc'["child"] = 4 /\ ~inside'["child"] /\ pc["child"] = 3
    BY <1>2, <1>3, <2>1 DEF SigAction, Advance, PcOK
  <2> QED
    BY <2>1, <2>2 DEF Suspends
<1>4. CASE SigProcMask
  <2>1. /\ Op("child").op \in {"block", "setmask", "restore"} /\ frames = << >>
        /\ UNCHANGED << log, frames, held >>
    BY <1>4 DEF SigProcMask, ChildAt, ChildRuns
  <2>2. pc'["child"] = 2 /\ ~inside'["child"] /\ pc["child"] = 1
    BY <1>2, <1>4, <2>1 DEF SigProcMask, Advance, PcOK
  <2>3. USR1 \in mask'
    BY <1>2, <1>4, <2>2 DEF SigProcMask, ChildAt
  <2> QED
    BY <2>1, <2>2, <2>3 DEF Suspends
<1>5. CASE Wait
  <2>1. /\ Op("child").op \in {"pause", "read", "sigwaitinfo", "sigsuspend"} /\ frames = << >>
        /\ UNCHANGED << log, frames, pc >> /\ ~inside["child"] /\ inside'["child"]
    BY <1>5 DEF Wait, ChildAt, ChildRuns, Enter, PcOK
  <2>2. pc["child"] = 4 /\ Op("child").op = "sigsuspend"
    BY <1>2, <2>1
  <2>3. held' = mask /\ USR1 \in mask
    BY <1>5, <2>1, <2>2 DEF Wait, Suspends
  <2> QED
    BY <2>1, <2>2, <2>3 DEF Suspends
<1>6. CASE EnterHandler
  <2>1. PICK s \in Signal : Delivers(s)
    BY <1>6, Enters
  <2>2. PICK f : Interrupts(f, s)
    BY <2>1, Interrupted
  <2>3. /\ s = USR1 /\ USR1 \notin mask /\ disp[USR1].caught /\ USR1 \in Signal
        /\ UNCHANGED << pc, inside, held >> /\ log' = Append(log, s)
    BY <2>1 DEF Delivers, Uses
  <2>4. frames = << >>
    BY <2>1 DEF Turn, Delivers, Careless
  <2>5. pc["child"] = 4 /\ inside["child"]
    BY <1>2, <2>3 DEF Suspends, Installed
  <2>6. log = << >> /\ USR1 \in held
    BY <2>4, <2>5 DEF Suspends
  <2>7. Len(log') = 1
    BY <2>3, <2>6
  <2>8. f.back = held
    BY <1>2, <2>2, <2>4, <2>5 DEF Interrupts
  <2>9. Head(frames') = f /\ frames' # << >>
    <3>1. Len(frames') = Len(frames) + 1 /\ Head(frames') = f
      BY <2>2, Pushed DEF Interrupts
    <3>2. Len(frames') = 1
      BY <2>4, <3>1
    <3> QED
      BY <3>1, <3>2
  <2> QED
    BY <2>3, <2>5, <2>6, <2>7, <2>8, <2>9
<1>7. CASE LeaveHandler
  <2>1. frames # << >> /\ frames' = Tail(frames) /\ mask' = Head(frames).back /\ UNCHANGED << log, held >>
    BY <1>7 DEF LeaveHandler
  <2>2. /\ pc["child"] = 4 /\ inside["child"] /\ USR1 \in mask' /\ Len(frames) <= 1
        /\ Op("child").op = "sigsuspend"
    BY <1>2, <2>1 DEF Suspends, Turn, Careless
  <2>3. ~(Len(frames) > 1)
    BY <2>2 DEF FramesOK
  <2>4. Advance("child")
    BY <1>7, <2>2, <2>3 DEF LeaveHandler
  <2>5. pc'["child"] = 5 /\ ~inside'["child"]
    BY <2>2, <2>4 DEF Advance, PcOK
  <2>6. Len(frames') = Len(frames) - 1 /\ frames' \in Seq(Frame)
    BY <2>1, Popped
  <2>7. frames' = << >>
    BY <2>2, <2>6 DEF FramesOK
  <2> QED
    BY <2>1, <2>2, <2>5, <2>7 DEF Suspends
<1>8. CASE Calm /\ ~Wait /\ ~SigAction /\ ~SigProcMask /\ ~LeaveHandler
  <2>1. UNCHANGED << mask, held, frames, log >>
    BY <1>8 DEF Calm
  <2>2. CASE ChildStays
    BY <2>1, <2>2 DEF ChildStays, Suspends
  <2>3. CASE ChildEnters
    <3>1. pc["child"] = 2 /\ pc'["child"] = 2 /\ frames = << >>
      BY <1>2, <1>8, <2>3 DEF ChildEnters
    <3> QED
      BY <2>1, <3>1 DEF Suspends
  <2>4. CASE ChildAdvances
    <3>1. ~SetFlag /\ ~Open
      BY <1>2 DEF SetFlag, Open, ChildAt
    <3>2. inside["child"] /\ Op("child").op \in {"sleep", "sigwaitinfo", "read"}
      BY <1>8, <2>4, <3>1 DEF ChildAdvances
    <3>3. pc["child"] = 2 /\ pc'["child"] = 3
      BY <1>2, <2>4, <3>2 DEF ChildAdvances
    <3> QED
      BY <2>1, <3>3 DEF Suspends
  <2>5. ~ChildJumps
    BY <1>2 DEF ChildJumps
  <2> QED
    BY <1>1, <2>2, <2>3, <2>4, <2>5 DEF ChildMoves
<1> QED
  BY <1>3, <1>4, <1>5, <1>6, <1>7, <1>8, SignalMoves

LEMMA InfoWaitStep ==
    ASSUME prog \in DOMAIN Program, PcOK, InText, PendOK, Own, DispOK, Installed, InfoWait, Next
    PROVE  InfoWait'
<1>1. prog' = prog /\ ChildFits(prog, Text("child")) /\ ChildMoves /\ pc["child"] \in Nat \ {0}
  BY TextsHere, Moves DEF PcOK
<1> SUFFICES ASSUME prog = 9
             PROVE  frames' = << >> /\ (pc'["child"] >= 2 => USR1 \in mask')
  BY <1>1 DEF InfoWait
<1>2. /\ pc["child"] \in 1 .. 3
      /\ pc["child"] = 1 => Op("child").op = "setmask" /\ Op("child").set = {USR1}
      /\ pc["child"] = 2 => Op("child").op = "sigwaitinfo"
      /\ pc["child"] = 3 => Op("child").op = "exit"
  BY <1>1, Ops DEF InText, ChildFits, Op
<1>3. ~SigAction /\ ~EnterHandler /\ ~LeaveHandler
  <2>1. ~EnterHandler
    <3> SUFFICES ASSUME EnterHandler PROVE FALSE
      OBVIOUS
    <3>1. PICK s \in Signal : Delivers(s)
      BY Enters
    <3> QED
      BY <3>1 DEF Delivers, Installed
  <2> QED
    BY <1>2, <2>1 DEF SigAction, ChildAt, LeaveHandler, InfoWait
<1>4. CASE SigProcMask
  <2>1. Op("child").op \in {"block", "setmask", "restore"} /\ UNCHANGED frames
    BY <1>4 DEF SigProcMask, ChildAt
  <2>2. Op("child").op = "setmask" /\ Op("child").set = {USR1}
    BY <1>2, <2>1
  <2>3. mask' = {USR1}
    BY <1>4, <2>2 DEF SigProcMask, ChildAt
  <2> QED
    BY <2>1, <2>3 DEF InfoWait
<1>5. CASE (Calm \/ Wait) /\ ~SigProcMask
  <2>1. UNCHANGED << frames, mask >>
    <3>1. Op("child").op # "sigsuspend"
      BY <1>2
    <3> QED
      BY <1>5, <3>1 DEF Calm, Wait
  <2>2. pc["child"] = 1 => pc'["child"] = 1
    BY <1>2, <1>5, Sticks DEF ChildStays
  <2> QED
    BY <1>2, <2>1, <2>2 DEF InfoWait
<1> QED
  BY <1>3, <1>4, <1>5, SignalMoves

LEMMA FlaggedStep ==
    ASSUME prog \in DOMAIN Program, PcOK, TimerOK, InText, PendOK, Own, Flagged, Next
    PROVE  Flagged'
<1>1. /\ prog' = prog /\ ChildFits(prog, Text("child")) /\ ParentFits(prog, Text("parent"))
      /\ pc["child"] \in Nat /\ pc'["child"] \in Nat
  BY TextsHere, Moves, ChildGoesOn DEF PcOK
<1> SUFFICES ASSUME prog = 2
             PROVE  /\ pc'["child"] <= 2 => ~flag'
                    /\ ~flag' => pc'["parent"] = 1 /\ pend'[USR1] = 0
  BY <1>1 DEF Flagged
<1>2. pc'["child"] >= pc["child"]
  BY ChildGoesOn
<1>3. pc'["child"] <= 2 => ~flag'
  <2>1. CASE flag' = flag
    BY <1>1, <1>2, <2>1 DEF Flagged
  <2>2. CASE SetFlag
    <3>1. pc["child"] = 2
      BY <1>1, <2>2 DEF SetFlag, ChildAt, ChildFits, InText, Op
    <3>2. pc'["child"] = 3
      BY <2>2, <3>1 DEF SetFlag, Advance, PcOK
    <3> QED
      BY <3>2
  <2> QED
    BY <2>1, <2>2, FlagMoves
<1>4. ASSUME ~flag' PROVE pc'["parent"] = 1 /\ pend'[USR1] = 0
  <2>1. ~flag
    BY <1>4, FlagMoves
  <2>2. pc["parent"] = 1 /\ pend[USR1] = 0 /\ USR1 \in Signal
    BY <2>1 DEF Flagged, Signal
  <2>3. \A s \in Signal : pend[s] = 0
    BY <2>2 DEF Own, Uses
  <2>4. Op("parent").op = "awaitflag"
    BY <1>1, <2>2 DEF ParentFits, Op
  <2>5. ~SendSignal
    BY <2>4 DEF SendSignal, ParentAt
  <2>6. pend' = pend
    BY <2>3, <2>5, NoneSent
  <2>7. pc'["parent"] = pc["parent"]
    <3>1. CASE ParentStep
      <4>1. ~StartSleep("parent")
        BY <2>4 DEF StartSleep
      <4> QED
        BY <2>1, <2>4, <3>1, <4>1, ParentMoves
    <3>2. CASE ChildStep \/ ReadReturns
      BY <3>2, ParentIdles DEF ParentStays
    <3>3. CASE Tick
      BY <3>3 DEF Tick
    <3> QED
      BY <3>1, <3>2, <3>3 DEF Next
  <2> QED
    BY <2>2, <2>6, <2>7
<1> QED
  BY <1>3, <1>4

\* While the child is setting up, and sleeps are exact, nobody is signalled.
LEMMA SettingUp ==
    ASSUME prog \in DOMAIN Program, PcOK, TimerOK, InText, PendOK, Early, Next,
           prompt, prog # 2, pc["child"] <= Setup[prog]
    PROVE  /\ Op("child").op \in {"sigaction", "block", "setmask", "sleep"}
           /\ Op("child").op = "sleep" <=> prog = 4 /\ pc["child"] = 1
           /\ Op("child").op = "sleep" => Op("child").secs = 2
           /\ Op("parent").op = "sleep" /\ Op("parent").secs \in Nat \ {0}
           /\ prog = 4 => Op("parent").secs = 5
           /\ pc["parent"] \in DOMAIN Text("parent")
           /\ UNCHANGED << child, frames, pend >>
<1>1. /\ ChildFits(prog, Text("child")) /\ ParentFits(prog, Text("parent"))
      /\ pc["child"] \in Nat \ {0} /\ prog \in 1 .. 9
  BY TextsHere DEF PcOK
<1>2. prog # 4 => pc["child"] = 1 \/ (prog = 7 /\ pc["child"] = 2)
  BY <1>1, Setups
<1>3. prog = 4 => pc["child"] \in {1, 2}
  BY <1>1, Setups
<1>4. /\ Op("child").op \in {"sigaction", "block", "setmask", "sleep"}
      /\ Op("child").op = "sleep" <=> prog = 4 /\ pc["child"] = 1
      /\ Op("child").op = "sleep" => Op("child").secs = 2
  BY <1>1, <1>2, <1>3, Ops DEF ChildFits, Op
<1>5. /\ Op("parent").op = "sleep" /\ Op("parent").secs \in Nat \ {0}
      /\ prog = 4 => Op("parent").secs = 5
      /\ pc["parent"] \in DOMAIN Text("parent")
  BY <1>1 DEF Early, ParentFits, ParentCall, Op
<1>6. /\ ~SendSignal /\ ~WaitPid /\ ~ChildExit /\ ~Open /\ ~ReadReturns /\ ~LeaveHandler
  BY <1>4, <1>5 DEF SendSignal, WaitPid, ChildExit, Open, ReadReturns, LeaveHandler, ParentAt, ChildAt, Early
<1>7. pend' = pend /\ ~EnterHandler /\ ~Kills
  BY <1>6, NoneSent DEF Early
<1>8. frames' = frames
  BY <1>6, <1>7, SignalMoves DEF Calm, SigAction, SigProcMask, Wait
<1>9. child' = child
  <2>1. CASE SigAction \/ SigProcMask \/ SetFlag \/ Wait \/ SigWaitInfo
    BY <2>1 DEF SigAction, SigProcMask, SetFlag, Wait, SigWaitInfo
  <2>2. CASE ParentStep
    BY <1>6, <2>2 DEF ParentStep, AwaitFlag, ParentExit, StartSleep, EndSleep, Jump
  <2>3. CASE StartSleep("child") \/ EndSleep("child") \/ Jump("child") \/ Tick
    BY <2>3 DEF StartSleep, EndSleep, Jump, Tick
  <2> QED
    BY <1>6, <1>7, <2>1, <2>2, <2>3 DEF Next, ChildStep
<1> QED
  BY <1>4, <1>5, <1>7, <1>8, <1>9

LEMMA EarlyStep ==
    ASSUME prog \in DOMAIN Program, PcOK, TimerOK, InText, PendOK, Early, Next
    PROVE  Early'
<1>1. /\ prog' = prog /\ prompt' = prompt /\ prog \in 1 .. 9
      /\ pc["child"] \in Nat \ {0} /\ pc'["child"] \in Nat \ {0}
  BY TextsHere, Moves, ChildGoesOn DEF PcOK
<1> SUFFICES ASSUME prompt, prog # 2, pc'["child"] <= Setup[prog]
             PROVE  Early'
  BY <1>1 DEF Early
<1>2. pc["child"] <= pc'["child"] /\ pc["child"] <= Setup[prog]
  BY <1>1, ChildGoesOn, Setups
<1>3. /\ child = "running" /\ frames = << >>
      /\ pc["parent"] = 1 /\ \A s \in Signal : pend[s] = 0
      /\ inside["parent"] => timer["parent"] > 0
      /\ prog = 4 =>
          /\ inside["parent"] =>
              /\ pc["child"] = 1 /\ ~inside["child"] => timer["parent"] = 5
              /\ pc["child"] = 1 /\ inside["child"] => timer["parent"] >= timer["child"] + 3
              /\ pc["child"] = 2 => timer["parent"] >= 3
          /\ inside["child"] => timer["child"] <= 2
  BY <1>2 DEF Early
<1>4. /\ Op("child").op \in {"sigaction", "block", "setmask", "sleep"}
      /\ Op("child").op = "sleep" <=> prog = 4 /\ pc["child"] = 1
      /\ Op("child").op = "sleep" => Op("child").secs = 2
      /\ Op("parent").op = "sleep" /\ Op("parent").secs \in Nat \ {0}
      /\ prog = 4 => Op("parent").secs = 5
      /\ pc["parent"] \in DOMAIN Text("parent")
      /\ UNCHANGED << child, frames, pend >>
  BY <1>2, SettingUp
<1>5. SUFFICES /\ pc'["parent"] = 1
               /\ inside'["parent"] => timer'["parent"] > 0
               /\ prog = 4 =>
                   /\ inside'["parent"] =>
                       /\ pc'["child"] = 1 /\ ~inside'["child"] => timer'["parent"] = 5
                       /\ pc'["child"] = 1 /\ inside'["child"] => timer'["parent"] >= timer'["child"] + 3
                       /\ pc'["child"] = 2 => timer'["parent"] >= 3
                   /\ inside'["child"] => timer'["child"] <= 2
  BY <1>1, <1>3, <1>4 DEF Early
<1>6. timer["child"] \in Nat /\ timer["parent"] \in Nat
  BY DEF TimerOK
<1>7. CASE ParentStep
  <2>1. ChildStays /\ timer'["child"] = timer["child"]
    BY <1>7, ChildIdles
  <2>2. ~SendSignal /\ ~AwaitFlag /\ ~WaitPid /\ ~ParentExit /\ ~Jump("parent")
    BY <1>4 DEF SendSignal, AwaitFlag, WaitPid, ParentExit, Jump, ParentAt
  <2>3. ~EndSleep("parent")
    BY <1>3 DEF EndSleep
  <2>4. StartSleep("parent")
    BY <1>7, <2>2, <2>3 DEF ParentStep
  <2>5. timer'["parent"] = Op("parent").secs /\ inside'["parent"] /\ pc'["parent"] = 1
    BY <1>3, <2>4 DEF StartSleep, Enter, Delay, TimerOK, PcOK
  <2> QED
    BY <1>3, <1>4, <1>6, <2>1, <2>5 DEF ChildStays
<1>8. CASE ChildStep \/ ReadReturns
  <2>1. ParentStays
    BY <1>8, ParentIdles
  <2>2. pc'["parent"] = 1 /\ (inside'["parent"] => timer'["parent"] > 0)
    BY <1>3, <2>1 DEF ParentStays
  <2>3. ASSUME prog = 4
        PROVE  /\ inside'["parent"] =>
                   /\ pc'["child"] = 1 /\ ~inside'["child"] => timer'["parent"] = 5
                   /\ pc'["child"] = 1 /\ inside'["child"] => timer'["parent"] >= timer'["child"] + 3
                   /\ pc'["child"] = 2 => timer'["parent"] >= 3
               /\ inside'["child"] => timer'["child"] <= 2
    <3>1. Op("child").op = "sleep" \/ (Op("child").op = "sigaction" /\ pc["child"] = 2)
      <4>1. pc["child"] \in {1, 2}
        BY <1>1, <1>2, <2>3, Setups
      <4>2. pc["child"] = 2 => Op("child").op = "sigaction"
        BY <2>3, TextsHere DEF ChildFits, Op
      <4> QED
        BY <1>4, <2>3, <4>1, <4>2
    <3>2. CASE Op("child").op = "sigaction" /\ pc["child"] = 2
      <4>1. ~SigAction
        <5>1. SigAction => pc'["child"] = 3
          BY <3>2 DEF SigAction, Advance, PcOK
        <5> QED
          BY <2>3, <5>1, Setups
      <4>2. ~StartSleep("child") /\ ~EndSleep("child") /\ ~Jump("child") /\ ~SigProcMask /\ ~SetFlag
            /\ ~Open /\ ~Wait /\ ~SigWaitInfo /\ ~ReadReturns /\ ~ChildExit
        BY <3>2 DEF StartSleep, EndSleep, Jump, SigProcMask, SetFlag, Open, Wait, SigWaitInfo,
                    ReadReturns, ChildExit, ChildAt
      <4>3. ~LeaveHandler /\ ~Kills /\ ~EnterHandler
        BY <1>3, NoneSent DEF LeaveHandler
      <4> QED
        BY <1>8, <4>1, <4>2, <4>3 DEF ChildStep
    <3>3. CASE Op("child").op = "sleep"
      <4>1. pc["child"] = 1
        BY <1>4, <3>3
      <4>2. ~SigAction /\ ~Jump("child") /\ ~SigProcMask /\ ~SetFlag
            /\ ~Open /\ ~Wait /\ ~SigWaitInfo /\ ~ReadReturns /\ ~ChildExit
        BY <3>3 DEF SigAction, Jump, SigProcMask, SetFlag, Open, Wait, SigWaitInfo,
                    ReadReturns, ChildExit, ChildAt
      <4>3. ~LeaveHandler /\ ~Kills /\ ~EnterHandler
        BY <1>3, NoneSent DEF LeaveHandler
      <4>4. CASE StartSleep("child")
        <5>1. /\ timer'["child"] = 2 /\ inside'["child"] /\ ~inside["child"] /\ pc'["child"] = 1
          BY <1>4, <3>3, <4>1, <4>4 DEF StartSleep, Enter, Delay, TimerOK, PcOK
        <5> QED
          BY <1>3, <2>1, <2>3, <4>1, <5>1 DEF ParentStays
      <4>5. CASE EndSleep("child")
        <5>1. /\ timer["child"] = 0 /\ inside["child"] /\ ~inside'["child"] /\ pc'["child"] = 2
          BY <3>3, <4>1, <4>5 DEF EndSleep, Advance, PcOK
        <5> QED
          BY <1>3, <1>6, <2>1, <2>3, <4>1, <5>1 DEF ParentStays
      <4> QED
        BY <1>8, <4>2, <4>3, <4>4, <4>5 DEF ChildStep
    <3> QED
      BY <3>1, <3>2, <3>3
  <2> QED
    BY <2>2, <2>3
<1>9. CASE Tick
  <2>1. ChildWaits /\ ParentWaits /\ UNCHANGED << pc, inside >>
        /\ timer' = [p \in DOMAIN timer |-> IF timer[p] > 0 THEN timer[p] - 1 ELSE 0]
    BY <1>9 DEF Tick, Idle
  <2>2. inside["child"]
    BY <1>3, <2>1 DEF ChildWaits
  <2>3. Op("child").op = "sleep" /\ timer["child"] > 0
    BY <1>3, <1>4, <2>1, <2>2 DEF ChildWaits
  <2>4. prog = 4 /\ pc["child"] = 1
    BY <1>4, <2>3
  <2>5. inside["parent"] /\ timer["parent"] > 0
    BY <1>4, <2>1 DEF ParentWaits
  <2>6. timer'["child"] = timer["child"] - 1 /\ timer'["parent"] = timer["parent"] - 1
    BY <2>1, <2>3, <2>5 DEF TimerOK
  <2> QED
    BY <1>3, <1>6, <2>1, <2>2, <2>3, <2>4, <2>5, <2>6
<1> QED
  BY <1>7, <1>8, <1>9 DEF Next

LEMMA ReapedStep ==
    ASSUME prog \in DOMAIN Program, PcOK, TimerOK, InText, LifeOK, Reaped, Next
    PROVE  Reaped'
<1>1. /\ prog' = prog /\ ChildFits(prog, Text("child")) /\ ParentFits(prog, Text("parent"))
      /\ pc["parent"] \in Nat \ {0}
  BY TextsHere, Moves DEF PcOK
<1>2. Text("parent")' = Text("parent")
  BY <1>1 DEF Text
<1>3. prog = 1 => fate' # "exit"
  <2>1. prog = 1 => Op("child").op \notin {"exit", "open", "read"}
    BY <1>1 DEF InText, ChildFits, ChildCall, Op
  <2> QED
    BY <2>1, LifeMoves DEF Reaped
<1>4. ASSUME prog \notin {1, 3, 4}, child' = "reaped",
             NEW i \in DOMAIN Text("parent"), i >= pc'["parent"]
      PROVE  Text("parent")[i].op # "kill"
  <2>1. pc'["parent"] >= pc["parent"]
    BY <1>4, ParentGoesOn
  <2>2. i \in Nat /\ pc'["parent"] \in Int
    <3>1. pc'["parent"] \in Int
      <4>1. CASE ParentStep
        BY <1>1, <1>4, <4>1, ParentMoves DEF ParentAdvances, ParentFits, ParentCall, Op
      <4>2. CASE ChildStep \/ ReadReturns
        BY <1>1, <4>2, ParentIdles DEF ParentStays
      <4>3. CASE Tick
        BY <1>1, <4>3 DEF Tick
      <4> QED
        BY <4>1, <4>2, <4>3 DEF Next
    <3> QED
      BY <1>1, <3>1 DEF ParentFits
  <2>3. CASE child = "reaped"
    BY <1>1, <1>4, <2>1, <2>2, <2>3 DEF Reaped
  <2>4. CASE child # "reaped"
    <3>1. WaitPid
      BY <1>4, <2>4, LifeMoves
    <3>2. /\ pc["parent"] \in DOMAIN Text("parent")
          /\ Text("parent")[pc["parent"]].op \in {"waitpid", "waitpid_checked"}
          /\ pc'["parent"] = pc["parent"] + 1
      BY <3>1 DEF WaitPid, ParentAt, Op, Advance, PcOK
    <3>3. i > pc["parent"]
      BY <1>1, <1>4, <2>2, <3>2
    <3> QED
      BY <1>1, <1>4, <3>2, <3>3 DEF ParentFits
  <2> QED
    BY <2>3, <2>4
<1> QED
  BY <1>1, <1>2, <1>3, <1>4 DEF Reaped

LEMMA EndsAsMeantStep ==
    ASSUME prog \in DOMAIN Program, PcOK, TimerOK, InText, PendOK, Own, DispOK, LogOK, FramesOK, LifeOK,
           Installed, ReadsOn, Caught, Suspends, InfoWait, Flagged, Early, EndsAsMeant, Next
    PROVE  EndsAsMeant'
<1>1. /\ prog' = prog /\ prompt' = prompt /\ prog \in 1 .. 9
      /\ ChildFits(prog, Text("child")) /\ ChildMoves /\ pc["child"] \in Nat \ {0}
  BY TextsHere, Moves DEF PcOK
<1>2. log # << >> => log' # << >>
  <2>1. CASE EnterHandler
    BY <2>1 DEF EnterHandler, LogOK
  <2>2. CASE log' = log
    BY <2>2
  <2> QED
    BY <2>1, <2>2, SignalMoves DEF Calm, SigAction, SigProcMask, Wait, LeaveHandler
<1>3. child # "running" => pc'["child"] = pc["child"]
  BY <1>1 DEF ChildMoves, ChildStays, ChildEnters, ChildAdvances, ChildJumps
<1>4. fate' = "killed" =>
          \/ prog \in {2, 4, 5} /\ log' # << >>
          \/ prog # 2 /\ ~prompt /\ pc'["child"] <= Setup[prog]
  <2>1. CASE fate' = fate
    BY <1>2, <1>3, <2>1 DEF EndsAsMeant, LifeOK
  <2>2. CASE Kills
    <3> DEFINE s == NextSignal(pend, mask)
    <3>1. s \in Signal /\ pend[s] > 0 /\ s \notin mask /\ ~disp[s].caught
      BY <2>2, NextIsPending DEF Kills
    <3>2. s \in Uses(prog) /\ UNCHANGED << pc, log >>
      BY <2>2, <3>1 DEF Own, Kills, procVars, signalVars
    <3> HIDE DEF s
    <3>3. CASE pc["child"] > Setup[prog]
      <4>1. \/ prog \in Careless /\ log # << >>
            \/ prog = 8 /\ pc["child"] \in {2, 3}
            \/ prog = 9 /\ pc["child"] >= 2
        BY <1>1, <3>1, <3>2, <3>3, Setups DEF Caught
      <4>2. prog \in {8, 9} => s = USR1
        BY <3>2 DEF Uses
      <4>3. ~(prog = 8 /\ pc["child"] \in {2, 3}) /\ ~(prog = 9 /\ pc["child"] >= 2)
        BY <3>1, <4>2 DEF Suspends, InfoWait
      <4> QED
        BY <3>2, <4>1, <4>3 DEF Careless
    <3>4. CASE pc["child"] <= Setup[prog]
      <4>1. prog # 2
        <5> SUFFICES ASSUME prog = 2 PROVE FALSE
          OBVIOUS
        <5>1. s = USR1
          BY <3>2 DEF Uses
        <5>2. pend[USR1] = 0
          BY <1>1, <3>4, Setups DEF Flagged
        <5> QED
          BY <3>1, <5>1, <5>2
      <4>2. ~prompt
        BY <3>1, <3>4, <4>1 DEF Early
      <4> QED
        BY <3>2, <3>4, <4>1, <4>2
    <3> QED
      BY <1>1, <3>3, <3>4, Setups
  <2> QED
    BY <2>1, <2>2, LifeMoves
<1>5. left' # "EINTR"
  <2>1. Op("child").op = "read" => prog = 3
    BY <1>1 DEF InText, ChildFits, ChildCall, Op
  <2>2. frames # << >> => 1 \in DOMAIN frames /\ Head(frames) = frames[1]
    BY DEF FramesOK
  <2>3. ~(Op("child").op = "read" /\ frames # << >> /\ ~Head(frames).restart)
    BY <2>1, <2>2 DEF ReadsOn
  <2> QED
    BY <2>3, LeftMoves DEF EndsAsMeant
<1> QED
  BY <1>1, <1>4, <1>5 DEF EndsAsMeant

LEMMA SignalsOwnChildStep ==
    ASSUME prog \in DOMAIN Program, PcOK, TimerOK, InText, LifeOK, Reaped, SignalsOwnChild, Next
    PROVE  SignalsOwnChild'
<1>1. prog' = prog
  BY Moves
<1>2. fate = "killed" => fate' = "killed"
  BY LifeStep
<1>3. CASE SendSignal
  <2>1. stray' = (stray \/ child = "reaped")
    BY <1>3 DEF SendSignal
  <2>2. ASSUME child = "reaped" PROVE prog \in {3, 4} \/ (prog = 1 /\ fate = "killed")
    <3>1. pc["parent"] \in DOMAIN Text("parent") /\ Text("parent")[pc["parent"]].op = "kill"
      BY <1>3 DEF SendSignal, ParentAt, Op
    <3>2. pc["parent"] >= pc["parent"]
      BY DEF PcOK
    <3> QED
      BY <2>2, <3>1, <3>2 DEF Reaped, LifeOK
  <2> QED
    BY <1>1, <1>2, <2>1, <2>2 DEF SignalsOwnChild
<1>4. CASE stray' = stray
  BY <1>1, <1>2, <1>4 DEF SignalsOwnChild
<1>5. SendSignal \/ stray' = stray
  <2>1. CASE ParentStep
    BY <2>1 DEF ParentStep, AwaitFlag, WaitPid, ParentExit, StartSleep, EndSleep, Jump, parentVars
  <2>2. CASE ChildStep \/ ReadReturns
    BY <2>2, ParentIdles
  <2>3. CASE Tick
    BY <2>3 DEF Tick, parentVars
  <2> QED
    BY <2>1, <2>2, <2>3 DEF Next
<1> QED
  BY <1>3, <1>4, <1>5

-----------------------------------------------------------------------------
(* The theorems. *)

\* The invariant holds initially,
LEMMA InitIInv == Init => IInv
<1> SUFFICES ASSUME Init PROVE IInv
  OBVIOUS
<1>1. prog \in DOMAIN Program
  BY DEF Init
<1>2. prog \in 1 .. 9 /\ ChildFits(prog, Text("child"))
  BY <1>1, TextsHere
<1>3. disp \in [Signal -> Handlers \cup {Default}] /\ \A s \in Signal : disp[s] = Default
  BY DEF Init
<1>4. ~Default.caught /\ ~Default.reset /\ ~Default.nodefer
  BY DEF Default
<1>5. pend \in [Signal -> Nat] /\ \A s \in Signal : pend[s] = 0
  BY DEF Init, NonePending
<1>6. /\ pc["child"] = 1 /\ pc["parent"] = 1 /\ ~inside["child"] /\ ~inside["parent"]
      /\ frames = << >> /\ log = << >> /\ Len(log) = 0 /\ Len(frames) = 0 /\ ~flag /\ ~stray
      /\ child = "running" /\ fate = "none" /\ left = "no"
  BY DEF Init
<1>7. TypeOK
  <2>1. prompt \in BOOLEAN /\ PcOK /\ TimerOK
    BY DEF Init, PcOK, TimerOK
  <2>2. MasksOK /\ PendOK /\ DispOK /\ FramesOK /\ LogOK /\ LifeOK
    BY <1>3, <1>5 DEF Init, MasksOK, PendOK, DispOK, FramesOK, LogOK, LifeOK
  <2>3. /\ flag \in BOOLEAN /\ stray \in BOOLEAN /\ left \in {"no", "open", "data", "error", "EINTR"}
        /\ sent \in Nat /\ report \in {"nothing", "exit", "killed"}
    BY DEF Init
  <2> QED
    BY <1>1, <2>1, <2>2, <2>3, TypeParts
<1>8. InText
  BY <1>2, <1>6 DEF InText, ChildFits
<1>9. Own /\ ReadsOn /\ Turn /\ Suspends /\ InfoWait
  BY <1>5, <1>6 DEF Own, ReadsOn, Turn, Suspends, InfoWait
<1>10. Installed
  BY <1>3, <1>4, <1>6 DEF Installed
<1>11. Caught
  BY <1>2, <1>6, Setups DEF Caught
<1>12. Flagged
  BY <1>5, <1>6 DEF Flagged, Signal
<1>13. Early /\ Reaped /\ EndsAsMeant /\ SignalsOwnChild
  BY <1>5, <1>6 DEF Early, Reaped, EndsAsMeant, SignalsOwnChild
<1> QED
  BY <1>7, <1>8, <1>9, <1>10, <1>11, <1>12, <1>13 DEF IInv

\* and is kept.
LEMMA StepIInv == IInv /\ [Next]_vars => IInv'
<1>1. ASSUME IInv, Next PROVE IInv'
  <2>1. /\ prog \in DOMAIN Program /\ prompt \in BOOLEAN
        /\ PcOK /\ TimerOK /\ MasksOK /\ PendOK /\ DispOK /\ FramesOK /\ LogOK /\ LifeOK
    BY <1>1, TypeParts DEF IInv
  <2>2. InText /\ Own /\ Installed /\ Caught /\ ReadsOn /\ Turn /\ Suspends /\ InfoWait
        /\ Flagged /\ Early /\ Reaped /\ EndsAsMeant /\ SignalsOwnChild /\ TypeOK /\ Next
    BY <1>1 DEF IInv
  <2>3. (prog \in DOMAIN Program)' /\ (prompt \in BOOLEAN)'
    BY <2>1, <2>2, Moves
  <2>4. PcOK' /\ TimerOK'
    BY <2>1, <2>2, PcStep
  <2>5. MasksOK' /\ LogOK'
    BY <2>1, <2>2, MasksStep
  <2>6. PendOK' /\ Own'
    BY <2>1, <2>2, OwnStep
  <2>7. DispOK' /\ Installed'
    BY <2>1, <2>2, InstalledStep
  <2>8. FramesOK' /\ ReadsOn'
    BY <2>1, <2>2, FramesStep
  <2>9. LifeOK'
    BY <2>1, <2>2, LifeStep
  <2>10. (flag \in BOOLEAN /\ stray \in BOOLEAN /\ left \in {"no", "open", "data", "error", "EINTR"}
          /\ sent \in Nat /\ report \in {"nothing", "exit", "killed"})'
    BY <2>2, ReportStep
  <2>11. TypeOK'
    BY <2>3, <2>4, <2>5, <2>6, <2>7, <2>8, <2>9, <2>10, TypeParts, PTL
  <2>12. InText'
    BY <2>1, <2>2, InTextStep
  <2>13. Caught'
    BY <2>1, <2>2, CaughtStep
  <2>14. Turn'
    BY <2>1, <2>2, TurnStep
  <2>15. Suspends'
    BY <2>1, <2>2, SuspendsStep
  <2>16. InfoWait'
    BY <2>1, <2>2, InfoWaitStep
  <2>17. Flagged'
    BY <2>1, <2>2, FlaggedStep
  <2>18. Early'
    BY <2>1, <2>2, EarlyStep
  <2>19. Reaped'
    BY <2>1, <2>2, ReapedStep
  <2>20. EndsAsMeant'
    BY <2>1, <2>2, EndsAsMeantStep
  <2>21. SignalsOwnChild'
    BY <2>1, <2>2, SignalsOwnChildStep
  <2> QED
    BY <2>6, <2>7, <2>8, <2>11, <2>12, <2>13, <2>14, <2>15, <2>16, <2>17, <2>18, <2>19, <2>20, <2>21
       DEF IInv
<1>2. ASSUME IInv, UNCHANGED vars PROVE IInv'
  <2>1. UNCHANGED << prog, prompt, pc, inside, timer, mask, saved, held, pend, disp, frames, log,
                     child, fate, flag, sent, report, stray, left >>
    BY <1>2 DEF vars, runVars, procVars, signalVars, parentVars
  <2>2. TypeOK'
    BY <1>2, <2>1 DEF IInv, TypeOK
  <2>3. InText' /\ Own' /\ Installed' /\ Caught' /\ ReadsOn' /\ Turn' /\ Suspends' /\ InfoWait'
    BY <1>2, <2>1 DEF IInv, InText, Op, Text, Own, Installed, Caught, ReadsOn, Turn, Suspends, InfoWait
  <2>4. Flagged' /\ Early' /\ Reaped' /\ EndsAsMeant' /\ SignalsOwnChild'
    BY <1>2, <2>1 DEF IInv, Flagged, Early, Reaped, Text, EndsAsMeant, SignalsOwnChild
  <2> QED
    BY <2>2, <2>3, <2>4 DEF IInv
<1> QED
  BY <1>1, <1>2

LEMMA Invariant == Spec => []IInv
  BY InitIInv, StepIInv, PTL DEF Spec

\* Every variable of the programs stays in its range, and a child has a fate from the moment
\* it ends.
THEOREM TypeCorrect == Spec => []TypeOK
<1>1. IInv => TypeOK
  BY DEF IInv
<1> QED
  BY <1>1, Invariant, PTL

\* The children end as meant: one is killed only by a signal that comes before its sigaction()
\* or sigprocmask() because a sleep() lasted too long, or after a garbage SA_RESETHAND; and the
\* child of 03 never leaves its loop because a signal ended its read().
THEOREM EndsMeant == Spec => []EndsAsMeant
<1>1. IInv => EndsAsMeant
  BY DEF IInv
<1> QED
  BY <1>1, Invariant, PTL

\* No parent goes on signalling a child that it has reaped, but for the endless ones of 03 and
\* 04, and the one of 01 if its child was killed.
THEOREM OwnChild == Spec => []SignalsOwnChild
<1>1. IInv => SignalsOwnChild
  BY DEF IInv
<1> QED
  BY <1>1, Invariant, PTL

\* Handlers do not interrupt each other where sa_mask and sa_flags are assigned, and the
\* sigsuspend() of 08 lets exactly one of the ten signals in.
THEOREM InTurn == Spec => []HandlersInTurn
<1>1. IInv => HandlersInTurn
  BY DEF IInv, HandlersInTurn, Turn, Suspends, Careless
<1> QED
  BY <1>1, Invariant, PTL
-----------------------------------------------------------------------------
(* Wake-ups.  What makes WakeupToCome inductive. *)

Awaits == prog \in {8, 9} \/ (prompt /\ prog \in {5, 6})

\* The call in which the child of 05, 06, 08 or 09 waits.
WaitAt == IF prog = 8 THEN 4 ELSE 2

\* Before the first signal every kill() is ahead.
Unsent == prog \in {5, 6, 8, 9} /\ sent = 0 => KillAhead

\* Once a signal was sent, one stays pending until the wait ends.
Lasts ==
    Awaits /\ child = "running" /\ frames = << >> /\ pc["child"] <= WaitAt /\ sent > 0 =>
        pend[USR1] > 0

\* When sleeps are exact, none is sent before the child of 05 or 06 is in its pause().
Ready ==
    prompt /\ prog \in {5, 6} /\ (pc["child"] = 1 \/ (pc["child"] = 2 /\ ~inside["child"])) =>
        /\ child = "running" /\ frames = << >> /\ sent = 0 /\ \A s \in Signal : pend[s] = 0
        /\ pc["parent"] = 1 /\ (inside["parent"] => timer["parent"] > 0)

\* Outside their handlers 05 and 06 block nothing.
Unmasked ==
    prog \in {5, 6} => IF frames = << >> THEN mask = {} ELSE frames[Len(frames)].back = {}

\* Nor does 08 in its sigsuspend(), for it saved an empty mask.
Opened ==
    prog = 8 => /\ saved = {} /\ (pc["child"] = 1 => mask = {})
                /\ pc["child"] = 4 /\ inside["child"] /\ frames = << >> => mask = {}

Wakes == Unsent /\ Lasts /\ Ready /\ Unmasked /\ Opened

\* The texts of 05 and 06, and the calls at which the four children wait.
LEMMA WaitTexts ==
    ASSUME prog \in DOMAIN Program, InText
    PROVE  /\ prog \in {5, 6} =>
                /\ pc["child"] \in 1 .. 3
                /\ pc["child"] = 1 => Op("child").op = "sigaction"
                /\ pc["child"] = 2 => Op("child").op = "pause"
                /\ pc["child"] = 3 => Op("child").op = "exit"
           /\ prog = 8 =>
                /\ pc["child"] \in 1 .. 5
                /\ pc["child"] = 1 => Op("child").op = "block"
                /\ pc["child"] = 2 => Op("child").op = "sleep"
                /\ pc["child"] = 3 => Op("child").op = "sigaction"
                /\ pc["child"] = 4 => Op("child").op = "sigsuspend"
                /\ pc["child"] = 5 => Op("child").op = "exit"
           /\ prog = 9 =>
                /\ pc["child"] \in 1 .. 3
                /\ pc["child"] = 1 => Op("child").op = "setmask"
                /\ pc["child"] = 2 => Op("child").op = "sigwaitinfo"
                /\ pc["child"] = 3 => Op("child").op = "exit"
<1>1. ChildFits(prog, Text("child"))
  BY TextsHere
<1>2. /\ Child05[1].op = "sigaction" /\ Child05[2].op = "pause" /\ Child05[3].op = "exit"
      /\ DOMAIN Child05 = 1 .. 3
  BY Ops DEF Child05
<1>3. /\ Child06[1].op = "sigaction" /\ Child06[2].op = "pause" /\ Child06[3].op = "exit"
      /\ DOMAIN Child06 = 1 .. 3
  <2> DEFINE H == Fully({}, FALSE)
  <2>1. /\ Child06[1] = Catch(USR1, H) /\ Child06[2] = Call("pause")
        /\ Child06[3] = Call("exit") /\ DOMAIN Child06 = 1 .. 3
    BY DEF Child06
  <2> HIDE DEF H
  <2> QED
    BY <2>1, Ops
<1>4. (prog = 5 => Text("child") = Child05) /\ (prog = 6 => Text("child") = Child06)
  BY DEF Text, Program
<1>5. ASSUME prog \in {5, 6}
      PROVE  /\ pc["child"] \in 1 .. 3
             /\ pc["child"] = 1 => Op("child").op = "sigaction"
             /\ pc["child"] = 2 => Op("child").op = "pause"
             /\ pc["child"] = 3 => Op("child").op = "exit"
  BY <1>2, <1>3, <1>4, <1>5 DEF InText, Op
<1>6. ASSUME prog = 8
      PROVE  /\ pc["child"] \in 1 .. 5
             /\ pc["child"] = 1 => Op("child").op = "block"
             /\ pc["child"] = 2 => Op("child").op = "sleep"
             /\ pc["child"] = 3 => Op("child").op = "sigaction"
             /\ pc["child"] = 4 => Op("child").op = "sigsuspend"
             /\ pc["child"] = 5 => Op("child").op = "exit"
  BY <1>1, <1>6, Ops DEF InText, ChildFits, Op
<1>7. ASSUME prog = 9
      PROVE  /\ pc["child"] \in 1 .. 3
             /\ pc["child"] = 1 => Op("child").op = "setmask"
             /\ pc["child"] = 2 => Op("child").op = "sigwaitinfo"
             /\ pc["child"] = 3 => Op("child").op = "exit"
  BY <1>1, <1>7, Ops DEF InText, ChildFits, Op
<1> QED
  BY <1>5, <1>6, <1>7

\* Where a repeated block starts, and what follows the first element of a sequence.
LEMMA RepeatStarts ==
    ASSUME NEW S, NEW block \in Seq(S), Len(block) = 2
    PROVE  Repeat(10, block)[1] = block[1]
<1>1. 1 \in 1 .. 10 * 2 /\ ((1 - 1) % 2) + 1 = 1
  OBVIOUS
<1> QED
  BY <1>1 DEF Repeat

LEMMA SecondOf ==
    ASSUME NEW T, NEW a \in Seq(T), NEW b \in Seq(T), NEW c \in Seq(T), Len(a) = 1, Len(b) > 0
    PROVE  2 \in DOMAIN (a \o b \o c) /\ (a \o b \o c)[2] = b[1]
<1>1. /\ a \o b \in Seq(T) /\ Len(a \o b) = Len(a) + Len(b)
      /\ \A i \in 1 .. Len(a) + Len(b) :
           (a \o b)[i] = IF i <= Len(a) THEN a[i] ELSE b[i - Len(a)]
  BY ConcatProperties
<1>2. Len(b) \in Nat /\ Len(c) \in Nat
  BY LenProperties
<1>3. (a \o b)[2] = b[1]
  BY <1>1, <1>2
<1> DEFINE d == a \o b
<1> HIDE DEF d
<1>4. d \in Seq(T) /\ Len(d) \in Nat /\ Len(d) >= 2 /\ d[2] = b[1]
  BY <1>1, <1>2, <1>3 DEF d
<1>5. /\ d \o c \in Seq(T) /\ Len(d \o c) = Len(d) + Len(c)
      /\ \A i \in 1 .. Len(d) + Len(c) : (d \o c)[i] = IF i <= Len(d) THEN d[i] ELSE c[i - Len(d)]
  BY <1>4, ConcatProperties
<1>6. 2 \in 1 .. Len(d) + Len(c) /\ DOMAIN (d \o c) = 1 .. Len(d \o c)
  BY <1>2, <1>4, <1>5, LenProperties
<1>7. 2 \in DOMAIN (d \o c) /\ (d \o c)[2] = d[2]
  BY <1>4, <1>5, <1>6
<1> QED
  BY <1>4, <1>7 DEF d

\* Their parents have a kill() to make.
LEMMA KillsToMake ==
    ASSUME prog \in {5, 6, 8, 9}
    PROVE  \E i \in DOMAIN Text("parent") : i >= 1 /\ Text("parent")[i].op = "kill"
<1>1. 2 \in DOMAIN Parent05 /\ Parent05[2].op = "kill"
  BY Ops DEF Parent05
<1>2. 2 \in DOMAIN Parent06 /\ Parent06[2].op = "kill"
  BY Ops DEF Parent06
<1>3. 2 \in DOMAIN Parent09 /\ Parent09[2].op = "kill"
  BY Ops DEF Parent09
<1>4. 2 \in DOMAIN Parent08 /\ Parent08[2].op = "kill"
  <2> DEFINE first == << Sleep(1) >>
             block == << Kill(USR1), Sleep(1) >>
             last == << Call("waitpid"), Call("exit") >>
             T == {Kill(USR1), Sleep(1), Call("waitpid"), Call("exit")}
             R == Repeat(10, block)
  <2>1. /\ first \in Seq(T) /\ block \in Seq(T) /\ last \in Seq(T) /\ block # << >>
        /\ Len(first) = 1 /\ Len(block) = 2 /\ block[1] = Kill(USR1)
    OBVIOUS
  <2>2. Parent08 = first \o R \o last
    BY DEF Parent08
  <2> HIDE DEF first, block, last, T
  <2>3. R \in Seq(T) /\ Len(R) = 10 * Len(block)
    BY <2>1, RepeatRange
  <2>4. R[1] = block[1]
    BY <2>1, RepeatStarts
  <2>5. Len(R) > 0
    BY <2>1, <2>3
  <2> HIDE DEF R
  <2>6. 2 \in DOMAIN (first \o R \o last) /\ (first \o R \o last)[2] = R[1]
    BY <2>1, <2>3, <2>5, SecondOf
  <2> QED
    BY <2>1, <2>2, <2>4, <2>6, Ops
<1>5. /\ prog = 5 => Text("parent") = Parent05
      /\ prog = 6 => Text("parent") = Parent06
      /\ prog = 8 => Text("parent") = Parent08
      /\ prog = 9 => Text("parent") = Parent09
  BY DEF Text, Program
<1> QED
  BY <1>1, <1>2, <1>3, <1>4, <1>5

\* Only kill() counts as a signal sent.
LEMMA SentMoves ==
    ASSUME PcOK, TimerOK, Next
    PROVE  sent' = sent \/ (SendSignal /\ sent' = sent + 1)
<1>1. CASE ChildStep \/ ReadReturns
  BY <1>1, ParentIdles
<1>2. CASE ParentStep
  BY <1>2 DEF ParentStep, SendSignal, AwaitFlag, WaitPid, ParentExit, StartSleep, EndSleep, Jump,
              parentVars
<1>3. CASE Tick
  BY <1>3 DEF Tick, parentVars
<1> QED
  BY <1>1, <1>2, <1>3 DEF Next

LEMMA UnsentStep ==
    ASSUME prog \in DOMAIN Program, PcOK, TimerOK, InText, sent \in Nat, Unsent, Next
    PROVE  Unsent'
<1>1. /\ prog' = prog /\ Text("parent")' = Text("parent") /\ ParentFits(prog, Text("parent"))
      /\ pc["parent"] \in Nat \ {0}
  BY Moves, TextsHere DEF Text, PcOK
<1> SUFFICES ASSUME prog \in {5, 6, 8, 9}, sent' = 0
             PROVE  \E i \in DOMAIN Text("parent") : i >= pc'["parent"] /\ Text("parent")[i].op = "kill"
  BY <1>1 DEF Unsent, KillAhead
<1>2. sent = 0 /\ ~SendSignal
  <2>1. SendSignal => sent' = sent + 1
    BY DEF SendSignal
  <2> QED
    BY <2>1, SentMoves
<1>3. PICK i \in DOMAIN Text("parent") : i >= pc["parent"] /\ Text("parent")[i].op = "kill"
  BY <1>2 DEF Unsent, KillAhead
<1>4. pc'["parent"] = pc["parent"] \/ (pc'["parent"] = pc["parent"] + 1 /\ Op("parent").op # "kill")
  <2>1. CASE ParentStep
    <3>1. Op("parent").op # "goto"
      BY <1>1, <2>1, ParentMoves DEF ParentFits, ParentCall, Op
    <3>2. Op("parent").op # "kill"
      BY <1>2, <2>1 DEF ParentStep, AwaitFlag, WaitPid, ParentExit, StartSleep, EndSleep, Jump, ParentAt
    <3> QED
      BY <2>1, <3>1, <3>2, ParentMoves DEF ParentAdvances
  <2>2. CASE ChildStep \/ ReadReturns
    BY <2>2, ParentIdles DEF ParentStays
  <2>3. CASE Tick
    BY <2>3 DEF Tick
  <2> QED
    BY <2>1, <2>2, <2>3 DEF Next
<1>5. i \in Nat /\ (i = pc["parent"] => Op("parent").op = "kill")
  BY <1>1, <1>3 DEF ParentFits, Op
<1>6. i >= pc'["parent"]
  BY <1>1, <1>3, <1>4, <1>5
<1> QED
  BY <1>3, <1>6

LEMMA ReadyStep ==
    ASSUME prog \in DOMAIN Program, PcOK, TimerOK, InText, PendOK, Ready, Next
    PROVE  Ready'
<1>1. prog' = prog /\ prompt' = prompt /\ ChildMoves /\ pc["child"] \in Nat \ {0}
  BY Moves DEF PcOK
<1> SUFFICES ASSUME prompt, prog \in {5, 6},
                    pc'["child"] = 1 \/ (pc'["child"] = 2 /\ ~inside'["child"])
             PROVE  /\ child' = "running" /\ frames' = << >> /\ sent' = 0
                    /\ \A s \in Signal : pend'[s] = 0
                    /\ pc'["parent"] = 1 /\ (inside'["parent"] => timer'["parent"] > 0)
  BY <1>1 DEF Ready
<1>2. /\ pc["child"] = 1 => Op("child").op = "sigaction"
      /\ pc["child"] = 2 => Op("child").op = "pause"
      /\ Op("child").op # "goto"
  BY WaitTexts
<1>3. pc["child"] = 1 \/ (pc["child"] = 2 /\ ~inside["child"])
  BY <1>1, <1>2 DEF ChildMoves, ChildStays, ChildEnters, ChildAdvances, ChildJumps
<1>4. /\ child = "running" /\ frames = << >> /\ sent = 0 /\ \A s \in Signal : pend[s] = 0
      /\ pc["parent"] = 1 /\ (inside["parent"] => timer["parent"] > 0)
  BY <1>3 DEF Ready
<1>5. Op("parent").op = "sleep" /\ Op("parent").secs \in Nat \ {0}
  BY <1>4, TextsHere DEF ParentFits, ParentCall, Op
<1>6. ~SendSignal /\ ~WaitPid /\ ~AwaitFlag /\ ~ParentExit /\ ~Jump("parent") /\ ~EndSleep("parent")
  BY <1>4, <1>5 DEF SendSignal, WaitPid, AwaitFlag, ParentExit, Jump, EndSleep, ParentAt
<1>7. pend' = pend /\ sent' = sent /\ ~EnterHandler /\ ~Kills
  BY <1>4, <1>6, NoneSent, SentMoves
<1>8. frames' = frames
  BY <1>4, <1>7, SignalMoves DEF Calm, SigAction, SigProcMask, Wait, LeaveHandler
<1>9. child' = "running"
  BY <1>2, <1>3, <1>4, <1>6, <1>7, LifeMoves
<1>10. pc'["parent"] = 1 /\ (inside'["parent"] => timer'["parent"] > 0)
  <2>1. CASE ParentStep
    <3>1. StartSleep("parent")
      BY <1>6, <2>1 DEF ParentStep
    <3> QED
      BY <1>4, <1>5, <3>1 DEF StartSleep, Enter, Delay, TimerOK, PcOK
  <2>2. CASE ChildStep \/ ReadReturns
    BY <1>4, <2>2, ParentIdles DEF ParentStays
  <2>3. ~Tick
    BY <1>2, <1>3, <1>4 DEF Tick, Idle, ChildWaits
  <2> QED
    BY <2>1, <2>2, <2>3 DEF Next
<1> QED
  BY <1>4, <1>7, <1>8, <1>9, <1>10

\* SIGUSR1 is pending after it was posted.
LEMMA Posted == PendOK => Post(pend, USR1)[USR1] = 1 /\ USR1 \in Signal
BY DEF Post, PendOK, RealTime, Signal, USR1, RT1, RT2

LEMMA LastsStep ==
    ASSUME prog \in DOMAIN Program, PcOK, TimerOK, InText, PendOK, Own, DispOK, FramesOK, MasksOK,
           LifeOK, sent \in Nat, Suspends, InfoWait, Ready, Lasts, Next
    PROVE  Lasts'
<1>1. /\ prog' = prog /\ prompt' = prompt /\ pc["child"] \in Nat \ {0}
      /\ pc'["child"] \in Nat \ {0} /\ ParentFits(prog, Text("parent"))
  BY Moves, ChildGoesOn, TextsHere DEF PcOK
<1> SUFFICES ASSUME Awaits, child' = "running", frames' = << >>, pc'["child"] <= WaitAt, sent' > 0
             PROVE  pend'[USR1] > 0
  BY <1>1 DEF Lasts, Awaits, WaitAt
<1>2. child = "running"
  BY LifeMoves DEF LifeOK
<1>3. pc'["child"] >= pc["child"] /\ pc["child"] <= WaitAt /\ WaitAt \in Nat
  <2>1. prog \notin {1, 3} /\ WaitAt \in Nat
    BY DEF Awaits, WaitAt
  <2> QED
    BY <1>1, <2>1, ChildGoesOn
<1>4. CASE SendSignal
  <2>1. Op("parent").sig = USR1
    BY <1>1, <1>4 DEF SendSignal, ParentAt, ParentFits, ParentCall, Op, Uses, Awaits
  <2>2. pend' = Post(pend, USR1)
    BY <1>2, <1>4, <2>1 DEF SendSignal
  <2> QED
    BY <2>2, Posted
<1>5. ~EnterHandler
  <2> SUFFICES ASSUME EnterHandler
               PROVE  FALSE
    OBVIOUS
  <2>1. PICK s \in Signal : Delivers(s)
    BY Enters
  <2>2. PICK f : Interrupts(f, s)
    BY <2>1, Interrupted
  <2>3. Len(frames') = Len(frames) + 1
    BY <2>2, Pushed DEF Interrupts
  <2> QED
    BY <2>3 DEF FramesOK
<1>6. ~SigWaitInfo
  <2> SUFFICES ASSUME SigWaitInfo
               PROVE  FALSE
    OBVIOUS
  <2>1. Op("child").op = "sigwaitinfo" /\ pc'["child"] = pc["child"] + 1
    BY DEF SigWaitInfo, ChildAt, Advance, PcOK
  <2>2. prog = 9 /\ pc["child"] = 2
    BY <2>1, WaitTexts DEF Awaits
  <2> QED
    BY <2>1, <2>2 DEF WaitAt
<1>7. frames = << >>
  <2> SUFFICES ASSUME frames # << >>
               PROVE  FALSE
    OBVIOUS
  <2>1. LeaveHandler
    BY <1>5, SignalMoves DEF Calm, SigAction, SigProcMask, Wait
  <2>2. Len(frames) = 1
    <3>1. frames' = Tail(frames)
      BY <2>1 DEF LeaveHandler
    <3>2. Len(frames') = Len(frames) - 1
      BY <3>1, Popped
    <3>3. Len(frames') = 0
      OBVIOUS
    <3> QED
      BY <3>2, <3>3 DEF FramesOK
  <2>3. inside["child"] => Op("child").op = "read" \/ pc'["child"] = pc["child"] + 1
    BY <2>1, <2>2 DEF LeaveHandler, Advance, PcOK
  <2>4. CASE prog = 8
    <3>1. pc["child"] = 4 /\ inside["child"]
      BY <2>4 DEF Suspends
    <3> QED
      BY <2>3, <2>4, <3>1, WaitTexts DEF WaitAt
  <2>5. CASE prog = 9
    BY <2>5 DEF InfoWait
  <2>6. CASE prompt /\ prog \in {5, 6}
    <3>1. pc["child"] = 2 /\ inside["child"]
      BY <1>1, <1>3, <2>6 DEF Ready, WaitAt
    <3> QED
      BY <2>3, <2>6, <3>1, WaitTexts DEF WaitAt
  <2> QED
    BY <2>4, <2>5, <2>6 DEF Awaits
<1>8. CASE ~SendSignal
  <2>1. pend' = pend /\ sent' = sent
    BY <1>5, <1>6, <1>8, PendMoves, SentMoves
  <2> QED
    BY <1>2, <1>3, <1>7, <2>1 DEF Lasts
<1> QED
  BY <1>4, <1>8

\* The outermost handler keeps its frame when another one interrupts it, and when that returns.
LEMMA Outermost ==
    ASSUME FramesOK
    PROVE  /\ \A f \in Frame : (<< f >> \o frames)[Len(<< f >> \o frames)] =
                IF frames = << >> THEN f ELSE frames[Len(frames)]
           /\ frames # << >> =>
                IF Tail(frames) = << >> THEN Head(frames) = frames[Len(frames)]
                ELSE Tail(frames)[Len(Tail(frames))] = frames[Len(frames)]
<1>1. ASSUME NEW f \in Frame
      PROVE  (<< f >> \o frames)[Len(<< f >> \o frames)] =
                IF frames = << >> THEN f ELSE frames[Len(frames)]
  <2>1. Len(<< f >> \o frames) = Len(frames) + 1 /\ Len(frames) \in Nat
    BY Pushed DEF FramesOK
  <2>2. \A k \in 2 .. Len(frames) + 1 : (<< f >> \o frames)[k] = frames[k - 1]
    BY DEF FramesOK
  <2>3. CASE frames = << >>
    BY <2>3, Pushed
  <2>4. CASE frames # << >>
    <3>1. Len(frames) + 1 \in 2 .. Len(frames) + 1
      BY <2>1, <2>4 DEF FramesOK
    <3>2. (<< f >> \o frames)[Len(frames) + 1] = frames[Len(frames)]
      BY <2>1, <2>2, <3>1
    <3> QED
      BY <2>1, <2>4, <3>2
  <2> QED
    BY <2>3, <2>4
<1>2. ASSUME frames # << >>
      PROVE  IF Tail(frames) = << >> THEN Head(frames) = frames[Len(frames)]
             ELSE Tail(frames)[Len(Tail(frames))] = frames[Len(frames)]
  <2>1. Len(Tail(frames)) = Len(frames) - 1 /\ Tail(frames) \in Seq(Frame) /\ Len(frames) \in Nat
    BY <1>2, Popped DEF FramesOK
  <2>2. \A k \in 1 .. Len(frames) - 1 : Tail(frames)[k] = frames[k + 1]
    BY <1>2 DEF FramesOK
  <2>3. CASE Tail(frames) = << >>
    <3>1. Len(Tail(frames)) = 0
      BY <2>1, <2>3, EmptySeq
    <3>2. \A n \in Nat : n - 1 = 0 => n = 1
      OBVIOUS
    <3>3. Len(frames) = 1
      BY <2>1, <3>1, <3>2
    <3>4. Head(frames) = frames[1]
      BY <1>2 DEF FramesOK
    <3> QED
      BY <2>3, <3>3, <3>4
  <2>4. CASE Tail(frames) # << >>
    <3>1. Len(frames) - 1 \in 1 .. Len(frames) - 1
      BY <2>1, <2>4
    <3> QED
      BY <2>1, <2>2, <2>4, <3>1
  <2> QED
    BY <2>3, <2>4
<1> QED
  BY <1>1, <1>2

LEMMA UnmaskedStep ==
    ASSUME prog \in DOMAIN Program, PcOK, InText, PendOK, Own, DispOK, FramesOK, MasksOK,
           Unmasked, Next
    PROVE  Unmasked'
<1>1. prog' = prog
  BY Moves
<1> SUFFICES ASSUME prog \in {5, 6}
             PROVE  IF frames' = << >> THEN mask' = {} ELSE frames'[Len(frames')].back = {}
  BY <1>1 DEF Unmasked
<1>2. Op("child").op \in {"sigaction", "pause", "exit"}
  BY WaitTexts
<1>3. CASE EnterHandler
  <2>1. PICK s \in Signal : Delivers(s)
    BY <1>3, Enters
  <2>2. PICK f : Interrupts(f, s)
    BY <2>1, Interrupted
  <2>3. f \in Frame /\ frames' = << f >> \o frames /\ f.back = mask
    BY <1>2, <2>2 DEF Interrupts
  <2>4. frames'[Len(frames')] = IF frames = << >> THEN f ELSE frames[Len(frames)]
    BY <2>3, Outermost
  <2>5. frames' # << >>
    <3>1. Len(frames') = Len(frames) + 1
      BY <2>3, Pushed
    <3> QED
      BY <3>1 DEF FramesOK
  <2> QED
    BY <2>3, <2>4, <2>5 DEF Unmasked
<1>4. CASE LeaveHandler
  <2>1. frames # << >> /\ frames' = Tail(frames) /\ mask' = Head(frames).back
    BY <1>4 DEF LeaveHandler
  <2> QED
    BY <2>1, Outermost DEF Unmasked
<1>5. CASE UNCHANGED << frames, mask >>
  BY <1>5 DEF Unmasked
<1> QED
  BY <1>2, <1>3, <1>4, <1>5, SignalMoves DEF Calm, SigAction, SigProcMask, Wait, ChildAt

\* Only sigprocmask() saves a mask.
LEMMA SavedMoves == Next => saved' = saved \/ SigProcMask
<1>1. SigAction \/ SetFlag \/ Open \/ Wait \/ SigWaitInfo \/ ReadReturns \/ ChildExit => saved' = saved
  BY DEF SigAction, SetFlag, Open, Wait, SigWaitInfo, ReadReturns, ChildExit, signalVars
<1>2. Kills \/ EnterHandler \/ LeaveHandler => saved' = saved
  BY DEF Kills, EnterHandler, LeaveHandler, signalVars
<1>3. ParentStep => saved' = saved
  BY DEF ParentStep, SendSignal, AwaitFlag, WaitPid, ParentExit, StartSleep, EndSleep, Jump, signalVars
<1>4. StartSleep("child") \/ EndSleep("child") \/ Jump("child") \/ Tick => saved' = saved
  BY DEF StartSleep, EndSleep, Jump, Tick, signalVars
<1> QED
  BY <1>1, <1>2, <1>3, <1>4 DEF Next, ChildStep

LEMMA OpenedStep ==
    ASSUME prog \in DOMAIN Program, PcOK, InText, PendOK, Own, DispOK, FramesOK, MasksOK,
           Installed, Turn, Suspends, Opened, Next
    PROVE  Opened'
<1>1. prog' = prog /\ ChildMoves /\ pc["child"] \in Nat \ {0}
  BY Moves DEF PcOK
<1> SUFFICES ASSUME prog = 8
             PROVE  /\ saved' = {} /\ (pc'["child"] = 1 => mask' = {})
                    /\ pc'["child"] = 4 /\ inside'["child"] /\ frames' = << >> => mask' = {}
  BY <1>1 DEF Opened
<1>2. /\ pc["child"] \in 1 .. 5
      /\ pc["child"] = 1 => Op("child").op = "block"
      /\ pc["child"] = 2 => Op("child").op = "sleep"
      /\ pc["child"] = 3 => Op("child").op = "sigaction"
      /\ pc["child"] = 4 => Op("child").op = "sigsuspend"
      /\ pc["child"] = 5 => Op("child").op = "exit"
  BY WaitTexts
<1>3. CASE SigProcMask
  <2>1. Op("child").op \in {"block", "setmask", "restore"} /\ Advance("child")
    BY <1>3 DEF SigProcMask, ChildAt
  <2>2. pc["child"] = 1 /\ pc'["child"] = 2 /\ Op("child").op = "block"
    BY <1>2, <2>1 DEF Advance, PcOK
  <2>3. saved' = mask /\ mask = {}
    BY <1>3, <2>2 DEF SigProcMask, ChildAt, Opened
  <2> QED
    BY <2>2, <2>3
<1>4. CASE ~SigProcMask
  <2>1. saved' = saved /\ saved = {}
    BY <1>4, SavedMoves DEF Opened
  <2>2. EnterHandler => pc["child"] >= 4 /\ UNCHANGED pc /\ frames' # << >>
    <3> SUFFICES ASSUME EnterHandler
                 PROVE  pc["child"] >= 4 /\ UNCHANGED pc /\ frames' # << >>
      OBVIOUS
    <3>1. PICK s \in Signal : Delivers(s)
      BY Enters
    <3>2. PICK f : Interrupts(f, s)
      BY <3>1, Interrupted
    <3>3. Len(frames') = Len(frames) + 1
      BY <3>2, Pushed DEF Interrupts
    <3>4. frames' # << >>
      BY <3>3 DEF FramesOK
    <3> QED
      BY <3>1, <3>4 DEF Delivers, Installed
  <2>3. LeaveHandler => pc["child"] = 4 /\ pc'["child"] = 5
    <3> SUFFICES ASSUME LeaveHandler
                 PROVE  pc["child"] = 4 /\ pc'["child"] = 5
      OBVIOUS
    <3>1. frames # << >>
      BY DEF LeaveHandler
    <3>2. pc["child"] = 4 /\ inside["child"] /\ ~(Len(frames) > 1)
      BY <3>1 DEF Suspends, Turn, Careless, FramesOK
    <3> QED
      BY <1>2, <3>2 DEF LeaveHandler, Advance, PcOK
  <2>4. Wait => pc' = pc /\ (pc["child"] = 4 => mask' = saved) /\ pc["child"] # 1
    BY <1>2 DEF Wait, Enter, ChildAt
  <2>5. SigAction => mask' = mask /\ ~inside'["child"] /\ pc["child"] = 3 /\ pc'["child"] = 4
    BY <1>2 DEF SigAction, Advance, ChildAt, PcOK
  <2>6. CASE Calm /\ ~Wait /\ ~SigAction
    <3>1. UNCHANGED << mask, frames >>
      BY <2>6 DEF Calm
    <3>2. pc'["child"] = 1 => pc["child"] = 1
      BY <1>1, ChildGoesOn
    <3>3. pc'["child"] = 4 /\ inside'["child"] => pc["child"] = 4 /\ inside["child"]
      <4>1. CASE ChildStays
        BY <4>1 DEF ChildStays
      <4>2. CASE ChildEnters
        BY <1>2, <2>6, <4>2 DEF ChildEnters
      <4>3. CASE ChildAdvances
        BY <4>3 DEF ChildAdvances
      <4>4. ~ChildJumps
        BY <1>2 DEF ChildJumps
      <4> QED
        BY <1>1, <4>1, <4>2, <4>3, <4>4 DEF ChildMoves
    <3> QED
      BY <2>1, <3>1, <3>2, <3>3 DEF Opened
  <2> QED
    BY <1>4, <2>1, <2>2, <2>3, <2>4, <2>5, <2>6, SignalMoves
<1> QED
  BY <1>3, <1>4

LEMMA InitWakes == Init => Wakes
<1> SUFFICES ASSUME Init
             PROVE  Wakes
  OBVIOUS
<1>1. /\ pc["child"] = 1 /\ pc["parent"] = 1 /\ ~inside["child"] /\ ~inside["parent"]
      /\ mask = {} /\ saved = {} /\ frames = << >> /\ sent = 0 /\ child = "running"
      /\ \A s \in Signal : pend[s] = 0
  BY DEF Init, NonePending
<1>2. Unsent
  BY <1>1, KillsToMake DEF Unsent, KillAhead
<1> QED
  BY <1>1, <1>2 DEF Wakes, Lasts, Ready, Unmasked, Opened

LEMMA StepWakes == IInv /\ Wakes /\ [Next]_vars => Wakes'
<1>1. ASSUME IInv, Wakes, Next
      PROVE  Wakes'
  <2>1. /\ prog \in DOMAIN Program /\ sent \in Nat
        /\ PcOK /\ TimerOK /\ MasksOK /\ PendOK /\ DispOK /\ FramesOK /\ LogOK /\ LifeOK
    BY <1>1, TypeParts DEF IInv
  <2>2. InText /\ Own /\ Installed /\ Turn /\ Suspends /\ InfoWait
    BY <1>1 DEF IInv
  <2>3. Unsent /\ Lasts /\ Ready /\ Unmasked /\ Opened
    BY <1>1 DEF Wakes
  <2>4. Unsent'
    BY <1>1, <2>1, <2>2, <2>3, UnsentStep
  <2>5. Lasts'
    BY <1>1, <2>1, <2>2, <2>3, LastsStep
  <2>6. Ready'
    BY <1>1, <2>1, <2>2, <2>3, ReadyStep
  <2>7. Unmasked'
    BY <1>1, <2>1, <2>2, <2>3, UnmaskedStep
  <2>8. Opened'
    BY <1>1, <2>1, <2>2, <2>3, OpenedStep
  <2> QED
    BY <2>4, <2>5, <2>6, <2>7, <2>8 DEF Wakes
<1>2. ASSUME Wakes, UNCHANGED vars
      PROVE  Wakes'
  <2>1. UNCHANGED << prog, prompt, pc, inside, timer, mask, saved, pend, frames, child, sent >>
    BY <1>2 DEF vars, runVars, procVars, signalVars, parentVars
  <2> QED
    BY <1>2, <2>1 DEF Wakes, Unsent, KillAhead, Text, Lasts, Awaits, WaitAt, Ready, Unmasked, Opened
<1> QED
  BY <1>1, <1>2

\* On every schedule of 08 and 09, and with exact sleeps in 05 and 06: a child that waits for its
\* signal can take it now, or its parent has a kill() still to make.
THEOREM WakeupComes == Spec => []WakeupToCome
<1>1. IInv /\ Wakes => WakeupToCome
  <2> SUFFICES ASSUME IInv, Wakes, Awaits, InWait, ~KillAhead
               PROVE  InHand
    BY DEF WakeupToCome, Awaits
  <2>1. prog \in DOMAIN Program /\ sent \in Nat /\ InText /\ PendOK
    BY TypeParts DEF IInv
  <2>2. sent > 0
    BY <2>1 DEF Wakes, Unsent, Awaits
  <2>3. /\ prog \in {5, 6} => pc["child"] = 2 /\ mask = {}
        /\ prog = 8 => pc["child"] = 4 /\ mask = {}
        /\ prog = 9 => pc["child"] = 2 /\ Op("child").op = "sigwaitinfo"
    BY <2>1, WaitTexts DEF InWait, Wakes, Unmasked, Opened
  <2>4. pend[USR1] > 0
    BY <2>2, <2>3 DEF Wakes, Lasts, InWait, Awaits, WaitAt
  <2> QED
    BY <2>3, <2>4 DEF InHand, Awaits
<1> QED
  BY <1>1, Invariant, InitWakes, StepWakes, PTL DEF Spec
=============================================================================
