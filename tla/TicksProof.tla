----------------------------- MODULE TicksProof -----------------------------
(* Theorems about Ticks, for any number of processes, any width of ticks   *)
(* and any arguments of sleep().                                           *)
EXTENDS Ticks, TLAPS

\* What the unsigned arithmetic of sys_sleep() and clockintr() computes.
LEMMA ModNext ==
  ASSUME NEW a \in 0 .. TickMod - 1
  PROVE  (a + 1) % TickMod = IF a = TickMod - 1 THEN 0 ELSE a + 1
  BY TicksAssumption

\* ticks - ticks0 in unsigned arithmetic.
LEMMA ModDifference ==
  ASSUME NEW a \in 0 .. TickMod - 1, NEW b \in 0 .. TickMod - 1
  PROVE  (a - b) % TickMod = IF a >= b THEN a - b ELSE a - b + TickMod
<1>1. TickMod \in Nat \ {0}
  BY TicksAssumption
<1> QED
  BY <1>1

\* n as an unsigned number.
LEMMA ModArgument ==
  ASSUME NEW k \in Args \cup {0}
  PROVE  /\ k \in Int /\ k < TickMod /\ k + MaxLate < TickMod
         /\ k % TickMod = IF k >= 0 THEN k ELSE k + TickMod
  BY TicksAssumption, LateAssumption

\* One tick makes ticks - ticks0 one larger, or 0 once it has come round.
LEMMA SinceNext ==
  ASSUME NEW a \in 0 .. TickMod - 1, NEW b \in 0 .. TickMod - 1
  PROVE  /\ (a - b) % TickMod \in 0 .. TickMod - 1
         /\ (((a + 1) % TickMod) - b) % TickMod
              = IF (a - b) % TickMod = TickMod - 1 THEN 0 ELSE ((a - b) % TickMod) + 1
<1>1. TickMod \in Nat \ {0}
  BY TicksAssumption
<1> DEFINE c == (a + 1) % TickMod
<1>2. c = IF a = TickMod - 1 THEN 0 ELSE a + 1
  BY ModNext
<1>3. c \in 0 .. TickMod - 1
  BY <1>1, <1>2
<1> DEFINE d == (a - b) % TickMod
           e == (c - b) % TickMod
<1>4. d = IF a >= b THEN a - b ELSE a - b + TickMod
  BY ModDifference
<1> HIDE DEF c, d
<1>5. e = IF c >= b THEN c - b ELSE c - b + TickMod
  BY <1>3, ModDifference
<1> HIDE DEF e
<1>6. d \in 0 .. TickMod - 1 /\ e = IF d = TickMod - 1 THEN 0 ELSE d + 1
  BY <1>1, <1>2, <1>4, <1>5
<1> QED
  BY <1>6 DEF c, d, e

-----------------------------------------------------------------------------
\* tickslock is with the process that is between reading ticks and sleeping, or with the
\* clock interrupt, which has interrupted a process that runs.
LockInv ==
  /\ \A p \in Slot : pc[p] \in {"loop", "sleep"} <=> tickslock = p
  /\ \A p \in Slot : state[p] = "SLEEPING" => pc[p] = "asleep"
  /\ \A p \in Slot : interrupted = p => tickslock = Clock /\ state[p] = "RUNNABLE"

\* A process that will sleep, or sleeps, still has to, as in NoOversleep.
SleepInv == NoOversleep /\ \A p \in Slot : pc[p] = "sleep" => ~TimeUp(p)

\* The ticks counted are the ticks that passed, until ticks has come round; and the
\* process is late only while it is awake and does not run.
Since(p) == (ticks - ticks0[p]) % TickMod
CountInv ==
  \A p \in Slot :
    /\ Counting(p) => elapsed[p] \in {TickMod, Since(p)}
    /\ pc[p] \in {"user", "acquire"} => elapsed[p] = 0
    /\ late[p] # 0 => Awake(p)

\* No more than n ticks pass before the process is awake.
OnTimeInv ==
  \A p \in Slot : n[p] >= 0 =>
    /\ pc[p] = "loop" => elapsed[p] <= n[p] + MaxLate
    /\ pc[p] \in {"sleep", "asleep"} => elapsed[p] <= n[p] + late[p]

IInv == TypeOK /\ LockInv /\ SleepInv /\ CountInv /\ OnTimeInv /\ ReturnsOnTime

\* The invariant holds at boot.
LEMMA TicksInit == Init => IInv
<1> SUFFICES ASSUME Init PROVE IInv
  OBVIOUS
<1> USE TicksAssumption DEF Init
<1>1. TypeOK
  BY DEF TypeOK, MaxElapsed
<1>2. LockInv /\ SleepInv
  BY DEF LockInv, SleepInv, NoOversleep
<1>3. CountInv /\ OnTimeInv /\ ReturnsOnTime
  BY DEF CountInv, OnTimeInv, ReturnsOnTime, Counting
<1> QED
  BY <1>1, <1>2, <1>3 DEF IInv

\* Every step keeps the types.
LEMMA TypeStep == TypeOK /\ [Next]_vars => TypeOK'
<1> SUFFICES ASSUME TypeOK, [Next]_vars PROVE TypeOK'
  OBVIOUS
<1> USE TicksAssumption DEF TypeOK, MaxElapsed
<1>1. CASE UNCHANGED vars
  BY <1>1 DEF vars, Goto, global, table, call, clock, history
<1>2. ASSUME NEW p \in Slot, NEW k \in Args, SysSleep(p, k) PROVE TypeOK'
  BY <1>2 DEF SysSleep, Goto, global, table, call, clock, history
<1>3. ASSUME NEW p \in Slot, Kill(p) PROVE TypeOK'
  BY <1>3 DEF Kill, Goto, global, table, call, clock, history
<1>4. ASSUME NEW p \in Slot, ReadTicks0(p) PROVE TypeOK'
  BY <1>4 DEF ReadTicks0, Goto, global, table, call, clock, history
<1>5. ASSUME NEW p \in Slot, SleepDone(p) PROVE TypeOK'
  BY <1>5 DEF SleepDone, Return, Goto, global, table, call, clock, history
<1>6. ASSUME NEW p \in Slot, SleepKilled(p) PROVE TypeOK'
  BY <1>6 DEF SleepKilled, Return, Goto, global, table, call, clock, history
<1>7. ASSUME NEW p \in Slot, SleepMore(p) PROVE TypeOK'
  BY <1>7 DEF SleepMore, Goto, global, table, call, clock, history
<1>8. ASSUME NEW p \in Slot, Sleep(p) PROVE TypeOK'
  BY <1>8 DEF Sleep, Goto, global, table, call, clock, history
<1>9. ASSUME NEW p \in Slot, Wake(p) PROVE TypeOK'
  BY <1>9 DEF Wake, Goto, global, table, call, clock, history
<1>10. ASSUME NEW p \in Slot, Leave(p) PROVE TypeOK'
  BY <1>10 DEF Leave, Goto, global, table, call, clock, history
<1>11. ASSUME NEW p \in Slot \cup {None}, ClockTick(p) PROVE TypeOK'
  <2>1. ticks' \in 0 .. TickMod - 1
    BY <1>11, ModNext DEF ClockTick
  <2>2. elapsed' \in [Slot -> 0 .. MaxElapsed] /\ late' \in [Slot -> 0 .. MaxLate]
    BY <1>11 DEF ClockTick, ClockEntry, Up, MaxElapsed
  <2> QED
    BY <1>11, <2>1, <2>2 DEF ClockTick, ClockEntry, Goto, global, table, call, clock, history
<1>12. CASE WakeupSlot
  <2>1. scan \in Slot /\ scan + 1 \in 0 .. NPROC
    BY <1>12 DEF WakeupSlot, Slot
  <2> QED
    BY <1>12, <2>1 DEF WakeupSlot, Goto, global, table, call, clock, history
<1>13. CASE ClockDone
  BY <1>13 DEF ClockDone, Goto, global, table, call, clock, history
<1> QED
  BY <1>1, <1>2, <1>3, <1>4, <1>5, <1>6, <1>7,
     <1>8, <1>9, <1>10, <1>11, <1>12, <1>13
     DEF Next, KernelStep, ClockStep

\* Every step keeps tickslock with one owner.
LEMMA LockStep == TypeOK /\ LockInv /\ [Next]_vars => LockInv'
<1> SUFFICES ASSUME TypeOK /\ LockInv, [Next]_vars PROVE LockInv'
  OBVIOUS
<1> USE TicksAssumption DEF TypeOK, LockInv, Slot
<1>1. CASE UNCHANGED vars
  BY <1>1 DEF vars, Goto, global, table, call, clock, history
<1>2. ASSUME NEW p \in Slot, NEW k \in Args, SysSleep(p, k) PROVE LockInv'
  BY <1>2 DEF SysSleep, Goto, global, table, call, clock, history
<1>3. ASSUME NEW p \in Slot, Kill(p) PROVE LockInv'
  BY <1>3 DEF Kill, Goto, global, table, call, clock, history
<1>4. ASSUME NEW p \in Slot, ReadTicks0(p) PROVE LockInv'
  BY <1>4 DEF ReadTicks0, Goto, global, table, call, clock, history
<1>5. ASSUME NEW p \in Slot, SleepDone(p) PROVE LockInv'
  BY <1>5 DEF SleepDone, Return, Goto, global, table, call, clock, history
<1>6. ASSUME NEW p \in Slot, SleepKilled(p) PROVE LockInv'
  <2>1. Goto(p, "loop", "return") /\ tickslock' = None /\ UNCHANGED <<state, interrupted>>
    BY <1>6 DEF SleepKilled, Return, table, clock
  <2> QED
    BY <2>1 DEF Goto
<1>7. ASSUME NEW p \in Slot, SleepMore(p) PROVE LockInv'
  BY <1>7 DEF SleepMore, Goto, global, table, call, clock, history
<1>8. ASSUME NEW p \in Slot, Sleep(p) PROVE LockInv'
  BY <1>8 DEF Sleep, Goto, global, table, call, clock, history
<1>9. ASSUME NEW p \in Slot, Wake(p) PROVE LockInv'
  BY <1>9 DEF Wake, Goto, global, table, call, clock, history
<1>10. ASSUME NEW p \in Slot, Leave(p) PROVE LockInv'
  BY <1>10 DEF Leave, Goto, global, table, call, clock, history
<1>11. ASSUME NEW p \in Slot \cup {None}, ClockTick(p) PROVE LockInv'
  BY <1>11 DEF ClockTick, ClockEntry, Goto, global, table, call, clock, history
<1>12. CASE WakeupSlot
  BY <1>12 DEF WakeupSlot, Goto, global, table, call, clock, history
<1>13. CASE ClockDone
  BY <1>13 DEF ClockDone, Goto, global, table, call, clock, history
<1> QED
  BY <1>1, <1>2, <1>3, <1>4, <1>5, <1>6, <1>7,
     <1>8, <1>9, <1>10, <1>11, <1>12, <1>13
     DEF Next, KernelStep, ClockStep

\* Every step keeps those asleep whose time is not up.
LEMMA SleepStep == TypeOK /\ LockInv /\ SleepInv /\ [Next]_vars => SleepInv'
<1> SUFFICES ASSUME TypeOK /\ LockInv /\ SleepInv, [Next]_vars PROVE SleepInv'
  OBVIOUS
<1> USE TicksAssumption DEF TypeOK, LockInv, SleepInv, NoOversleep, TimeUp, Slot
<1>1. CASE UNCHANGED vars
  BY <1>1 DEF vars, Goto, global, table, call, clock, history
<1>2. ASSUME NEW p \in Slot, NEW k \in Args, SysSleep(p, k) PROVE SleepInv'
  BY <1>2 DEF SysSleep, Goto, global, table, call, clock, history
<1>3. ASSUME NEW p \in Slot, Kill(p) PROVE SleepInv'
  BY <1>3 DEF Kill, Goto, global, table, call, clock, history
<1>4. ASSUME NEW p \in Slot, ReadTicks0(p) PROVE SleepInv'
  BY <1>4 DEF ReadTicks0, Goto, global, table, call, clock, history
<1>5. ASSUME NEW p \in Slot, SleepDone(p) PROVE SleepInv'
  BY ZenonT(60), <1>5 DEF SleepDone, Return, Goto, global, table, call, clock, history
<1>6. ASSUME NEW p \in Slot, SleepKilled(p) PROVE SleepInv'
  BY ZenonT(60), <1>6 DEF SleepKilled, Return, Goto, global, table, call, clock, history
<1>7. ASSUME NEW p \in Slot, SleepMore(p) PROVE SleepInv'
  BY <1>7 DEF SleepMore, Goto, global, table, call, clock, history
<1>8. ASSUME NEW p \in Slot, Sleep(p) PROVE SleepInv'
  BY ZenonT(60), <1>8 DEF Sleep, Goto, global, table, call, clock, history
<1>9. ASSUME NEW p \in Slot, Wake(p) PROVE SleepInv'
  BY <1>9 DEF Wake, Goto, global, table, call, clock, history
<1>10. ASSUME NEW p \in Slot, Leave(p) PROVE SleepInv'
  BY <1>10 DEF Leave, Goto, global, table, call, clock, history
<1>11. ASSUME NEW p \in Slot \cup {None}, ClockTick(p) PROVE SleepInv'
  <2>1. \A q \in Slot : pc[q] # "sleep"
    BY <1>11 DEF ClockTick, ClockEntry
  <2>2. \A q \in Slot : state[q] = "SLEEPING" => q # p
    BY <1>11 DEF ClockTick, ClockEntry
  <2>3. tickslock' = Clock /\ scan' = 0 /\ interrupted' = p /\ UNCHANGED <<state, pc>>
    BY <1>11 DEF ClockTick, ClockEntry, table
  <2> QED
    BY <2>1, <2>2, <2>3
<1>12. CASE WakeupSlot
  <2>1. \A q \in Slot : TimeUp(q)' = TimeUp(q) /\ pc'[q] = pc[q]
    BY <1>12 DEF WakeupSlot, global, call
  <2>2. /\ tickslock = Clock /\ tickslock' = Clock /\ interrupted' = interrupted
        /\ scan \in Slot /\ scan' = scan + 1
    BY <1>12 DEF WakeupSlot, global
  <2>3. ASSUME NEW q \in Slot, state'[q] = "SLEEPING", q # scan PROVE state[q] = "SLEEPING"
    BY <1>12, <2>3 DEF WakeupSlot
  <2>4. state'[scan] = "SLEEPING" => interrupted = scan /\ state[scan] = "SLEEPING"
    BY <1>12, <2>2 DEF WakeupSlot
  <2>5. ASSUME NEW q \in Slot, state'[q] = "SLEEPING"
        PROVE  ~TimeUp(q) \/ (scan < q /\ interrupted # q)
    <3>1. q # scan /\ state[q] = "SLEEPING"
      BY <2>3, <2>4, <2>5
    <3>2. ~TimeUp(q) \/ (scan <= q /\ interrupted # q)
      BY <3>1 DEF TimeUp
    <3> QED
      BY <2>2, <3>1, <3>2
  <2>6. ASSUME NEW q \in Slot, pc'[q] = "sleep" PROVE ~TimeUp(q)'
    BY <2>1, <2>6
  <2> HIDE DEF TimeUp
  <2>7. NoOversleep'
    BY <2>1, <2>2, <2>5
  <2> QED
    BY <2>6, <2>7
<1>13. CASE ClockDone
  BY <1>13 DEF ClockDone, Goto, global, table, call, clock, history
<1> QED
  BY <1>1, <1>2, <1>3, <1>4, <1>5, <1>6, <1>7,
     <1>8, <1>9, <1>10, <1>11, <1>12, <1>13
     DEF Next, KernelStep, ClockStep

\* Without a wrap, time that is not up is less than n.
LEMMA NotYet ==
  ASSUME IInv, NEW p \in Slot, n[p] >= 0, Counting(p), ~TimeUp(p), elapsed[p] < TickMod
  PROVE  elapsed[p] < n[p]
<1>1. n[p] \in Args \cup {0} /\ ticks \in 0 .. TickMod - 1 /\ ticks0[p] \in 0 .. TickMod - 1
  BY DEF IInv, TypeOK
<1>2. n[p] \in Int /\ n[p] % TickMod = n[p]
  BY <1>1, ModArgument
<1>3. elapsed[p] = Since(p)
  BY TicksAssumption DEF IInv, CountInv
<1>4. (ticks - ticks0[p]) % TickMod \in 0 .. TickMod - 1
  BY <1>1, SinceNext
<1> QED
  BY <1>2, <1>3, <1>4, TicksAssumption DEF TimeUp, Since

\* The numbers of a call are integers.
LEMMA Numbers ==
  ASSUME TypeOK, NEW p \in Slot
  PROVE  /\ n[p] \in Int /\ n[p] < TickMod /\ n[p] + MaxLate < TickMod
         /\ elapsed[p] \in 0 .. TickMod /\ late[p] \in 0 .. MaxLate
  BY ModArgument DEF TypeOK, MaxElapsed

\* Every step keeps elapsed the true number of ticks.
LEMMA CountStep == TypeOK /\ LockInv /\ CountInv /\ [Next]_vars => CountInv'
<1> SUFFICES ASSUME TypeOK /\ LockInv /\ CountInv, [Next]_vars PROVE CountInv'
  OBVIOUS
<1>c. /\ TickMod \in Nat \ {0} /\ MaxLate \in Nat /\ NPROC \in Nat
      /\ None \notin Slot /\ Clock \notin Slot /\ None # Clock
  BY TicksAssumption
<1> USE <1>c DEF TypeOK, LockInv, CountInv, Counting, Awake, Since, Slot
<1>1. CASE UNCHANGED vars
  BY <1>1 DEF vars, Goto, global, table, call, clock, history
<1>2. ASSUME NEW p \in Slot, NEW k \in Args, SysSleep(p, k) PROVE CountInv'
  BY <1>2 DEF SysSleep, Goto, global, table, call, clock, history
<1>3. ASSUME NEW p \in Slot, Kill(p) PROVE CountInv'
  BY <1>3 DEF Kill, Goto, global, table, call, clock, history
<1>4. ASSUME NEW p \in Slot, ReadTicks0(p) PROVE CountInv'
  BY <1>4 DEF ReadTicks0, Goto, global, table, call, clock, history
<1>5. ASSUME NEW p \in Slot, SleepDone(p) PROVE CountInv'
  <2>1. /\ pc' = [pc EXCEPT ![p] = "return"] /\ pc[p] = "loop"
        /\ \A q \in Slot \ {p} : ticks0'[q] = ticks0[q]
        /\ UNCHANGED <<ticks, state, elapsed, late>>
    BY <1>5 DEF SleepDone, SleepKilled, Return, Goto, table, history
  <2>2. \A q \in Slot \ {p} : Since(q)' = Since(q)
    BY <2>1
  <2> HIDE DEF Since
  <2> QED
    BY <2>1, <2>2
<1>6. ASSUME NEW p \in Slot, SleepKilled(p) PROVE CountInv'
  <2>1. /\ pc' = [pc EXCEPT ![p] = "return"] /\ pc[p] = "loop"
        /\ \A q \in Slot \ {p} : ticks0'[q] = ticks0[q]
        /\ UNCHANGED <<ticks, state, elapsed, late>>
    BY <1>6 DEF SleepDone, SleepKilled, Return, Goto, table, history
  <2>2. \A q \in Slot \ {p} : Since(q)' = Since(q)
    BY <2>1
  <2> HIDE DEF Since
  <2> QED
    BY <2>1, <2>2
<1>7. ASSUME NEW p \in Slot, SleepMore(p) PROVE CountInv'
  BY <1>7 DEF SleepMore, Goto, global, table, call, clock, history
<1>8. ASSUME NEW p \in Slot, Sleep(p) PROVE CountInv'
  BY <1>8 DEF Sleep, Goto, global, table, call, clock, history
<1>9. ASSUME NEW p \in Slot, Wake(p) PROVE CountInv'
  BY <1>9 DEF Wake, Goto, global, table, call, clock, history
<1>10. ASSUME NEW p \in Slot, Leave(p) PROVE CountInv'
  BY <1>10 DEF Leave, Goto, global, table, call, clock, history
<1>11. ASSUME NEW p \in Slot \cup {None}, ClockTick(p) PROVE CountInv'
  <2> HIDE DEF Since
  <2> SUFFICES ASSUME NEW q \in Slot
               PROVE  /\ Counting(q) => elapsed'[q] \in {TickMod, Since(q)'}
                      /\ pc[q] \in {"user", "acquire"} => elapsed'[q] = 0
                      /\ late'[q] # 0 => Awake(q)
    BY <1>11 DEF ClockTick, ClockEntry, table
  <2>1. /\ UNCHANGED <<pc, state, ticks0>> /\ ticks' = (ticks + 1) % TickMod
        /\ elapsed'[q] = IF Counting(q) THEN Up(elapsed[q], TickMod) ELSE elapsed[q]
        /\ late'[q] = IF Awake(q) THEN late[q] + 1 ELSE late[q]
    BY <1>11 DEF ClockTick, ClockEntry, table, call, MaxElapsed
  <2>2. /\ Since(q) \in 0 .. TickMod - 1
        /\ Since(q)' = IF Since(q) = TickMod - 1 THEN 0 ELSE Since(q) + 1
    <3>1. ticks \in 0 .. TickMod - 1 /\ ticks0[q] \in 0 .. TickMod - 1
      OBVIOUS
    <3> QED
      BY ZenonT(60), <2>1, <3>1, SinceNext DEF Since
  <2>3. ASSUME Counting(q) PROVE elapsed'[q] \in {TickMod, Since(q)'}
    <3>1. elapsed[q] = TickMod \/ elapsed[q] = Since(q)
      BY <2>3
    <3>2. elapsed'[q] = IF elapsed[q] < TickMod THEN elapsed[q] + 1 ELSE TickMod
      BY <2>1, <2>3 DEF Up
    <3> HIDE DEF Counting
    <3> QED
      BY <2>2, <3>1, <3>2
  <2> QED
    BY <2>1, <2>3
<1>12. CASE WakeupSlot
  BY <1>12 DEF WakeupSlot, Goto, global, table, call, clock, history
<1>13. CASE ClockDone
  BY <1>13 DEF ClockDone, Goto, global, table, call, clock, history
<1> QED
  BY <1>1, <1>2, <1>3, <1>4, <1>5, <1>6, <1>7,
     <1>8, <1>9, <1>10, <1>11, <1>12, <1>13
     DEF Next, KernelStep, ClockStep

\* Every step keeps the calls within their time.
LEMMA OnTimeStep == IInv /\ [Next]_vars => OnTimeInv'
<1> SUFFICES ASSUME IInv, [Next]_vars PROVE OnTimeInv'
  OBVIOUS
<1>a. \A p \in Slot : /\ n[p] \in Int /\ n[p] < TickMod /\ n[p] + MaxLate < TickMod
                       /\ elapsed[p] \in 0 .. TickMod /\ late[p] \in 0 .. MaxLate
  BY Numbers DEF IInv
<1>b. \A p \in Slot : n[p] >= 0 /\ Counting(p) /\ ~TimeUp(p) /\ elapsed[p] < TickMod
                      => elapsed[p] < n[p]
  BY NotYet
<1>c. /\ TickMod \in Nat \ {0} /\ MaxLate \in Nat /\ NPROC \in Nat
      /\ None \notin Slot /\ Clock \notin Slot /\ None # Clock
  BY TicksAssumption
<1> USE <1>c DEF IInv, TypeOK, LockInv, CountInv, OnTimeInv, Counting, Awake, Slot
<1>1. CASE UNCHANGED vars
  BY <1>1 DEF vars, Goto, global, table, call, clock, history
<1>2. ASSUME NEW p \in Slot, NEW k \in Args, SysSleep(p, k) PROVE OnTimeInv'
  BY <1>2 DEF SysSleep, Goto, global, table, call, clock, history
<1>3. ASSUME NEW p \in Slot, Kill(p) PROVE OnTimeInv'
  BY <1>3 DEF Kill, Goto, global, table, call, clock, history
<1>4. ASSUME NEW p \in Slot, ReadTicks0(p) PROVE OnTimeInv'
  <2>1. elapsed[p] = 0 /\ n[p] + MaxLate >= n[p] /\ n[p] \in Int
    BY <1>4, <1>a DEF ReadTicks0, Goto
  <2>2. pc' = [pc EXCEPT ![p] = "loop"] /\ UNCHANGED <<n, elapsed, late>>
    BY <1>4 DEF ReadTicks0, Goto, history
  <2>3. ASSUME NEW q \in Slot, q # p, n[q] >= 0
        PROVE  /\ pc'[q] = "loop" => elapsed[q] <= n[q] + MaxLate
               /\ pc'[q] \in {"sleep", "asleep"} => elapsed[q] <= n[q] + late[q]
    BY <2>2, <2>3
  <2>4. pc'[p] = "loop" /\ (n[p] >= 0 => elapsed[p] <= n[p] + MaxLate)
    BY <2>1, <2>2, <1>a
  <2> HIDE <1>c
  <2> QED
    BY <2>2, <2>3, <2>4
<1>5. ASSUME NEW p \in Slot, SleepDone(p) PROVE OnTimeInv'
  BY <1>5 DEF SleepDone, Return, Goto, global, table, call, clock, history
<1>6. ASSUME NEW p \in Slot, SleepKilled(p) PROVE OnTimeInv'
  BY <1>6 DEF SleepKilled, Return, Goto, global, table, call, clock, history
<1>7. ASSUME NEW p \in Slot, SleepMore(p) PROVE OnTimeInv'
  <2>1. n[p] >= 0 => elapsed[p] < n[p]
    BY <1>7, <1>a, <1>b DEF SleepMore, Goto
  <2>2. late[p] = 0 /\ n[p] \in Int /\ elapsed[p] \in Int
    BY <1>7, <1>a DEF SleepMore, Goto
  <2> QED
    BY SMTT(30), <1>7, <2>1, <2>2 DEF SleepMore, Goto, table, call, history
<1>8. ASSUME NEW p \in Slot, Sleep(p) PROVE OnTimeInv'
  BY <1>8 DEF Sleep, Goto, global, table, call, clock, history
<1>9. ASSUME NEW p \in Slot, Wake(p) PROVE OnTimeInv'
  <2>1. n[p] >= 0 => elapsed[p] <= n[p] + MaxLate
    BY <1>9, <1>a DEF Wake, Goto
  <2> QED
    BY <1>9, <2>1 DEF Wake, Goto, table, call
<1>10. ASSUME NEW p \in Slot, Leave(p) PROVE OnTimeInv'
  BY <1>10 DEF Leave, Goto, global, table, call, clock, history
<1>11. ASSUME NEW p \in Slot \cup {None}, ClockTick(p) PROVE OnTimeInv'
  <2>0. \A q \in Slot : pc[q] \notin {"loop", "sleep"}
    BY <1>11 DEF ClockTick, ClockEntry
  <2> SUFFICES ASSUME NEW q \in Slot, n[q] >= 0, pc[q] = "asleep"
               PROVE  elapsed'[q] <= n[q] + late'[q]
    BY <1>11, <2>0 DEF ClockTick, ClockEntry, table, call
  <2>1. pc[q] = "asleep"
    OBVIOUS
  <2>2. /\ elapsed'[q] = Up(elapsed[q], TickMod)
        /\ late'[q] = IF Awake(q) THEN late[q] + 1 ELSE late[q]
    BY <1>11, <2>1 DEF ClockTick, ClockEntry, MaxElapsed
  <2>3. n[q] \in Int /\ elapsed[q] \in Int /\ late[q] \in Int /\ n[q] < TickMod
        /\ elapsed'[q] \in Int /\ elapsed'[q] <= elapsed[q] + 1
        /\ elapsed[q] <= n[q] + late[q]
    BY SMTT(30), <2>2, <1>a DEF Up
  <2>4. CASE Awake(q)
    BY <2>1, <2>2, <2>3, <2>4
  <2>5. CASE ~Awake(q)
    <3>1. state[q] = "SLEEPING" /\ late[q] = 0 /\ tickslock = None
      BY <1>11, <2>1, <2>5 DEF ClockTick, ClockEntry
    <3>2. ~TimeUp(q)
      BY <3>1 DEF SleepInv, NoOversleep
    <3>3. elapsed[q] < n[q]
      BY <2>1, <2>3, <3>1, <3>2, <1>b
    <3> QED
      BY <2>2, <2>3, <2>5, <3>1, <3>3
  <2> QED
    BY <2>1, <2>4, <2>5
<1>12. CASE WakeupSlot
  BY <1>12 DEF WakeupSlot, Goto, global, table, call, clock, history
<1>13. CASE ClockDone
  BY <1>13 DEF ClockDone, Goto, global, table, call, clock, history
<1> QED
  BY <1>1, <1>2, <1>3, <1>4, <1>5, <1>6, <1>7,
     <1>8, <1>9, <1>10, <1>11, <1>12, <1>13
     DEF Next, KernelStep, ClockStep

\* Every return is on time.
LEMMA ReturnStep == IInv /\ [Next]_vars => ReturnsOnTime'
<1> SUFFICES ASSUME IInv, [Next]_vars PROVE ReturnsOnTime'
  OBVIOUS
<1>a. \A p \in Slot : /\ n[p] \in Int /\ n[p] < TickMod /\ n[p] + MaxLate < TickMod
                       /\ elapsed[p] \in 0 .. TickMod /\ late[p] \in 0 .. MaxLate
  BY Numbers DEF IInv
<1>b. \A p \in Slot : n[p] >= 0 /\ Counting(p) /\ ~TimeUp(p) /\ elapsed[p] < TickMod
                      => elapsed[p] < n[p]
  BY NotYet
<1>c. /\ TickMod \in Nat \ {0} /\ MaxLate \in Nat /\ NPROC \in Nat
      /\ None \notin Slot /\ Clock \notin Slot /\ None # Clock
  BY TicksAssumption
<1> USE <1>c DEF IInv, TypeOK, LockInv, CountInv, OnTimeInv, ReturnsOnTime, Counting, Slot
<1>1. CASE UNCHANGED vars
  BY <1>1 DEF vars, Goto, global, table, call, clock, history
<1>2. ASSUME NEW p \in Slot, NEW k \in Args, SysSleep(p, k) PROVE ReturnsOnTime'
  BY <1>2 DEF SysSleep, Goto, global, table, call, clock, history
<1>3. ASSUME NEW p \in Slot, Kill(p) PROVE ReturnsOnTime'
  BY <1>3 DEF Kill, Goto, global, table, call, clock, history
<1>4. ASSUME NEW p \in Slot, ReadTicks0(p) PROVE ReturnsOnTime'
  BY <1>4 DEF ReadTicks0, Goto, global, table, call, clock, history
<1>5. ASSUME NEW p \in Slot, SleepDone(p) PROVE ReturnsOnTime'
  <2>1. elapsed[p] >= n[p] % TickMod
    <3>1. Since(p) >= n[p] % TickMod /\ elapsed[p] \in {TickMod, Since(p)}
      BY <1>5 DEF SleepDone, Return, Goto, TimeUp, Since
    <3>2. n[p] % TickMod < TickMod
      <4>1. n[p] \in Args \cup {0}
        OBVIOUS
      <4> QED
        BY <4>1, ModArgument
    <3> QED
      BY <3>1, <3>2, <1>a
  <2>2. n[p] >= 0 => elapsed[p] <= n[p] + MaxLate
    BY <1>5 DEF SleepDone, Return, Goto
  <2> QED
    BY <1>5, <2>1, <2>2 DEF SleepDone, Return, Goto, table, history
<1>6. ASSUME NEW p \in Slot, SleepKilled(p) PROVE ReturnsOnTime'
  <2>1. n[p] >= 0 => elapsed[p] < n[p]
    BY SMTT(30), <1>6, <1>a, <1>b DEF SleepKilled, Return, Goto
  <2> QED
    BY SMTT(30), <1>6, <2>1 DEF SleepKilled, Return, Goto, table, history
<1>7. ASSUME NEW p \in Slot, SleepMore(p) PROVE ReturnsOnTime'
  BY <1>7 DEF SleepMore, Goto, global, table, call, clock, history
<1>8. ASSUME NEW p \in Slot, Sleep(p) PROVE ReturnsOnTime'
  BY <1>8 DEF Sleep, Goto, global, table, call, clock, history
<1>9. ASSUME NEW p \in Slot, Wake(p) PROVE ReturnsOnTime'
  BY <1>9 DEF Wake, Goto, global, table, call, clock, history
<1>10. ASSUME NEW p \in Slot, Leave(p) PROVE ReturnsOnTime'
  BY <1>10 DEF Leave, Goto, global, table, call, clock, history
<1>11. ASSUME NEW p \in Slot \cup {None}, ClockTick(p) PROVE ReturnsOnTime'
  BY <1>11 DEF ClockTick, ClockEntry, Goto, global, table, call, clock, history
<1>12. CASE WakeupSlot
  BY <1>12 DEF WakeupSlot, Goto, global, table, call, clock, history
<1>13. CASE ClockDone
  BY <1>13 DEF ClockDone, Goto, global, table, call, clock, history
<1> QED
  BY <1>1, <1>2, <1>3, <1>4, <1>5, <1>6, <1>7,
     <1>8, <1>9, <1>10, <1>11, <1>12, <1>13
     DEF Next, KernelStep, ClockStep

\* Who holds tickslock, who sleeps, and how many ticks have passed.
THEOREM TicksCorrect == Spec => []IInv
<1>1. IInv /\ [Next]_vars => IInv'
  BY TypeStep, LockStep, SleepStep, CountStep, OnTimeStep, ReturnStep DEF IInv
<1> QED
  BY <1>1, TicksInit, PTL DEF Spec

\* sleep(n) returns 0 after n ticks and not much later, and -1 only to a killed process.
THEOREM ReturnsOnTimeCorrect == Spec => []ReturnsOnTime
<1>1. IInv => ReturnsOnTime
  BY DEF IInv
<1> QED
  BY <1>1, TicksCorrect, PTL

\* Nobody sleeps whose time is up.
THEOREM NoOversleepCorrect == Spec => []NoOversleep
<1>1. IInv => NoOversleep
  BY DEF IInv, SleepInv
<1> QED
  BY <1>1, TicksCorrect, PTL
=============================================================================
