----------------------------- MODULE AlarmProof -----------------------------
(* Theorems about Alarm, for all intervals and any number of sigalarm()s.  *)
EXTENDS Alarm, TLAPS

\* The count in alarmremain is what is left of the interval, and while a handler runs
\* it is below zero, where UserTick cannot find it, with the interrupted registers safe.
CountInv == alarmremain = alarmticks - since
HandlerInv ==
  depth > 0 /\ ~rearmed =>
    depth = 1 /\ alarmremain < 0 /\ original_trapframe = interrupted
IInv == TypeOK /\ CountInv /\ HandlerInv

\* A frame stays one whatever instruction, return value or handler address goes into it.
LEMMA FrameStays ==
  ASSUME NEW f \in Frame, NEW l, NEW a \in {0, 1}, NEW b \in {0, 1}
  PROVE  /\ [f EXCEPT !.a0 = a] \in Frame
         /\ [f EXCEPT !.epc = "handler"] \in Frame
         /\ [f EXCEPT !.epc = NextPc(@)] \in Frame
         /\ [epc |-> NextPc(f.epc), a0 |-> a, s |-> b] \in Frame
  BY DEF Frame, NextPc, MainPc, HandlerPc

\* The invariant holds before the first call of sigalarm().
LEMMA AlarmInit == Init => IInv
<1> SUFFICES ASSUME Init PROVE IInv
  OBVIOUS
<1>1. trapframe \in Frame
  BY DEF Init, Frame, MainPc, HandlerPc
<1>2. /\ alarmticks = 0 /\ alarmremain = 0 /\ calls = 0 /\ since = 0 /\ depth = 0
      /\ interrupted = trapframe
      /\ original_trapframe \in Frame
  BY DEF Init
<1>3. rearmed \in BOOLEAN
  BY DEF Init
<1> QED
  BY <1>1, <1>2, <1>3 DEF IInv, TypeOK, CountInv, HandlerInv

\* Every step of the program, of the timer and of the two system calls keeps the invariant.
LEMMA AlarmStep == IInv /\ [Next]_vars => IInv'
<1> SUFFICES ASSUME IInv, [Next]_vars PROVE IInv'
  OBVIOUS
<1> USE AlarmAssumption DEF IInv, TypeOK, CountInv, HandlerInv, alarm, history
<1>1. CASE UNCHANGED vars
  BY <1>1 DEF vars
<1>2. CASE UserInstruction
  BY <1>2, FrameStays DEF UserInstruction
<1>3. ASSUME NEW n \in Interval, sys_sigalarm(n) PROVE IInv'
  <2>1. trapframe' \in Frame
    BY <1>3, FrameStays DEF sys_sigalarm, ReturnFrom, AfterEcall
  <2>2. rearmed' \in BOOLEAN /\ (rearmed' <=> rearmed \/ depth > 0)
    BY <1>3 DEF sys_sigalarm
  <2>3. n \in Int /\ depth' = depth
    BY <1>3 DEF sys_sigalarm
  <2> QED
    BY <1>3, <2>1, <2>2, <2>3 DEF sys_sigalarm
<1>4. CASE sys_sigreturn
  <2>1. trapframe' \in Frame
    BY <1>4, FrameStays DEF sys_sigreturn, ReturnFrom
  <2> QED
    BY <1>4, <2>1 DEF sys_sigreturn
<1>5. CASE UserTick
  <2>1. CASE alarmremain = 0 /\ Fire
    <3>1. trapframe' \in Frame /\ trapframe \in Frame
      BY <2>1, FrameStays DEF Fire
    <3>2. depth = 0 \/ rearmed
      BY <2>1
    <3> QED
      BY <1>5, <2>1, <3>1, <3>2 DEF UserTick, Fire
  <2>2. CASE alarmremain # 0
    BY <1>5, <2>2 DEF UserTick
  <2> QED
    BY <1>5, <2>1, <2>2 DEF UserTick
<1> QED
  BY <1>1, <1>2, <1>3, <1>4, <1>5 DEF Next

\* What the count, the saved frame and the depth of handlers have to do with each other.
THEOREM AlarmCorrect == Spec => []IInv
  BY AlarmInit, AlarmStep, PTL DEF Spec

\* The handler is entered again only if a handler called sigalarm().
THEOREM NoReentryCorrect == Spec => []NoReentry
<1>1. IInv => NoReentry
  BY DEF IInv, TypeOK, HandlerInv, NoReentry
<1> QED
  BY <1>1, AlarmCorrect, PTL

\* sigreturn() restores all of the interrupted registers but a0.
THEOREM RestoresRegistersCorrect == Spec => RestoresRegisters
<1>1. IInv /\ [Next]_vars =>
        [(depth = 1 /\ depth' = 0 /\ ~rearmed) =>
           trapframe' = [interrupted EXCEPT !.a0 = 0]]_vars
  <2> SUFFICES ASSUME IInv, Next, depth = 1, depth' = 0, ~rearmed
               PROVE  trapframe' = [interrupted EXCEPT !.a0 = 0]
    BY DEF vars
  <2>1. sys_sigreturn
    BY DEF Next, UserInstruction, sys_sigalarm, UserTick, Fire, history
  <2> QED
    BY <2>1 DEF IInv, HandlerInv, sys_sigreturn, ReturnFrom
<1> QED
  BY <1>1, AlarmCorrect, PTL DEF Spec, RestoresRegisters

\* The handler comes with tick number n + 1, for every interval n.
THEOREM CountsTicksCorrect == Spec => CountsTicks
<1>1. IInv /\ [Next]_vars => [depth' > depth => since' = alarmticks + 1]_vars
  <2> SUFFICES ASSUME IInv, Next, depth' > depth
               PROVE  since' = alarmticks + 1
    BY DEF vars
  <2>1. UserTick /\ alarmremain = 0
    BY DEF Next, UserInstruction, sys_sigalarm, sys_sigreturn, UserTick, history, IInv, TypeOK
  <2> QED
    BY <2>1 DEF IInv, TypeOK, CountInv, UserTick
<1> QED
  BY <1>1, AlarmCorrect, PTL DEF Spec, CountsTicks
=============================================================================
