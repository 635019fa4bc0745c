----------------------------- MODULE ProcProof -----------------------------
(* Theorems about Proc, for every number of slots and of CPUs.             *)
EXTENDS Proc, TLAPS

\* The loop of scheduler() stays in the table (proc.c:463).
LEMMA NextSlotInTable == ASSUME NEW q \in Slot PROVE NextSlot(q) \in Slot
  BY ProcAssumption DEF NextSlot, Slot

\* A loop variable short of the end of the table names a slot, and the next is in range.
LEMMA ScanInTable ==
  ASSUME TypeOK, NEW p \in Slot, scan[p] < NPROC
  PROVE  scan[p] \in Slot /\ scan[p] + 1 \in 0 .. NPROC
<1>1. scan[p] \in 0 .. NPROC
  BY DEF TypeOK
<1> QED
  BY <1>1, ProcAssumption DEF Slot

\* A step of wakeup() only ever makes a SLEEPING process RUNNABLE (proc.c:582-583).
LEMMA WakeupEffect ==
  ASSUME TypeOK, NEW p \in Slot, NEW ch, WakeupSlot(p, ch)
  PROVE  \A r \in Slot : \/ state'[r] = state[r]
                         \/ state[r] = "SLEEPING" /\ state'[r] = "RUNNABLE"
<1>1. scan[p] \in Slot
  BY ScanInTable DEF WakeupSlot
<1>2. state \in [Slot -> ProcState]
  BY DEF TypeOK
<1> QED
  BY <1>1, <1>2 DEF WakeupSlot

\* The types hold at boot.
LEMMA TypeInit == Init => TypeOK
  BY ProcAssumption DEF Init, TypeOK, Slot, initproc, ProcState, Label

\* Every step keeps the types.
LEMMA TypeStep == TypeOK /\ [Next]_vars => TypeOK'
<1> SUFFICES ASSUME TypeOK, [Next]_vars PROVE TypeOK'
  OBVIOUS
<1> USE ProcAssumption DEF TypeOK, ProcState, Label, InWait, InFork, InExit,
        table, cpuVars, thread
<1>0. CASE UNCHANGED vars
  BY <1>0 DEF vars
<1>1. ASSUME NEW c \in CPU, ScanSlot(c) PROVE TypeOK'
  BY SMTT(30), <1>1, NextSlotInTable DEF ScanSlot
<1>2. ASSUME NEW c \in CPU, SchedBack(c) PROVE TypeOK'
  BY <1>2, NextSlotInTable DEF SchedBack
<1>3. ASSUME NEW c \in CPU, NEW p \in Slot, UserTick(c, p) PROVE TypeOK'
  BY <1>3 DEF UserTick, At, yield, sched
<1>4. ASSUME NEW c \in CPU, NEW p \in Slot, KernelTick(c, p) PROVE TypeOK'
  BY <1>4 DEF KernelTick, yield, sched
<1>5. ASSUME NEW c \in CPU, NEW p \in Slot, Resume(c, p) PROVE TypeOK'
  BY <1>5 DEF Resume, Goto, AfterSwtch
<1>6. ASSUME NEW c \in CPU, NEW p \in Slot, SysFork(c, p) PROVE TypeOK'
  BY <1>6 DEF SysFork, Syscall, Goto
<1>7. ASSUME NEW c \in CPU, NEW p \in Slot, SysWait(c, p) PROVE TypeOK'
  BY <1>7 DEF SysWait, Syscall, Goto
<1>8. ASSUME NEW c \in CPU, NEW p \in Slot, SysExit(c, p) PROVE TypeOK'
  BY <1>8 DEF SysExit, Syscall, Goto
<1>9. ASSUME NEW c \in CPU, NEW p \in Slot, SysKill(c, p) PROVE TypeOK'
  BY <1>9 DEF SysKill, Syscall, Goto
<1>10. ASSUME NEW c \in CPU, NEW p \in Slot, UsertrapFault(c, p) PROVE TypeOK'
  BY <1>10 DEF UsertrapFault, Goto
<1>11. ASSUME NEW c \in CPU, NEW p \in Slot, UsertrapKilled(c, p) PROVE TypeOK'
  BY <1>11 DEF UsertrapKilled, Goto
<1>12. ASSUME NEW c \in CPU, NEW p \in Slot, Usertrapret(c, p) PROVE TypeOK'
  BY <1>12 DEF Usertrapret, Goto
<1>13. ASSUME NEW c \in CPU, NEW p \in Slot, AllocBusy(c, p) PROVE TypeOK'
  BY <1>13, ScanInTable DEF AllocBusy
<1>14. ASSUME NEW c \in CPU, NEW p \in Slot, AllocFull(c, p) PROVE TypeOK'
  BY <1>14 DEF AllocFull, Return, Goto
<1>15. ASSUME NEW c \in CPU, NEW p \in Slot, AllocFound(c, p) PROVE TypeOK'
  BY <1>15, ScanInTable DEF AllocFound, allocproc
<1>16. ASSUME NEW c \in CPU, NEW p \in Slot, AllocNoMem(c, p) PROVE TypeOK'
  BY <1>16, ScanInTable DEF AllocNoMem, freeproc, Return, Goto
<1>17. ASSUME NEW c \in CPU, NEW p \in Slot, ForkSetParent(c, p) PROVE TypeOK'
  BY <1>17 DEF ForkSetParent, Goto
<1>18. ASSUME NEW c \in CPU, NEW p \in Slot, ForkSetRunnable(c, p) PROVE TypeOK'
  <2>1. state' \in [Slot -> ProcState]
    BY <1>18 DEF ForkSetRunnable
  <2> QED
    BY <1>18, <2>1 DEF ForkSetRunnable, Return, Goto
<1>19. ASSUME NEW c \in CPU, NEW p \in Slot, ExitPanic(c, p) PROVE TypeOK'
  BY <1>19 DEF ExitPanic, Goto
<1>20. ASSUME NEW c \in CPU, NEW p \in Slot, ExitLock(c, p) PROVE TypeOK'
  BY <1>20 DEF ExitLock, Goto
<1>21. ASSUME NEW c \in CPU, NEW p \in Slot, ReparentChild(c, p) PROVE TypeOK'
  <2>1. PICK pp \in Slot : parent' = [parent EXCEPT ![pp] = initproc]
    BY <1>21 DEF ReparentChild
  <2>2. initproc \in Slot
    BY DEF Slot, initproc
  <2> QED
    BY <1>21, <2>1, <2>2 DEF ReparentChild, Goto
<1>22. ASSUME NEW c \in CPU, NEW p \in Slot, ReparentWakeup(c, p) PROVE TypeOK'
  BY <1>22, ScanInTable DEF ReparentWakeup, WakeupSlot, WakeupEnd, Goto
<1>23. ASSUME NEW c \in CPU, NEW p \in Slot, ReparentDone(c, p) PROVE TypeOK'
  BY <1>23 DEF ReparentDone, Goto
<1>24. ASSUME NEW c \in CPU, NEW p \in Slot, ExitWakeup(c, p) PROVE TypeOK'
  BY <1>24, ScanInTable DEF ExitWakeup, WakeupSlot, WakeupEnd, Goto
<1>25. ASSUME NEW c \in CPU, NEW p \in Slot, ExitZombie(c, p) PROVE TypeOK'
  BY <1>25 DEF ExitZombie, sched, Goto
<1>26. ASSUME NEW c \in CPU, NEW p \in Slot, WaitLock(c, p) PROVE TypeOK'
  BY <1>26 DEF WaitLock, Goto
<1>27. ASSUME NEW c \in CPU, NEW p \in Slot, WaitGivesUp(c, p) PROVE TypeOK'
  BY <1>27 DEF WaitGivesUp, Return, Goto
<1>28. ASSUME NEW c \in CPU, NEW p \in Slot, WaitSleeps(c, p) PROVE TypeOK'
  BY <1>28 DEF WaitSleeps, Goto
<1>29. ASSUME NEW c \in CPU, NEW p \in Slot, Sleep(c, p) PROVE TypeOK'
  BY <1>29 DEF Sleep, sched, Goto
<1>30. ASSUME NEW c \in CPU, NEW p \in Slot, KillMiss(c, p) PROVE TypeOK'
  BY <1>30, ScanInTable DEF KillMiss
<1>31. ASSUME NEW c \in CPU, NEW p \in Slot, KillHit(c, p) PROVE TypeOK'
  BY <1>31, ScanInTable DEF KillHit, Return, Goto
<1>32. ASSUME NEW c \in CPU, NEW p \in Slot, KillNone(c, p) PROVE TypeOK'
  BY <1>32 DEF KillNone, Return, Goto
<1>33. ASSUME NEW c \in CPU, NEW p \in Slot, NEW np \in Slot, WaitChildLives(c, p, np) PROVE TypeOK'
  <2>1. np + 1 \in 0 .. NPROC
    BY DEF Slot
  <2> QED
    BY <1>33, <2>1 DEF WaitChildLives
<1>34. ASSUME NEW c \in CPU, NEW p \in Slot, NEW np \in Slot, WaitReap(c, p, np) PROVE TypeOK'
  BY <1>34 DEF WaitReap, freeproc, Return, Goto
<1>35. ASSUME NEW c \in CPU, NEW p \in Slot, NEW np \in Slot, WaitCopyoutFails(c, p, np)
       PROVE TypeOK'
  BY <1>35 DEF WaitCopyoutFails, Return, Goto
<1> QED
  BY ZenonT(60), <1>0, <1>1, <1>2, <1>3, <1>4, <1>5, <1>6, <1>7, <1>8, <1>9, <1>10, <1>11, <1>12, <1>13,
     <1>14, <1>15, <1>16, <1>17, <1>18, <1>19, <1>20, <1>21, <1>22, <1>23, <1>24, <1>25, <1>26,
     <1>27, <1>28, <1>29, <1>30, <1>31, <1>32, <1>33, <1>34, <1>35
     DEF Next, Scheduler, Tick, UserStep, KernelStep

\* Every field keeps its type, whatever the interleaving.
THEOREM TypeCorrect == Spec => []TypeOK
  BY TypeInit, TypeStep, PTL DEF Spec

-----------------------------------------------------------------------------
(* Who holds which lock, and which CPU runs which thread.                  *)

\* CPU c executes the thread of p, outside of any switch.
OnCpu(c, p) == cproc[c] = p /\ spc[c] = "run" /\ ~insched[p]

\* A CPU in its scheduler's loop has no process; one in a process runs it alone and
\* the process is RUNNING; while switching in or out it holds the process's lock.
CpuInv ==
  \A c \in CPU :
    /\ spc[c] = "scan" <=> cproc[c] = None
    /\ spc[c] = "run" => state[cproc[c]] = "RUNNING"
    /\ spc[c] = "back" => /\ state[cproc[c]] \in {"RUNNABLE", "SLEEPING", "ZOMBIE"}
                          /\ insched[cproc[c]]
    /\ cproc[c] # None /\ insched[cproc[c]] => plock[cproc[c]] = c

\* A thread that is not RUNNING is suspended inside a switch.
SuspendInv == \A p \in Slot : state[p] # "RUNNING" => insched[p]

\* No two CPUs have the same process.
AloneInv == \A c, d \in CPU : cproc[c] # None /\ cproc[c] = cproc[d] => c = d

\* Between steps, a p->lock is held for a switch and for nothing else.
PLockInv == \A c \in CPU, q \in Slot : plock[q] = c => cproc[c] = q /\ insched[q]

\* wait_lock is held by the CPU of the one thread that is between acquire and release.
WaitLockInv ==
  /\ \A p \in Slot : HoldsWaitLock(p) => OnCpu(wait_lock, p) /\ wait_lock \in CPU
  /\ wait_lock # None => \E p \in Slot : HoldsWaitLock(p)

\* A fork() at work owns its USED slot, and no USED slot is without one.
ForkInv ==
  /\ \A p \in Slot : pc[p] \in InFork =>
       /\ state[p] \in {"RUNNABLE", "RUNNING"}
       /\ arg[p] \in Slot
       /\ state[arg[p]] = "USED"
  /\ \A p, r \in Slot : pc[p] \in InFork /\ pc[r] \in InFork /\ arg[p] = arg[r] => p = r
  /\ \A q \in Slot : state[q] = "USED" => \E p \in Slot : pc[p] \in InFork /\ arg[p] = q

LockIInv == CpuInv /\ SuspendInv /\ AloneInv /\ PLockInv /\ WaitLockInv /\ ForkInv


\* Each step keeps every CPU's switch protected by the lock of the process it switches.
LEMMA CpuStep == (TypeOK /\ LockIInv) /\ [Next]_vars =>
  (CpuInv /\ SuspendInv /\ AloneInv /\ PLockInv)'
<1> SUFFICES ASSUME (TypeOK /\ LockIInv), [Next]_vars
             PROVE (CpuInv /\ SuspendInv /\ AloneInv /\ PLockInv)'
  OBVIOUS
<1> USE ProcAssumption DEF TypeOK, LockIInv, CpuInv, SuspendInv, AloneInv, PLockInv, table,
        cpuVars, thread
<1>1. CASE UNCHANGED vars
  BY <1>1 DEF vars
<1>2. ASSUME NEW c \in CPU, ScanSlot(c) PROVE (CpuInv /\ SuspendInv /\ AloneInv /\ PLockInv)'
  <2> DEFINE q == sidx[c]
  <2>1. CASE state[q] # "RUNNABLE"
    BY <1>2, <2>1 DEF ScanSlot
  <2>2. CASE state[q] = "RUNNABLE"
    <3>1. q \in Slot /\ insched[q] /\ plock[q] = None /\ \A d \in CPU : cproc[d] # q
      BY <1>2, <2>2 DEF ScanSlot
    <3>2. /\ state' = [state EXCEPT ![q] = "RUNNING"]
          /\ plock' = [plock EXCEPT ![q] = c]
          /\ cproc' = [cproc EXCEPT ![c] = q]
          /\ spc' = [spc EXCEPT ![c] = "run"]
          /\ UNCHANGED insched
      BY <1>2, <2>2 DEF ScanSlot
    <3>3. cproc[c] = None /\ q # None /\ c # None
      BY <1>2, <3>1 DEF ScanSlot
    <3> HIDE DEF q
    <3>4. AloneInv'
      BY <3>1, <3>2, <3>3
    <3>5. PLockInv'
      <4> SUFFICES ASSUME NEW d \in CPU, NEW r \in Slot, plock'[r] = d
                   PROVE  cproc'[d] = r /\ insched'[r]
        OBVIOUS
      <4>1. CASE r = q
        BY <4>1, <3>1, <3>2
      <4>2. CASE r # q
        BY <4>2, <3>1, <3>2, <3>3
      <4> QED
        BY <4>1, <4>2
    <3>6. CpuInv' /\ SuspendInv'
      BY <3>1, <3>2, <3>3
    <3> QED
      BY <3>4, <3>5, <3>6
  <2> QED
    BY <2>1, <2>2
<1>3. ASSUME NEW c \in CPU, SchedBack(c) PROVE (CpuInv /\ SuspendInv /\ AloneInv /\ PLockInv)'
  BY <1>3 DEF SchedBack
<1>4. ASSUME NEW c \in CPU, NEW p \in Slot, UserTick(c, p)
      PROVE (CpuInv /\ SuspendInv /\ AloneInv /\ PLockInv)'
  BY <1>4 DEF UserTick, At, yield, sched
<1>5. ASSUME NEW c \in CPU, NEW p \in Slot, KernelTick(c, p)
      PROVE (CpuInv /\ SuspendInv /\ AloneInv /\ PLockInv)'
  BY <1>5 DEF KernelTick, yield, sched
<1>6. ASSUME NEW c \in CPU, NEW p \in Slot, Resume(c, p)
      PROVE (CpuInv /\ SuspendInv /\ AloneInv /\ PLockInv)'
  BY <1>6 DEF Resume, Goto, AfterSwtch
<1>7. ASSUME NEW c \in CPU, NEW p \in Slot, SysFork(c, p)
      PROVE (CpuInv /\ SuspendInv /\ AloneInv /\ PLockInv)'
  BY <1>7 DEF SysFork, Syscall, At, Goto
<1>8. ASSUME NEW c \in CPU, NEW p \in Slot, SysWait(c, p)
      PROVE (CpuInv /\ SuspendInv /\ AloneInv /\ PLockInv)'
  BY <1>8 DEF SysWait, Syscall, At, Goto
<1>9. ASSUME NEW c \in CPU, NEW p \in Slot, SysExit(c, p)
      PROVE (CpuInv /\ SuspendInv /\ AloneInv /\ PLockInv)'
  BY <1>9 DEF SysExit, Syscall, At, Goto
<1>10. ASSUME NEW c \in CPU, NEW p \in Slot, SysKill(c, p)
       PROVE (CpuInv /\ SuspendInv /\ AloneInv /\ PLockInv)'
  BY <1>10 DEF SysKill, Syscall, At, Goto
<1>11. ASSUME NEW c \in CPU, NEW p \in Slot, UsertrapFault(c, p)
       PROVE (CpuInv /\ SuspendInv /\ AloneInv /\ PLockInv)'
  BY <1>11 DEF UsertrapFault, At, Goto
<1>12. ASSUME NEW c \in CPU, NEW p \in Slot, UsertrapKilled(c, p)
       PROVE (CpuInv /\ SuspendInv /\ AloneInv /\ PLockInv)'
  BY <1>12 DEF UsertrapKilled, At, Goto
<1>13. ASSUME NEW c \in CPU, NEW p \in Slot, Usertrapret(c, p)
       PROVE (CpuInv /\ SuspendInv /\ AloneInv /\ PLockInv)'
  BY <1>13 DEF Usertrapret, At, Goto
<1>14. ASSUME NEW c \in CPU, NEW p \in Slot, AllocBusy(c, p)
       PROVE (CpuInv /\ SuspendInv /\ AloneInv /\ PLockInv)'
  BY <1>14, ScanInTable DEF AllocBusy, At
<1>15. ASSUME NEW c \in CPU, NEW p \in Slot, AllocFull(c, p)
       PROVE (CpuInv /\ SuspendInv /\ AloneInv /\ PLockInv)'
  BY <1>15 DEF AllocFull, At, Return, Goto
<1>16. ASSUME NEW c \in CPU, NEW p \in Slot, AllocFound(c, p)
       PROVE (CpuInv /\ SuspendInv /\ AloneInv /\ PLockInv)'
  BY <1>16, ScanInTable DEF AllocFound, At, allocproc
<1>17. ASSUME NEW c \in CPU, NEW p \in Slot, AllocNoMem(c, p)
       PROVE (CpuInv /\ SuspendInv /\ AloneInv /\ PLockInv)'
  BY <1>17, ScanInTable DEF AllocNoMem, At, freeproc, Return, Goto
<1>18. ASSUME NEW c \in CPU, NEW p \in Slot, ForkSetParent(c, p)
       PROVE (CpuInv /\ SuspendInv /\ AloneInv /\ PLockInv)'
  BY <1>18 DEF ForkSetParent, At, Goto
<1>19. ASSUME NEW c \in CPU, NEW p \in Slot, ForkSetRunnable(c, p)
       PROVE (CpuInv /\ SuspendInv /\ AloneInv /\ PLockInv)'
  BY <1>19 DEF ForkSetRunnable, At, Return, Goto, ForkInv, InFork
<1>20. ASSUME NEW c \in CPU, NEW p \in Slot, ExitPanic(c, p)
       PROVE (CpuInv /\ SuspendInv /\ AloneInv /\ PLockInv)'
  BY <1>20 DEF ExitPanic, At, Goto
<1>21. ASSUME NEW c \in CPU, NEW p \in Slot, ExitLock(c, p)
       PROVE (CpuInv /\ SuspendInv /\ AloneInv /\ PLockInv)'
  BY <1>21 DEF ExitLock, At, Goto
<1>22. ASSUME NEW c \in CPU, NEW p \in Slot, ReparentChild(c, p)
       PROVE (CpuInv /\ SuspendInv /\ AloneInv /\ PLockInv)'
  BY <1>22 DEF ReparentChild, At, Goto
<1>23. ASSUME NEW c \in CPU, NEW p \in Slot, ReparentWakeup(c, p)
       PROVE (CpuInv /\ SuspendInv /\ AloneInv /\ PLockInv)'
  BY <1>23, ScanInTable DEF ReparentWakeup, At, WakeupSlot, WakeupEnd, Goto
<1>24. ASSUME NEW c \in CPU, NEW p \in Slot, ReparentDone(c, p)
       PROVE (CpuInv /\ SuspendInv /\ AloneInv /\ PLockInv)'
  BY <1>24 DEF ReparentDone, At, Goto
<1>25. ASSUME NEW c \in CPU, NEW p \in Slot, ExitWakeup(c, p)
       PROVE (CpuInv /\ SuspendInv /\ AloneInv /\ PLockInv)'
  BY <1>25, ScanInTable DEF ExitWakeup, At, WakeupSlot, WakeupEnd, Goto
<1>26. ASSUME NEW c \in CPU, NEW p \in Slot, ExitZombie(c, p)
       PROVE (CpuInv /\ SuspendInv /\ AloneInv /\ PLockInv)'
  BY <1>26 DEF ExitZombie, At, sched, Goto
<1>27. ASSUME NEW c \in CPU, NEW p \in Slot, WaitLock(c, p)
       PROVE (CpuInv /\ SuspendInv /\ AloneInv /\ PLockInv)'
  BY <1>27 DEF WaitLock, At, Goto
<1>28. ASSUME NEW c \in CPU, NEW p \in Slot, WaitGivesUp(c, p)
       PROVE (CpuInv /\ SuspendInv /\ AloneInv /\ PLockInv)'
  BY <1>28 DEF WaitGivesUp, At, Return, Goto
<1>29. ASSUME NEW c \in CPU, NEW p \in Slot, WaitSleeps(c, p)
       PROVE (CpuInv /\ SuspendInv /\ AloneInv /\ PLockInv)'
  BY <1>29 DEF WaitSleeps, At, Goto
<1>30. ASSUME NEW c \in CPU, NEW p \in Slot, Sleep(c, p)
       PROVE (CpuInv /\ SuspendInv /\ AloneInv /\ PLockInv)'
  BY <1>30 DEF Sleep, At, sched, Goto
<1>31. ASSUME NEW c \in CPU, NEW p \in Slot, KillMiss(c, p)
       PROVE (CpuInv /\ SuspendInv /\ AloneInv /\ PLockInv)'
  BY <1>31, ScanInTable DEF KillMiss, At
<1>32. ASSUME NEW c \in CPU, NEW p \in Slot, KillHit(c, p)
       PROVE (CpuInv /\ SuspendInv /\ AloneInv /\ PLockInv)'
  BY <1>32, ScanInTable DEF KillHit, At, Return, Goto
<1>33. ASSUME NEW c \in CPU, NEW p \in Slot, KillNone(c, p)
       PROVE (CpuInv /\ SuspendInv /\ AloneInv /\ PLockInv)'
  BY <1>33 DEF KillNone, At, Return, Goto
<1>34. ASSUME NEW c \in CPU, NEW p \in Slot, NEW np \in Slot, WaitChildLives(c, p, np)
       PROVE (CpuInv /\ SuspendInv /\ AloneInv /\ PLockInv)'
  BY <1>34 DEF WaitChildLives, At
<1>35. ASSUME NEW c \in CPU, NEW p \in Slot, NEW np \in Slot, WaitReap(c, p, np)
       PROVE (CpuInv /\ SuspendInv /\ AloneInv /\ PLockInv)'
  BY <1>35 DEF WaitReap, At, freeproc, Return, Goto
<1>36. ASSUME NEW c \in CPU, NEW p \in Slot, NEW np \in Slot, WaitCopyoutFails(c, p, np)
       PROVE (CpuInv /\ SuspendInv /\ AloneInv /\ PLockInv)'
  BY <1>36 DEF WaitCopyoutFails, At, Return, Goto
<1> QED
  BY ZenonT(60), <1>1, <1>2, <1>3, <1>4, <1>5, <1>6, <1>7, <1>8, <1>9, <1>10, <1>11, <1>12, <1>13, <1>14,
     <1>15, <1>16, <1>17, <1>18, <1>19, <1>20, <1>21, <1>22, <1>23, <1>24, <1>25, <1>26, <1>27,
     <1>28, <1>29, <1>30, <1>31, <1>32, <1>33, <1>34, <1>35, <1>36
     DEF Next, Scheduler, Tick, UserStep, KernelStep

\* Each step keeps wait_lock with the thread that will release it.
LEMMA WaitLockStep == (TypeOK /\ LockIInv) /\ [Next]_vars => WaitLockInv'
<1> SUFFICES ASSUME (TypeOK /\ LockIInv), [Next]_vars PROVE WaitLockInv'
  OBVIOUS
<1> USE ProcAssumption DEF TypeOK, LockIInv, CpuInv, SuspendInv, AloneInv, PLockInv, WaitLockInv,
        OnCpu, HoldsWaitLock, InExit, table, cpuVars, thread
<1>1. CASE UNCHANGED vars
  BY <1>1 DEF vars
<1>2. ASSUME NEW c \in CPU, ScanSlot(c) PROVE WaitLockInv'
  BY <1>2 DEF ScanSlot
<1>3. ASSUME NEW c \in CPU, SchedBack(c) PROVE WaitLockInv'
  BY <1>3 DEF SchedBack
<1>4. ASSUME NEW c \in CPU, NEW p \in Slot, UserTick(c, p) PROVE WaitLockInv'
  BY <1>4 DEF UserTick, At, yield, sched
<1>5. ASSUME NEW c \in CPU, NEW p \in Slot, KernelTick(c, p) PROVE WaitLockInv'
  BY <1>5 DEF KernelTick, yield, sched, HoldsNone
<1>6. ASSUME NEW c \in CPU, NEW p \in Slot, Resume(c, p) PROVE WaitLockInv'
  BY <1>6 DEF Resume, Goto, AfterSwtch
<1>7. ASSUME NEW c \in CPU, NEW p \in Slot, SysFork(c, p) PROVE WaitLockInv'
  BY <1>7 DEF SysFork, Syscall, At, Goto
<1>8. ASSUME NEW c \in CPU, NEW p \in Slot, SysWait(c, p) PROVE WaitLockInv'
  BY <1>8 DEF SysWait, Syscall, At, Goto
<1>9. ASSUME NEW c \in CPU, NEW p \in Slot, SysExit(c, p) PROVE WaitLockInv'
  BY <1>9 DEF SysExit, Syscall, At, Goto
<1>10. ASSUME NEW c \in CPU, NEW p \in Slot, SysKill(c, p) PROVE WaitLockInv'
  BY <1>10 DEF SysKill, Syscall, At, Goto
<1>11. ASSUME NEW c \in CPU, NEW p \in Slot, UsertrapFault(c, p) PROVE WaitLockInv'
  BY <1>11 DEF UsertrapFault, At, Goto
<1>12. ASSUME NEW c \in CPU, NEW p \in Slot, UsertrapKilled(c, p) PROVE WaitLockInv'
  BY <1>12 DEF UsertrapKilled, At, Goto
<1>13. ASSUME NEW c \in CPU, NEW p \in Slot, Usertrapret(c, p) PROVE WaitLockInv'
  BY <1>13 DEF Usertrapret, At, Goto
<1>14. ASSUME NEW c \in CPU, NEW p \in Slot, AllocBusy(c, p) PROVE WaitLockInv'
  BY <1>14, ScanInTable DEF AllocBusy, At
<1>15. ASSUME NEW c \in CPU, NEW p \in Slot, AllocFull(c, p) PROVE WaitLockInv'
  BY <1>15 DEF AllocFull, At, Return, Goto
<1>16. ASSUME NEW c \in CPU, NEW p \in Slot, AllocFound(c, p) PROVE WaitLockInv'
  BY <1>16, ScanInTable DEF AllocFound, At, allocproc
<1>17. ASSUME NEW c \in CPU, NEW p \in Slot, AllocNoMem(c, p) PROVE WaitLockInv'
  BY <1>17, ScanInTable DEF AllocNoMem, At, freeproc, Return, Goto
<1>18. ASSUME NEW c \in CPU, NEW p \in Slot, ForkSetParent(c, p) PROVE WaitLockInv'
  BY <1>18 DEF ForkSetParent, At, Goto
<1>19. ASSUME NEW c \in CPU, NEW p \in Slot, ForkSetRunnable(c, p) PROVE WaitLockInv'
  BY <1>19 DEF ForkSetRunnable, At, Return, Goto
<1>20. ASSUME NEW c \in CPU, NEW p \in Slot, ExitPanic(c, p) PROVE WaitLockInv'
  BY <1>20 DEF ExitPanic, At, Goto
<1>21. ASSUME NEW c \in CPU, NEW p \in Slot, ExitLock(c, p) PROVE WaitLockInv'
  BY <1>21 DEF ExitLock, At, Goto
<1>22. ASSUME NEW c \in CPU, NEW p \in Slot, ReparentChild(c, p) PROVE WaitLockInv'
  BY <1>22 DEF ReparentChild, At, Goto
<1>23. ASSUME NEW c \in CPU, NEW p \in Slot, ReparentWakeup(c, p) PROVE WaitLockInv'
  BY <1>23, ScanInTable DEF ReparentWakeup, At, WakeupSlot, WakeupEnd, Goto
<1>24. ASSUME NEW c \in CPU, NEW p \in Slot, ReparentDone(c, p) PROVE WaitLockInv'
  BY <1>24 DEF ReparentDone, At, Goto
<1>25. ASSUME NEW c \in CPU, NEW p \in Slot, ExitWakeup(c, p) PROVE WaitLockInv'
  BY <1>25, ScanInTable DEF ExitWakeup, At, WakeupSlot, WakeupEnd, Goto
<1>26. ASSUME NEW c \in CPU, NEW p \in Slot, ExitZombie(c, p) PROVE WaitLockInv'
  BY <1>26 DEF ExitZombie, At, sched, Goto
<1>27. ASSUME NEW c \in CPU, NEW p \in Slot, WaitLock(c, p) PROVE WaitLockInv'
  BY <1>27 DEF WaitLock, At, Goto
<1>28. ASSUME NEW c \in CPU, NEW p \in Slot, WaitGivesUp(c, p) PROVE WaitLockInv'
  BY <1>28 DEF WaitGivesUp, At, Return, Goto
<1>29. ASSUME NEW c \in CPU, NEW p \in Slot, WaitSleeps(c, p) PROVE WaitLockInv'
  BY <1>29 DEF WaitSleeps, At, Goto
<1>30. ASSUME NEW c \in CPU, NEW p \in Slot, Sleep(c, p) PROVE WaitLockInv'
  BY <1>30 DEF Sleep, At, sched, Goto
<1>31. ASSUME NEW c \in CPU, NEW p \in Slot, KillMiss(c, p) PROVE WaitLockInv'
  BY <1>31, ScanInTable DEF KillMiss, At
<1>32. ASSUME NEW c \in CPU, NEW p \in Slot, KillHit(c, p) PROVE WaitLockInv'
  BY <1>32, ScanInTable DEF KillHit, At, Return, Goto
<1>33. ASSUME NEW c \in CPU, NEW p \in Slot, KillNone(c, p) PROVE WaitLockInv'
  BY <1>33 DEF KillNone, At, Return, Goto
<1>34. ASSUME NEW c \in CPU, NEW p \in Slot, NEW np \in Slot, WaitChildLives(c, p, np)
       PROVE WaitLockInv'
  BY <1>34 DEF WaitChildLives, At
<1>35. ASSUME NEW c \in CPU, NEW p \in Slot, NEW np \in Slot, WaitReap(c, p, np) PROVE WaitLockInv'
  BY <1>35 DEF WaitReap, At, freeproc, Return, Goto
<1>36. ASSUME NEW c \in CPU, NEW p \in Slot, NEW np \in Slot, WaitCopyoutFails(c, p, np)
       PROVE WaitLockInv'
  BY <1>36 DEF WaitCopyoutFails, At, Return, Goto
<1> QED
  BY <1>1, <1>2, <1>3, <1>4, <1>5, <1>6, <1>7, <1>8, <1>9, <1>10, <1>11, <1>12, <1>13, <1>14,
     <1>15, <1>16, <1>17, <1>18, <1>19, <1>20, <1>21, <1>22, <1>23, <1>24, <1>25, <1>26, <1>27,
     <1>28, <1>29, <1>30, <1>31, <1>32, <1>33, <1>34, <1>35, <1>36
     DEF Next, Scheduler, Tick, UserStep, KernelStep

\* Each step keeps the pairing of fork()s and USED slots.
LEMMA ForkStep == (TypeOK /\ LockIInv) /\ [Next]_vars => ForkInv'
<1> SUFFICES ASSUME (TypeOK /\ LockIInv), [Next]_vars PROVE ForkInv'
  OBVIOUS
<1> USE ProcAssumption DEF TypeOK, LockIInv, CpuInv, ForkInv, InFork, table, cpuVars, thread
<1>1. CASE UNCHANGED vars
  BY <1>1 DEF vars
<1>2. ASSUME NEW c \in CPU, ScanSlot(c) PROVE ForkInv'
  <2> DEFINE q == sidx[c]
  <2>1. q \in Slot /\ UNCHANGED <<pc, arg>>
    BY <1>2 DEF ScanSlot
  <2>2. \/ UNCHANGED state
        \/ state[q] = "RUNNABLE" /\ state' = [state EXCEPT ![q] = "RUNNING"]
    BY <1>2 DEF ScanSlot
  <2> QED
    BY <2>1, <2>2
<1>3. ASSUME NEW c \in CPU, SchedBack(c) PROVE ForkInv'
  BY <1>3 DEF SchedBack
<1>4. ASSUME NEW c \in CPU, NEW p \in Slot, UserTick(c, p) PROVE ForkInv'
  BY <1>4 DEF UserTick, At, yield, sched
<1>5. ASSUME NEW c \in CPU, NEW p \in Slot, KernelTick(c, p) PROVE ForkInv'
  BY <1>5 DEF KernelTick, yield, sched
<1>6. ASSUME NEW c \in CPU, NEW p \in Slot, Resume(c, p) PROVE ForkInv'
  BY <1>6 DEF Resume, Goto, AfterSwtch
<1>7. ASSUME NEW c \in CPU, NEW p \in Slot, SysFork(c, p) PROVE ForkInv'
  BY <1>7 DEF SysFork, Syscall, At, Goto
<1>8. ASSUME NEW c \in CPU, NEW p \in Slot, SysWait(c, p) PROVE ForkInv'
  BY <1>8 DEF SysWait, Syscall, At, Goto
<1>9. ASSUME NEW c \in CPU, NEW p \in Slot, SysExit(c, p) PROVE ForkInv'
  BY <1>9 DEF SysExit, Syscall, At, Goto
<1>10. ASSUME NEW c \in CPU, NEW p \in Slot, SysKill(c, p) PROVE ForkInv'
  BY <1>10 DEF SysKill, Syscall, At, Goto
<1>11. ASSUME NEW c \in CPU, NEW p \in Slot, UsertrapFault(c, p) PROVE ForkInv'
  BY <1>11 DEF UsertrapFault, At, Goto
<1>12. ASSUME NEW c \in CPU, NEW p \in Slot, UsertrapKilled(c, p) PROVE ForkInv'
  BY <1>12 DEF UsertrapKilled, At, Goto
<1>13. ASSUME NEW c \in CPU, NEW p \in Slot, Usertrapret(c, p) PROVE ForkInv'
  BY <1>13 DEF Usertrapret, At, Goto
<1>14. ASSUME NEW c \in CPU, NEW p \in Slot, AllocBusy(c, p) PROVE ForkInv'
  BY <1>14, ScanInTable DEF AllocBusy, At
<1>15. ASSUME NEW c \in CPU, NEW p \in Slot, AllocFull(c, p) PROVE ForkInv'
  BY <1>15 DEF AllocFull, At, Return, Goto
<1>16. ASSUME NEW c \in CPU, NEW p \in Slot, AllocFound(c, p) PROVE ForkInv'
  <2> DEFINE np == scan[p]
  <2>1. np \in Slot
    BY <1>16, ScanInTable DEF AllocFound
  <2>2. /\ state[p] = "RUNNING"
        /\ state[np] = "UNUSED"
        /\ pc[p] = "alloc"
        /\ state' = [state EXCEPT ![np] = "USED"]
        /\ pc' = [pc EXCEPT ![p] = "setparent", ![np] = "forkret"]
        /\ arg' = [arg EXCEPT ![p] = np]
    BY <1>16 DEF AllocFound, allocproc, At
  <2>3. p # np
    BY <2>2
  <2>4. \A r \in Slot : pc[r] \in InFork => arg[r] # np /\ r # np /\ r # p
    BY <2>2
  <2>5. \A r \in Slot : pc'[r] \in InFork <=> r = p \/ pc[r] \in InFork
    BY <2>1, <2>2, <2>3, <2>4
  <2> HIDE DEF InFork
  <2>6. \A r \in Slot : arg'[r] = IF r = p THEN np ELSE arg[r]
    BY <2>1, <2>2
  <2>7. \A r \in Slot : state'[r] = IF r = np THEN "USED" ELSE state[r]
    BY <2>1, <2>2
  <2> QED
    BY <2>1, <2>2, <2>3, <2>4, <2>5, <2>6, <2>7
<1>17. ASSUME NEW c \in CPU, NEW p \in Slot, AllocNoMem(c, p) PROVE ForkInv'
  BY <1>17, ScanInTable DEF AllocNoMem, At, freeproc, Return, Goto
<1>18. ASSUME NEW c \in CPU, NEW p \in Slot, ForkSetParent(c, p) PROVE ForkInv'
  BY <1>18 DEF ForkSetParent, At, Goto
<1>19. ASSUME NEW c \in CPU, NEW p \in Slot, ForkSetRunnable(c, p) PROVE ForkInv'
  BY <1>19 DEF ForkSetRunnable, At, Return, Goto
<1>20. ASSUME NEW c \in CPU, NEW p \in Slot, ExitPanic(c, p) PROVE ForkInv'
  BY <1>20 DEF ExitPanic, At, Goto
<1>21. ASSUME NEW c \in CPU, NEW p \in Slot, ExitLock(c, p) PROVE ForkInv'
  BY <1>21 DEF ExitLock, At, Goto
<1>22. ASSUME NEW c \in CPU, NEW p \in Slot, ReparentChild(c, p) PROVE ForkInv'
  BY <1>22 DEF ReparentChild, At, Goto
<1>23. ASSUME NEW c \in CPU, NEW p \in Slot, ReparentWakeup(c, p) PROVE ForkInv'
  <2>1. \A r \in Slot :
          state'[r] = state[r] \/ (state[r] = "SLEEPING" /\ state'[r] = "RUNNABLE")
    <3> HIDE DEF TypeOK, LockIInv
    <3>1. CASE WakeupSlot(p, initproc)
      BY <3>1, WakeupEffect
    <3>2. CASE WakeupEnd(p, "reparent")
      BY <3>2 DEF WakeupEnd
    <3> QED
      BY <1>23, <3>1, <3>2 DEF ReparentWakeup
  <2>2. \A r \in Slot : pc'[r] \in InFork <=> pc[r] \in InFork
    BY <1>23 DEF ReparentWakeup, At, WakeupSlot, WakeupEnd, Goto
  <2>3. UNCHANGED arg
    BY <1>23 DEF ReparentWakeup
  <2> QED
    BY <2>1, <2>2, <2>3
<1>24. ASSUME NEW c \in CPU, NEW p \in Slot, ReparentDone(c, p) PROVE ForkInv'
  BY <1>24 DEF ReparentDone, At, Goto
<1>25. ASSUME NEW c \in CPU, NEW p \in Slot, ExitWakeup(c, p) PROVE ForkInv'
  <2>1. \A r \in Slot :
          state'[r] = state[r] \/ (state[r] = "SLEEPING" /\ state'[r] = "RUNNABLE")
    <3> HIDE DEF TypeOK, LockIInv
    <3>1. CASE WakeupSlot(p, parent[p])
      BY <3>1, WakeupEffect
    <3>2. CASE WakeupEnd(p, "zombie")
      BY <3>2 DEF WakeupEnd
    <3> QED
      BY <1>25, <3>1, <3>2 DEF ExitWakeup
  <2>2. \A r \in Slot : pc'[r] \in InFork <=> pc[r] \in InFork
    BY <1>25 DEF ExitWakeup, At, WakeupSlot, WakeupEnd, Goto
  <2>3. UNCHANGED arg
    BY <1>25 DEF ExitWakeup
  <2> QED
    BY <2>1, <2>2, <2>3
<1>26. ASSUME NEW c \in CPU, NEW p \in Slot, ExitZombie(c, p) PROVE ForkInv'
  BY <1>26 DEF ExitZombie, At, sched, Goto
<1>27. ASSUME NEW c \in CPU, NEW p \in Slot, WaitLock(c, p) PROVE ForkInv'
  BY <1>27 DEF WaitLock, At, Goto
<1>28. ASSUME NEW c \in CPU, NEW p \in Slot, WaitGivesUp(c, p) PROVE ForkInv'
  BY SMTT(30), <1>28 DEF WaitGivesUp, At, Return, Goto
<1>29. ASSUME NEW c \in CPU, NEW p \in Slot, WaitSleeps(c, p) PROVE ForkInv'
  BY <1>29 DEF WaitSleeps, At, Goto
<1>30. ASSUME NEW c \in CPU, NEW p \in Slot, Sleep(c, p) PROVE ForkInv'
  BY <1>30 DEF Sleep, At, sched, Goto
<1>31. ASSUME NEW c \in CPU, NEW p \in Slot, KillMiss(c, p) PROVE ForkInv'
  BY <1>31, ScanInTable DEF KillMiss, At
<1>32. ASSUME NEW c \in CPU, NEW p \in Slot, KillHit(c, p) PROVE ForkInv'
  BY SMTT(30), <1>32, ScanInTable DEF KillHit, At, Return, Goto
<1>33. ASSUME NEW c \in CPU, NEW p \in Slot, KillNone(c, p) PROVE ForkInv'
  BY <1>33 DEF KillNone, At, Return, Goto
<1>34. ASSUME NEW c \in CPU, NEW p \in Slot, NEW np \in Slot, WaitChildLives(c, p, np)
       PROVE ForkInv'
  BY <1>34 DEF WaitChildLives, At
<1>35. ASSUME NEW c \in CPU, NEW p \in Slot, NEW np \in Slot, WaitReap(c, p, np) PROVE ForkInv'
  BY <1>35 DEF WaitReap, At, freeproc, Return, Goto
<1>36. ASSUME NEW c \in CPU, NEW p \in Slot, NEW np \in Slot, WaitCopyoutFails(c, p, np)
       PROVE ForkInv'
  BY <1>36 DEF WaitCopyoutFails, At, Return, Goto
<1> QED
  BY ZenonT(60), <1>1, <1>2, <1>3, <1>4, <1>5, <1>6, <1>7, <1>8, <1>9, <1>10, <1>11, <1>12, <1>13, <1>14,
     <1>15, <1>16, <1>17, <1>18, <1>19, <1>20, <1>21, <1>22, <1>23, <1>24, <1>25, <1>26, <1>27,
     <1>28, <1>29, <1>30, <1>31, <1>32, <1>33, <1>34, <1>35, <1>36
     DEF Next, Scheduler, Tick, UserStep, KernelStep

\* The locks are free at boot.
LEMMA LockInit == Init => LockIInv
  BY ProcAssumption DEF Init, LockIInv, CpuInv, SuspendInv, AloneInv, PLockInv,
     WaitLockInv, HoldsWaitLock, ForkInv, InFork, InExit

\* Every step keeps the locking protocol.
LEMMA LockStep == (TypeOK /\ LockIInv) /\ [Next]_vars => LockIInv'
  BY CpuStep, WaitLockStep, ForkStep DEF LockIInv

\* The locks' discipline is an invariant of every execution.
THEOREM LockCorrect == Spec => [](TypeOK /\ LockIInv)
<1>1. Init => TypeOK /\ LockIInv
  BY TypeInit, LockInit
<1>2. (TypeOK /\ LockIInv) /\ [Next]_vars => (TypeOK /\ LockIInv)'
  BY TypeStep, LockStep
<1> QED
  BY <1>1, <1>2, PTL DEF Spec

\* One CPU at a time on a kernel stack, also while the switch is under way.
THEOREM StackExclusiveCorrect == Spec => []StackExclusive
<1>1. TypeOK /\ LockIInv => StackExclusive
  BY DEF TypeOK, LockIInv, CpuInv, AloneInv, StackExclusive
<1> QED
  BY <1>1, LockCorrect, PTL

\* No panic of sched() can happen.
THEOREM SchedEntryCorrect == Spec => []SchedEntry
<1>1. TypeOK /\ LockIInv => SchedEntry
  <2> SUFFICES ASSUME TypeOK, LockIInv, NEW c \in CPU, spc[c] = "back"
               PROVE  /\ {q \in Slot : plock[q] = c} = {cproc[c]}
                      /\ wait_lock # c
                      /\ state[cproc[c]] # "RUNNING"
    BY DEF SchedEntry
  <2>1. cproc[c] \in Slot /\ plock[cproc[c]] = c /\ state[cproc[c]] # "RUNNING"
    BY DEF TypeOK, LockIInv, CpuInv
  <2>2. \A q \in Slot : plock[q] = c => q = cproc[c]
    BY DEF LockIInv, PLockInv
  <2>3. wait_lock # c
    BY ProcAssumption DEF LockIInv, WaitLockInv, OnCpu
  <2> QED
    BY <2>1, <2>2, <2>3
<1> QED
  BY <1>1, LockCorrect, PTL

\* Every release() is by the holder.
THEOREM ReleaseHoldsCorrect == Spec => []ReleaseHolds
<1>1. TypeOK /\ LockIInv => ReleaseHolds
  <2> SUFFICES ASSUME TypeOK, LockIInv, NEW c \in CPU, spc[c] = "run"
               PROVE  /\ insched[cproc[c]] => plock[cproc[c]] = c
                      /\ HoldsWaitLock(cproc[c]) => wait_lock = c
    BY DEF ReleaseHolds
  <2>1. cproc[c] \in Slot
    BY DEF TypeOK, LockIInv, CpuInv
  <2>2. insched[cproc[c]] => plock[cproc[c]] = c
    BY <2>1, ProcAssumption DEF LockIInv, CpuInv
  <2>3. HoldsWaitLock(cproc[c]) => wait_lock = c
    BY <2>1, ProcAssumption DEF LockIInv, AloneInv, WaitLockInv, OnCpu
  <2> QED
    BY <2>2, <2>3
<1> QED
  BY <1>1, LockCorrect, PTL

\* wait_lock is never taken with a p->lock in hand.
THEOREM LockOrderCorrect == Spec => []LockOrder
<1>1. TypeOK /\ LockIInv => LockOrder
  <2> SUFFICES ASSUME TypeOK, LockIInv, NEW c \in CPU, NEW p \in Slot,
                      At(c, p, "wait") \/ At(c, p, "exit") \/ At(c, p, "setparent")
               PROVE  HoldsNone(c)
    BY DEF LockOrder
  <2>1. cproc[c] = p /\ ~insched[p] /\ ~HoldsWaitLock(p)
    BY DEF At, HoldsWaitLock, InExit
  <2>2. HoldsNoProcLock(c)
    BY <2>1 DEF LockIInv, PLockInv, HoldsNoProcLock
  <2>3. wait_lock # c
    BY <2>1, ProcAssumption DEF LockIInv, WaitLockInv, OnCpu
  <2> QED
    BY <2>2, <2>3 DEF HoldsNone
<1> QED
  BY <1>1, LockCorrect, PTL

\* The p->locks that the next step of CPU c acquires, and whether it acquires wait_lock.
NeedsSlots(c) ==
  LET p == cproc[c]
      here == {q \in Slot : q = scan[p]}
  IN IF spc[c] = "scan" THEN {sidx[c]}
     ELSE IF spc[c] = "back" \/ insched[p] THEN {}
     ELSE CASE pc[p] \in {"alloc", "kill"}   -> here
            [] pc[p] \in {"rwake", "ewake"}  -> here \ {p}
            [] pc[p] = "scan"                -> {q \in Slot : First(q, ToScan(p))}
            [] pc[p] \in {"zombie", "sleep"} -> {p}
            [] pc[p] = "setrun"              -> {arg[p]}
            [] OTHER                         -> {}
NeedsWaitLock(c) ==
  \E p \in Slot : At(c, p, "wait") \/ At(c, p, "setparent") \/ (At(c, p, "exit") /\ p # initproc)

\* CPU c spins in acquire() for a lock that CPU d has.
WaitsFor(c, d) ==
  \/ \E q \in NeedsSlots(c) : plock[q] = d
  \/ NeedsWaitLock(c) /\ wait_lock = d

\* Who waits, waits for another CPU that is not waiting, or waits for one that is not.
NoDeadlock ==
  \A c, d \in CPU : WaitsFor(c, d) =>
    /\ c # d
    /\ \A e \in CPU : WaitsFor(d, e) => \A f \in CPU : ~WaitsFor(e, f)

\* The locks of the process table never form a circle, nor does a CPU acquire one that it has:
\* the holder of a p->lock is in a switch, and the holder of wait_lock needs a p->lock at most
\* (proc.c:23-26, 459-479, 355-394, 399-443, 536-569).
THEOREM NoDeadlockCorrect == Spec => []NoDeadlock
<1>1. TypeOK /\ LockIInv => NoDeadlock
  <2> SUFFICES ASSUME TypeOK, LockIInv, NEW c \in CPU, NEW d \in CPU, WaitsFor(c, d)
               PROVE  /\ c # d
                      /\ \A e \in CPU : WaitsFor(d, e) => \A f \in CPU : ~WaitsFor(e, f)
    BY DEF NoDeadlock
  <2>1. ASSUME NEW h \in CPU, NEW i \in CPU, NEW q \in NeedsSlots(h), plock[q] = i
        PROVE  NeedsSlots(i) = {} /\ ~NeedsWaitLock(i)
    <3>1. q \in Slot
      <4>1. ASSUME spc[h] # "scan", spc[h] # "back", ~insched[cproc[h]], pc[cproc[h]] = "setrun"
            PROVE  arg[cproc[h]] \in Slot
        BY <4>1 DEF TypeOK, LockIInv, CpuInv, ForkInv, InFork
      <4>2. ASSUME spc[h] # "scan" PROVE cproc[h] \in Slot
        BY <4>2 DEF TypeOK, LockIInv, CpuInv
      <4>3. sidx[h] \in Slot
        BY DEF TypeOK
      <4> QED
        BY <2>1, <4>1, <4>2, <4>3 DEF NeedsSlots
    <3>2. cproc[i] = q /\ insched[q]
      BY <2>1, <3>1 DEF LockIInv, PLockInv
    <3>3. spc[i] # "scan"
      BY <3>1, <3>2, ProcAssumption DEF LockIInv, CpuInv
    <3>4. ~NeedsWaitLock(i)
      BY <3>2 DEF NeedsWaitLock, At
    <3> QED
      BY <3>2, <3>3, <3>4 DEF NeedsSlots
  <2>2. ASSUME NEW h \in CPU, NeedsWaitLock(h) PROVE wait_lock # h
    <3>1. PICK p \in Slot : /\ cproc[h] = p
                            /\ pc[p] \in {"wait", "setparent", "exit"}
      BY <2>2 DEF NeedsWaitLock, At
    <3> QED
      BY <3>1, ProcAssumption DEF LockIInv, WaitLockInv, OnCpu, HoldsWaitLock, InExit
  <2>3. CASE \E q \in NeedsSlots(c) : plock[q] = d
    BY <2>1, <2>3 DEF WaitsFor
  <2>4. CASE NeedsWaitLock(c) /\ wait_lock = d
    <3>1. ~NeedsWaitLock(d)
      BY <2>2, <2>4
    <3>2. ASSUME NEW e \in CPU, WaitsFor(d, e) PROVE \A f \in CPU : ~WaitsFor(e, f)
      <4>1. PICK q \in NeedsSlots(d) : plock[q] = e
        BY <3>1, <3>2 DEF WaitsFor
      <4>2. NeedsSlots(e) = {} /\ ~NeedsWaitLock(e)
        BY <2>1, <4>1
      <4> QED
        BY <4>2 DEF WaitsFor
    <3> QED
      BY <2>4, <3>1, <3>2
  <2> QED
    BY <2>3, <2>4 DEF WaitsFor
<1> QED
  BY <1>1, LockCorrect, PTL

\* No slot is taken for a child and then forgotten.
THEOREM NoSlotLeakCorrect == Spec => []NoSlotLeak
<1>1. TypeOK /\ LockIInv => NoSlotLeak
  <2> SUFFICES ASSUME LockIInv, NEW q \in Slot, state[q] = "USED"
               PROVE  \E p \in Slot : \A r \in Slot :
                        (pc[r] \in InFork /\ arg[r] = q) <=> r = p
    BY DEF NoSlotLeak
  <2>1. PICK p \in Slot : pc[p] \in InFork /\ arg[p] = q
    BY DEF LockIInv, ForkInv
  <2>2. \A r \in Slot : (pc[r] \in InFork /\ arg[r] = q) <=> r = p
    BY <2>1 DEF LockIInv, ForkInv
  <2> QED
    BY <2>2
<1> QED
  BY <1>1, LockCorrect, PTL

-----------------------------------------------------------------------------
(* Pids.                                                                   *)

\* Pids are handed out in order, so a pid in use is not the next one.
PidInv == (\A p \in Slot : pid[p] < nextpid) /\ PidUnique

\* The only pid at boot is init's.
LEMMA PidInit == Init => PidInv
  BY DEF Init, PidInv, PidUnique

\* Each step keeps the pids in use apart.
LEMMA PidStep == (TypeOK /\ LockIInv /\ PidInv) /\ [Next]_vars => PidInv'
<1> SUFFICES ASSUME (TypeOK /\ LockIInv /\ PidInv), [Next]_vars PROVE PidInv'
  OBVIOUS
<1> USE ProcAssumption DEF TypeOK, PidInv, PidUnique, table, cpuVars, thread
<1>1. CASE UNCHANGED vars
  BY <1>1 DEF vars
<1>2. ASSUME NEW c \in CPU, ScanSlot(c) PROVE PidInv'
  BY <1>2 DEF ScanSlot
<1>3. ASSUME NEW c \in CPU, SchedBack(c) PROVE PidInv'
  BY <1>3 DEF SchedBack
<1>4. ASSUME NEW c \in CPU, NEW p \in Slot, UserTick(c, p) PROVE PidInv'
  BY <1>4 DEF UserTick, At, yield, sched, LockIInv, CpuInv
<1>5. ASSUME NEW c \in CPU, NEW p \in Slot, KernelTick(c, p) PROVE PidInv'
  BY <1>5 DEF KernelTick, yield, sched
<1>6. ASSUME NEW c \in CPU, NEW p \in Slot, Resume(c, p) PROVE PidInv'
  BY <1>6 DEF Resume, Goto, AfterSwtch
<1>7. ASSUME NEW c \in CPU, NEW p \in Slot, SysFork(c, p) PROVE PidInv'
  BY <1>7 DEF SysFork, Syscall, At, Goto
<1>8. ASSUME NEW c \in CPU, NEW p \in Slot, SysWait(c, p) PROVE PidInv'
  BY <1>8 DEF SysWait, Syscall, At, Goto
<1>9. ASSUME NEW c \in CPU, NEW p \in Slot, SysExit(c, p) PROVE PidInv'
  BY <1>9 DEF SysExit, Syscall, At, Goto
<1>10. ASSUME NEW c \in CPU, NEW p \in Slot, SysKill(c, p) PROVE PidInv'
  BY <1>10 DEF SysKill, Syscall, At, Goto
<1>11. ASSUME NEW c \in CPU, NEW p \in Slot, UsertrapFault(c, p) PROVE PidInv'
  BY <1>11 DEF UsertrapFault, At, Goto
<1>12. ASSUME NEW c \in CPU, NEW p \in Slot, UsertrapKilled(c, p) PROVE PidInv'
  BY <1>12 DEF UsertrapKilled, At, Goto
<1>13. ASSUME NEW c \in CPU, NEW p \in Slot, Usertrapret(c, p) PROVE PidInv'
  BY <1>13 DEF Usertrapret, At, Goto
<1>14. ASSUME NEW c \in CPU, NEW p \in Slot, AllocBusy(c, p) PROVE PidInv'
  BY <1>14, ScanInTable DEF AllocBusy, At
<1>15. ASSUME NEW c \in CPU, NEW p \in Slot, AllocFull(c, p) PROVE PidInv'
  BY <1>15 DEF AllocFull, At, Return, Goto
<1>16. ASSUME NEW c \in CPU, NEW p \in Slot, AllocFound(c, p) PROVE PidInv'
  BY <1>16, ScanInTable DEF AllocFound, At, allocproc
<1>17. ASSUME NEW c \in CPU, NEW p \in Slot, AllocNoMem(c, p) PROVE PidInv'
  BY <1>17, ScanInTable DEF AllocNoMem, At, freeproc, Return, Goto
<1>18. ASSUME NEW c \in CPU, NEW p \in Slot, ForkSetParent(c, p) PROVE PidInv'
  BY <1>18 DEF ForkSetParent, At, Goto
<1>19. ASSUME NEW c \in CPU, NEW p \in Slot, ForkSetRunnable(c, p) PROVE PidInv'
  BY <1>19 DEF ForkSetRunnable, At, Return, Goto, LockIInv, ForkInv, InFork
<1>20. ASSUME NEW c \in CPU, NEW p \in Slot, ExitPanic(c, p) PROVE PidInv'
  BY <1>20 DEF ExitPanic, At, Goto
<1>21. ASSUME NEW c \in CPU, NEW p \in Slot, ExitLock(c, p) PROVE PidInv'
  BY <1>21 DEF ExitLock, At, Goto
<1>22. ASSUME NEW c \in CPU, NEW p \in Slot, ReparentChild(c, p) PROVE PidInv'
  BY <1>22 DEF ReparentChild, At, Goto
<1>23. ASSUME NEW c \in CPU, NEW p \in Slot, ReparentWakeup(c, p) PROVE PidInv'
  BY <1>23, ScanInTable DEF ReparentWakeup, At, WakeupSlot, WakeupEnd, Goto
<1>24. ASSUME NEW c \in CPU, NEW p \in Slot, ReparentDone(c, p) PROVE PidInv'
  BY <1>24 DEF ReparentDone, At, Goto
<1>25. ASSUME NEW c \in CPU, NEW p \in Slot, ExitWakeup(c, p) PROVE PidInv'
  BY <1>25, ScanInTable DEF ExitWakeup, At, WakeupSlot, WakeupEnd, Goto
<1>26. ASSUME NEW c \in CPU, NEW p \in Slot, ExitZombie(c, p) PROVE PidInv'
  BY <1>26 DEF ExitZombie, At, sched, Goto, LockIInv, CpuInv
<1>27. ASSUME NEW c \in CPU, NEW p \in Slot, WaitLock(c, p) PROVE PidInv'
  BY <1>27 DEF WaitLock, At, Goto
<1>28. ASSUME NEW c \in CPU, NEW p \in Slot, WaitGivesUp(c, p) PROVE PidInv'
  BY <1>28 DEF WaitGivesUp, At, Return, Goto
<1>29. ASSUME NEW c \in CPU, NEW p \in Slot, WaitSleeps(c, p) PROVE PidInv'
  BY <1>29 DEF WaitSleeps, At, Goto
<1>30. ASSUME NEW c \in CPU, NEW p \in Slot, Sleep(c, p) PROVE PidInv'
  BY <1>30 DEF Sleep, At, sched, Goto, LockIInv, CpuInv
<1>31. ASSUME NEW c \in CPU, NEW p \in Slot, KillMiss(c, p) PROVE PidInv'
  BY <1>31, ScanInTable DEF KillMiss, At
<1>32. ASSUME NEW c \in CPU, NEW p \in Slot, KillHit(c, p) PROVE PidInv'
  BY <1>32, ScanInTable DEF KillHit, At, Return, Goto
<1>33. ASSUME NEW c \in CPU, NEW p \in Slot, KillNone(c, p) PROVE PidInv'
  BY <1>33 DEF KillNone, At, Return, Goto
<1>34. ASSUME NEW c \in CPU, NEW p \in Slot, NEW np \in Slot, WaitChildLives(c, p, np) PROVE PidInv'
  BY <1>34 DEF WaitChildLives, At
<1>35. ASSUME NEW c \in CPU, NEW p \in Slot, NEW np \in Slot, WaitReap(c, p, np) PROVE PidInv'
  BY <1>35 DEF WaitReap, At, freeproc, Return, Goto
<1>36. ASSUME NEW c \in CPU, NEW p \in Slot, NEW np \in Slot, WaitCopyoutFails(c, p, np)
       PROVE PidInv'
  BY <1>36 DEF WaitCopyoutFails, At, Return, Goto
<1> QED
  BY <1>1, <1>2, <1>3, <1>4, <1>5, <1>6, <1>7, <1>8, <1>9, <1>10, <1>11, <1>12, <1>13, <1>14,
     <1>15, <1>16, <1>17, <1>18, <1>19, <1>20, <1>21, <1>22, <1>23, <1>24, <1>25, <1>26, <1>27,
     <1>28, <1>29, <1>30, <1>31, <1>32, <1>33, <1>34, <1>35, <1>36
     DEF Next, Scheduler, Tick, UserStep, KernelStep

\* Two processes never share a pid.
THEOREM PidUniqueCorrect == Spec => []PidUnique
<1>1. Init => TypeOK /\ LockIInv /\ PidInv
  BY TypeInit, LockInit, PidInit
<1>2. (TypeOK /\ LockIInv /\ PidInv) /\ [Next]_vars => (TypeOK /\ LockIInv /\ PidInv)'
  BY TypeStep, LockStep, PidStep
<1>3. PidInv => PidUnique
  BY DEF PidInv
<1> QED
  BY <1>1, <1>2, <1>3, PTL DEF Spec
-----------------------------------------------------------------------------
(* Parents and children: fork(), exit() and wait().                        *)

Live == {"SLEEPING", "RUNNABLE", "RUNNING"}

\* init lives; a parent lives and is not past its reparenting; a free slot has no
\* parent, a new one gets its own from the fork() that has it; and where the thread of a
\* slot is that has no process yet, or has one no more.
TreeInv ==
  /\ state[initproc] \in Live /\ parent[initproc] = None
  /\ pc[initproc] \notin InExit \cup {"dead"}
  /\ ParentsLive
  /\ \A q \in Slot : state[q] = "UNUSED" => parent[q] = None
  /\ \A q \in Slot : parent[q] # None => pc[parent[q]] \notin {"ewake", "zombie"}
  /\ \A p \in Slot : /\ pc[p] = "setparent" => parent[arg[p]] = None
                     /\ pc[p] = "setrun" => parent[arg[p]] = p
  /\ \A p \in Slot : /\ state[p] = "UNUSED" => pc[p] \in {"forkret", "dead"}
                     /\ state[p] = "USED" => pc[p] = "forkret"
                     /\ state[p] = "ZOMBIE" => pc[p] = "dead"

\* Where the loop variable is at the start of a table.
AtZero == {"forkret", "user", "ret", "exit", "reparent", "zombie", "dead", "panic"}
ScanInv == \A p \in Slot : pc[p] \in AtZero => scan[p] = 0

\* Where a thread neither has wait_lock nor a child slot of a fork().
Outside == {"wait", "asleep", "forkret", "user", "ret", "alloc", "kill", "exit", "panic"}

Stays(q) == pc'[q] = pc[q] /\ scan'[q] = scan[q] /\ arg'[q] = arg[q]
Moves(q) ==
  /\ state[q] \in Live
  /\ pc[q] \in Outside /\ pc'[q] \in Outside
  /\ pc'[q] \in AtZero => scan'[q] = 0

\* A step that leaves the family tree alone: no process is born, dies, goes to sleep or
\* gets another parent, and threads only move outside the protocols of fork, exit and wait.
Calm ==
  /\ UNCHANGED parent
  /\ \A q \in Slot :
       /\ state'[q] = state[q] \/ (state[q] \in Live /\ state'[q] \in Live)
       /\ state'[q] = "SLEEPING" => state[q] = "SLEEPING" /\ chan'[q] = chan[q]
       /\ Stays(q) \/ Moves(q)

ForkStepOf(c, p) == AllocFound(c, p) \/ ForkSetParent(c, p) \/ ForkSetRunnable(c, p)
ExitStepOf(c, p) ==
  \/ ExitLock(c, p) \/ ReparentChild(c, p) \/ ReparentWakeup(c, p) \/ ReparentDone(c, p)
  \/ ExitWakeup(c, p) \/ ExitZombie(c, p)
WaitStepOf(c, p) ==
  \/ WaitLock(c, p) \/ WaitGivesUp(c, p) \/ WaitSleeps(c, p) \/ Sleep(c, p)
  \/ \E np \in Slot : \/ WaitChildLives(c, p, np) \/ WaitReap(c, p, np)
                      \/ WaitCopyoutFails(c, p, np)

\* init's slot is in the table.
LEMMA InitInTable == initproc \in Slot
  BY ProcAssumption DEF initproc, Slot

\* A thread that a CPU executes is that of a RUNNING process.
LEMMA AtRuns ==
  ASSUME TypeOK, LockIInv, NEW c \in CPU, NEW p \in Slot, spc[c] = "run", cproc[c] = p
  PROVE  state[p] = "RUNNING"
  BY DEF LockIInv, CpuInv

\* One thread at a time is between acquire and release of wait_lock.
LEMMA HolderAlone ==
  ASSUME TypeOK, LockIInv, NEW p \in Slot, NEW q \in Slot, HoldsWaitLock(p), HoldsWaitLock(q)
  PROVE  p = q
  BY DEF LockIInv, WaitLockInv, OnCpu

\* Every step is calm or one of fork(), exit() or wait().
LEMMA StepKinds ==
  ASSUME TypeOK, LockIInv, TreeInv, ScanInv, [Next]_vars
  PROVE  Calm \/ \E c \in CPU, p \in Slot :
                   ForkStepOf(c, p) \/ ExitStepOf(c, p) \/ WaitStepOf(c, p)
<1> USE ProcAssumption DEF TypeOK, table, cpuVars, thread
<1>1. CASE UNCHANGED vars
  BY <1>1 DEF vars, Calm, Stays
<1>2. ASSUME NEW c \in CPU, ScanSlot(c) PROVE Calm
  <2>1. sidx[c] \in Slot
    OBVIOUS
  <2>2. /\ UNCHANGED <<chan, parent, pc, scan, arg>>
        /\ \A q \in Slot : \/ state'[q] = state[q]
                           \/ state[q] = "RUNNABLE" /\ state'[q] = "RUNNING"
    BY <1>2, <2>1 DEF ScanSlot
  <2> QED
    BY <2>2 DEF Calm, Stays, Live
<1>3. ASSUME NEW c \in CPU, SchedBack(c) PROVE Calm
  BY <1>3 DEF SchedBack, Calm, Stays
<1>4. ASSUME NEW c \in CPU, NEW p \in Slot, UserTick(c, p) PROVE Calm
  BY <1>4, AtRuns DEF UserTick, At, yield, sched, Calm, Stays, Live
<1>5. ASSUME NEW c \in CPU, NEW p \in Slot, KernelTick(c, p) PROVE Calm
  BY <1>5, AtRuns DEF KernelTick, yield, sched, Calm, Stays, Live
<1>6. ASSUME NEW c \in CPU, NEW p \in Slot, Resume(c, p) PROVE Calm
  <2>1. state[p] = "RUNNING" /\ UNCHANGED <<state, parent, scan, arg>>
    BY <1>6, AtRuns DEF Resume
  <2>2. \A q \in Slot \ {p} : chan'[q] = chan[q] /\ pc'[q] = pc[q]
    BY <1>6 DEF Resume, Goto
  <2>3. \/ pc'[p] = pc[p]
        \/ pc[p] = "asleep" /\ pc'[p] = "wait"
        \/ pc[p] = "forkret" /\ pc'[p] = "user"
    BY <1>6 DEF Resume, Goto, AfterSwtch
  <2>4. Stays(p) \/ Moves(p)
    BY <2>1, <2>3 DEF Stays, Moves, Outside, AtZero, ScanInv, Live
  <2> QED
    BY <2>1, <2>2, <2>4 DEF Calm, Stays
<1> DEFINE Small(p) == /\ state[p] = "RUNNING"
                       /\ UNCHANGED <<state, chan, parent>>
                       /\ \A q \in Slot \ {p} : Stays(q)
                       /\ Moves(p)
<1>7. ASSUME NEW p \in Slot, Small(p) PROVE Calm
  BY <1>7 DEF Calm
<1> HIDE DEF Small
<1>8. ASSUME NEW c \in CPU, NEW p \in Slot, UserStep(c, p) PROVE Small(p)
  BY <1>8, AtRuns DEF UserStep, SysFork, SysWait, SysExit, SysKill, UsertrapFault, Syscall, At, Goto,
     Small, Stays, Moves, Outside, AtZero, ScanInv, Live
<1>9. ASSUME NEW c \in CPU, NEW p \in Slot, UsertrapKilled(c, p) \/ Usertrapret(c, p) PROVE Small(p)
  BY <1>9, AtRuns DEF UsertrapKilled, Usertrapret, At, Goto,
     Small, Stays, Moves, Outside, AtZero, ScanInv, Live
<1>10. ASSUME NEW c \in CPU, NEW p \in Slot,
              AllocBusy(c, p) \/ AllocFull(c, p) \/ KillMiss(c, p) \/ KillNone(c, p)
       PROVE  Small(p)
  BY <1>10, AtRuns DEF AllocBusy, AllocFull, KillMiss, KillNone, Return, At, Goto,
     Small, Stays, Moves, Outside, AtZero, Live
<1>11. ASSUME NEW c \in CPU, NEW p \in Slot, ExitPanic(c, p) PROVE Small(p)
  BY <1>11, AtRuns DEF ExitPanic, At, Goto, Small, Stays, Moves, Outside, AtZero, ScanInv, Live
<1>12. ASSUME NEW c \in CPU, NEW p \in Slot, AllocNoMem(c, p) PROVE Calm
  <2>1. scan[p] \in Slot /\ state[scan[p]] = "UNUSED" /\ state[p] = "RUNNING"
    BY <1>12, AtRuns, ScanInTable DEF AllocNoMem, At
  <2>2. parent[scan[p]] = None
    BY <2>1 DEF TreeInv
  <2>3. UNCHANGED parent /\ UNCHANGED state
    BY <1>12, <2>1, <2>2 DEF AllocNoMem, freeproc
  <2>4. \A q \in Slot \ {scan[p]} : chan'[q] = chan[q]
    BY <1>12 DEF AllocNoMem, freeproc
  <2>5. (\A q \in Slot \ {p} : Stays(q)) /\ Moves(p)
    BY <1>12, <2>1 DEF AllocNoMem, Return, At, Goto, Stays, Moves, Outside, AtZero, Live
  <2> QED
    BY <2>1, <2>3, <2>4, <2>5 DEF Calm
<1>13. ASSUME NEW c \in CPU, NEW p \in Slot, KillHit(c, p) PROVE Calm
  <2>1. scan[p] \in Slot /\ state[p] = "RUNNING"
    BY <1>13, AtRuns, ScanInTable DEF KillHit, At
  <2>2. /\ UNCHANGED <<chan, parent>>
        /\ \A q \in Slot : \/ state'[q] = state[q]
                           \/ state[q] = "SLEEPING" /\ state'[q] = "RUNNABLE"
    BY <1>13, <2>1 DEF KillHit
  <2>3. (\A q \in Slot \ {p} : Stays(q)) /\ Moves(p)
    BY <1>13, <2>1 DEF KillHit, Return, At, Goto, Stays, Moves, Outside, AtZero, Live
  <2> QED
    BY <2>2, <2>3 DEF Calm, Live
<1> QED
  BY ZenonT(60), <1>1, <1>2, <1>3, <1>4, <1>5, <1>6, <1>7, <1>8, <1>9, <1>10, <1>11, <1>12, <1>13
     DEF Next, Scheduler, Tick, KernelStep, ForkStepOf, ExitStepOf, WaitStepOf

\* The parts of TreeInv a step can disturb, once parents stay and states stay alive.
LEMMA TreeCalm == ASSUME TypeOK, LockIInv, TreeInv, ScanInv, Calm PROVE TreeInv'
<1> USE InitInTable DEF TypeOK, TreeInv, Calm
<1>1. /\ state'[initproc] \in Live /\ parent'[initproc] = None
      /\ pc'[initproc] \notin InExit \cup {"dead"}
  BY DEF Live, Stays, Moves, Outside, InExit
<1>2. ParentsLive'
  BY ProcAssumption DEF ParentsLive, Live
<1>3. \A q \in Slot : state'[q] = "UNUSED" => parent'[q] = None
  BY DEF Live
<1>4. \A q \in Slot : parent'[q] # None => pc'[parent'[q]] \notin {"ewake", "zombie"}
  BY DEF Stays, Moves, Outside
<1>5. \A p \in Slot : /\ pc'[p] = "setparent" => parent'[arg'[p]] = None
                      /\ pc'[p] = "setrun" => parent'[arg'[p]] = p
  BY DEF Stays, Moves, Outside
<1>6. \A p \in Slot : /\ state'[p] = "UNUSED" => pc'[p] \in {"forkret", "dead"}
                      /\ state'[p] = "USED" => pc'[p] = "forkret"
                      /\ state'[p] = "ZOMBIE" => pc'[p] = "dead"
  BY DEF Stays, Moves, Live
<1> QED
  BY <1>1, <1>2, <1>3, <1>4, <1>5, <1>6

\* fork() gives the child its parent before it makes it RUNNABLE.
LEMMA TreeFork ==
  ASSUME TypeOK, LockIInv, TreeInv, NEW c \in CPU, NEW p \in Slot, ForkStepOf(c, p)
  PROVE  TreeInv'
<1> USE InitInTable, ProcAssumption DEF TypeOK, TreeInv
<1>1. state[p] = "RUNNING"
  BY AtRuns DEF ForkStepOf, AllocFound, ForkSetParent, ForkSetRunnable, At
<1>2. CASE AllocFound(c, p)
  <2> DEFINE np == scan[p]
  <2>1. np \in Slot /\ state[np] = "UNUSED" /\ parent[np] = None /\ pc[p] = "alloc"
    BY <1>2, ScanInTable DEF AllocFound, At
  <2>2. /\ state' = [state EXCEPT ![np] = "USED"]
        /\ pc' = [pc EXCEPT ![p] = "setparent", ![np] = "forkret"]
        /\ arg' = [arg EXCEPT ![p] = np]
        /\ parent' = parent
    BY <1>2 DEF AllocFound, allocproc
  <2> HIDE DEF np
  <2>3. \A q \in Slot : parent[q] # np
    BY <2>1 DEF ParentsLive
  <2>4. /\ state'[initproc] \in Live /\ parent'[initproc] = None
        /\ pc'[initproc] \notin InExit \cup {"dead"}
    BY <2>1, <2>2 DEF Live, InExit
  <2>5. ParentsLive'
    BY <2>1, <2>2, <2>3 DEF ParentsLive
  <2> QED
    BY <1>1, <2>1, <2>2, <2>3, <2>4, <2>5
<1> DEFINE q == arg[p]
<1>3. ASSUME pc[p] \in InFork
      PROVE  q \in Slot /\ state[q] = "USED" /\ \A r \in Slot : parent[r] # q
  BY <1>3 DEF LockIInv, ForkInv, ParentsLive
<1>4. CASE ForkSetParent(c, p)
  <2>1. /\ pc[p] = "setparent" /\ pc' = [pc EXCEPT ![p] = "setrun"]
        /\ parent' = [parent EXCEPT ![q] = p]
        /\ UNCHANGED <<state, arg>>
    BY <1>4 DEF ForkSetParent, At, Goto
  <2>2. q \in Slot /\ state[q] = "USED" /\ parent[q] = None /\ \A r \in Slot : parent[r] # q
    BY <1>3, <2>1 DEF InFork
  <2>3. \A r \in Slot \ {p} : pc[r] \in InFork => arg[r] # q
    BY <2>1 DEF LockIInv, ForkInv, InFork
  <2> HIDE DEF q
  <2>4. /\ state'[initproc] \in Live /\ parent'[initproc] = None
        /\ pc'[initproc] \notin InExit \cup {"dead"}
    BY <2>1, <2>2 DEF Live, InExit
  <2>5. ParentsLive'
    BY <1>1, <2>1, <2>2 DEF ParentsLive
  <2>6. \A r \in Slot : /\ pc'[r] = "setparent" => parent'[arg'[r]] = None
                        /\ pc'[r] = "setrun" => parent'[arg'[r]] = r
    BY <2>1, <2>2, <2>3 DEF InFork, q
  <2> QED
    BY <1>1, <2>1, <2>2, <2>4, <2>5, <2>6
<1>5. CASE ForkSetRunnable(c, p)
  <2>1. /\ pc[p] = "setrun" /\ pc' = [pc EXCEPT ![p] = "ret"]
        /\ state' = [state EXCEPT ![q] = "RUNNABLE"]
        /\ arg' = [arg EXCEPT ![p] = 0]
        /\ UNCHANGED parent
    BY <1>5 DEF ForkSetRunnable, At, Return, Goto
  <2>2. q \in Slot /\ state[q] = "USED" /\ parent[q] = p /\ \A r \in Slot : parent[r] # q
    BY <1>3, <2>1 DEF InFork
  <2> HIDE DEF q
  <2>3. /\ state'[initproc] \in Live /\ parent'[initproc] = None
        /\ pc'[initproc] \notin InExit \cup {"dead"}
    BY <2>1, <2>2 DEF Live, InExit
  <2>4. ParentsLive'
    BY <1>1, <2>1, <2>2 DEF ParentsLive
  <2> QED
    BY <1>1, <2>1, <2>2, <2>3, <2>4
<1> QED
  BY <1>2, <1>4, <1>5 DEF ForkStepOf

\* exit() gives its children away before it dies, and init never dies.
LEMMA TreeExit ==
  ASSUME TypeOK, LockIInv, TreeInv, NEW c \in CPU, NEW p \in Slot, ExitStepOf(c, p)
  PROVE  TreeInv'
<1> USE InitInTable, ProcAssumption DEF TypeOK, TreeInv
<1>1. state[p] = "RUNNING" /\ p # initproc
  BY AtRuns DEF ExitStepOf, ExitLock, ReparentChild, ReparentWakeup, ReparentDone, ExitWakeup,
     ExitZombie, At, InExit
<1>2. CASE ExitLock(c, p)
  BY <1>1, <1>2 DEF ExitLock, At, Goto, ParentsLive, table, cpuVars
<1>3. CASE ReparentChild(c, p)
  <2>1. PICK pp \in Slot : parent[pp] = p /\ parent' = [parent EXCEPT ![pp] = initproc]
    BY <1>3 DEF ReparentChild, First, Children
  <2>2. pc[p] = "reparent" /\ pc' = [pc EXCEPT ![p] = "rwake"] /\ UNCHANGED <<state, arg>>
    BY <1>3 DEF ReparentChild, At, Goto
  <2>3. pp # initproc
    BY <2>1
  <2>4. ParentsLive'
    BY <2>1, <2>2 DEF ParentsLive, Live
  <2>5. \A q \in Slot : parent'[q] # None => pc'[parent'[q]] \notin {"ewake", "zombie"}
    BY <2>1, <2>2 DEF InExit
  <2>6. \A r \in Slot : /\ pc'[r] = "setparent" => parent'[arg'[r]] = None
                        /\ pc'[r] = "setrun" => parent'[arg'[r]] = r
    BY <2>1, <2>2 DEF LockIInv, ForkInv, InFork
  <2> QED
    BY <1>1, <2>1, <2>2, <2>3, <2>4, <2>5, <2>6
<1>4. CASE ReparentWakeup(c, p) \/ ExitWakeup(c, p)
  <2>1. /\ UNCHANGED <<parent, arg>>
        /\ \A q \in Slot : state'[q] = state[q] \/ (state[q] \in Live /\ state'[q] \in Live)
    <3>1. WakeupSlot(p, initproc) \/ WakeupSlot(p, parent[p]) \/ UNCHANGED state
      BY <1>4 DEF ReparentWakeup, ExitWakeup, WakeupEnd
    <3>2. \A q \in Slot : state'[q] = state[q] \/ (state[q] \in Live /\ state'[q] \in Live)
      BY <3>1, WakeupEffect DEF Live
    <3> QED
      BY <1>4, <3>2 DEF ReparentWakeup, ExitWakeup
  <2>2. \/ UNCHANGED pc
        \/ pc[p] = "rwake" /\ pc' = [pc EXCEPT ![p] = "reparent"]
        \/ pc[p] = "ewake" /\ pc' = [pc EXCEPT ![p] = "zombie"]
    BY <1>4 DEF ReparentWakeup, ExitWakeup, WakeupSlot, WakeupEnd, At, Goto
  <2>3. ParentsLive'
    BY <2>1 DEF ParentsLive, Live
  <2> QED
    BY <1>1, <2>1, <2>2, <2>3 DEF Live
<1>5. CASE ReparentDone(c, p)
  <2>1. \A q \in Slot : parent[q] # p
    BY <1>5 DEF ReparentDone, Children
  <2> QED
    BY <1>1, <1>5, <2>1 DEF ReparentDone, At, Goto, ParentsLive, table, cpuVars
<1>6. CASE ExitZombie(c, p)
  <2>1. /\ pc[p] = "zombie" /\ pc' = [pc EXCEPT ![p] = "dead"]
        /\ state' = [state EXCEPT ![p] = "ZOMBIE"]
        /\ UNCHANGED <<parent, arg>>
    BY <1>6 DEF ExitZombie, At, Goto
  <2>2. \A q \in Slot : parent[q] # p
    BY <2>1
  <2>3. ParentsLive'
    BY <1>1, <2>1, <2>2 DEF ParentsLive
  <2> QED
    BY <1>1, <2>1, <2>2, <2>3 DEF Live
<1> QED
  BY <1>2, <1>3, <1>4, <1>5, <1>6 DEF ExitStepOf

\* wait() frees a child that has no children.
LEMMA TreeWait ==
  ASSUME TypeOK, LockIInv, TreeInv, NEW c \in CPU, NEW p \in Slot, WaitStepOf(c, p)
  PROVE  TreeInv'
<1> USE InitInTable, ProcAssumption DEF TypeOK, TreeInv
<1>1. state[p] = "RUNNING"
  BY AtRuns DEF WaitStepOf, WaitLock, WaitGivesUp, WaitSleeps, Sleep, WaitChildLives, WaitReap,
     WaitCopyoutFails, At
<1>2. ASSUME NEW np \in Slot, WaitReap(c, p, np) PROVE TreeInv'
  <2>1. /\ state[np] = "ZOMBIE" /\ state' = [state EXCEPT ![np] = "UNUSED"]
        /\ parent' = [parent EXCEPT ![np] = None]
        /\ pc[p] = "scan" /\ pc' = [pc EXCEPT ![p] = "ret"] /\ arg' = [arg EXCEPT ![p] = 0]
    BY <1>2 DEF WaitReap, freeproc, Return, At, Goto
  <2>2. \A q \in Slot : parent[q] # np
    BY <2>1 DEF ParentsLive
  <2>3. ParentsLive'
    BY <2>1, <2>2 DEF ParentsLive
  <2>4. \A r \in Slot : /\ pc'[r] = "setparent" => parent'[arg'[r]] = None
                        /\ pc'[r] = "setrun" => parent'[arg'[r]] = r
    BY <2>1 DEF LockIInv, ForkInv, InFork
  <2>5. /\ state'[initproc] \in Live /\ parent'[initproc] = None
        /\ pc'[initproc] \notin InExit \cup {"dead"}
    BY <2>1, <2>2 DEF Live, InExit
  <2> QED
    BY <1>1, <2>1, <2>2, <2>3, <2>4, <2>5
<1>3. CASE Sleep(c, p)
  BY <1>1, <1>3 DEF Sleep, At, Goto, ParentsLive, Live, InExit
<1>4. ASSUME UNCHANGED <<state, parent>>, UNCHANGED arg \/ arg' = [arg EXCEPT ![p] = 0],
             NEW l, l \in {"scan", "ret", "sleep"}, pc' = [pc EXCEPT ![p] = l]
      PROVE  TreeInv'
  BY <1>1, <1>4 DEF ParentsLive, InExit
<1>5. CASE WaitLock(c, p)
  BY <1>4, <1>5 DEF WaitLock, Goto, table
<1>6. CASE WaitGivesUp(c, p)
  BY <1>4, <1>6 DEF WaitGivesUp, Return, Goto, table
<1>7. CASE WaitSleeps(c, p)
  BY <1>4, <1>7 DEF WaitSleeps, Goto, table
<1>8. ASSUME NEW np \in Slot, WaitCopyoutFails(c, p, np) PROVE TreeInv'
  BY <1>4, <1>8 DEF WaitCopyoutFails, Return, Goto, table
<1>9. ASSUME NEW np \in Slot, WaitChildLives(c, p, np) PROVE TreeInv'
  BY <1>9 DEF WaitChildLives, table, ParentsLive
<1> QED
  BY <1>2, <1>3, <1>5, <1>6, <1>7, <1>8, <1>9 DEF WaitStepOf

\* A loop over the table starts at its first slot.
LEMMA ScanStep ==
  ASSUME TypeOK, LockIInv, TreeInv, ScanInv, [Next]_vars
  PROVE  ScanInv'
<1> USE ProcAssumption DEF TypeOK, ScanInv
<1>1. CASE Calm
  BY <1>1 DEF Calm, Stays, Moves
<1>2. ASSUME NEW c \in CPU, NEW p \in Slot, ForkStepOf(c, p) PROVE ScanInv'
  <2>1. CASE AllocFound(c, p)
    <3>1. /\ scan[p] \in Slot /\ state[scan[p]] = "UNUSED"
          /\ pc' = [pc EXCEPT ![p] = "setparent", ![scan[p]] = "forkret"]
          /\ scan' = scan /\ state[p] = "RUNNING"
      BY <2>1, AtRuns, ScanInTable DEF AllocFound, At
    <3>2. scan[scan[p]] = 0
      BY <3>1 DEF TreeInv, AtZero
    <3> QED
      BY <3>1, <3>2 DEF AtZero
  <2>2. CASE ForkSetParent(c, p) \/ ForkSetRunnable(c, p)
    BY <2>2 DEF ForkSetParent, ForkSetRunnable, Return, Goto, AtZero
  <2> QED
    BY <1>2, <2>1, <2>2 DEF ForkStepOf
<1>3. ASSUME NEW c \in CPU, NEW p \in Slot, ExitStepOf(c, p) PROVE ScanInv'
  BY <1>3 DEF ExitStepOf, ExitLock, ReparentChild, ReparentWakeup, ReparentDone, ExitWakeup,
     ExitZombie, WakeupSlot, WakeupEnd, At, Goto, AtZero, thread
<1>4. ASSUME NEW c \in CPU, NEW p \in Slot, WaitStepOf(c, p) PROVE ScanInv'
  BY <1>4 DEF WaitStepOf, WaitLock, WaitGivesUp, WaitSleeps, Sleep, WaitChildLives, WaitReap,
     WaitCopyoutFails, Return, At, Goto, AtZero
<1> QED
  BY <1>1, <1>2, <1>3, <1>4, StepKinds

\* At boot there is init, and nobody is anywhere.
LEMMA TreeInit == Init => TreeInv /\ ScanInv
  BY InitInTable, ProcAssumption DEF Init, TreeInv, ScanInv, ParentsLive, Live, InExit

\* The family tree, the locks and the types are one inductive invariant.
FamilyInv == TypeOK /\ LockIInv /\ TreeInv /\ ScanInv

\* It holds at every moment.
THEOREM FamilyCorrect == Spec => []FamilyInv
<1>1. Init => FamilyInv
  BY TypeInit, LockInit, TreeInit DEF FamilyInv
<1>2. FamilyInv /\ [Next]_vars => FamilyInv'
  <2> SUFFICES ASSUME FamilyInv, [Next]_vars PROVE FamilyInv'
    OBVIOUS
  <2>1. TypeOK' /\ LockIInv'
    BY TypeStep, LockStep DEF FamilyInv
  <2>2. TreeInv'
    BY StepKinds, TreeCalm, TreeFork, TreeExit, TreeWait DEF FamilyInv
  <2>3. ScanInv'
    BY ScanStep DEF FamilyInv
  <2> QED
    BY <2>1, <2>2, <2>3 DEF FamilyInv
<1> QED
  BY <1>1, <1>2, PTL DEF Spec

\* Nobody is left without a parent that can still wait for it.
THEOREM ParentsLiveCorrect == Spec => []ParentsLive
<1>1. FamilyInv => ParentsLive
  BY DEF FamilyInv, TreeInv
<1> QED
  BY <1>1, FamilyCorrect, PTL

-----------------------------------------------------------------------------
(* Wakeups.                                                                *)

\* exit() has woken its parent, or init, once its loop is past that slot, and nobody can
\* go to sleep while wait_lock is held; wait() sleeps only after it has seen every child
\* alive, since it took wait_lock.
WakeInv ==
  /\ NoLostWakeup
  /\ \A p, q \in Slot :
       parent[p] = q /\ (pc[p] = "zombie" \/ (pc[p] = "ewake" /\ q < scan[p]))
         => state[q] # "SLEEPING"
  /\ \A r \in Slot : pc[r] = "rwake" /\ scan[r] > initproc => state[initproc] # "SLEEPING"
  /\ \A p, q \in Slot : parent[q] = p /\ state[q] = "ZOMBIE" =>
       pc[p] # "sleep" /\ (pc[p] = "scan" => q >= scan[p])

\* A calm step wakes at most, and touches nobody who holds wait_lock.
LEMMA WakeCalm == ASSUME FamilyInv, WakeInv, Calm PROVE WakeInv'
<1> USE InitInTable DEF FamilyInv, TypeOK, WakeInv, Calm
<1>1. \A q \in Slot : state'[q] = "ZOMBIE" <=> state[q] = "ZOMBIE"
  BY DEF Live
<1>2. \A q \in Slot : /\ pc'[q] \in {"rwake", "ewake", "zombie", "sleep", "scan"}
                           => pc'[q] = pc[q] /\ scan'[q] = scan[q]
                      /\ pc[q] = "rwake" => pc'[q] = pc[q] /\ scan'[q] = scan[q]
  BY DEF Stays, Moves, Outside
<1>3. NoLostWakeup'
  <2> SUFFICES ASSUME NEW p \in Slot, state'[p] = "SLEEPING"
               PROVE  /\ chan'[p] = p
                      /\ \A q \in Slot : parent'[q] = p /\ state'[q] = "ZOMBIE" =>
                           \E r \in Slot : p = initproc /\ pc'[r] = "rwake" /\ scan'[r] <= p
    BY DEF NoLostWakeup, Children
  <2>1. state[p] = "SLEEPING" /\ chan'[p] = p
    BY DEF NoLostWakeup
  <2>2. ASSUME NEW q \in Slot, parent'[q] = p, state'[q] = "ZOMBIE"
        PROVE  \E r \in Slot : p = initproc /\ pc'[r] = "rwake" /\ scan'[r] <= p
    <3>1. PICK r \in Slot : p = initproc /\ pc[r] = "rwake" /\ scan[r] <= p
      BY <1>1, <2>1, <2>2 DEF NoLostWakeup, Children
    <3> QED
      BY <1>2, <3>1
  <2> QED
    BY <2>1, <2>2
<1>4. /\ \A p, q \in Slot :
           parent'[p] = q /\ (pc'[p] = "zombie" \/ (pc'[p] = "ewake" /\ q < scan'[p]))
             => state'[q] # "SLEEPING"
      /\ \A r \in Slot : pc'[r] = "rwake" /\ scan'[r] > initproc => state'[initproc] # "SLEEPING"
  BY <1>2
<1>5. \A p, q \in Slot : parent'[q] = p /\ state'[q] = "ZOMBIE" =>
        pc'[p] # "sleep" /\ (pc'[p] = "scan" => q >= scan'[p])
  BY <1>1, <1>2
<1> QED
  BY <1>3, <1>4, <1>5

\* WakeInv reads only who sleeps, who is a zombie, who is inside one of its loops and how far,
\* the channels and the parents: a step that keeps these keeps it.
LEMMA WakeSame ==
  ASSUME WakeInv, UNCHANGED <<chan, parent>>,
         \A r \in Slot : state'[r] = "SLEEPING" <=> state[r] = "SLEEPING",
         \A r \in Slot : state'[r] = "ZOMBIE" <=> state[r] = "ZOMBIE",
         \A r \in Slot, l \in {"scan", "sleep", "rwake", "ewake", "zombie"} :
           (pc'[r] = l <=> pc[r] = l) /\ (pc[r] = l => scan'[r] = scan[r])
  PROVE  WakeInv'
<1>1. NoLostWakeup'
  <2> SUFFICES ASSUME NEW p \in Slot, state'[p] = "SLEEPING"
               PROVE  /\ chan'[p] = p
                      /\ \A q \in Slot : parent'[q] = p /\ state'[q] = "ZOMBIE" =>
                           \E r \in Slot : p = initproc /\ pc'[r] = "rwake" /\ scan'[r] <= p
    BY DEF NoLostWakeup, Children
  <2>1. state[p] = "SLEEPING" /\ chan'[p] = p
    BY DEF WakeInv, NoLostWakeup
  <2>2. ASSUME NEW q \in Slot, parent'[q] = p, state'[q] = "ZOMBIE"
        PROVE  \E r \in Slot : p = initproc /\ pc'[r] = "rwake" /\ scan'[r] <= p
    <3>1. PICK r \in Slot : p = initproc /\ pc[r] = "rwake" /\ scan[r] <= p
      BY <2>1, <2>2 DEF WakeInv, NoLostWakeup, Children
    <3> QED
      BY <3>1
  <2> QED
    BY <2>1, <2>2
<1>2. /\ \A p, q \in Slot :
           parent'[p] = q /\ (pc'[p] = "zombie" \/ (pc'[p] = "ewake" /\ q < scan'[p]))
             => state'[q] # "SLEEPING"
      /\ \A r \in Slot : pc'[r] = "rwake" /\ scan'[r] > initproc => state'[initproc] # "SLEEPING"
  BY InitInTable DEF WakeInv
<1>3. \A p, q \in Slot : parent'[q] = p /\ state'[q] = "ZOMBIE" =>
        pc'[p] # "sleep" /\ (pc'[p] = "scan" => q >= scan'[p])
  BY DEF WakeInv
<1> QED
  BY <1>1, <1>2, <1>3 DEF WakeInv

\* fork() adds a child that is no zombie, to a parent that is awake.
LEMMA WakeFork ==
  ASSUME FamilyInv, WakeInv, NEW c \in CPU, NEW p \in Slot, ForkStepOf(c, p)
  PROVE  WakeInv'
<1> USE InitInTable, ProcAssumption DEF FamilyInv, TypeOK, WakeInv, NoLostWakeup, Children
<1>1. state[p] = "RUNNING"
  BY AtRuns DEF ForkStepOf, AllocFound, ForkSetParent, ForkSetRunnable, At
<1>2. CASE AllocFound(c, p)
  <2> DEFINE np == scan[p]
  <2>1. np \in Slot /\ state[np] = "UNUSED" /\ parent[np] = None /\ pc[p] = "alloc"
    BY <1>2, ScanInTable DEF AllocFound, At, TreeInv
  <2>2. /\ state' = [state EXCEPT ![np] = "USED"]
        /\ pc' = [pc EXCEPT ![p] = "setparent", ![np] = "forkret"]
        /\ UNCHANGED <<chan, parent, scan>>
    BY <1>2 DEF AllocFound, allocproc
  <2>3. pc[np] \in {"forkret", "dead"}
    BY <2>1 DEF TreeInv
  <2> HIDE DEF np
  <2>4. \A r \in Slot : /\ state'[r] = "SLEEPING" <=> state[r] = "SLEEPING"
                       /\ state'[r] = "ZOMBIE" <=> state[r] = "ZOMBIE"
    BY <2>1, <2>2
  <2>5. \A r \in Slot, l \in {"scan", "sleep", "rwake", "ewake", "zombie"} :
          pc'[r] = l <=> pc[r] = l
    BY <2>1, <2>2, <2>3
  <2> QED
    BY <2>2, <2>4, <2>5, WakeSame
<1> DEFINE q == arg[p]
<1>3. CASE ForkSetParent(c, p)
  <2>1. /\ pc[p] = "setparent" /\ pc' = [pc EXCEPT ![p] = "setrun"]
        /\ parent' = [parent EXCEPT ![q] = p]
        /\ UNCHANGED <<state, chan, scan>>
    BY <1>3 DEF ForkSetParent, At, Goto
  <2>2. q \in Slot /\ state[q] = "USED" /\ pc[q] = "forkret"
    BY <2>1 DEF LockIInv, ForkInv, InFork, TreeInv
  <2> HIDE DEF q
  <2> QED
    BY <1>1, <2>1, <2>2
<1>4. CASE ForkSetRunnable(c, p)
  <2>1. /\ pc[p] = "setrun" /\ pc' = [pc EXCEPT ![p] = "ret"]
        /\ state' = [state EXCEPT ![q] = "RUNNABLE"]
        /\ UNCHANGED <<chan, parent>>
        /\ \A r \in Slot \ {p} : scan'[r] = scan[r]
    BY <1>4 DEF ForkSetRunnable, At, Return, Goto
  <2>2. q \in Slot /\ state[q] = "USED"
    BY <2>1 DEF LockIInv, ForkInv, InFork
  <2> HIDE DEF q
  <2>3. \A r \in Slot : /\ state'[r] = "SLEEPING" <=> state[r] = "SLEEPING"
                       /\ state'[r] = "ZOMBIE" <=> state[r] = "ZOMBIE"
    BY <2>1, <2>2
  <2>4. \A r \in Slot, l \in {"scan", "sleep", "rwake", "ewake", "zombie"} :
          /\ pc'[r] = l <=> pc[r] = l
          /\ pc[r] = l => scan'[r] = scan[r]
    BY <2>1
  <2> QED
    BY <2>1, <2>3, <2>4, WakeSame
<1> QED
  BY <1>2, <1>3, <1>4 DEF ForkStepOf

\* A slot a loop has passed when it has passed slot i is i or was passed before.
LEMMA SlotBelow ==
  ASSUME NEW i \in Int
  PROVE  \A t \in Slot : t < i + 1 => t < i \/ t = i
  BY ProcAssumption DEF Slot

\* exit() wakes whoever may be waiting for what it makes visible, and wait_lock keeps the
\* others from going to sleep meanwhile.
LEMMA WakeExit ==
  ASSUME FamilyInv, WakeInv, NEW c \in CPU, NEW p \in Slot, ExitStepOf(c, p)
  PROVE  WakeInv'
<1> USE InitInTable, ProcAssumption DEF FamilyInv, TypeOK, WakeInv
<1>1. state[p] = "RUNNING" /\ p # initproc
  BY AtRuns DEF ExitStepOf, ExitLock, ReparentChild, ReparentWakeup, ReparentDone, ExitWakeup,
     ExitZombie, At, InExit, TreeInv
<1>2. CASE ExitLock(c, p) \/ ReparentDone(c, p)
  <2>1. /\ UNCHANGED <<state, chan, parent, scan>> /\ pc[p] \in AtZero /\ scan[p] = 0
        /\ pc[p] # "rwake"
        /\ \/ pc' = [pc EXCEPT ![p] = "reparent"]
           \/ pc' = [pc EXCEPT ![p] = "ewake"]
    BY <1>2 DEF ExitLock, ReparentDone, At, Goto, table, AtZero, ScanInv
  <2>2. \A q \in Slot : ~ (q < 0)
    BY DEF Slot
  <2> QED
    BY <2>1, <2>2 DEF NoLostWakeup, Children
<1>3. CASE ReparentChild(c, p)
  <2>1. PICK pp \in Slot : parent[pp] = p /\ parent' = [parent EXCEPT ![pp] = initproc]
    BY <1>3 DEF ReparentChild, First, Children
  <2>2. /\ pc[p] = "reparent" /\ pc' = [pc EXCEPT ![p] = "rwake"] /\ scan[p] = 0
        /\ UNCHANGED <<state, chan, scan>>
    BY <1>3 DEF ReparentChild, At, Goto, AtZero, ScanInv
  <2>3. ASSUME NEW q \in Slot, HoldsWaitLock(q) PROVE q = p
    BY <2>2, <2>3, HolderAlone DEF HoldsWaitLock, InExit
  <2>4. \A q \in Slot : pc[q] \notin {"scan", "sleep", "rwake", "ewake", "zombie"}
    BY <2>2, <2>3 DEF HoldsWaitLock, InExit
  <2>5. NoLostWakeup'
    <3>1. scan'[p] <= initproc /\ pc'[p] = "rwake"
      BY <2>2 DEF initproc
    <3> QED
      BY <2>1, <2>2, <2>4, <3>1 DEF NoLostWakeup, Children
  <2> QED
    BY <2>1, <2>2, <2>4, <2>5 DEF initproc
<1>4. ASSUME NEW ch \in Slot, WakeupSlot(p, ch), UNCHANGED <<chan, parent>>,
             \/ pc[p] = "rwake" /\ ch = initproc
             \/ pc[p] = "ewake" /\ ch = parent[p]
      PROVE  WakeInv'
  <2> DEFINE q == scan[p]
  <2>1. q \in Slot /\ UNCHANGED pc /\ scan' = [scan EXCEPT ![p] = q + 1]
    BY <1>4, ScanInTable DEF WakeupSlot
  <2>2. /\ \A r \in Slot : \/ state'[r] = state[r]
                           \/ state[r] = "SLEEPING" /\ state'[r] = "RUNNABLE"
        /\ q = ch => state'[q] # "SLEEPING"
    <3>1. state' = [state EXCEPT ![q] =
                      IF q # p /\ @ = "SLEEPING" /\ chan[q] = ch THEN "RUNNABLE" ELSE @]
      BY <1>4 DEF WakeupSlot
    <3>2. state[q] = "SLEEPING" => chan[q] = q
      BY <2>1 DEF NoLostWakeup
    <3> HIDE DEF q
    <3> QED
      BY <1>1, <2>1, <3>1, <3>2
  <2>3. ASSUME NEW r \in Slot, HoldsWaitLock(r) PROVE r = p
    BY <1>4, <2>3, HolderAlone DEF HoldsWaitLock, InExit
  <2>4. \A r \in Slot \ {p} : pc[r] \notin {"scan", "sleep", "rwake", "ewake", "zombie"}
    BY <2>3 DEF HoldsWaitLock, InExit
  <2>5. initproc <= q
    BY <2>1 DEF initproc, Slot
  <2> HIDE DEF q
  <2>6. NoLostWakeup'
    <3> SUFFICES ASSUME NEW s \in Slot, state'[s] = "SLEEPING"
                 PROVE  /\ chan'[s] = s
                        /\ \A r \in Slot : parent'[r] = s => state'[r] # "ZOMBIE"
                             \/ \E t \in Slot : s = initproc /\ pc'[t] = "rwake" /\ scan'[t] <= s
      BY DEF NoLostWakeup, Children
    <3>1. state[s] = "SLEEPING"
      BY <2>2
    <3>2. ASSUME NEW r \in Slot, parent[r] = s, state[r] = "ZOMBIE" PROVE FALSE
      <4>1. PICK t \in Slot : s = initproc /\ pc[t] = "rwake" /\ scan[t] <= s
        BY <3>1, <3>2 DEF NoLostWakeup, Children
      <4>2. t = p /\ ch = initproc
        BY <1>4, <2>4, <4>1
      <4>3. q = initproc
        BY <2>1, <2>5, <4>1, <4>2 DEF q, Slot, initproc
      <4> QED
        BY <2>2, <4>1, <4>2, <4>3
    <3> QED
      BY <1>4, <2>2, <3>1, <3>2 DEF NoLostWakeup
  <2>7. /\ \A s, t \in Slot :
             parent'[s] = t /\ (pc'[s] = "zombie" \/ (pc'[s] = "ewake" /\ t < scan'[s]))
               => state'[t] # "SLEEPING"
        /\ \A r \in Slot : pc'[r] = "rwake" /\ scan'[r] > initproc
                             => state'[initproc] # "SLEEPING"
    <3>1. \A t \in Slot : t < scan'[p] => t < scan[p] \/ t = q
      <4>1. scan'[p] = scan[p] + 1 /\ scan[p] \in Int
        BY <2>1 DEF q
      <4> QED
        BY <4>1, SlotBelow DEF q
    <3> QED
      BY <1>4, <2>1, <2>2, <2>4, <3>1 DEF q, initproc
  <2>8. \A s, t \in Slot : parent'[t] = s /\ state'[t] = "ZOMBIE" =>
          pc'[s] # "sleep" /\ (pc'[s] = "scan" => t >= scan'[s])
    BY <1>4, <2>1, <2>2, <2>4
  <2> QED
    BY <2>6, <2>7, <2>8
<1>5. ASSUME NEW l, WakeupEnd(p, l), UNCHANGED <<chan, parent>>,
             \/ pc[p] = "rwake" /\ l = "reparent"
             \/ pc[p] = "ewake" /\ l = "zombie"
      PROVE  WakeInv'
  <2>1. /\ scan[p] = NPROC /\ scan' = [scan EXCEPT ![p] = 0] /\ UNCHANGED state
        /\ pc' = [pc EXCEPT ![p] = l]
    BY <1>5 DEF WakeupEnd, Goto
  <2>2. \A q \in Slot : q < NPROC /\ ~ (q < 0)
    BY DEF Slot
  <2>3. NoLostWakeup'
    BY <1>5, <2>1, <2>2 DEF NoLostWakeup, Children
  <2> QED
    BY <1>5, <2>1, <2>2, <2>3
<1>6. CASE ReparentWakeup(c, p)
  BY <1>4, <1>5, <1>6 DEF ReparentWakeup, At
<1>7. CASE ExitWakeup(c, p)
  <2>1. parent[p] \in Slot
    BY <1>1 DEF TreeInv, ParentsLive
  <2> QED
    BY <1>4, <1>5, <1>7, <2>1 DEF ExitWakeup, At
<1>8. CASE ExitZombie(c, p)
  <2>1. /\ pc[p] = "zombie" /\ pc' = [pc EXCEPT ![p] = "dead"]
        /\ state' = [state EXCEPT ![p] = "ZOMBIE"]
        /\ UNCHANGED <<chan, parent, scan>>
    BY <1>8 DEF ExitZombie, At, Goto
  <2>2. ASSUME NEW r \in Slot, HoldsWaitLock(r) PROVE r = p
    BY <2>1, <2>2, HolderAlone DEF HoldsWaitLock, InExit
  <2>3. \A r \in Slot \ {p} : pc[r] \notin {"scan", "sleep", "rwake", "ewake", "zombie"}
    BY <2>2 DEF HoldsWaitLock, InExit
  <2>4. NoLostWakeup'
    BY <2>1, <2>3 DEF NoLostWakeup, Children
  <2> QED
    BY <2>1, <2>3, <2>4
<1> QED
  BY <1>2, <1>3, <1>6, <1>7, <1>8 DEF ExitStepOf

\* wait() sleeps when it has looked at every child and found none dead.
LEMMA WakeWait ==
  ASSUME FamilyInv, WakeInv, NEW c \in CPU, NEW p \in Slot, WaitStepOf(c, p)
  PROVE  WakeInv'
<1> USE InitInTable, ProcAssumption DEF FamilyInv, TypeOK, WakeInv, NoLostWakeup, Children
<1>1. state[p] = "RUNNING"
  BY AtRuns DEF WaitStepOf, WaitLock, WaitGivesUp, WaitSleeps, Sleep, WaitChildLives, WaitReap,
     WaitCopyoutFails, At
<1>2. ASSUME NEW np \in Slot, WaitReap(c, p, np) PROVE WakeInv'
  <2>1. /\ state[np] = "ZOMBIE" /\ state' = [state EXCEPT ![np] = "UNUSED"]
        /\ parent' = [parent EXCEPT ![np] = None]
        /\ chan' = [chan EXCEPT ![np] = None]
        /\ pc[p] = "scan" /\ pc' = [pc EXCEPT ![p] = "ret"]
        /\ scan' = [scan EXCEPT ![p] = 0]
    BY <1>2 DEF WaitReap, freeproc, Return, At, Goto
  <2> QED
    BY <2>1
<1>3. CASE WaitLock(c, p) \/ WaitGivesUp(c, p) \/ \E np \in Slot : WaitCopyoutFails(c, p, np)
  <2>1. /\ UNCHANGED <<state, chan, parent>> /\ scan' = [scan EXCEPT ![p] = 0]
        /\ pc[p] \in {"wait", "scan"}
        /\ pc' = [pc EXCEPT ![p] = "scan"] \/ pc' = [pc EXCEPT ![p] = "ret"]
    BY <1>3 DEF WaitLock, WaitGivesUp, WaitCopyoutFails, Return, At, Goto, table
  <2>2. \A q \in Slot : q >= 0
    BY DEF Slot
  <2> QED
    BY <2>1, <2>2
<1>4. ASSUME NEW np \in Slot, WaitChildLives(c, p, np) PROVE WakeInv'
  <2>1. /\ UNCHANGED <<state, chan, parent, pc>> /\ pc[p] = "scan"
        /\ scan' = [scan EXCEPT ![p] = np + 1]
        /\ state[np] # "ZOMBIE" /\ First(np, ToScan(p))
    BY <1>4 DEF WaitChildLives, At, table
  <2>2. \A q \in Slot : parent[q] = p /\ q >= scan[p] => q >= np
    BY <2>1 DEF First, ToScan
  <2>3. ASSUME NEW q \in Slot, parent[q] = p, state[q] = "ZOMBIE" PROVE q >= np + 1
    BY <2>1, <2>2, <2>3 DEF Slot
  <2> QED
    BY <2>1, <2>3
<1>5. CASE WaitSleeps(c, p)
  <2>1. /\ UNCHANGED <<state, chan, parent, scan>>
        /\ pc[p] = "scan" /\ pc' = [pc EXCEPT ![p] = "sleep"]
        /\ ToScan(p) = {}
    BY <1>5 DEF WaitSleeps, At, Goto, table
  <2>2. \A q \in Slot : parent[q] = p => state[q] # "ZOMBIE"
    BY <2>1 DEF ToScan
  <2> QED
    BY <2>1, <2>2
<1>6. CASE Sleep(c, p)
  <2>1. /\ pc[p] = "sleep" /\ pc' = [pc EXCEPT ![p] = "asleep"]
        /\ state' = [state EXCEPT ![p] = "SLEEPING"]
        /\ chan' = [chan EXCEPT ![p] = p]
        /\ UNCHANGED <<parent, scan>>
    BY <1>6 DEF Sleep, At, Goto
  <2>2. ASSUME NEW r \in Slot, HoldsWaitLock(r) PROVE r = p
    BY <2>1, <2>2, HolderAlone DEF HoldsWaitLock, InExit
  <2>3. \A r \in Slot \ {p} : pc[r] \notin {"scan", "sleep", "rwake", "ewake", "zombie"}
    BY <2>2 DEF HoldsWaitLock, InExit
  <2> QED
    BY <2>1, <2>3
<1> QED
  BY <1>2, <1>3, <1>4, <1>5, <1>6 DEF WaitStepOf

\* No wakeup is lost: a parent asleep in wait() has no zombie child, but one that init has
\* just inherited and is about to be woken for.
THEOREM NoLostWakeupCorrect == Spec => []NoLostWakeup
<1>1. Init => WakeInv
  BY InitInTable, ProcAssumption DEF Init, WakeInv, NoLostWakeup, Children
<1>2. (FamilyInv /\ WakeInv) /\ [Next]_vars => WakeInv'
  <2> SUFFICES ASSUME FamilyInv, WakeInv, [Next]_vars PROVE WakeInv'
    OBVIOUS
  <2> QED
    BY StepKinds, WakeCalm, WakeFork, WakeExit, WakeWait DEF FamilyInv
<1>3. WakeInv => NoLostWakeup
  BY DEF WakeInv
<1> QED
  BY <1>1, <1>2, <1>3, FamilyCorrect, PTL DEF Spec

-----------------------------------------------------------------------------
(* fork(), exit() and wait() are atomic operations on the tree of ProcTree. *)

Free(p)  == state[p] = "UNUSED" \/ (state[p] = "USED" /\ parent[p] = None)
Dying(p) == state[p] = "ZOMBIE" \/ pc[p] \in InExit
GivenUp(p) == parent[p] # None /\ pc[parent[p]] \in InExit

\* The refinement mapping without its cases that cannot be: who holds wait_lock is RUNNING,
\* and so is every parent that gives its children away.
Mapping ==
  /\ LifeBar \in [Slot -> {"free", "zombie", "live"}]
  /\ UpBar \in [Slot -> Slot \cup {None}]
  /\ \A p \in Slot :
       /\ LifeBar[p] = IF Free(p) THEN "free" ELSE IF Dying(p) THEN "zombie" ELSE "live"
       /\ UpBar[p] = IF GivenUp(p) THEN initproc ELSE parent[p]

\* The inductive invariant makes the refinement mapping the one spelled out in Mapping.
LEMMA MappingIs == FamilyInv => Mapping
<1> SUFFICES ASSUME FamilyInv PROVE Mapping
  OBVIOUS
<1>1. \A p \in Slot : pc[p] \in InExit => state[p] = "RUNNING"
  BY ProcAssumption DEF FamilyInv, TypeOK, LockIInv, CpuInv, WaitLockInv, OnCpu, HoldsWaitLock
<1>2. \A p \in Slot : Exiting(p) <=> pc[p] \in InExit
  BY <1>1 DEF Exiting
<1>3. \A p \in Slot : parent[p] # None => parent[p] \in Slot
  BY DEF FamilyInv, TypeOK
<1>4. \A p \in Slot : (CASE state[p] = "UNUSED" -> "free"
                         [] state[p] = "USED" /\ parent[p] = None -> "free"
                         [] state[p] = "ZOMBIE" \/ Exiting(p) -> "zombie"
                         [] OTHER -> "live")
                      = IF Free(p) THEN "free" ELSE IF Dying(p) THEN "zombie" ELSE "live"
  BY <1>1, <1>2 DEF Free, Dying
<1>5. \A p \in Slot : parent[p] # None /\ Exiting(parent[p]) <=> GivenUp(p)
  BY <1>2, <1>3 DEF GivenUp
<1>6. /\ LifeBar = [p \in Slot |-> IF Free(p) THEN "free"
                                   ELSE IF Dying(p) THEN "zombie" ELSE "live"]
      /\ UpBar = [p \in Slot |-> IF GivenUp(p) THEN initproc ELSE parent[p]]
  BY <1>4, <1>5 DEF LifeBar, UpBar
<1>7. \A p \in Slot : (IF GivenUp(p) THEN initproc ELSE parent[p]) \in Slot \cup {None}
  BY <1>3, InitInTable
<1> QED
  BY <1>6, <1>7 DEF Mapping

\* The tree is what these three say of each slot: a step that changes none of them stutters.
LEMMA Stutter ==
  ASSUME FamilyInv, FamilyInv',
         \A q \in Slot : /\ Free(q)' <=> Free(q)
                         /\ Dying(q)' <=> Dying(q)
                         /\ GivenUp(q)' \/ GivenUp(q) \/ parent'[q] = parent[q]
                         /\ GivenUp(q) => GivenUp(q)' \/ parent'[q] = initproc
                         /\ GivenUp(q)' => GivenUp(q) \/ parent[q] = initproc
  PROVE  LifeBar' = LifeBar /\ UpBar' = UpBar
<1>1. FamilyInv' => Mapping'
  BY MappingIs, PTL
<1>2. Mapping /\ Mapping'
  BY <1>1, MappingIs
<1> QED
  BY <1>2 DEF Mapping

\* Calm steps do not show.
LEMMA TreeOfCalm ==
  ASSUME FamilyInv, FamilyInv', Calm
  PROVE  LifeBar' = LifeBar /\ UpBar' = UpBar
<1> USE DEF FamilyInv, TypeOK, Calm
<1>1. \A q \in Slot : pc'[q] \in InExit <=> pc[q] \in InExit
  BY DEF Stays, Moves, Outside, InExit
<1>2. \A q \in Slot : /\ Free(q)' <=> Free(q)
                      /\ Dying(q)' <=> Dying(q)
                      /\ GivenUp(q)' <=> GivenUp(q)
  BY <1>1 DEF Live, Free, Dying, GivenUp
<1> QED
  BY <1>2, Stutter

\* fork() shows when the child gets its parent.
LEMMA TreeOfFork ==
  ASSUME FamilyInv, FamilyInv', NEW c \in CPU, NEW p \in Slot, ForkStepOf(c, p)
  PROVE  (LifeBar' = LifeBar /\ UpBar' = UpBar) \/ \E q \in Slot : Tree!Fork(p, q)
<1>1. Mapping /\ Mapping'
  <2>1. FamilyInv' => Mapping'
    BY MappingIs, PTL
  <2> QED
    BY <2>1, MappingIs
<1> USE ProcAssumption DEF FamilyInv, TypeOK
<1>2. CASE AllocFound(c, p)
  <2> DEFINE np == scan[p]
  <2>1. np \in Slot /\ state[np] = "UNUSED" /\ pc[p] = "alloc"
    BY <1>2, ScanInTable DEF AllocFound, At
  <2>2. /\ parent[np] = None /\ pc[np] \in {"forkret", "dead"}
        /\ \A r \in Slot : parent[r] # np
    BY <2>1 DEF TreeInv, ParentsLive
  <2>3. /\ state' = [state EXCEPT ![np] = "USED"]
        /\ pc' = [pc EXCEPT ![p] = "setparent", ![np] = "forkret"]
        /\ parent' = parent
    BY <1>2 DEF AllocFound, allocproc
  <2> HIDE DEF np
  <2>4. \A r \in Slot : pc'[r] \in InExit <=> pc[r] \in InExit
    BY <2>1, <2>2, <2>3 DEF InExit
  <2>5. \A r \in Slot : /\ Free(r)' <=> Free(r)
                        /\ Dying(r)' <=> Dying(r)
                        /\ GivenUp(r)' <=> GivenUp(r)
    BY <2>1, <2>2, <2>3, <2>4 DEF Free, Dying, GivenUp
  <2> QED
    BY <2>3, <2>5, Stutter
<1>3. CASE ForkSetParent(c, p)
  <2> PICK q \in Slot : q = arg[p]
    BY <1>3 DEF ForkSetParent, At, LockIInv, ForkInv, InFork
  <2>1. /\ pc[p] = "setparent" /\ pc' = [pc EXCEPT ![p] = "setrun"]
        /\ parent' = [parent EXCEPT ![q] = p] /\ UNCHANGED state /\ state[p] = "RUNNING"
    BY <1>3, AtRuns DEF ForkSetParent, At, Goto
  <2>2. q \in Slot /\ state[q] = "USED" /\ parent[q] = None /\ pc[q] = "forkret" /\ q # p
    BY <2>1 DEF LockIInv, ForkInv, InFork, TreeInv
  <2>3. Free(q) /\ ~Free(q)' /\ ~Dying(q)' /\ ~Free(p) /\ ~Dying(p) /\ ~GivenUp(q)'
    <3>1. /\ state'[q] = "USED" /\ parent'[q] = p /\ p # None
          /\ pc'[q] = "forkret" /\ pc'[p] = "setrun"
      BY <2>1, <2>2
    <3>2. Free(q) /\ ~Free(p) /\ ~Dying(p)
      BY <2>1, <2>2 DEF Free, Dying, InExit
    <3>3. ~Free(q)' /\ ~Dying(q)'
      BY <3>1 DEF Free, Dying, InExit
    <3>4. ~GivenUp(q)'
      BY <3>1 DEF GivenUp, InExit
    <3> QED
      BY <3>2, <3>3, <3>4
  <2>4. \A r \in Slot \ {q} : /\ Free(r)' <=> Free(r)
                              /\ Dying(r)' <=> Dying(r)
                              /\ GivenUp(r)' <=> GivenUp(r)
                              /\ parent'[r] = parent[r]
    BY <2>1, <2>2 DEF Free, Dying, GivenUp, InExit
  <2>5. LifeBar[p] = "live" /\ LifeBar[q] = "free"
    BY <1>1, <2>2, <2>3 DEF Mapping
  <2>6. LifeBar' = [LifeBar EXCEPT ![q] = "live"]
    BY <1>1, <2>2, <2>3, <2>4 DEF Mapping
  <2>7. UpBar' = [UpBar EXCEPT ![q] = p]
    <3>1. parent'[q] = p
      BY <2>1, <2>2
    <3> QED
      BY <1>1, <2>2, <2>3, <2>4, <3>1 DEF Mapping
  <2> QED
    BY <2>2, <2>5, <2>6, <2>7 DEF Tree!Fork
<1>4. CASE ForkSetRunnable(c, p)
  <2> PICK q \in Slot : q = arg[p]
    BY <1>4 DEF ForkSetRunnable, At, LockIInv, ForkInv, InFork
  <2>1. /\ pc[p] = "setrun" /\ pc' = [pc EXCEPT ![p] = "ret"]
        /\ state' = [state EXCEPT ![q] = "RUNNABLE"] /\ UNCHANGED parent
    BY <1>4 DEF ForkSetRunnable, At, Return, Goto
  <2>2. q \in Slot /\ state[q] = "USED" /\ parent[q] = p /\ p # None
    BY <2>1 DEF LockIInv, ForkInv, InFork, TreeInv
  <2>3. \A r \in Slot : pc'[r] \in InExit <=> pc[r] \in InExit
    BY <2>1 DEF InExit
  <2>4. \A r \in Slot : (Dying(r)' <=> Dying(r)) /\ (GivenUp(r)' <=> GivenUp(r))
    BY <2>1, <2>2, <2>3 DEF Dying, GivenUp
  <2>5. \A r \in Slot : Free(r)' <=> Free(r)
    BY <2>1, <2>2 DEF Free
  <2> QED
    BY <2>1, <2>4, <2>5, Stutter
<1> QED
  BY <1>2, <1>3, <1>4 DEF ForkStepOf

\* exit() shows when it gets wait_lock: alive no more, and its children init's.
LEMMA TreeOfExit ==
  ASSUME FamilyInv, FamilyInv', NEW c \in CPU, NEW p \in Slot, ExitStepOf(c, p)
  PROVE  (LifeBar' = LifeBar /\ UpBar' = UpBar) \/ Tree!Exit(p)
<1>1. Mapping /\ Mapping'
  <2>1. FamilyInv' => Mapping'
    BY MappingIs, PTL
  <2> QED
    BY <2>1, MappingIs
<1> USE ProcAssumption DEF FamilyInv, TypeOK
<1>2. state[p] = "RUNNING" /\ p # initproc
  BY AtRuns DEF ExitStepOf, ExitLock, ReparentChild, ReparentWakeup, ReparentDone, ExitWakeup,
     ExitZombie, At, InExit, TreeInv
<1>3. CASE ExitLock(c, p)
  <2>1. /\ pc[p] = "exit" /\ pc' = [pc EXCEPT ![p] = "reparent"]
        /\ wait_lock = None /\ UNCHANGED <<state, parent>>
    BY <1>3 DEF ExitLock, At, Goto, table
  <2>2. \A r \in Slot : pc[r] \notin InExit
    BY <2>1 DEF LockIInv, WaitLockInv, HoldsWaitLock
  <2>3. /\ ~Free(p) /\ ~Dying(p) /\ Dying(p)'
        /\ \A r \in Slot : Free(r)' <=> Free(r)
        /\ \A r \in Slot \ {p} : Dying(r)' <=> Dying(r)
        /\ \A r \in Slot : ~GivenUp(r) /\ (GivenUp(r)' <=> parent[r] = p)
    BY <1>2, <2>1, <2>2 DEF Free, Dying, GivenUp, InExit
  <2>4. LifeBar[p] = "live" /\ LifeBar' = [LifeBar EXCEPT ![p] = "zombie"]
    BY <1>1, <2>3 DEF Mapping
  <2>5. UpBar' = [r \in Slot |-> IF UpBar[r] = p THEN initproc ELSE UpBar[r]]
    BY <1>1, <2>1, <2>3 DEF Mapping
  <2> QED
    BY <1>2, <2>4, <2>5 DEF Tree!Exit
<1>4. CASE ReparentChild(c, p)
  <2>1. PICK pp \in Slot : parent[pp] = p /\ parent' = [parent EXCEPT ![pp] = initproc]
    BY <1>4 DEF ReparentChild, First, Children
  <2>2. pc[p] = "reparent" /\ pc' = [pc EXCEPT ![p] = "rwake"] /\ UNCHANGED state
    BY <1>4 DEF ReparentChild, At, Goto
  <2>3. \A r \in Slot : pc'[r] \in InExit <=> pc[r] \in InExit
    BY <2>2 DEF InExit
  <2>4. pc[initproc] \notin InExit /\ initproc # None /\ p # None
    BY InitInTable DEF TreeInv
  <2>5. \A r \in Slot : /\ Free(r)' <=> Free(r)
                        /\ Dying(r)' <=> Dying(r)
                        /\ r # pp => parent'[r] = parent[r] /\ (GivenUp(r)' <=> GivenUp(r))
    BY <2>1, <2>2, <2>3, <2>4 DEF Free, Dying, GivenUp
  <2>6. GivenUp(pp) /\ ~GivenUp(pp)' /\ parent'[pp] = initproc
    BY <2>1, <2>2, <2>3, <2>4 DEF GivenUp, InExit
  <2> QED
    BY <2>5, <2>6, Stutter
<1>5. CASE ReparentWakeup(c, p) \/ ReparentDone(c, p) \/ ExitWakeup(c, p) \/ ExitZombie(c, p)
  <2>1. /\ UNCHANGED parent /\ pc[p] \in InExit
        /\ \A r \in Slot \ {p} : pc'[r] = pc[r]
    BY <1>5 DEF ReparentWakeup, ReparentDone, ExitWakeup, ExitZombie, WakeupSlot, WakeupEnd, At,
       Goto, InExit, table
  <2>2. CASE ExitZombie(c, p)
    <3>1. /\ pc[p] = "zombie" /\ state' = [state EXCEPT ![p] = "ZOMBIE"]
      BY <2>2 DEF ExitZombie, At
    <3>2. \A r \in Slot : parent[r] # p
      BY <3>1 DEF TreeInv
    <3>3. \A r \in Slot : /\ Free(r)' <=> Free(r)
                          /\ Dying(r)' <=> Dying(r)
                          /\ GivenUp(r)' <=> GivenUp(r)
      BY <1>2, <2>1, <3>1, <3>2 DEF Free, Dying, GivenUp
    <3> QED
      BY <2>1, <3>3, Stutter
  <2>3. CASE ~ExitZombie(c, p)
    <3>1. pc'[p] \in InExit
      BY <1>5, <2>3 DEF ReparentWakeup, ReparentDone, ExitWakeup, WakeupSlot, WakeupEnd, At, Goto,
         InExit
    <3>2. WakeupSlot(p, initproc) \/ WakeupSlot(p, parent[p]) \/ UNCHANGED state
      BY <1>5, <2>3 DEF ReparentWakeup, ReparentDone, ExitWakeup, WakeupEnd, table
    <3>3. \A r \in Slot : \/ state'[r] = state[r]
                          \/ state[r] = "SLEEPING" /\ state'[r] = "RUNNABLE"
      BY <3>2, WakeupEffect
    <3>4. \A r \in Slot : pc'[r] \in InExit <=> pc[r] \in InExit
      BY <2>1, <3>1
    <3>5. \A r \in Slot : /\ Free(r)' <=> Free(r)
                          /\ Dying(r)' <=> Dying(r)
                          /\ GivenUp(r)' <=> GivenUp(r)
      BY <2>1, <3>3, <3>4 DEF Free, Dying, GivenUp
    <3> QED
      BY <2>1, <3>5, Stutter
  <2> QED
    BY <2>2, <2>3
<1> QED
  BY <1>3, <1>4, <1>5 DEF ExitStepOf

\* wait() shows when it frees the child.
LEMMA TreeOfWait ==
  ASSUME FamilyInv, FamilyInv', NEW c \in CPU, NEW p \in Slot, WaitStepOf(c, p)
  PROVE  (LifeBar' = LifeBar /\ UpBar' = UpBar) \/ \E q \in Slot : Tree!Reap(p, q)
<1>1. Mapping /\ Mapping'
  <2>1. FamilyInv' => Mapping'
    BY MappingIs, PTL
  <2> QED
    BY <2>1, MappingIs
<1> USE ProcAssumption DEF FamilyInv, TypeOK
<1>2. ASSUME NEW np \in Slot, WaitReap(c, p, np) PROVE Tree!Reap(p, np)
  <2>1. /\ state[p] = "RUNNING" /\ state[np] = "ZOMBIE" /\ parent[np] = p
        /\ state' = [state EXCEPT ![np] = "UNUSED"]
        /\ parent' = [parent EXCEPT ![np] = None]
        /\ pc[p] = "scan" /\ pc' = [pc EXCEPT ![p] = "ret"]
    BY <1>2, AtRuns DEF WaitReap, First, ToScan, Children, freeproc, Return, At, Goto
  <2>2. \A r \in Slot : parent[r] # np
    BY <2>1 DEF TreeInv, ParentsLive
  <2>3. \A r \in Slot : pc'[r] \in InExit <=> pc[r] \in InExit
    BY <2>1 DEF InExit
  <2>4. /\ ~Free(p) /\ ~Dying(p) /\ ~Free(np) /\ Dying(np) /\ Free(np)'
        /\ ~GivenUp(np) /\ ~GivenUp(np)'
    BY <2>1 DEF Free, Dying, GivenUp, InExit
  <2>5. \A r \in Slot \ {np} : /\ Free(r)' <=> Free(r)
                               /\ Dying(r)' <=> Dying(r)
                               /\ GivenUp(r)' <=> GivenUp(r)
                               /\ parent'[r] = parent[r]
    BY <2>1, <2>2, <2>3 DEF Free, Dying, GivenUp
  <2>6. LifeBar[p] = "live" /\ LifeBar[np] = "zombie" /\ UpBar[np] = p
    BY <1>1, <2>1, <2>4 DEF Mapping
  <2>7. LifeBar' = [LifeBar EXCEPT ![np] = "free"]
    BY <1>1, <2>4, <2>5 DEF Mapping
  <2>8. UpBar' = [UpBar EXCEPT ![np] = None]
    <3>1. parent'[np] = None
      BY <2>1
    <3> QED
      BY <1>1, <2>4, <2>5, <3>1 DEF Mapping
  <2> QED
    BY <2>6, <2>7, <2>8 DEF Tree!Reap
<1>3. ASSUME ~ \E np \in Slot : WaitReap(c, p, np)
      PROVE  LifeBar' = LifeBar /\ UpBar' = UpBar
  <2>1. /\ UNCHANGED parent
        /\ \A r \in Slot : state'[r] = state[r] \/ (state[r] \in Live /\ state'[r] \in Live)
    BY <1>3, AtRuns DEF WaitStepOf, WaitLock, WaitGivesUp, WaitSleeps, Sleep, WaitChildLives,
       WaitCopyoutFails, At, table, Live
  <2>2. \A r \in Slot : pc'[r] \in InExit <=> pc[r] \in InExit
    BY <1>3 DEF WaitStepOf, WaitLock, WaitGivesUp, WaitSleeps, Sleep, WaitChildLives,
       WaitCopyoutFails, Return, At, Goto, InExit
  <2>3. \A r \in Slot : /\ Free(r)' <=> Free(r)
                        /\ Dying(r)' <=> Dying(r)
                        /\ GivenUp(r)' <=> GivenUp(r)
    BY <2>1, <2>2 DEF Free, Dying, GivenUp, Live
  <2> QED
    BY <2>1, <2>3, Stutter
<1> QED
  BY <1>2, <1>3

\* Locks, scans and switches do not show: the system calls on processes are those of a tree.
THEOREM TreeSpecCorrect == Spec => TreeSpec
<1>1. Init => Tree!TreeInit
  BY InitInTable, ProcAssumption DEF Init, LifeBar, UpBar, Exiting, InExit, Tree!TreeInit
<1>2. FamilyInv /\ FamilyInv' /\ [Next]_vars => [Tree!TreeNext]_(Tree!tvars)
  <2> SUFFICES ASSUME FamilyInv, FamilyInv', [Next]_vars
               PROVE  (LifeBar' = LifeBar /\ UpBar' = UpBar) \/ Tree!TreeNext
    BY DEF Tree!tvars
  <2> QED
    BY StepKinds, TreeOfCalm, TreeOfFork, TreeOfExit, TreeOfWait DEF FamilyInv, Tree!TreeNext
<1> QED
  BY <1>1, <1>2, FamilyCorrect, PTL DEF Spec, TreeSpec, Tree!Spec
=============================================================================
