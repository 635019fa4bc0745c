---------------------------- MODULE SysinfoProof ----------------------------
(* Theorems about Sysinfo, for any number of slots and pages, any masks    *)
(* and any callers of sysinfo.                                             *)
EXTENDS Sysinfo, FiniteSetTheorems, TLAPS

\* The mask of a slot is what was asked for, by its process or an ancestor.
MaskInv == trace_mask = asked

\* Who runs has a process, and the slots that are being made or freed are no process.
\* Only one process works on such a slot.
Making == {"alloc", "parent", "runnable"}
TableInv ==
  /\ \A q \in Slot : pc[q] = "off" <=> state[q] # "RUNNABLE"
  /\ \A p \in Slot :
       /\ pc[p] \in Making => state[np[p]] = "USED"
       /\ pc[p] = "free" => state[np[p]] \in {"USED", "ZOMBIE"}
       /\ pc[p] \in {"alloc", "free"} => holder[np[p]] = p
  /\ \A p, q \in Slot :
       pc[p] \in Making \cup {"free"} /\ pc[q] \in Making \cup {"free"} /\ np[p] = np[q] => p = q

\* What a call of sysinfo has seen: the slots used all along are used, and where there is
\* a process there was one.
WindowInv ==
  \A p \in Slot : pc[p] \in InSysinfo => always[p] \subseteq Used /\ Made \subseteq ever[p]

\* The slots that nproc() has counted so far: there are count of them, with all that were
\* used all along, and none that had no process during the call.
Counted(p) ==
  \E C \in SUBSET (1 .. pos[p] - 1) :
    /\ Cardinality(C) = count[p]
    /\ always[p] \cap (1 .. pos[p] - 1) \subseteq C
    /\ C \subseteq ever[p]
CountInvOf(p) ==
  /\ pc[p] \in {"user", "off", "freemem"} => count[p] = 0
  /\ pc[p] = "freemem" => pos[p] = 1
  /\ pc[p] = "nproc" => pos[p] \in Slot
  /\ pc[p] = "copyout" => pos[p] = NPROC + 1
  /\ pc[p] \in InSysinfo => Counted(p)
CountInv == \A p \in Slot : CountInvOf(p)

IInv == TypeOK /\ MaskInv /\ TableInv /\ WindowInv /\ CountInv

\* The loop of nproc() ends behind the last slot.
LEMMA SlotNext == \A s \in Slot : s \in Int /\ s + 1 \in 1 .. NPROC + 1
  BY SysinfoAssumption DEF Slot

\* The invariant holds at boot.
LEMMA SysinfoInit == Init => IInv
<1> SUFFICES ASSUME Init PROVE IInv
  OBVIOUS
<1> USE SysinfoAssumption DEF Init
<1>1. initproc \in Slot /\ NPages - KPages - 1 \in Nat /\ KPages + 1 \in Nat
  BY DEF initproc, Slot
<1>2. TypeOK
  BY <1>1 DEF TypeOK, InSysinfo, Slot
<1>3. MaskInv /\ TableInv
  BY <1>1 DEF MaskInv, TableInv, Making
<1>4. WindowInv /\ CountInv
  BY DEF WindowInv, CountInv, CountInvOf, InSysinfo
<1> QED
  BY <1>2, <1>3, <1>4 DEF IInv

\* Every step keeps the types.
LEMMA TypeStep == TypeOK /\ [Next]_vars => TypeOK'
<1> SUFFICES ASSUME TypeOK, [Next]_vars PROVE TypeOK'
  OBVIOUS
<1> USE SysinfoAssumption DEF TypeOK, InSysinfo, Syscalls
<1>1. CASE UNCHANGED vars
  BY <1>1 DEF vars, Goto, SyscallAtOnce, table, memory, masks, local, si
<1>2. ASSUME NEW p \in Slot, Step(p), Witness PROVE TypeOK'
  <2> initproc \in Slot
    BY DEF initproc, Slot
  <2>0. always' \in [Slot -> SUBSET Slot] /\ ever' \in [Slot -> SUBSET Slot]
    BY <1>2 DEF Witness, Used, Made
  <2>1. ASSUME NEW c \in {"fork", "wait", "sysinfo"}, Syscall(p, c) PROVE TypeOK'
    <3>1. /\ pc' \in [Slot -> InSysinfo \cup {"off", "user", "fork", "alloc", "parent", "runnable", "free", "wait", "return"}]
          /\ pos' \in [Slot -> 1 .. NPROC + 1]
          /\ call' \in [Slot -> Syscalls \cup {None}]
      BY <2>1 DEF Syscall, Goto, SyscallAtOnce, table, memory, masks, local, si
    <3> QED
      BY <2>1, <2>0, <3>1 DEF Syscall, Goto, SyscallAtOnce, table, memory, masks, local, si
  <2>2. CASE Return(p)
    <3>1. /\ pos' \in [Slot -> 1 .. NPROC + 1] /\ np' \in [Slot -> Slot]
          /\ freemem' \in [Slot -> Nat] /\ count' \in [Slot -> Nat]
      BY <2>2 DEF Return, Goto, SyscallAtOnce, table, memory, masks, local, si
    <3> QED
      BY <2>2, <2>0, <3>1 DEF Return, Goto, SyscallAtOnce, table, memory, masks, local, si
  <2>3. CASE ForkPass(p)
    <3>0. pos[p] + 1 \in 1 .. NPROC + 1
      BY <2>3, SlotNext DEF ForkPass
    <3>1. pos' \in [Slot -> 1 .. NPROC + 1]
      BY <2>3, <3>0 DEF ForkPass, Goto, SyscallAtOnce, table, memory, masks, local, si
    <3> QED
      BY <2>3, <2>0, <3>1 DEF ForkPass, Goto, SyscallAtOnce, table, memory, masks, local, si
  <2>4. CASE ForkFull(p)
    BY <2>4, <2>0 DEF ForkFull, Goto, SyscallAtOnce, table, memory, masks, local, si
  <2>5. CASE ForkFound(p)
    BY <2>5, <2>0 DEF ForkFound, Goto, SyscallAtOnce, table, memory, masks, local, si
  <2>6. CASE ForkAlloc(p)
    <3>1. pages' \in [Slot -> Nat] /\ free' \in Nat
      BY <2>6 DEF ForkAlloc, Goto, SyscallAtOnce, table, memory, masks, local, si
    <3> QED
      BY <2>6, <2>0, <3>1 DEF ForkAlloc, Goto, SyscallAtOnce, table, memory, masks, local, si
  <2>7. CASE ForkNoMem(p)
    BY <2>7, <2>0 DEF ForkNoMem, Goto, SyscallAtOnce, table, memory, masks, local, si
  <2>8. CASE ForkCopy(p)
    BY <2>8, <2>0 DEF ForkCopy, Goto, SyscallAtOnce, table, memory, masks, local, si
  <2>9. CASE ForkSetParent(p)
    BY <2>9, <2>0 DEF ForkSetParent, Goto, SyscallAtOnce, table, memory, masks, local, si
  <2>10. CASE ForkSetRunnable(p)
    BY <2>10, <2>0 DEF ForkSetRunnable, Goto, SyscallAtOnce, table, memory, masks, local, si
  <2>11. CASE Kfree(p)
    <3>1. pages' \in [Slot -> Nat] /\ free' \in Nat
      BY <2>11 DEF Kfree, Goto, SyscallAtOnce, table, memory, masks, local, si
    <3> QED
      BY <2>11, <2>0, <3>1 DEF Kfree, Goto, SyscallAtOnce, table, memory, masks, local, si
  <2>12. CASE freeproc(p)
    BY <2>12, <2>0 DEF freeproc, Goto, SyscallAtOnce, table, memory, masks, local, si
  <2>13. CASE Exit(p)
    <3>1. parent' \in [Slot -> Slot \cup {None}]
      BY <2>13 DEF Exit, Goto, SyscallAtOnce, table, memory, masks, local, si
    <3> QED
      BY <2>13, <2>0, <3>1 DEF Exit, Goto, SyscallAtOnce, table, memory, masks, local, si
  <2>14. CASE WaitReap(p)
    <3>1. np' \in [Slot -> Slot] /\ holder' \in [Slot -> Slot \cup {None}]
      BY <2>14 DEF WaitReap, Goto, SyscallAtOnce, table, memory, masks, local, si
    <3> QED
      BY <2>14, <2>0, <3>1 DEF WaitReap, Goto, SyscallAtOnce, table, memory, masks, local, si
  <2>15. CASE WaitFails(p)
    BY <2>15, <2>0 DEF WaitFails, Goto, SyscallAtOnce, table, memory, masks, local, si
  <2>16. CASE Sbrk(p)
    <3>1. PICK n \in {-1, 0, 1} : /\ pages[p] + n >= KPages /\ free - n >= 0
                                  /\ pages' = [pages EXCEPT ![p] = @ + n] /\ free' = free - n
      BY <2>16 DEF Sbrk
    <3>2. pages' \in [Slot -> Nat] /\ free' \in Nat
      BY <3>1
    <3> QED
      BY <2>16, <2>0, <3>2 DEF Sbrk, Goto, SyscallAtOnce, table, memory, masks, local, si
  <2>17. CASE Trace(p)
    <3>1. trace_mask' \in [Slot -> SUBSET Syscalls] /\ asked' \in [Slot -> SUBSET Syscalls]
      BY <2>17 DEF Trace, Goto, SyscallAtOnce, table, memory, masks, local, si
    <3> QED
      BY <2>17, <2>0, <3>1 DEF Trace, Goto, SyscallAtOnce, table, memory, masks, local, si
  <2>18. CASE Freemem(p)
    BY <2>18, <2>0 DEF Freemem, Goto, SyscallAtOnce, table, memory, masks, local, si
  <2>19. CASE Nproc(p)
    <3>0. pos[p] + 1 \in 1 .. NPROC + 1
      BY <2>19, SlotNext DEF Nproc
    <3>1. /\ pos' \in [Slot -> 1 .. NPROC + 1] /\ count' \in [Slot -> Nat]
          /\ pc' \in [Slot -> InSysinfo \cup {"off", "user", "fork", "alloc", "parent", "runnable", "free", "wait", "return"}]
      BY <2>19, <3>0 DEF Nproc, Goto, SyscallAtOnce, table, memory, masks, local, si
    <3> QED
      BY <2>19, <2>0, <3>1 DEF Nproc, Goto, SyscallAtOnce, table, memory, masks, local, si
  <2>20. CASE Copyout(p)
    BY <2>20, <2>0 DEF Copyout, Goto, SyscallAtOnce, table, memory, masks, local, si
  <2> QED
    BY <1>2, <2>1, <2>2, <2>3, <2>4, <2>5, <2>6, <2>7, <2>8, <2>9, <2>10,
       <2>11, <2>12, <2>13, <2>14, <2>15, <2>16, <2>17, <2>18, <2>19, <2>20 DEF Step, Fork
<1> QED
  BY <1>1, <1>2 DEF Next

\* Every step keeps the mask of a slot that of its process.
LEMMA MaskStep == TypeOK /\ MaskInv /\ [Next]_vars => MaskInv'
<1> SUFFICES ASSUME TypeOK /\ MaskInv, [Next]_vars PROVE MaskInv'
  OBVIOUS
<1> USE SysinfoAssumption DEF MaskInv
<1>1. CASE UNCHANGED vars
  BY <1>1 DEF vars, Goto, SyscallAtOnce, table, memory, masks, local, si
<1>2. ASSUME NEW p \in Slot, Step(p), Witness PROVE MaskInv'
  <2>1. ASSUME NEW c \in {"fork", "wait", "sysinfo"}, Syscall(p, c) PROVE MaskInv'
    BY <2>1 DEF Syscall, Goto, SyscallAtOnce, table, memory, masks, local, si
  <2>2. CASE Return(p)
    BY <2>2 DEF Return, Goto, SyscallAtOnce, table, memory, masks, local, si
  <2>3. CASE ForkPass(p)
    BY <2>3 DEF ForkPass, Goto, SyscallAtOnce, table, memory, masks, local, si
  <2>4. CASE ForkFull(p)
    BY <2>4 DEF ForkFull, Goto, SyscallAtOnce, table, memory, masks, local, si
  <2>5. CASE ForkFound(p)
    BY <2>5 DEF ForkFound, Goto, SyscallAtOnce, table, memory, masks, local, si
  <2>6. CASE ForkAlloc(p)
    BY <2>6 DEF ForkAlloc, Goto, SyscallAtOnce, table, memory, masks, local, si
  <2>7. CASE ForkNoMem(p)
    BY <2>7 DEF ForkNoMem, Goto, SyscallAtOnce, table, memory, masks, local, si
  <2>8. CASE ForkCopy(p)
    BY <2>8 DEF ForkCopy, Goto, SyscallAtOnce, table, memory, masks, local, si
  <2>9. CASE ForkSetParent(p)
    BY <2>9 DEF ForkSetParent, Goto, SyscallAtOnce, table, memory, masks, local, si
  <2>10. CASE ForkSetRunnable(p)
    BY <2>10 DEF ForkSetRunnable, Goto, SyscallAtOnce, table, memory, masks, local, si
  <2>11. CASE Kfree(p)
    BY <2>11 DEF Kfree, Goto, SyscallAtOnce, table, memory, masks, local, si
  <2>12. CASE freeproc(p)
    BY <2>12 DEF freeproc, Goto, SyscallAtOnce, table, memory, masks, local, si
  <2>13. CASE Exit(p)
    BY <2>13 DEF Exit, Goto, SyscallAtOnce, table, memory, masks, local, si
  <2>14. CASE WaitReap(p)
    BY <2>14 DEF WaitReap, Goto, SyscallAtOnce, table, memory, masks, local, si
  <2>15. CASE WaitFails(p)
    BY <2>15 DEF WaitFails, Goto, SyscallAtOnce, table, memory, masks, local, si
  <2>16. CASE Sbrk(p)
    BY <2>16 DEF Sbrk, Goto, SyscallAtOnce, table, memory, masks, local, si
  <2>17. CASE Trace(p)
    BY <2>17 DEF Trace, Goto, SyscallAtOnce, table, memory, masks, local, si
  <2>18. CASE Freemem(p)
    BY <2>18 DEF Freemem, Goto, SyscallAtOnce, table, memory, masks, local, si
  <2>19. CASE Nproc(p)
    BY <2>19 DEF Nproc, Goto, SyscallAtOnce, table, memory, masks, local, si
  <2>20. CASE Copyout(p)
    BY <2>20 DEF Copyout, Goto, SyscallAtOnce, table, memory, masks, local, si
  <2> QED
    BY <1>2, <2>1, <2>2, <2>3, <2>4, <2>5, <2>6, <2>7, <2>8, <2>9, <2>10,
       <2>11, <2>12, <2>13, <2>14, <2>15, <2>16, <2>17, <2>18, <2>19, <2>20 DEF Step, Fork
<1> QED
  BY <1>1, <1>2 DEF Next

\* Every step keeps the half-made slots with the process that works on them.
LEMMA TableStep == TypeOK /\ TableInv /\ [Next]_vars => TableInv'
<1> SUFFICES ASSUME TypeOK /\ TableInv, [Next]_vars PROVE TableInv'
  OBVIOUS
<1> USE SysinfoAssumption DEF TypeOK, InSysinfo, TableInv, Making, Syscalls
<1>1. CASE UNCHANGED vars
  BY <1>1 DEF vars, Goto, SyscallAtOnce, table, memory, masks, local, si
<1>2. ASSUME NEW p \in Slot, Step(p), Witness PROVE TableInv'
  <2>1. ASSUME NEW c \in {"fork", "wait", "sysinfo"}, Syscall(p, c) PROVE TableInv'
    BY <2>1 DEF Syscall, Goto, SyscallAtOnce, table, memory, masks, local, si
  <2>2. CASE Return(p)
    BY <2>2 DEF Return, Goto, SyscallAtOnce, table, memory, masks, local, si
  <2>3. CASE ForkPass(p)
    BY <2>3 DEF ForkPass, Goto, SyscallAtOnce, table, memory, masks, local, si
  <2>4. CASE ForkFull(p)
    BY <2>4 DEF ForkFull, Goto, SyscallAtOnce, table, memory, masks, local, si
  <2>5. CASE ForkFound(p)
    BY <2>5 DEF ForkFound, Goto, SyscallAtOnce, table, memory, masks, local, si
  <2>6. CASE ForkAlloc(p)
    BY <2>6 DEF ForkAlloc, Goto, SyscallAtOnce, table, memory, masks, local, si
  <2>7. CASE ForkNoMem(p)
    BY <2>7 DEF ForkNoMem, Goto, SyscallAtOnce, table, memory, masks, local, si
  <2>8. CASE ForkCopy(p)
    BY <2>8 DEF ForkCopy, Goto, SyscallAtOnce, table, memory, masks, local, si
  <2>9. CASE ForkSetParent(p)
    BY <2>9 DEF ForkSetParent, Goto, SyscallAtOnce, table, memory, masks, local, si
  <2>10. CASE ForkSetRunnable(p)
    BY <2>10 DEF ForkSetRunnable, Goto, SyscallAtOnce, table, memory, masks, local, si
  <2>11. CASE Kfree(p)
    BY <2>11 DEF Kfree, Goto, SyscallAtOnce, table, memory, masks, local, si
  <2>12. CASE freeproc(p)
    BY <2>12 DEF freeproc, Goto, SyscallAtOnce, table, memory, masks, local, si
  <2>13. CASE Exit(p)
    BY <2>13 DEF Exit, Goto, SyscallAtOnce, table, memory, masks, local, si
  <2>14. CASE WaitReap(p)
    BY <2>14 DEF WaitReap, Goto, SyscallAtOnce, table, memory, masks, local, si
  <2>15. CASE WaitFails(p)
    BY <2>15 DEF WaitFails, Goto, SyscallAtOnce, table, memory, masks, local, si
  <2>16. CASE Sbrk(p)
    BY <2>16 DEF Sbrk, Goto, SyscallAtOnce, table, memory, masks, local, si
  <2>17. CASE Trace(p)
    BY <2>17 DEF Trace, Goto, SyscallAtOnce, table, memory, masks, local, si
  <2>18. CASE Freemem(p)
    BY <2>18 DEF Freemem, Goto, SyscallAtOnce, table, memory, masks, local, si
  <2>19. CASE Nproc(p)
    BY <2>19 DEF Nproc, Goto, SyscallAtOnce, table, memory, masks, local, si
  <2>20. CASE Copyout(p)
    BY <2>20 DEF Copyout, Goto, SyscallAtOnce, table, memory, masks, local, si
  <2> QED
    BY <1>2, <2>1, <2>2, <2>3, <2>4, <2>5, <2>6, <2>7, <2>8, <2>9, <2>10,
       <2>11, <2>12, <2>13, <2>14, <2>15, <2>16, <2>17, <2>18, <2>19, <2>20 DEF Step, Fork
<1> QED
  BY <1>1, <1>2 DEF Next

\* Every step is seen by the calls of sysinfo() under way.
LEMMA WindowStep == [Next]_vars => (TypeOK /\ WindowInv => WindowInv')
<1> SUFFICES ASSUME [Next]_vars, TypeOK, WindowInv PROVE WindowInv'
  OBVIOUS
<1>1. CASE UNCHANGED vars
  BY <1>1 DEF vars, table, WindowInv, Used, Made, InSysinfo
<1>2. CASE Witness
  BY <1>2 DEF Witness, WindowInv, TypeOK
<1> QED
  BY <1>1, <1>2 DEF Next

\* A step of p leaves another process where it is in its count, and fork() starts one.
Elsewhere(p, q) ==
  /\ pos'[q] = pos[q] /\ count'[q] = count[q]
  /\ pc'[q] = pc[q] \/ (pc[q] = "off" /\ pc'[q] = "user")

\* What a step of one process leaves of the call of another one.
LEMMA FrameStep ==
  ASSUME TypeOK, TableInv, NEW p \in Slot, NEW q \in Slot, q # p, Step(p)
  PROVE  Elsewhere(p, q)
<1> USE DEF TypeOK, TableInv, Making, Elsewhere
<1>1. ASSUME NEW c \in {"fork", "wait", "sysinfo"}, Syscall(p, c) PROVE Elsewhere(p, q)
  BY <1>1 DEF Syscall, Goto, SyscallAtOnce, table, memory, masks, local, si
<1>2. CASE Return(p)
  BY <1>2 DEF Return, Goto, SyscallAtOnce, table, memory, masks, local, si
<1>3. CASE ForkPass(p)
  BY <1>3 DEF ForkPass, Goto, SyscallAtOnce, table, memory, masks, local, si
<1>4. CASE ForkFull(p)
  BY <1>4 DEF ForkFull, Goto, SyscallAtOnce, table, memory, masks, local, si
<1>5. CASE ForkFound(p)
  BY <1>5 DEF ForkFound, Goto, SyscallAtOnce, table, memory, masks, local, si
<1>6. CASE ForkAlloc(p)
  BY <1>6 DEF ForkAlloc, Goto, SyscallAtOnce, table, memory, masks, local, si
<1>7. CASE ForkNoMem(p)
  BY <1>7 DEF ForkNoMem, Goto, SyscallAtOnce, table, memory, masks, local, si
<1>8. CASE ForkCopy(p)
  BY <1>8 DEF ForkCopy, Goto, SyscallAtOnce, table, memory, masks, local, si
<1>9. CASE ForkSetParent(p)
  BY <1>9 DEF ForkSetParent, Goto, SyscallAtOnce, table, memory, masks, local, si
<1>10. CASE ForkSetRunnable(p)
  BY <1>10 DEF ForkSetRunnable, Goto, SyscallAtOnce, table, memory, masks, local, si
<1>11. CASE Kfree(p)
  BY <1>11 DEF Kfree, Goto, SyscallAtOnce, table, memory, masks, local, si
<1>12. CASE freeproc(p)
  BY <1>12 DEF freeproc, Goto, SyscallAtOnce, table, memory, masks, local, si
<1>13. CASE Exit(p)
  BY <1>13 DEF Exit, Goto, SyscallAtOnce, table, memory, masks, local, si
<1>14. CASE WaitReap(p)
  BY <1>14 DEF WaitReap, Goto, SyscallAtOnce, table, memory, masks, local, si
<1>15. CASE WaitFails(p)
  BY <1>15 DEF WaitFails, Goto, SyscallAtOnce, table, memory, masks, local, si
<1>16. CASE Sbrk(p)
  BY <1>16 DEF Sbrk, Goto, SyscallAtOnce, table, memory, masks, local, si
<1>17. CASE Trace(p)
  BY <1>17 DEF Trace, Goto, SyscallAtOnce, table, memory, masks, local, si
<1>18. CASE Freemem(p)
  BY <1>18 DEF Freemem, Goto, SyscallAtOnce, table, memory, masks, local, si
<1>19. CASE Nproc(p)
  BY <1>19 DEF Nproc, Goto, SyscallAtOnce, table, memory, masks, local, si
<1>20. CASE Copyout(p)
  BY <1>20 DEF Copyout, Goto, SyscallAtOnce, table, memory, masks, local, si
<1> QED
  BY <1>1, <1>2, <1>3, <1>4, <1>5, <1>6, <1>7, <1>8, <1>9, <1>10,
     <1>11, <1>12, <1>13, <1>14, <1>15, <1>16, <1>17, <1>18, <1>19, <1>20 DEF Step, Fork

\* What a step of p does to its own count.
Own(p) ==
  \/ pc'[p] \notin InSysinfo \cup {"user", "off"}
  \/ pc'[p] \in {"user", "off"} /\ count'[p] = 0
  \/ pc'[p] = "freemem" /\ pos'[p] = 1 /\ count'[p] = 0
  \/ Freemem(p)
  \/ Nproc(p)

\* What a process does in its own call.
LEMMA OwnStep ==
  ASSUME TypeOK, TableInv, NEW p \in Slot, pc[p] = "user" => count[p] = 0, Step(p)
  PROVE  Own(p)
<1> USE DEF TypeOK, TableInv, Making, Own, InSysinfo
<1>1. ASSUME NEW c \in {"fork", "wait", "sysinfo"}, Syscall(p, c) PROVE Own(p)
  BY <1>1 DEF Syscall, Goto, SyscallAtOnce, table, memory, masks, local, si
<1>2. CASE Return(p)
  BY <1>2 DEF Return, Goto, SyscallAtOnce, table, memory, masks, local, si
<1>3. CASE ForkPass(p)
  BY <1>3 DEF ForkPass, Goto, SyscallAtOnce, table, memory, masks, local, si
<1>4. CASE ForkFull(p)
  BY <1>4 DEF ForkFull, Goto, SyscallAtOnce, table, memory, masks, local, si
<1>5. CASE ForkFound(p)
  BY <1>5 DEF ForkFound, Goto, SyscallAtOnce, table, memory, masks, local, si
<1>6. CASE ForkAlloc(p)
  BY <1>6 DEF ForkAlloc, Goto, SyscallAtOnce, table, memory, masks, local, si
<1>7. CASE ForkNoMem(p)
  BY <1>7 DEF ForkNoMem, Goto, SyscallAtOnce, table, memory, masks, local, si
<1>8. CASE ForkCopy(p)
  BY <1>8 DEF ForkCopy, Goto, SyscallAtOnce, table, memory, masks, local, si
<1>9. CASE ForkSetParent(p)
  BY <1>9 DEF ForkSetParent, Goto, SyscallAtOnce, table, memory, masks, local, si
<1>10. CASE ForkSetRunnable(p)
  BY <1>10 DEF ForkSetRunnable, Goto, SyscallAtOnce, table, memory, masks, local, si
<1>11. CASE Kfree(p)
  BY <1>11 DEF Kfree, Goto, SyscallAtOnce, table, memory, masks, local, si
<1>12. CASE freeproc(p)
  BY <1>12 DEF freeproc, Goto, SyscallAtOnce, table, memory, masks, local, si
<1>13. CASE Exit(p)
  BY <1>13 DEF Exit, Goto, SyscallAtOnce, table, memory, masks, local, si
<1>14. CASE WaitReap(p)
  BY <1>14 DEF WaitReap, Goto, SyscallAtOnce, table, memory, masks, local, si
<1>15. CASE WaitFails(p)
  BY <1>15 DEF WaitFails, Goto, SyscallAtOnce, table, memory, masks, local, si
<1>16. CASE Sbrk(p)
  BY <1>16 DEF Sbrk, Goto, SyscallAtOnce, table, memory, masks, local, si
<1>17. CASE Trace(p)
  BY <1>17 DEF Trace, Goto, SyscallAtOnce, table, memory, masks, local, si
<1>18. CASE Freemem(p)
  BY <1>18 DEF Freemem, Goto, SyscallAtOnce, table, memory, masks, local, si
<1>19. CASE Nproc(p)
  BY <1>19 DEF Nproc, Goto, SyscallAtOnce, table, memory, masks, local, si
<1>20. CASE Copyout(p)
  BY <1>20 DEF Copyout, Goto, SyscallAtOnce, table, memory, masks, local, si
<1> QED
  BY <1>1, <1>2, <1>3, <1>4, <1>5, <1>6, <1>7, <1>8, <1>9, <1>10,
     <1>11, <1>12, <1>13, <1>14, <1>15, <1>16, <1>17, <1>18, <1>19, <1>20 DEF Step, Fork

\* Every step keeps the count between the two bounds.
LEMMA CountStep == TypeOK /\ TableInv /\ WindowInv /\ CountInv /\ [Next]_vars => CountInv'
<1> SUFFICES ASSUME TypeOK, TableInv, WindowInv, CountInv, [Next]_vars PROVE CountInv'
  OBVIOUS
<1>1. CASE UNCHANGED vars
  BY <1>1 DEF vars, table, local, si, CountInv, CountInvOf, Counted, InSysinfo
<1>2. ASSUME NEW p \in Slot, Step(p), Witness, NEW q \in Slot PROVE CountInvOf(q)'
  <2>1. /\ pos[q] \in 1 .. NPROC + 1 /\ count[q] \in Nat
        /\ CountInvOf(q)
    BY DEF TypeOK, CountInv
  <2>2. pc'[q] \in InSysinfo =>
          /\ pc[q] # "user" => always'[q] \subseteq always[q] /\ ever[q] \subseteq ever'[q]
          /\ always'[q] \subseteq Used' /\ Made' \subseteq ever'[q]
    BY <1>2 DEF Witness
  <2>3. CASE q # p
    <3>1. Elsewhere(p, q)
      BY <1>2, <2>3, FrameStep
    <3>2. pc'[q] \in InSysinfo => pc[q] = pc'[q] /\ Counted(q)
      BY <2>1, <3>1 DEF Elsewhere, CountInvOf, InSysinfo
    <3>3. pc'[q] \in InSysinfo => Counted(q)'
      BY <2>2, <3>1, <3>2 DEF Elsewhere, Counted, InSysinfo
    <3> QED
      BY <2>1, <3>1, <3>2, <3>3 DEF Elsewhere, CountInvOf, InSysinfo
  <2>4. CASE q = p
    <3>1. Own(p)
      BY <1>2, <2>1, <2>4, OwnStep DEF CountInvOf
    <3>2. CASE pc'[p] \notin InSysinfo \cup {"user", "off"}
      BY <2>4, <3>2 DEF CountInvOf, InSysinfo
    <3>3. CASE pc'[p] \in {"user", "off"} /\ count'[p] = 0
      BY <2>4, <3>3 DEF CountInvOf, InSysinfo
    <3>4. CASE pc'[p] = "freemem" /\ pos'[p] = 1 /\ count'[p] = 0
      <4>1. Counted(p)'
        BY <3>4, FS_EmptySet DEF Counted
      <4> QED
        BY <2>4, <3>4, <4>1 DEF CountInvOf, InSysinfo
    <3>5. CASE Freemem(p)
      <4>1. /\ pc[p] = "freemem" /\ pc'[p] = "nproc"
            /\ pos'[p] = 1 /\ count'[p] = 0
        BY <2>1, <2>4, <3>5 DEF Freemem, Goto, local, CountInvOf, TypeOK
      <4>2. 1 \in Slot
        BY SysinfoAssumption DEF Slot
      <4>3. Counted(p)'
        BY <4>1, FS_EmptySet DEF Counted
      <4> QED
        BY <2>4, <4>1, <4>2, <4>3 DEF CountInvOf, InSysinfo
    <3>6. CASE Nproc(p)
      <4>1. /\ pc[p] = "nproc" /\ pos[p] \in Slot /\ holder[pos[p]] = None
            /\ pos'[p] = pos[p] + 1
            /\ count'[p] = IF pos[p] \in Used THEN count[p] + 1 ELSE count[p]
            /\ pc'[p] = IF pos[p] = NPROC THEN "copyout" ELSE "nproc"
            /\ UNCHANGED <<state, holder>>
        BY <2>4, <3>6 DEF Nproc, Goto, table, Used, TypeOK
      <4>2. pos[p] \in Int /\ (1 .. pos[p] - 1) \cup {pos[p]} = 1 .. pos'[p] - 1
            /\ pos[p] \notin 1 .. pos[p] - 1
        BY <4>1, SysinfoAssumption DEF Slot
      <4>3. PICK C \in SUBSET (1 .. pos[p] - 1) :
              /\ Cardinality(C) = count[p]
              /\ always[p] \cap (1 .. pos[p] - 1) \subseteq C
              /\ C \subseteq ever[p]
        BY <2>1, <2>4, <4>1 DEF CountInvOf, Counted, InSysinfo
      <4>4. pc'[p] \in InSysinfo
        BY <4>1 DEF InSysinfo
      <4>5. /\ always'[p] \subseteq always[p] /\ ever[p] \subseteq ever'[p]
            /\ always'[p] \subseteq Used /\ Made \subseteq ever'[p]
        BY <2>2, <2>4, <4>1, <4>4 DEF Used, Made
      <4>6. Counted(p)'
        <5>1. CASE pos[p] \in Used
          <6>1. pos[p] \in Made
            BY <4>1, <5>1 DEF Made
          <6>2. IsFiniteSet(C)
            <7>1. IsFiniteSet(1 .. pos[p] - 1)
              <8>1. pos[p] - 1 \in Int
                BY <4>2
              <8> QED
                BY <8>1, FS_Interval
            <7> QED
              BY <7>1, FS_Subset
          <6>3. Cardinality(C \cup {pos[p]}) = count'[p]
            BY ZenonT(60), <4>1, <4>2, <4>3, <5>1, <6>2, FS_AddElement
          <6>4. /\ C \cup {pos[p]} \in SUBSET (1 .. pos'[p] - 1)
                /\ always'[p] \cap (1 .. pos'[p] - 1) \subseteq C \cup {pos[p]}
                /\ C \cup {pos[p]} \subseteq ever'[p]
            BY <4>2, <4>3, <4>5, <6>1
          <6> QED
            BY <6>3, <6>4 DEF Counted
        <5>2. CASE pos[p] \notin Used
          BY <4>1, <4>2, <4>3, <4>5, <5>2 DEF Counted
        <5> QED
          BY <5>1, <5>2
      <4>7. /\ pc'[p] = "nproc" => pos'[p] \in Slot
            /\ pc'[p] = "copyout" => pos'[p] = NPROC + 1
        BY <4>1, <4>2, SysinfoAssumption DEF Slot
      <4> QED
        BY <2>4, <4>1, <4>6, <4>7 DEF CountInvOf, InSysinfo
    <3> QED
      BY <3>1, <3>2, <3>3, <3>4, <3>5, <3>6 DEF Own
  <2> QED
    BY <2>3, <2>4
<1> QED
  BY <1>1, <1>2 DEF Next, CountInv

\* Who asked for the mask of each slot, and what nproc() has counted so far.
THEOREM SysinfoCorrect == Spec => []IInv
<1>1. IInv /\ [Next]_vars => IInv'
  BY TypeStep, MaskStep, TableStep, WindowStep, CountStep DEF IInv
<1> QED
  BY <1>1, SysinfoInit, PTL DEF Spec

\* A call is printed exactly if the process, or the ancestor it has its mask from, asked.
THEOREM TraceInheritedCorrect == Spec => []TraceInherited
<1>1. IInv => TraceInherited
  BY DEF IInv, MaskInv, TraceInherited, Traced
<1> QED
  BY <1>1, SysinfoCorrect, PTL

\* sysinfo reports at least the processes that were there all through the call, and at most
\* those that were there at some time in it.
THEOREM SysinfoTruthCorrect == Spec => []SysinfoTruth
<1>1. IInv => SysinfoTruth
  <2> SUFFICES ASSUME IInv, NEW p \in Slot, pc[p] = "copyout"
               PROVE  Cardinality(always[p]) <= count[p] /\ count[p] <= Cardinality(ever[p])
    BY DEF SysinfoTruth
  <2>1. always[p] \subseteq Slot /\ ever[p] \subseteq Slot
    BY DEF IInv, TypeOK
  <2>2. pos[p] - 1 = NPROC /\ Counted(p)
    BY SysinfoAssumption DEF IInv, CountInv, CountInvOf, InSysinfo
  <2>3. PICK C \in SUBSET Slot :
          Cardinality(C) = count[p] /\ always[p] \subseteq C /\ C \subseteq ever[p]
    BY <2>1, <2>2 DEF Counted, Slot
  <2>4. IsFiniteSet(ever[p]) /\ IsFiniteSet(C)
    <3>1. IsFiniteSet(Slot)
      BY FS_Interval, SysinfoAssumption DEF Slot
    <3> QED
      BY <2>1, <3>1, FS_Subset
  <2> QED
    BY <2>3, <2>4, FS_Subset
<1> QED
  BY <1>1, SysinfoCorrect, PTL

-----------------------------------------------------------------------------
\* A slot's lock is kept across steps by the process that makes or frees the slot; a free slot
\* has nothing left of its last process; and a child has no more pages than its parent.
SlotInv ==
  /\ \A s, q \in Slot : holder[s] = q => np[q] = s /\ pc[q] \in {"alloc", "free"}
  /\ \A s \in Slot : state[s] = "UNUSED" => pages[s] = 0 /\ parent[s] = None
  /\ \A p \in Slot : pc[p] = "alloc" => pages[np[p]] <= pages[p]

\* Every step keeps the slots clean.
LEMMA SlotStep == TypeOK /\ TableInv /\ SlotInv /\ [Next]_vars => SlotInv'
<1> SUFFICES ASSUME TypeOK, TableInv, SlotInv, [Next]_vars PROVE SlotInv'
  OBVIOUS
<1> USE SysinfoAssumption DEF TypeOK, InSysinfo, TableInv, Making, Syscalls, SlotInv,
        Goto, SyscallAtOnce, table, memory, masks, local, si
<1>1. CASE UNCHANGED vars
  BY <1>1 DEF vars
<1>2. ASSUME NEW p \in Slot, Step(p), Witness PROVE SlotInv'
  <2>1. ASSUME NEW c \in {"fork", "wait", "sysinfo"}, Syscall(p, c) PROVE SlotInv'
    BY <2>1 DEF Syscall
  <2>2. CASE Return(p)
    BY <2>2 DEF Return
  <2>3. CASE ForkPass(p)
    BY <2>3 DEF ForkPass
  <2>4. CASE ForkFull(p)
    BY <2>4 DEF ForkFull
  <2>5. CASE ForkFound(p)
    BY <2>5 DEF ForkFound
  <2>6. CASE ForkAlloc(p)
    BY <2>6 DEF ForkAlloc
  <2>7. CASE ForkNoMem(p)
    BY <2>7 DEF ForkNoMem
  <2>8. CASE ForkCopy(p)
    BY <2>8 DEF ForkCopy
  <2>9. CASE ForkSetParent(p)
    BY <2>9 DEF ForkSetParent
  <2>10. CASE ForkSetRunnable(p)
    BY <2>10 DEF ForkSetRunnable
  <2>11. CASE Kfree(p)
    <3>1. \A s, q \in Slot : holder'[s] = q => np'[q] = s /\ pc'[q] \in {"alloc", "free"}
      BY <2>11 DEF Kfree
    <3>2. \A s \in Slot : state'[s] = "UNUSED" => pages'[s] = 0 /\ parent'[s] = None
      BY <2>11 DEF Kfree
    <3>3. ASSUME NEW q \in Slot, pc[q] = "alloc"
          PROVE  pages'[np[q]] <= pages'[q]
      <4>1. np[p] # np[q] /\ np[p] # q
        BY <2>11, <3>3 DEF Kfree
      <4>2. pages'[np[q]] = pages[np[q]] /\ pages'[q] = pages[q]
        BY <2>11, <4>1 DEF Kfree
      <4> QED
        BY <3>3, <4>2
    <3>4. pc' = pc /\ np' = np
      BY <2>11 DEF Kfree
    <3> QED
      BY <3>1, <3>2, <3>3, <3>4
  <2>12. CASE freeproc(p)
    BY <2>12 DEF freeproc
  <2>13. CASE Exit(p)
    BY <2>13 DEF Exit
  <2>14. CASE WaitReap(p)
    BY <2>14 DEF WaitReap
  <2>15. CASE WaitFails(p)
    BY <2>15 DEF WaitFails
  <2>16. CASE Sbrk(p)
    BY <2>16 DEF Sbrk
  <2>17. CASE Trace(p)
    BY <2>17 DEF Trace
  <2>18. CASE Freemem(p)
    BY <2>18 DEF Freemem
  <2>19. CASE Nproc(p)
    BY <2>19 DEF Nproc
  <2>20. CASE Copyout(p)
    BY <2>20 DEF Copyout
  <2> QED
    BY <1>2, <2>1, <2>2, <2>3, <2>4, <2>5, <2>6, <2>7, <2>8, <2>9, <2>10,
       <2>11, <2>12, <2>13, <2>14, <2>15, <2>16, <2>17, <2>18, <2>19, <2>20 DEF Step, Fork
<1> QED
  BY <1>1, <1>2 DEF Next

\* A slot that allocproc() may take has no pages, no parent and no lock held, whether its last
\* process was waited for or was never finished; and whoever keeps a slot's lock can go on.
SlotsClean ==
  /\ \A s \in Slot : state[s] = "UNUSED" => pages[s] = 0 /\ parent[s] = None /\ holder[s] = None
  /\ \A s, q \in Slot : holder[s] = q =>
       np[q] = s /\ (pc[q] = "free" \/ (pc[q] = "alloc" /\ pages[s] <= pages[q]))

\* fork() that fails for want of memory leaves the slot as wait() does, and no scan of the table
\* waits for ever at a slot (proc.c:113-127, 152-170, 277-281, 404-408).
THEOREM SlotsCleanCorrect == Spec => []SlotsClean
<1>1. Init => SlotInv
  BY SysinfoAssumption DEF Init, SlotInv
<1>2. IInv /\ SlotInv => SlotsClean
  <2> SUFFICES ASSUME IInv, SlotInv PROVE SlotsClean
    OBVIOUS
  <2>1. ASSUME NEW s \in Slot, state[s] = "UNUSED" PROVE holder[s] = None
    BY <2>1 DEF IInv, TypeOK, TableInv, Making, SlotInv
  <2>2. ASSUME NEW s \in Slot, NEW q \in Slot, holder[s] = q
        PROVE  np[q] = s /\ (pc[q] = "free" \/ (pc[q] = "alloc" /\ pages[s] <= pages[q]))
    BY <2>2 DEF SlotInv
  <2> QED
    BY <2>1, <2>2 DEF SlotInv, SlotsClean
<1>3. IInv /\ SlotInv /\ [Next]_vars => SlotInv'
  BY SlotStep DEF IInv
<1> QED
  BY <1>1, <1>2, <1>3, SysinfoCorrect, PTL DEF Spec
=============================================================================
