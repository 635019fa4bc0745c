------------------------------ MODULE Sysinfo ------------------------------
(****************************************************************************)
(* The system calls trace and sysinfo of the syscall lab, against the calls *)
(* that change what they report: fork, exit, wait and sbrk of other         *)
(* processes (Lab_syscall: proc.c, sysproc.c, syscall.c).  sysinfo counts   *)
(* free pages at one moment and processes slot by slot at later ones.       *)
(*                                                                          *)
(* Sleeping, waking and scheduling are those of Proc: here a process runs   *)
(* until it is a zombie, wait() is enabled when it has something to do, and *)
(* nobody is killed.                                                        *)
(* freemem() is one step, as Kalloc's refinement of PageAllocator allows.   *)
(****************************************************************************)
EXTENDS Integers, FiniteSets

CONSTANTS
  NPROC,    \* slots of the process table
  NPages,   \* pages of memory
  KPages,   \* pages a process has besides its memory: trapframe and page table
  Mask,     \* bound: the trace masks asked for, as sets of system calls
  Caller,   \* bound: the processes that call sysinfo
  None      \* nobody

Slot == 1 .. NPROC
initproc == 1
Syscalls == {"fork", "exit", "wait", "sbrk", "trace", "sysinfo"}

ASSUME SysinfoAssumption ==
  /\ NPROC \in Nat \ {0} /\ KPages \in Nat \ {0}
  /\ NPages \in Nat /\ NPages > KPages
  /\ Mask \subseteq SUBSET Syscalls
  /\ Caller \subseteq Slot
  /\ None \notin Slot

VARIABLES
  state, parent, trace_mask,   \* struct proc
  holder,    \* who holds p->lock across steps
  pages,     \* pages that each slot's process holds
  free,      \* free pages
  pc, call,  \* control point and system call number (a7) of each process
  np, pos,   \* locals: the slot being made or freed; the slot a scan looks at
  freemem, count,    \* sys_sysinfo()'s si
  asked,             \* history: mask the process, or the ancestor it has it from, asked for
  always, ever       \* history: slots used all through, and with a process at some time in,
                     \* a call of sysinfo

table  == <<state, parent>>
memory == <<pages, free>>
masks  == <<trace_mask, asked>>
local  == <<np, pos>>
si     == <<freemem, count>>
vars   == <<table, holder, memory, masks, pc, call, local, si, always, ever>>

InSysinfo == {"freemem", "nproc", "copyout"}

TypeOK ==
  /\ state \in [Slot -> {"UNUSED", "USED", "RUNNABLE", "ZOMBIE"}]
  /\ parent \in [Slot -> Slot \cup {None}]
  /\ trace_mask \in [Slot -> SUBSET Syscalls]
  /\ holder \in [Slot -> Slot \cup {None}]
  /\ pages \in [Slot -> Nat]
  /\ free \in Nat
  /\ pc \in [Slot -> InSysinfo \cup {"off", "user", "fork", "alloc", "parent", "runnable",
                                     "free", "wait", "return"}]
  /\ call \in [Slot -> Syscalls \cup {None}]
  /\ np \in [Slot -> Slot]
  /\ pos \in [Slot -> 1 .. NPROC + 1]
  /\ freemem \in [Slot -> Nat]
  /\ count \in [Slot -> Nat]
  /\ asked \in [Slot -> SUBSET Syscalls]
  /\ always \in [Slot -> SUBSET Slot]
  /\ ever \in [Slot -> SUBSET Slot]

\* procinit() and userinit() have run: one process, with one page of memory.
Init ==
  /\ state = [s \in Slot |-> IF s = initproc THEN "RUNNABLE" ELSE "UNUSED"]
  /\ parent = [s \in Slot |-> None]
  /\ trace_mask = [s \in Slot |-> {}]
  /\ holder = [s \in Slot |-> None]
  /\ pages = [s \in Slot |-> IF s = initproc THEN KPages + 1 ELSE 0]
  /\ free = NPages - KPages - 1
  /\ pc = [s \in Slot |-> IF s = initproc THEN "user" ELSE "off"]
  /\ call = [s \in Slot |-> None]
  /\ np = [s \in Slot |-> initproc]
  /\ pos = [s \in Slot |-> 1]
  /\ freemem = [s \in Slot |-> 0]
  /\ count = [s \in Slot |-> 0]
  /\ asked = [s \in Slot |-> {}]
  /\ always = [s \in Slot |-> {}]
  /\ ever = [s \in Slot |-> {}]

-----------------------------------------------------------------------------
Goto(p, from, to) == pc[p] = from /\ pc' = [pc EXCEPT ![p] = to]

\* syscall(): the process has put the number of a call that takes time in a7.
Syscall(p, c) ==
  /\ Goto(p, "user", IF c = "sysinfo" THEN "freemem" ELSE c)
  /\ c = "sysinfo" => p \in Caller
  /\ call' = [call EXCEPT ![p] = c]
  /\ pos' = [pos EXCEPT ![p] = 1]
  /\ UNCHANGED <<table, holder, memory, masks, np, si>>

\* ... or of one that is a single step.
SyscallAtOnce(p, c) ==
  /\ Goto(p, "user", "return")
  /\ call' = [call EXCEPT ![p] = c]

\* syscall(): the mask, as it is when the call has returned, has the call's bit.
Traced(p) == call[p] \in trace_mask[p]

\* Print a line if the call is traced, and go back to user space.
Return(p) ==
  /\ Goto(p, "return", "user")
  /\ call' = [call EXCEPT ![p] = None]
  /\ freemem' = [freemem EXCEPT ![p] = 0]
  /\ count' = [count EXCEPT ![p] = 0]
  /\ np' = [np EXCEPT ![p] = initproc]
  /\ pos' = [pos EXCEPT ![p] = 1]
  /\ UNCHANGED <<table, holder, memory, masks>>

-----------------------------------------------------------------------------
(* fork()                                                                  *)

\* allocproc() passes a slot that is used.
ForkPass(p) ==
  /\ pc[p] = "fork"
  /\ pos[p] \in Slot /\ holder[pos[p]] = None
  /\ state[pos[p]] # "UNUSED"
  /\ pos' = [pos EXCEPT ![p] = @ + 1]
  /\ UNCHANGED <<table, holder, memory, masks, pc, call, np, si>>

ForkFull(p) ==
  /\ pos[p] \notin Slot
  /\ Goto(p, "fork", "return")
  /\ UNCHANGED <<table, holder, memory, masks, call, local, si>>

\* allocproc() takes a slot and keeps its lock.
ForkFound(p) ==
  /\ pos[p] \in Slot /\ holder[pos[p]] = None
  /\ state[pos[p]] = "UNUSED"
  /\ Goto(p, "fork", "alloc")
  /\ np' = [np EXCEPT ![p] = pos[p]]
  /\ state' = [state EXCEPT ![pos[p]] = "USED"]
  /\ trace_mask' = [trace_mask EXCEPT ![pos[p]] = {}]
  /\ asked' = [asked EXCEPT ![pos[p]] = {}]
  /\ holder' = [holder EXCEPT ![pos[p]] = p]
  /\ UNCHANGED <<parent, memory, call, pos, si>>

\* allocproc() and uvmcopy() take page after page, until the child has as many as the
\* parent.
ForkAlloc(p) ==
  /\ pc[p] = "alloc"
  /\ pages[np[p]] < pages[p]
  /\ free > 0
  /\ pages' = [pages EXCEPT ![np[p]] = @ + 1]
  /\ free' = free - 1
  /\ UNCHANGED <<table, holder, masks, pc, call, local, si>>

\* kalloc() fails in one of them.
ForkNoMem(p) ==
  /\ pages[np[p]] < pages[p]
  /\ free = 0
  /\ Goto(p, "alloc", "free")
  /\ UNCHANGED <<table, holder, memory, masks, call, local, si>>

ForkCopiesNoMask(p) ==
  /\ pages[np[p]] = pages[p]
  /\ Goto(p, "alloc", "parent")
  /\ asked' = [asked EXCEPT ![np[p]] = asked[p]]
  /\ holder' = [holder EXCEPT ![np[p]] = None]
  /\ UNCHANGED <<table, trace_mask, memory, call, local, si>>

\* The rest of the child, its mask too; then its lock is let go.
ForkCopy(p) ==
  /\ pages[np[p]] = pages[p]
  /\ Goto(p, "alloc", "parent")
  /\ trace_mask' = [trace_mask EXCEPT ![np[p]] = trace_mask[p]]
  /\ asked' = [asked EXCEPT ![np[p]] = asked[p]]
  /\ holder' = [holder EXCEPT ![np[p]] = None]
  /\ UNCHANGED <<table, memory, call, local, si>>

ForkSetParent(p) ==
  /\ Goto(p, "parent", "runnable")
  /\ parent' = [parent EXCEPT ![np[p]] = p]
  /\ UNCHANGED <<state, holder, memory, masks, call, local, si>>

\* The child returns from fork() without passing through syscall().
ForkSetRunnable(p) ==
  /\ pc[p] = "runnable"
  /\ holder[np[p]] = None
  /\ state' = [state EXCEPT ![np[p]] = "RUNNABLE"]
  /\ pc' = [pc EXCEPT ![p] = "return", ![np[p]] = "user"]
  /\ UNCHANGED <<parent, holder, memory, masks, call, local, si>>

Fork(p) ==
  \/ ForkPass(p) \/ ForkFull(p) \/ ForkFound(p) \/ ForkAlloc(p) \/ ForkNoMem(p)
  \/ ForkCopy(p) \/ ForkSetParent(p) \/ ForkSetRunnable(p)

\* freeproc() gives back page after page, with the slot's lock held ...
Kfree(p) ==
  /\ pc[p] = "free"
  /\ pages[np[p]] > 0
  /\ pages' = [pages EXCEPT ![np[p]] = @ - 1]
  /\ free' = free + 1
  /\ UNCHANGED <<table, holder, masks, pc, call, local, si>>

\* ... clears the slot, and its caller lets go of the lock.
freeproc(p) ==
  /\ pages[np[p]] = 0
  /\ Goto(p, "free", "return")
  /\ state' = [state EXCEPT ![np[p]] = "UNUSED"]
  /\ parent' = [parent EXCEPT ![np[p]] = None]
  /\ holder' = [holder EXCEPT ![np[p]] = None]
  /\ UNCHANGED <<memory, masks, call, local, si>>

-----------------------------------------------------------------------------
(* exit(), wait(), sbrk(), trace()                                         *)

\* init never exits.
Exit(p) ==
  /\ p # initproc
  /\ Goto(p, "user", "off")
  /\ holder[p] = None
  /\ state' = [state EXCEPT ![p] = "ZOMBIE"]
  /\ parent' = [s \in Slot |-> IF parent[s] = p THEN initproc ELSE parent[s]]
  /\ UNCHANGED <<holder, memory, masks, call, local, si>>

\* A child is a zombie: free it.
WaitReap(p) ==
  /\ Goto(p, "wait", "free")
  /\ \E s \in Slot :
       /\ parent[s] = p /\ state[s] = "ZOMBIE" /\ holder[s] = None
       /\ np' = [np EXCEPT ![p] = s]
       /\ holder' = [holder EXCEPT ![s] = p]
  /\ UNCHANGED <<table, memory, masks, call, pos, si>>

\* No children, or the address given for the status is bad and a child is a zombie.
WaitFails(p) ==
  /\ Goto(p, "wait", "return")
  /\ \/ \A s \in Slot : parent[s] # p
     \/ \E s \in Slot : parent[s] = p /\ state[s] = "ZOMBIE" /\ holder[s] = None
  /\ UNCHANGED <<table, holder, memory, masks, call, local, si>>

\* growproc(): a page more if there is one, a page less, or none of either.
Sbrk(p) ==
  /\ SyscallAtOnce(p, "sbrk")
  /\ \E n \in {-1, 0, 1} :
       /\ pages[p] + n >= KPages
       /\ free - n >= 0
       /\ pages' = [pages EXCEPT ![p] = @ + n]
       /\ free' = free - n
  /\ UNCHANGED <<table, holder, masks, local, si>>

Trace(p) ==
  /\ SyscallAtOnce(p, "trace")
  /\ holder[p] = None
  /\ \E mask \in Mask :
       /\ trace_mask' = [trace_mask EXCEPT ![p] = mask]
       /\ asked' = [asked EXCEPT ![p] = mask]
  /\ UNCHANGED <<table, holder, memory, local, si>>

-----------------------------------------------------------------------------
(* sysinfo()                                                               *)

Freemem(p) ==
  /\ Goto(p, "freemem", "nproc")
  /\ freemem' = [freemem EXCEPT ![p] = free]
  /\ UNCHANGED <<table, holder, memory, masks, call, local, count>>

NprocUnlocked(p) ==
  /\ pos[p] \in Slot
  /\ Goto(p, "nproc", IF pos[p] = NPROC THEN "copyout" ELSE "nproc")
  /\ count' = [count EXCEPT ![p] = IF state[pos[p]] # "UNUSED" THEN @ + 1 ELSE @]
  /\ pos' = [pos EXCEPT ![p] = @ + 1]
  /\ UNCHANGED <<table, holder, memory, masks, call, np, freemem>>

\* nproc() looks at one slot under its lock.
Nproc(p) ==
  /\ pos[p] \in Slot /\ holder[pos[p]] = None
  /\ Goto(p, "nproc", IF pos[p] = NPROC THEN "copyout" ELSE "nproc")
  /\ count' = [count EXCEPT ![p] = IF state[pos[p]] # "UNUSED" THEN @ + 1 ELSE @]
  /\ pos' = [pos EXCEPT ![p] = @ + 1]
  /\ UNCHANGED <<table, holder, memory, masks, call, np, freemem>>

\* copyout(), which may fail: the call then returns -1.
Copyout(p) ==
  /\ Goto(p, "copyout", "return")
  /\ UNCHANGED <<table, holder, memory, masks, call, local, si>>

-----------------------------------------------------------------------------
Used == {s \in Slot : state[s] # "UNUSED"}

\* Slots with a process: one that allocproc() and uvmcopy() are still making is none.
Made == {s \in Used : ~(state[s] = "USED" /\ holder[s] # None)}

\* The history of the calls of sysinfo.
Witness ==
  /\ always' = [p \in Slot |-> IF pc'[p] \notin InSysinfo THEN {}
                               ELSE IF pc[p] = "user" THEN Used' ELSE always[p] \cap Used']
  /\ ever' = [p \in Slot |-> IF pc'[p] \notin InSysinfo THEN {} ELSE ever[p] \cup Made']

Step(p) ==
  \/ \E c \in {"fork", "wait", "sysinfo"} : Syscall(p, c)
  \/ Return(p)
  \/ Fork(p)
  \/ Kfree(p)
  \/ freeproc(p)
  \/ Exit(p)
  \/ WaitReap(p)
  \/ WaitFails(p)
  \/ Sbrk(p)
  \/ Trace(p)
  \/ Freemem(p)
  \/ Nproc(p)
  \/ Copyout(p)

Next == \E p \in Slot : Step(p) /\ Witness

Spec == Init /\ [][Next]_vars

-----------------------------------------------------------------------------
\* Although processes come and go while it counts, sysinfo reports at least the processes
\* that were there all through the call, and at most those that were there at some time
\* in it; a fork() that fails for want of memory is never counted (proc.c:670-676,
\* sysproc.c:125-126).
SysinfoTruth ==
  \A p \in Slot : pc[p] = "copyout" =>
    /\ Cardinality(always[p]) <= count[p]
    /\ count[p] <= Cardinality(ever[p])

\* A call is printed exactly if the process, or the ancestor it has its mask from, last
\* asked for that; a slot's next process knows nothing of it (proc.c:124, 312,
\* syscall.c:174).
TraceInherited ==
  \A p \in Slot : pc[p] = "return" => (Traced(p) <=> call[p] \in asked[p])
=============================================================================
