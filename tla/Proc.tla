-------------------------------- MODULE Proc --------------------------------
(***************************************************************************)
(* The process table of the xv6 kernel (Lab_traps/proc.c): fork, exit,     *)
(* wait, kill, the per-CPU scheduler, yield and sleep/wakeup, run by       *)
(* several CPUs under p->lock and wait_lock, with the parts of usertrap    *)
(* and kerneltrap (Lab_traps/trap.c) that call them.                       *)
(*                                                                         *)
(* GRAIN.  A step runs from one acquire() to the next point at which       *)
(* another CPU could interfere: a critical section on one p->lock is one   *)
(* step, since every field it touches is only touched under that lock.     *)
(* wait_lock is held across steps, and so is a p->lock across swtch().     *)
(* p->killed is read without a lock by wait() and usertrap(); those reads  *)
(* are steps of their own.  A lock's value is the CPU that holds it.       *)
(*                                                                         *)
(* A definition that another one follows under the same comment, named     *)
(* after it (freeprocKeepsParent, freeproc), is a mutant: the same code    *)
(* with a bug.  No specification uses it; PROJECT.json names the property  *)
(* that fails when it replaces its original.                               *)
(***************************************************************************)
EXTENDS Integers, FiniteSets

CONSTANTS
  NPROC,     \* number of slots of the process table
  CPU,       \* the harts
  None,      \* the null pointer: no CPU, no process, no channel
  MaxPid,    \* BOUND: fork() is called only while nextpid stays below it
  KillArgs   \* the arguments user programs pass to kill()

Slot == 0 .. NPROC - 1
initproc == 0                 \* userinit() takes the first slot of the table

ASSUME ProcAssumption ==
  /\ NPROC \in Nat \ {0}
  /\ None \notin CPU \cup Slot
  /\ KillArgs \subseteq Nat

VARIABLES
  state, chan, killed, pid, parent,   \* the fields of struct proc
  nextpid,
  plock, wait_lock,                   \* holder of p->lock, of wait_lock
  cproc, spc, sidx,                   \* c->proc, where CPU c is, its scheduler's loop variable
  pc, insched, scan, arg              \* the kernel threads: control point, suspended
                                      \* inside sched() or before forkret(), locals

table   == <<state, chan, killed, pid, parent>>
cpuVars == <<cproc, spc, sidx>>
thread  == <<pc, insched, scan, arg>>
vars    == <<table, nextpid, plock, wait_lock, cpuVars, thread>>

InWait   == {"wait", "scan", "sleep", "asleep"}      \* inside wait()
InFork   == {"setparent", "setrun"}                  \* fork() has a child slot
InExit   == {"reparent", "rwake", "ewake", "zombie"} \* exit() holds wait_lock
Label    == InWait \cup InFork \cup InExit
              \cup {"forkret", "user", "ret", "alloc", "kill", "exit", "dead", "panic"}
ProcState == {"UNUSED", "USED", "SLEEPING", "RUNNABLE", "RUNNING", "ZOMBIE"}

TypeOK ==
  /\ state \in [Slot -> ProcState]
  /\ chan \in [Slot -> Slot \cup {None}]
  /\ killed \in [Slot -> BOOLEAN]
  /\ pid \in [Slot -> Nat]
  /\ parent \in [Slot -> Slot \cup {None}]
  /\ nextpid \in Nat \ {0}
  /\ plock \in [Slot -> CPU \cup {None}]
  /\ wait_lock \in CPU \cup {None}
  /\ cproc \in [CPU -> Slot \cup {None}]
  /\ spc \in [CPU -> {"scan", "run", "back"}]
  /\ sidx \in [CPU -> Slot]
  /\ pc \in [Slot -> Label]
  /\ insched \in [Slot -> BOOLEAN]
  /\ scan \in [Slot -> 0 .. NPROC]
  /\ arg \in [Slot -> Nat]

\* procinit() and userinit() have run: one RUNNABLE process, every CPU in scheduler().
Init ==
  /\ state = [p \in Slot |-> IF p = initproc THEN "RUNNABLE" ELSE "UNUSED"]
  /\ chan = [p \in Slot |-> None]
  /\ killed = [p \in Slot |-> FALSE]
  /\ pid = [p \in Slot |-> IF p = initproc THEN 1 ELSE 0]
  /\ parent = [p \in Slot |-> None]
  /\ nextpid = 2
  /\ plock = [p \in Slot |-> None]
  /\ wait_lock = None
  /\ cproc = [c \in CPU |-> None]
  /\ spc = [c \in CPU |-> "scan"]
  /\ sidx = [c \in CPU |-> 0]
  /\ pc = [p \in Slot |-> "forkret"]
  /\ insched = [p \in Slot |-> TRUE]
  /\ scan = [p \in Slot |-> 0]
  /\ arg = [p \in Slot |-> 0]

-----------------------------------------------------------------------------
Children(p) == {q \in Slot : parent[q] = p}

\* q is the first of the slots S in table order.
First(q, S) == q \in S /\ \A r \in S : q <= r

\* CPU c executes the thread of process p, which is at control point l.
At(c, p, l) ==
  /\ spc[c] = "run"
  /\ cproc[c] = p
  /\ ~insched[p]
  /\ pc[p] = l

\* The slot after q in the scheduler's round.
NextSlot(q) == (q + 1) % NPROC

Goto(p, l) == pc' = [pc EXCEPT ![p] = l]

\* CPU c holds no spinlock.
HoldsNoProcLock(c) == \A q \in Slot : plock[q] # c
HoldsNone(c)       == wait_lock # c /\ HoldsNoProcLock(c)

\* freeproc(q): every field of the slot that the model keeps.
freeprocKeepsParent(q) ==
  /\ state' = [state EXCEPT ![q] = "UNUSED"]
  /\ chan' = [chan EXCEPT ![q] = None]
  /\ killed' = [killed EXCEPT ![q] = FALSE]
  /\ pid' = [pid EXCEPT ![q] = 0]
  /\ UNCHANGED parent

freeproc(q) ==
  /\ state' = [state EXCEPT ![q] = "UNUSED"]
  /\ chan' = [chan EXCEPT ![q] = None]
  /\ killed' = [killed EXCEPT ![q] = FALSE]
  /\ pid' = [pid EXCEPT ![q] = 0]
  /\ parent' = [parent EXCEPT ![q] = None]

-----------------------------------------------------------------------------
(* scheduler() and sched().                                                *)

\* One turn of scheduler()'s loop: take the slot's lock; run it if RUNNABLE.
ScanSlot(c) ==
  LET q == sidx[c] IN
  /\ spc[c] = "scan"
  /\ plock[q] = None
  /\ \/ /\ state[q] = "RUNNABLE"
        /\ state' = [state EXCEPT ![q] = "RUNNING"]
        /\ plock' = [plock EXCEPT ![q] = c]
        /\ cproc' = [cproc EXCEPT ![c] = q]
        /\ spc' = [spc EXCEPT ![c] = "run"]
        /\ UNCHANGED sidx
     \/ /\ state[q] # "RUNNABLE"
        /\ sidx' = [sidx EXCEPT ![c] = NextSlot(q)]
        /\ UNCHANGED <<state, plock, cproc, spc>>
  /\ UNCHANGED <<chan, killed, pid, parent, nextpid, wait_lock, thread>>

\* swtch() has returned into scheduler(): forget the process, release its lock.
SchedBackFromZero(c) ==
  /\ spc[c] = "back"
  /\ plock' = [plock EXCEPT ![cproc[c]] = None]
  /\ cproc' = [cproc EXCEPT ![c] = None]
  /\ spc' = [spc EXCEPT ![c] = "scan"]
  /\ sidx' = [sidx EXCEPT ![c] = 0]
  /\ UNCHANGED <<table, nextpid, wait_lock, thread>>

SchedBack(c) ==
  /\ spc[c] = "back"
  /\ plock' = [plock EXCEPT ![cproc[c]] = None]
  /\ cproc' = [cproc EXCEPT ![c] = None]
  /\ spc' = [spc EXCEPT ![c] = "scan"]
  /\ sidx' = [sidx EXCEPT ![c] = NextSlot(sidx[c])]
  /\ UNCHANGED <<table, nextpid, wait_lock, thread>>

\* sched(): the thread of p stops here, with p->lock held; its CPU resumes scheduler().
sched(c, p) ==
  /\ spc' = [spc EXCEPT ![c] = "back"]
  /\ insched' = [insched EXCEPT ![p] = TRUE]
  /\ UNCHANGED <<cproc, sidx>>

\* Where a thread that swtch() resumes goes on: sleep() takes wait_lock again.
AfterSwtchNoRelock(l) ==
  CASE l = "asleep"  -> "scan"
    [] l = "forkret" -> "user"
    [] OTHER         -> l

AfterSwtch(l) ==
  CASE l = "asleep"  -> "wait"
    [] l = "forkret" -> "user"
    [] OTHER         -> l

\* The other side of swtch(): back in yield(), in sleep(), or at the start of
\* forkret().  Each releases p->lock, which the scheduler took; sleep() clears
\* chan first.
Resume(c, p) ==
  /\ spc[c] = "run"
  /\ cproc[c] = p
  /\ insched[p]
  /\ insched' = [insched EXCEPT ![p] = FALSE]
  /\ plock' = [plock EXCEPT ![p] = None]
  /\ chan' = [chan EXCEPT ![p] = IF pc[p] = "asleep" THEN None ELSE @]
  /\ Goto(p, AfterSwtch(pc[p]))
  /\ UNCHANGED <<state, killed, pid, parent, nextpid, wait_lock, cpuVars, scan, arg>>

yieldUnlocked(c, p) ==
  /\ state' = [state EXCEPT ![p] = "RUNNABLE"]
  /\ sched(c, p)
  /\ UNCHANGED <<chan, killed, pid, parent, nextpid, plock, wait_lock, pc, scan, arg>>

yield(c, p) ==
  /\ plock[p] = None
  /\ plock' = [plock EXCEPT ![p] = c]
  /\ state' = [state EXCEPT ![p] = "RUNNABLE"]
  /\ sched(c, p)
  /\ UNCHANGED <<chan, killed, pid, parent, nextpid, wait_lock, pc, scan, arg>>

\* A timer interrupt in user mode: usertrap() yields unless the process is killed.
UserTick(c, p) ==
  /\ At(c, p, "user")
  /\ ~killed[p]
  /\ yield(c, p)

\* A timer interrupt in the kernel: kerneltrap() yields.  Interrupts are off
\* while the CPU holds a spinlock.
KernelTick(c, p) ==
  /\ spc[c] = "run"
  /\ cproc[c] = p
  /\ ~insched[p]
  /\ pc[p] # "user"
  /\ HoldsNone(c)
  /\ state[p] = "RUNNING"
  /\ yield(c, p)

-----------------------------------------------------------------------------
(* usertrap(): what a user process may do next, and its way back.          *)

\* p traps with the system call that starts at l.
Syscall(c, p, l) ==
  /\ At(c, p, "user")
  /\ ~killed[p]
  /\ Goto(p, l)
  /\ scan' = [scan EXCEPT ![p] = 0]
  /\ UNCHANGED <<table, nextpid, plock, wait_lock, cpuVars, insched>>

\* Calls of fork() that have not allocated a pid yet count against the bound.
SysFork(c, p) ==
  /\ nextpid + Cardinality({q \in Slot : pc[q] = "alloc"}) <= MaxPid
  /\ Syscall(c, p, "alloc")
  /\ UNCHANGED arg

SysWait(c, p) == Syscall(c, p, "wait") /\ UNCHANGED arg
SysExit(c, p) == Syscall(c, p, "exit") /\ UNCHANGED arg
SysKill(c, p) ==
  /\ Syscall(c, p, "kill")
  /\ \E k \in KillArgs : arg' = [arg EXCEPT ![p] = k]

\* usertrap() finds p->killed on any trap, or on the way out of a system call;
\* an exception (a fault) sets it first.
UsertrapKilledLate(c, p) ==
  /\ At(c, p, "ret")
  /\ killed[p]
  /\ Goto(p, "exit")
  /\ UNCHANGED <<table, nextpid, plock, wait_lock, cpuVars, insched, scan, arg>>

UsertrapKilled(c, p) ==
  /\ At(c, p, "user") \/ At(c, p, "ret")
  /\ killed[p]
  /\ Goto(p, "exit")
  /\ UNCHANGED <<table, nextpid, plock, wait_lock, cpuVars, insched, scan, arg>>

UsertrapFault(c, p) ==
  /\ At(c, p, "user")
  /\ killed' = [killed EXCEPT ![p] = TRUE]
  /\ Goto(p, "exit")
  /\ UNCHANGED <<state, chan, pid, parent, nextpid, plock, wait_lock, cpuVars,
                 insched, scan, arg>>

Usertrapret(c, p) ==
  /\ At(c, p, "ret")
  /\ ~killed[p]
  /\ Goto(p, "user")
  /\ UNCHANGED <<table, nextpid, plock, wait_lock, cpuVars, insched, scan, arg>>

\* The system call of p is over; its locals are dead.
Return(p) ==
  /\ Goto(p, "ret")
  /\ scan' = [scan EXCEPT ![p] = 0]
  /\ arg' = [arg EXCEPT ![p] = 0]

-----------------------------------------------------------------------------
(* fork().                                                                 *)

\* allocproc() looks at one slot, and passes on from one in use.
AllocBusy(c, p) ==
  LET q == scan[p] IN
  /\ At(c, p, "alloc")
  /\ q < NPROC
  /\ plock[q] = None
  /\ state[q] # "UNUSED"
  /\ scan' = [scan EXCEPT ![p] = q + 1]
  /\ UNCHANGED <<table, nextpid, plock, wait_lock, cpuVars, pc, insched, arg>>

AllocFull(c, p) ==
  /\ At(c, p, "alloc")
  /\ scan[p] = NPROC
  /\ Return(p)
  /\ UNCHANGED <<table, nextpid, plock, wait_lock, cpuVars, insched>>

\* What allocproc() makes of the free slot np, which it has locked: a new pid, and
\* a thread whose context starts at forkret().
allocprocSamePid(np) ==
  /\ pid' = [pid EXCEPT ![np] = nextpid]
  /\ state' = [state EXCEPT ![np] = "USED"]
  /\ insched' = [insched EXCEPT ![np] = TRUE]
  /\ UNCHANGED nextpid

allocproc(np) ==
  /\ pid' = [pid EXCEPT ![np] = nextpid]
  /\ nextpid' = nextpid + 1
  /\ state' = [state EXCEPT ![np] = "USED"]
  /\ insched' = [insched EXCEPT ![np] = TRUE]

\* The slot is free: all of allocproc(), and fork() up to release(&np->lock).
AllocFoundKeepsLock(c, p) ==
  LET np == scan[p] IN
  /\ At(c, p, "alloc")
  /\ np < NPROC
  /\ plock[np] = None
  /\ state[np] = "UNUSED"
  /\ allocproc(np)
  /\ plock' = [plock EXCEPT ![np] = c]
  /\ pc' = [pc EXCEPT ![p] = "setparent", ![np] = "forkret"]
  /\ arg' = [arg EXCEPT ![p] = np]
  /\ UNCHANGED <<chan, killed, parent, wait_lock, cpuVars, scan>>

AllocFound(c, p) ==
  LET np == scan[p] IN
  /\ At(c, p, "alloc")
  /\ np < NPROC
  /\ plock[np] = None
  /\ state[np] = "UNUSED"
  /\ allocproc(np)
  /\ pc' = [pc EXCEPT ![p] = "setparent", ![np] = "forkret"]
  /\ arg' = [arg EXCEPT ![p] = np]
  /\ UNCHANGED <<chan, killed, parent, plock, wait_lock, cpuVars, scan>>

\* The slot is free, but kalloc(), proc_pagetable() or uvmcopy() fails: the pid
\* is spent, freeproc() cleans the slot, fork() returns -1.
AllocNoMemLeaks(c, p) ==
  LET np == scan[p] IN
  /\ At(c, p, "alloc")
  /\ np < NPROC
  /\ plock[np] = None
  /\ state[np] = "UNUSED"
  /\ pid' = [pid EXCEPT ![np] = nextpid]
  /\ nextpid' = nextpid + 1
  /\ state' = [state EXCEPT ![np] = "USED"]
  /\ Return(p)
  /\ UNCHANGED <<chan, killed, parent, plock, wait_lock, cpuVars, insched>>

AllocNoMem(c, p) ==
  LET np == scan[p] IN
  /\ At(c, p, "alloc")
  /\ np < NPROC
  /\ plock[np] = None
  /\ state[np] = "UNUSED"
  /\ nextpid' = nextpid + 1
  /\ freeproc(np)
  /\ Return(p)
  /\ UNCHANGED <<plock, wait_lock, cpuVars, insched>>

ForkSetParent(c, p) ==
  /\ At(c, p, "setparent")
  /\ wait_lock = None
  /\ parent' = [parent EXCEPT ![arg[p]] = p]
  /\ Goto(p, "setrun")
  /\ UNCHANGED <<state, chan, killed, pid, nextpid, plock, wait_lock, cpuVars,
                 insched, scan, arg>>

ForkSetRunnable(c, p) ==
  /\ At(c, p, "setrun")
  /\ plock[arg[p]] = None
  /\ state' = [state EXCEPT ![arg[p]] = "RUNNABLE"]
  /\ Return(p)
  /\ UNCHANGED <<chan, killed, pid, parent, nextpid, plock, wait_lock, cpuVars, insched>>

-----------------------------------------------------------------------------
(* wakeup(ch), called by the thread of p: one slot, or the end of the      *)
(* loop, after which control goes to l.                                    *)

WakeupSlot(p, ch) ==
  LET q == scan[p] IN
  /\ q < NPROC
  /\ q # p => plock[q] = None
  /\ state' = [state EXCEPT ![q] =
                 IF q # p /\ @ = "SLEEPING" /\ chan[q] = ch THEN "RUNNABLE" ELSE @]
  /\ scan' = [scan EXCEPT ![p] = q + 1]
  /\ UNCHANGED pc

WakeupEnd(p, l) ==
  /\ scan[p] = NPROC
  /\ scan' = [scan EXCEPT ![p] = 0]
  /\ Goto(p, l)
  /\ UNCHANGED state

-----------------------------------------------------------------------------
(* exit().  Closing files and the directory is outside the model.          *)

ExitPanic(c, p) ==
  /\ At(c, p, "exit")
  /\ p = initproc
  /\ Goto(p, "panic")
  /\ UNCHANGED <<table, nextpid, plock, wait_lock, cpuVars, insched, scan, arg>>

ExitLock(c, p) ==
  /\ At(c, p, "exit")
  /\ p # initproc
  /\ wait_lock = None
  /\ wait_lock' = c
  /\ Goto(p, "reparent")
  /\ UNCHANGED <<table, nextpid, plock, cpuVars, insched, scan, arg>>

\* reparent(): hand the next child, in table order, to init, then wakeup(initproc).
\* No child precedes it: those the loop has passed have another parent by now.
ReparentChildSilently(c, p) ==
  /\ At(c, p, "reparent")
  /\ \E pp \in Slot : /\ First(pp, Children(p))
                      /\ parent' = [parent EXCEPT ![pp] = initproc]
  /\ UNCHANGED <<state, chan, killed, pid, nextpid, plock, wait_lock, cpuVars, thread>>

ReparentChild(c, p) ==
  /\ At(c, p, "reparent")
  /\ \E pp \in Slot : /\ First(pp, Children(p))
                      /\ parent' = [parent EXCEPT ![pp] = initproc]
  /\ Goto(p, "rwake")
  /\ UNCHANGED <<state, chan, killed, pid, nextpid, plock, wait_lock, cpuVars,
                 insched, scan, arg>>

ReparentWakeup(c, p) ==
  /\ At(c, p, "rwake")
  /\ WakeupSlot(p, initproc) \/ WakeupEnd(p, "reparent")
  /\ UNCHANGED <<chan, killed, pid, parent, nextpid, plock, wait_lock, cpuVars, insched, arg>>

ReparentDoneEarly(c, p) ==
  /\ At(c, p, "reparent")
  /\ Children(p) \subseteq {NPROC - 1}
  /\ Goto(p, "ewake")
  /\ UNCHANGED <<table, nextpid, plock, wait_lock, cpuVars, insched, scan, arg>>

ReparentDone(c, p) ==
  /\ At(c, p, "reparent")
  /\ Children(p) = {}
  /\ Goto(p, "ewake")
  /\ UNCHANGED <<table, nextpid, plock, wait_lock, cpuVars, insched, scan, arg>>

\* wakeup(p->parent)
ExitWakeupSelf(c, p) ==
  /\ At(c, p, "ewake")
  /\ WakeupSlot(p, p) \/ WakeupEnd(p, "zombie")
  /\ UNCHANGED <<chan, killed, pid, parent, nextpid, plock, wait_lock, cpuVars, insched, arg>>

ExitWakeup(c, p) ==
  /\ At(c, p, "ewake")
  /\ WakeupSlot(p, parent[p]) \/ WakeupEnd(p, "zombie")
  /\ UNCHANGED <<chan, killed, pid, parent, nextpid, plock, wait_lock, cpuVars, insched, arg>>

ExitZombie(c, p) ==
  /\ At(c, p, "zombie")
  /\ plock[p] = None
  /\ plock' = [plock EXCEPT ![p] = c]
  /\ state' = [state EXCEPT ![p] = "ZOMBIE"]
  /\ wait_lock' = None
  /\ Goto(p, "dead")
  /\ sched(c, p)
  /\ UNCHANGED <<chan, killed, pid, parent, nextpid, scan, arg>>

-----------------------------------------------------------------------------
(* wait() and the sleep() it calls.                                        *)

\* acquire(&wait_lock), on entry or at the end of sleep(); a new scan begins.
WaitLock(c, p) ==
  /\ At(c, p, "wait")
  /\ wait_lock = None
  /\ wait_lock' = c
  /\ Goto(p, "scan")
  /\ scan' = [scan EXCEPT ![p] = 0]
  /\ UNCHANGED <<table, nextpid, plock, cpuVars, insched, arg>>

\* The children wait()'s loop has still to look at.
ToScan(p) == {q \in Children(p) : q >= scan[p]}

WaitChildLives(c, p, np) ==
  /\ At(c, p, "scan")
  /\ First(np, ToScan(p))
  /\ plock[np] = None
  /\ state[np] # "ZOMBIE"
  /\ scan' = [scan EXCEPT ![p] = np + 1]
  /\ UNCHANGED <<table, nextpid, plock, wait_lock, cpuVars, pc, insched, arg>>

WaitReap(c, p, np) ==
  /\ At(c, p, "scan")
  /\ First(np, ToScan(p))
  /\ plock[np] = None
  /\ state[np] = "ZOMBIE"
  /\ freeproc(np)
  /\ wait_lock' = None
  /\ Return(p)
  /\ UNCHANGED <<nextpid, plock, cpuVars, insched>>

\* copyout() of the exit status fails: wait() returns -1, the zombie stays.
WaitCopyoutFails(c, p, np) ==
  /\ At(c, p, "scan")
  /\ First(np, ToScan(p))
  /\ plock[np] = None
  /\ state[np] = "ZOMBIE"
  /\ wait_lock' = None
  /\ Return(p)
  /\ UNCHANGED <<table, nextpid, plock, cpuVars, insched>>

\* No children, or killed: return -1.
WaitGivesUpLocked(c, p) ==
  /\ At(c, p, "scan")
  /\ ToScan(p) = {}
  /\ Children(p) = {} \/ killed[p]
  /\ Return(p)
  /\ UNCHANGED <<table, nextpid, plock, wait_lock, cpuVars, insched>>

WaitGivesUp(c, p) ==
  /\ At(c, p, "scan")
  /\ ToScan(p) = {}
  /\ Children(p) = {} \/ killed[p]
  /\ wait_lock' = None
  /\ Return(p)
  /\ UNCHANGED <<table, nextpid, plock, cpuVars, insched>>

\* Children, none a zombie, and not killed when wait() looks: call sleep().
WaitSleeps(c, p) ==
  /\ At(c, p, "scan")
  /\ ToScan(p) = {}
  /\ Children(p) # {}
  /\ ~killed[p]
  /\ Goto(p, "sleep")
  /\ UNCHANGED <<table, nextpid, plock, wait_lock, cpuVars, insched, scan, arg>>

\* sleep(p, &wait_lock) up to swtch(): p->lock is taken before wait_lock is released.
SleepKeepsWaitLock(c, p) ==
  /\ At(c, p, "sleep")
  /\ plock[p] = None
  /\ plock' = [plock EXCEPT ![p] = c]
  /\ chan' = [chan EXCEPT ![p] = p]
  /\ state' = [state EXCEPT ![p] = "SLEEPING"]
  /\ Goto(p, "asleep")
  /\ sched(c, p)
  /\ UNCHANGED <<wait_lock, killed, pid, parent, nextpid, scan, arg>>

Sleep(c, p) ==
  /\ At(c, p, "sleep")
  /\ plock[p] = None
  /\ plock' = [plock EXCEPT ![p] = c]
  /\ wait_lock' = None
  /\ chan' = [chan EXCEPT ![p] = p]
  /\ state' = [state EXCEPT ![p] = "SLEEPING"]
  /\ Goto(p, "asleep")
  /\ sched(c, p)
  /\ UNCHANGED <<killed, pid, parent, nextpid, scan, arg>>

-----------------------------------------------------------------------------
(* kill(): one slot of its scan, whatever the slot's state, or no match.   *)

KillMiss(c, p) ==
  LET q == scan[p] IN
  /\ At(c, p, "kill")
  /\ q < NPROC
  /\ plock[q] = None
  /\ pid[q] # arg[p]
  /\ scan' = [scan EXCEPT ![p] = q + 1]
  /\ UNCHANGED <<table, nextpid, plock, wait_lock, cpuVars, pc, insched, arg>>

KillHit(c, p) ==
  LET q == scan[p] IN
  /\ At(c, p, "kill")
  /\ q < NPROC
  /\ plock[q] = None
  /\ pid[q] = arg[p]
  /\ killed' = [killed EXCEPT ![q] = TRUE]
  /\ state' = [state EXCEPT ![q] = IF @ = "SLEEPING" THEN "RUNNABLE" ELSE @]
  /\ Return(p)
  /\ UNCHANGED <<chan, pid, parent, nextpid, plock, wait_lock, cpuVars, insched>>

KillNone(c, p) ==
  /\ At(c, p, "kill")
  /\ scan[p] = NPROC
  /\ Return(p)
  /\ UNCHANGED <<table, nextpid, plock, wait_lock, cpuVars, insched>>

-----------------------------------------------------------------------------
\* What a user program decides to do.
UserStep(c, p) ==
  \/ SysFork(c, p)
  \/ SysWait(c, p)
  \/ SysExit(c, p)
  \/ SysKill(c, p)
  \/ UsertrapFault(c, p)

\* The kernel's own next step in the thread of p.
KernelStep(c, p) ==
  \/ UsertrapKilled(c, p)
  \/ Usertrapret(c, p)
  \/ AllocBusy(c, p)
  \/ AllocFull(c, p)
  \/ AllocFound(c, p)
  \/ AllocNoMem(c, p)
  \/ ForkSetParent(c, p)
  \/ ForkSetRunnable(c, p)
  \/ ExitPanic(c, p)
  \/ ExitLock(c, p)
  \/ ReparentChild(c, p)
  \/ ReparentWakeup(c, p)
  \/ ReparentDone(c, p)
  \/ ExitWakeup(c, p)
  \/ ExitZombie(c, p)
  \/ WaitLock(c, p)
  \/ \E np \in Slot : \/ WaitChildLives(c, p, np)
                      \/ WaitReap(c, p, np)
                      \/ WaitCopyoutFails(c, p, np)
  \/ WaitGivesUp(c, p)
  \/ WaitSleeps(c, p)
  \/ Sleep(c, p)
  \/ KillMiss(c, p)
  \/ KillHit(c, p)
  \/ KillNone(c, p)

Scheduler(c) == ScanSlot(c) \/ SchedBack(c)
Tick(c, p)   == UserTick(c, p) \/ KernelTick(c, p)

Next ==
  \E c \in CPU :
    \/ Scheduler(c)
    \/ \E p \in Slot : Resume(c, p) \/ Tick(c, p) \/ UserStep(c, p) \/ KernelStep(c, p)

Spec == Init /\ [][Next]_vars

(***************************************************************************)
(* FAIRNESS.  Each CPU goes on: its scheduler, the switch into a process,  *)
(* and the timer that takes user mode away from a process (CpuFair).  The  *)
(* kernel code of a process is not held up for ever by a spinlock that     *)
(* keeps becoming free (KernelFair), nor by a timer that interrupts it     *)
(* again and again before it has done anything (TimerFair): acquire()      *)
(* turns interrupts off before it spins.  Nothing is assumed of user       *)
(* programs: they need never trap by themselves.                           *)
(***************************************************************************)
CpuFair ==
  \A c \in CPU :
    SF_vars(Scheduler(c) \/ \E p \in Slot : Resume(c, p) \/ UserTick(c, p))
KernelFair ==
  \A p \in Slot : SF_vars(\E c \in CPU : KernelStep(c, p))
TimerFair ==
  \A p \in Slot :
    []<><<\E c \in CPU : KernelTick(c, p)>>_vars =>
      []<><<\E c \in CPU : KernelStep(c, p)>>_vars

FairSpec == Spec /\ CpuFair /\ KernelFair /\ TimerFair

-----------------------------------------------------------------------------
(* Safety.                                                                 *)

\* A process's kernel stack is in use by one CPU at most, and as long as it is,
\* the slot is neither RUNNABLE for another CPU's scheduler() to pick nor free
\* for fork() to take, unless p->lock still keeps them out (proc.c:464-477).
StackExclusive ==
  \A c \in CPU : cproc[c] # None =>
    /\ \A d \in CPU \ {c} : cproc[d] # cproc[c]
    /\ \/ spc[c] = "run" /\ state[cproc[c]] = "RUNNING"
       \/ spc[c] = "back" /\ plock[cproc[c]] = c

\* None of the panics of sched() can happen: a thread that gives up its CPU holds
\* its p->lock, holds no other lock (noff is 1) and is not RUNNING (proc.c:495-500).
SchedEntry ==
  \A c \in CPU : spc[c] = "back" =>
    /\ {q \in Slot : plock[q] = c} = {cproc[c]}
    /\ wait_lock # c
    /\ state[cproc[c]] # "RUNNING"

\* The threads whose next release() is of wait_lock.
HoldsWaitLock(p) == pc[p] \in {"scan", "sleep"} \cup InExit

\* release() is only called by the CPU that holds the lock, also when the thread
\* has slept on one CPU and wakes on another (proc.c:528, 568, 517; 389, 436, 556).
ReleaseHolds ==
  \A c \in CPU : spc[c] = "run" =>
    /\ insched[cproc[c]] => plock[cproc[c]] = c
    /\ HoldsWaitLock(cproc[c]) => wait_lock = c

\* wait_lock "must be acquired before any p->lock" (proc.c:26): a CPU about to take
\* wait_lock holds no p->lock.
LockOrder ==
  \A c \in CPU, p \in Slot :
    At(c, p, "wait") \/ At(c, p, "exit") \/ At(c, p, "setparent") => HoldsNone(c)

\* A parent asleep in wait() has no zombie child, except a child just inherited by
\* init whose wakeup(initproc) has still to reach init's slot; and a wakeup of its
\* channel finds it (proc.c:23-26, 379-389, 441, 548-553).
NoLostWakeup ==
  \A p \in Slot : state[p] = "SLEEPING" =>
    /\ chan[p] = p
    /\ \A q \in Children(p) : state[q] = "ZOMBIE" =>
         \E r \in Slot : p = initproc /\ pc[r] = "rwake" /\ scan[r] <= p

\* The parent of a process in use is in use and has not exited: it can still
\* wait() for it.  A process being given away by exit() is the one exception
\* while wait_lock is held (proc.c:336-349, 376-389).
ParentsLive ==
  \A q \in Slot \ {initproc} :
    /\ state[q] \in {"SLEEPING", "RUNNABLE", "RUNNING", "ZOMBIE"} => parent[q] # None
    /\ parent[q] # None => state[parent[q]] \in {"SLEEPING", "RUNNABLE", "RUNNING"}

\* A slot that allocproc() has taken but that cannot run yet (USED) belongs to
\* exactly one fork() still at work: none leaks (proc.c:119-121, 300-331).
NoSlotLeak ==
  \A q \in Slot : state[q] = "USED" =>
    \E p \in Slot : \A r \in Slot : (pc[r] \in InFork /\ arg[r] = q) <=> r = p

\* Two slots in use never have the same pid, so kill() and wait() name one process.
PidUnique ==
  \A p, q \in Slot : state[p] # "UNUSED" /\ state[q] # "UNUSED" /\ pid[p] = pid[q] => p = q

-----------------------------------------------------------------------------
(* Proc implements ProcTree.  exit() happens, for the rest of the system,  *)
(* when it gets wait_lock: from then on nobody can see the process alive,  *)
(* nor its children as its own.  fork() happens when the parent is set.    *)

Exiting(p) == pc[p] \in InExit /\ state[p] # "UNUSED"

LifeBar ==
  [p \in Slot |->
     CASE state[p] = "UNUSED" -> "free"
       [] state[p] = "USED" /\ parent[p] = None -> "free"
       [] state[p] = "ZOMBIE" \/ Exiting(p) -> "zombie"
       [] OTHER -> "live"]
UpBar ==
  [p \in Slot |->
     IF parent[p] # None /\ Exiting(parent[p]) THEN initproc ELSE parent[p]]

Tree == INSTANCE ProcTree WITH life <- LifeBar, up <- UpBar

\* Refinement: fork, exit and wait are atomic operations on the process tree.
TreeSpec == Tree!Spec

-----------------------------------------------------------------------------
(* Liveness, under FairSpec.                                               *)

\* panic() spins for ever: the machine has stopped, and nothing more is promised.
Panicked == pc[initproc] = "panic"

\* A wait() whose caller has a zombie child returns: the exit's wakeup is not
\* lost and the caller gets to run and scan again (proc.c:399-443).
WaitReturns ==
  \A p, q \in Slot :
    pc[p] \in InWait /\ parent[q] = p /\ state[q] = "ZOMBIE" ~> pc[p] \notin InWait \/ Panicked

\* exit() gets through its locks, its reparenting and its wakeups (proc.c:355-394).
ExitCompletes ==
  \A p \in Slot \ {initproc} : pc[p] = "exit" ~> state[p] = "ZOMBIE" \/ Panicked

\* Every RUNNABLE process runs: the schedulers' scans pass no one over for ever
\* (proc.c:459-479).
RunnableRuns ==
  \A p \in Slot : state[p] = "RUNNABLE" ~> state[p] = "RUNNING" \/ Panicked

\* A killed process exits, unless it is or comes to be inside wait()
\* (proc.c:590-612, trap.c:56-57, 76-77).
KilledExits ==
  \A p \in Slot \ {initproc} :
    killed[p] /\ state[p] \in {"RUNNABLE", "RUNNING"}
      ~> state[p] = "ZOMBIE" \/ pc[p] \in InWait \/ Panicked

-----------------------------------------------------------------------------
\* "int killed; // If non-zero, have been killed" (proc.h:92): nobody has killed a
\* process that fork() is only now creating, so it is not born with killed set.
BornUnkilled ==
  [][\A q \in Slot : state[q] = "UNUSED" /\ state'[q] = "USED" => ~killed'[q]]_vars
=============================================================================
