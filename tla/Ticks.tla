------------------------------- MODULE Ticks -------------------------------
(***************************************************************************)
(* sleep(n) (Lab_traps/sysproc.c, sys_sleep): processes that wait for the  *)
(* clock interrupt (trap.c, clockintr) to have counted n ticks, under      *)
(* tickslock, and may be killed meanwhile.                                 *)
(*                                                                         *)
(* GRAIN.  A process holds tickslock over several steps, and so does the   *)
(* clock interrupt, which wakes the sleepers slot by slot.  A p->lock is   *)
(* held within a step only: sleep() takes it before it releases tickslock. *)
(* Which RUNNABLE process has a CPU is left open (module Proc).            *)
(***************************************************************************)
EXTENDS Integers

CONSTANTS
  NPROC,     \* slots of the process table
  TickMod,   \* 2^32, the modulus of the uints ticks and ticks0
  Args,      \* the arguments of sleep()
  MaxLate,   \* BOUND: a process that is awake runs before so many more ticks
  None, Clock

Slot == 0 .. NPROC - 1

\* An argument is an int, half of the modulus each way.
ASSUME TicksAssumption ==
  /\ NPROC \in Nat \ {0}
  /\ TickMod \in Nat \ {0}
  /\ \A k \in Args : k \in Int /\ -TickMod <= 2 * k /\ 2 * k < TickMod
  /\ MaxLate \in Nat \ {0}
  /\ None \notin Slot /\ Clock \notin Slot /\ None # Clock

\* Nobody is kept from its CPU until ticks has come round again.
ASSUME LateAssumption == \A k \in Args \cup {0} : k + MaxLate < TickMod

VARIABLES
  ticks, tickslock,       \* tickslock: who holds it
  state, killed,          \* of the processes
  pc, n, ticks0, result,  \* sys_sleep(): control, its variables, what it returns
  scan, interrupted,      \* wakeup() of the clock: slot; the process it interrupted
  elapsed, late           \* history: ticks since ticks0 was read; since p was woken

global == <<ticks, tickslock>>
table  == <<state, killed>>
call   == <<n, ticks0, result>>
clock  == <<scan, interrupted>>
history == <<elapsed, late>>
vars   == <<global, table, pc, call, clock, history>>

\* BOUND: the history counts up to this.
MaxElapsed == TickMod

TypeOK ==
  /\ ticks \in 0 .. TickMod - 1
  /\ tickslock \in Slot \cup {None, Clock}
  /\ state \in [Slot -> {"RUNNABLE", "SLEEPING"}]
  /\ killed \in [Slot -> BOOLEAN]
  /\ pc \in [Slot -> {"user", "acquire", "loop", "sleep", "asleep", "return"}]
  /\ n \in [Slot -> Args \cup {0}]
  /\ ticks0 \in [Slot -> 0 .. TickMod - 1]
  /\ result \in [Slot -> {0, -1}]
  /\ scan \in 0 .. NPROC
  /\ interrupted \in Slot \cup {None}
  /\ elapsed \in [Slot -> 0 .. MaxElapsed]
  /\ late \in [Slot -> 0 .. MaxLate]

Init ==
  /\ ticks = 0 /\ tickslock = None
  /\ state = [p \in Slot |-> "RUNNABLE"]
  /\ killed = [p \in Slot |-> FALSE]
  /\ pc = [p \in Slot |-> "user"]
  /\ n = [p \in Slot |-> 0] /\ ticks0 = [p \in Slot |-> 0] /\ result = [p \in Slot |-> 0]
  /\ scan = 0 /\ interrupted = None
  /\ elapsed = [p \in Slot |-> 0] /\ late = [p \in Slot |-> 0]

-----------------------------------------------------------------------------
(* sys_sleep()                                                             *)

\* p goes on from one point of its code to another.
Goto(p, from, to) ==
  /\ state[p] = "RUNNABLE" /\ interrupted # p
  /\ pc[p] = from
  /\ pc' = [pc EXCEPT ![p] = to]

SysSleep(p, k) ==
  /\ Goto(p, "user", "acquire")
  /\ n' = [n EXCEPT ![p] = k]
  /\ UNCHANGED <<global, table, ticks0, result, clock, history>>

ReadTicks0(p) ==
  /\ Goto(p, "acquire", "loop")
  /\ tickslock = None
  /\ tickslock' = p
  /\ ticks0' = [ticks0 EXCEPT ![p] = ticks]
  /\ UNCHANGED <<ticks, table, n, result, clock, history>>

\* ~(ticks - ticks0 < n): the difference of two uints, and n made a uint.
TimeUpAfterDeadline(p) == ticks >= (ticks0[p] + n[p]) % TickMod
TimeUp(p) == (ticks - ticks0[p]) % TickMod >= n[p] % TickMod

\* release(&tickslock) and return; ticks0 is dead from here.
Return(p, v) ==
  /\ Goto(p, "loop", "return")
  /\ tickslock' = None
  /\ result' = [result EXCEPT ![p] = v]
  /\ ticks0' = [ticks0 EXCEPT ![p] = 0]
  /\ UNCHANGED <<ticks, table, n, clock, history>>

SleepDone(p)   == TimeUp(p) /\ Return(p, 0)
SleepKilled(p) == ~TimeUp(p) /\ killed[p] /\ Return(p, -1)

\* p->killed is read without p->lock: kill() may come before Sleep(p).
SleepMoreThoughKilled(p) ==
  /\ ~TimeUp(p)
  /\ Goto(p, "loop", "sleep")
  /\ UNCHANGED <<global, table, call, clock, history>>

SleepMore(p) ==
  /\ ~TimeUp(p)
  /\ ~killed[p]
  /\ Goto(p, "loop", "sleep")
  /\ UNCHANGED <<global, table, call, clock, history>>

\* sleep(&ticks, &tickslock): up to sched() ...
Sleep(p) ==
  /\ Goto(p, "sleep", "asleep")
  /\ state' = [state EXCEPT ![p] = "SLEEPING"]
  /\ tickslock' = None
  /\ UNCHANGED <<ticks, killed, call, clock, history>>

\* ... and after it.
Wake(p) ==
  /\ Goto(p, "asleep", "loop")
  /\ tickslock = None
  /\ tickslock' = p
  /\ late' = [late EXCEPT ![p] = 0]
  /\ UNCHANGED <<ticks, table, call, clock, elapsed>>

\* Back in user mode.  A killed process exits at once, and a new one may get its slot.
Leave(p) ==
  /\ Goto(p, "return", "user")
  /\ killed' = [killed EXCEPT ![p] = FALSE]
  /\ n' = [n EXCEPT ![p] = 0]
  /\ result' = [result EXCEPT ![p] = 0]
  /\ elapsed' = [elapsed EXCEPT ![p] = 0]
  /\ UNCHANGED <<global, state, ticks0, clock, late>>

\* kill() of the process in slot p, by another process.  In user mode it would exit and
\* not call sleep() any more.
Kill(p) ==
  /\ pc[p] # "user"
  /\ killed' = [killed EXCEPT ![p] = TRUE]
  /\ state' = [state EXCEPT ![p] = "RUNNABLE"]
  /\ UNCHANGED <<global, pc, call, clock, history>>

-----------------------------------------------------------------------------
(* clockintr()                                                             *)

Counting(p) == pc[p] \in {"loop", "sleep", "asleep"}
Awake(p)    == pc[p] = "asleep" /\ state[p] = "RUNNABLE"
Up(k, max)  == IF k < max THEN k + 1 ELSE max

\* The interrupt comes while CPU 0 runs process p, or none, and takes tickslock.
ClockEntry(p) ==
  /\ tickslock = None
  /\ p # None => state[p] = "RUNNABLE"
  /\ \A q \in Slot : Awake(q) => late[q] < MaxLate
  /\ tickslock' = Clock
  /\ scan' = 0
  /\ interrupted' = p
  /\ elapsed' = [q \in Slot |-> IF Counting(q) THEN Up(elapsed[q], MaxElapsed) ELSE elapsed[q]]
  /\ late' = [q \in Slot |-> IF Awake(q) THEN late[q] + 1 ELSE late[q]]
  /\ UNCHANGED <<table, pc, call>>

ClockTickSaturates(p) == ClockEntry(p) /\ ticks' = Up(ticks, TickMod - 1)
ClockTick(p)          == ClockEntry(p) /\ ticks' = (ticks + 1) % TickMod

\* wakeup(&ticks), one slot: all sleepers, but never the interrupted process.
WakeupFirst ==
  /\ tickslock = Clock
  /\ scan < NPROC
  /\ IF scan # interrupted /\ state[scan] = "SLEEPING"
     THEN state' = [state EXCEPT ![scan] = "RUNNABLE"] /\ scan' = NPROC
     ELSE scan' = scan + 1 /\ UNCHANGED state
  /\ UNCHANGED <<global, killed, pc, call, interrupted, history>>

WakeupSlot ==
  /\ tickslock = Clock
  /\ scan < NPROC
  /\ state' = [state EXCEPT ![scan] = IF scan # interrupted THEN "RUNNABLE" ELSE @]
  /\ scan' = scan + 1
  /\ UNCHANGED <<global, killed, pc, call, interrupted, history>>

ClockDone ==
  /\ tickslock = Clock
  /\ scan = NPROC
  /\ tickslock' = None
  /\ scan' = 0 /\ interrupted' = None
  /\ UNCHANGED <<ticks, table, pc, call, history>>

-----------------------------------------------------------------------------
KernelStep(p) ==
  \/ ReadTicks0(p)
  \/ SleepDone(p)
  \/ SleepKilled(p)
  \/ SleepMore(p)
  \/ Sleep(p)
  \/ Wake(p)
  \/ Leave(p)

ClockStep ==
  \/ \E p \in Slot \cup {None} : ClockTick(p)
  \/ WakeupSlot
  \/ ClockDone

Next ==
  \/ \E p \in Slot : \/ \E k \in Args : SysSleep(p, k)
                     \/ Kill(p)
                     \/ KernelStep(p)
  \/ ClockStep

Spec == Init /\ [][Next]_vars

\* The clock goes on, and a process in the kernel runs and gets tickslock.
FairSpec == Spec /\ SF_vars(ClockStep) /\ \A p \in Slot : SF_vars(KernelStep(p))

-----------------------------------------------------------------------------
\* sleep(n) returns 0 after n ticks, n taken as a uint, and if n is not negative then no
\* later than the process can run, also when ticks passes through 0 meanwhile; it returns
\* -1 before that, and only to a killed process (sysproc.c:66-77).
ReturnsOnTime ==
  \A p \in Slot : pc[p] = "return" =>
    IF result[p] = 0
    THEN /\ elapsed[p] >= n[p] % TickMod
         /\ n[p] >= 0 => elapsed[p] <= n[p] + MaxLate
    ELSE killed[p] /\ (n[p] >= 0 => elapsed[p] < n[p])

\* Nobody sleeps whose time is up, but for the slots that the clock interrupt has still
\* to look at: no tick falls between a process' look at ticks and its sleep, and the
\* process that wakeup() leaves out does not sleep (sysproc.c:69-74; trap.c:174-177;
\* proc.c:552-562, 579).
NoOversleep ==
  \A p \in Slot : state[p] = "SLEEPING" =>
    \/ ~TimeUp(p)
    \/ tickslock = Clock /\ scan <= p /\ interrupted # p

\* A killed process leaves sleep(), however long it wanted to sleep, also when kill()
\* comes between its look at p->killed and its sleep (sysproc.c:70-74; proc.c:601-605).
KilledReturns == \A p \in Slot : killed[p] /\ pc[p] # "user" ~> pc[p] = "user"

\* sleep(n) ends (for n < 0 the code promises nothing: n is then close to 2^32).
SleepEnds == \A p \in Slot : pc[p] # "user" /\ n[p] >= 0 ~> pc[p] = "user"
=============================================================================
