------------------------------- MODULE Alarm -------------------------------
(***************************************************************************)
(* sigalarm() and sigreturn() (Lab_traps/sysproc.c) and the timer branch   *)
(* of usertrap() (Lab_traps/trap.c), for one process: the user program     *)
(* runs, traps, and is sent to its alarm handler and back.  The fields are *)
(* only used by the process itself, so one process shows all there is.     *)
(*                                                                         *)
(* trapframe holds the user registers: where the program is (epc), the     *)
(* register of return values (a0), and all the others (s).  Traps taken in *)
(* the kernel, kerneltrap(), touch none of this and are left out.          *)
(***************************************************************************)
EXTENDS Integers

CONSTANTS
  Interval,   \* the first arguments user programs pass to sigalarm()
  MaxCalls,   \* BOUND: sigalarm() is called at most this often
  MaxLate     \* BOUND: ticks counted below zero while a handler runs

ASSUME AlarmAssumption ==
  /\ Interval \subseteq Int
  /\ MaxCalls \in Nat
  /\ MaxLate \in Nat \ {0}

MainPc    == {"main", "main2"}           \* instructions of the program
HandlerPc == {"handler", "handler2"}     \* and of its alarm handler
Frame     == [epc : MainPc \cup HandlerPc, a0 : {0, 1}, s : {0, 1}]

VARIABLES
  alarmticks, alarmremain,   \* fields of struct proc
  trapframe, original_trapframe,
  calls,                     \* sigalarm() calls so far (for MaxCalls)
  (* History, read by the properties only. *)
  since,                     \* user-mode ticks since the count was last started
  depth,                     \* handlers entered that have not returned
  rearmed,                   \* some handler has called sigalarm()
  interrupted                \* the registers the last alarm interrupted

alarm   == <<alarmticks, alarmremain>>
history == <<since, depth, rearmed, interrupted>>
vars    == <<alarm, trapframe, original_trapframe, calls, history>>

TypeOK ==
  /\ alarmticks \in Int
  /\ alarmremain \in Int
  /\ trapframe \in Frame
  /\ original_trapframe \in Frame
  /\ calls \in Nat
  /\ since \in Nat
  /\ depth \in Nat
  /\ rearmed \in BOOLEAN
  /\ interrupted \in Frame

\* allocproc() has cleared the alarm; original_trapframe is a fresh page, its
\* content whatever kalloc() left there.
Init ==
  /\ alarmticks = 0
  /\ alarmremain = 0
  /\ trapframe = [epc |-> "main", a0 |-> 0, s |-> 0]
  /\ original_trapframe \in Frame
  /\ calls = 0
  /\ since = 0
  /\ depth = 0
  /\ rearmed = FALSE
  /\ interrupted = trapframe

-----------------------------------------------------------------------------
InHandler == trapframe.epc \in HandlerPc

\* The instruction after l; the main program is a loop, the handler waits in sigreturn.
NextPc(l) == CASE l = "main"    -> "main2"
               [] l = "main2"   -> "main"
               [] l = "handler" -> "handler2"
               [] OTHER         -> l

\* The program executes an instruction, which may change any register.
UserInstruction ==
  /\ \E a, b \in {0, 1} :
       trapframe' = [epc |-> NextPc(trapframe.epc), a0 |-> a, s |-> b]
  /\ UNCHANGED <<alarm, original_trapframe, calls, history>>

\* usertrap() and syscall() around a system call that returns r: the program
\* continues after the ecall with r in a0, and the registers that f holds.
ReturnFrom(f, r) == trapframe' = [f EXCEPT !.a0 = r]

AfterEcall == [trapframe EXCEPT !.epc = NextPc(@)]

sys_sigalarmKeepsCount(n) ==
  /\ calls < MaxCalls
  /\ calls' = calls + 1
  /\ alarmticks' = n
  /\ ReturnFrom(AfterEcall, 0)
  /\ since' = 0
  /\ rearmed' = (rearmed \/ depth > 0)
  /\ UNCHANGED <<alarmremain, original_trapframe, depth, interrupted>>

sys_sigalarm(n) ==
  /\ calls < MaxCalls
  /\ calls' = calls + 1
  /\ alarmticks' = n
  /\ alarmremain' = n
  /\ ReturnFrom(AfterEcall, 0)
  /\ since' = 0
  /\ rearmed' = (rearmed \/ depth > 0)
  /\ UNCHANGED <<original_trapframe, depth, interrupted>>

\* sigreturn(), called at the end of the handler.  Its own return value, 0, goes
\* into a0 after the registers have been restored.
sys_sigreturnUncounted ==
  /\ trapframe.epc = "handler2"
  /\ ReturnFrom(original_trapframe, 0)
  /\ since' = 0
  /\ depth' = IF depth > 0 THEN depth - 1 ELSE 0
  /\ UNCHANGED <<alarm, original_trapframe, calls, rearmed, interrupted>>

sys_sigreturn ==
  /\ trapframe.epc = "handler2"
  /\ alarmremain' = alarmticks
  /\ ReturnFrom(original_trapframe, 0)
  /\ since' = 0
  /\ depth' = IF depth > 0 THEN depth - 1 ELSE 0
  /\ UNCHANGED <<alarmticks, original_trapframe, calls, rearmed, interrupted>>

\* The branch of usertrap() that starts the handler.
FireAndRestart ==
  /\ original_trapframe' = trapframe
  /\ trapframe' = [trapframe EXCEPT !.epc = "handler"]
  /\ alarmremain' = alarmticks
  /\ depth' = depth + 1
  /\ interrupted' = trapframe

FireUnsaved ==
  /\ trapframe' = [trapframe EXCEPT !.epc = "handler"]
  /\ alarmremain' = alarmremain - 1
  /\ depth' = depth + 1
  /\ interrupted' = trapframe
  /\ UNCHANGED original_trapframe

Fire ==
  /\ original_trapframe' = trapframe
  /\ trapframe' = [trapframe EXCEPT !.epc = "handler"]
  /\ alarmremain' = alarmremain - 1
  /\ depth' = depth + 1
  /\ interrupted' = trapframe

\* A timer interrupt in user mode, with an alarm set: start the handler if the count
\* is at zero, and count.
UserTick ==
  /\ alarmticks # 0
  /\ alarmremain > - MaxLate
  /\ \/ alarmremain = 0 /\ Fire
     \/ /\ alarmremain # 0
        /\ alarmremain' = alarmremain - 1
        /\ UNCHANGED <<trapframe, original_trapframe, depth, interrupted>>
  /\ since' = since + 1
  /\ UNCHANGED <<alarmticks, calls, rearmed>>

Next ==
  \/ UserInstruction
  \/ \E n \in Interval : sys_sigalarm(n)
  \/ sys_sigreturn
  \/ UserTick

Spec == Init /\ [][Next]_vars

\* The timer goes on interrupting user mode.
FairSpec == Spec /\ SF_vars(UserTick)

-----------------------------------------------------------------------------
\* While a handler runs the alarm does not interrupt it again, unless a handler has
\* itself called sigalarm() (trap.c:82-87, sysproc.c:126: the count starts again in
\* sigreturn() and not when the handler is entered).
NoReentry == depth > 1 => rearmed

\* sigreturn() gives the interrupted program back exactly the registers it had, but for
\* a0, which syscall() sets to 0 (trap.c:84, sysproc.c:127-128, syscall.c:144).
RestoresRegisters ==
  [][(depth = 1 /\ depth' = 0 /\ ~rearmed) => trapframe' = [interrupted EXCEPT !.a0 = 0]]_vars

\* An alarm of n ticks comes with the (n+1)-st tick in user mode after sigalarm() or
\* sigreturn(), neither earlier nor later (trap.c:81-88).
CountsTicks == [][depth' > depth => since' = alarmticks + 1]_vars

\* A program that has set an alarm of n > 0 ticks gets into its handler, each time anew.
AlarmComes == (alarmticks > 0 /\ ~InHandler) ~> (InHandler \/ alarmticks <= 0)

\* "Interval for the alarm" (proc.h:96): the handler is entered with tick number
\* alarmticks after the count was started.
FiresAtInterval == [][depth' > depth => since' = alarmticks]_vars
=============================================================================
