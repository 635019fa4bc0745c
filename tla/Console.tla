------------------------------ MODULE Console ------------------------------
(***************************************************************************)
(* The kernel's printf(), panic() and backtrace() (Lab_traps/printf.c), as *)
(* threads on several CPUs call them: lines on one console, pr.lock, which *)
(* panic() switches off for everybody, and the walk up a kernel stack.     *)
(*                                                                         *)
(* A line is LineLen characters, whatever they are: formatting is left     *)
(* out.  Each character put is a step, and so is each look at pr.          *)
(***************************************************************************)
EXTENDS Integers

CONSTANTS
  Thread,    \* kernel threads, each on a CPU of its own
  LineLen,   \* characters that one printf() writes
  PGSIZE,    \* size of a page, in units of the alignment of frames
  None       \* nobody

Top    == 2 * PGSIZE            \* end of the page that is a thread's kernel stack
Stack  == PGSIZE + 1 .. Top     \* where the frames on it can end

ASSUME ConsoleAssumption ==
  /\ LineLen \in Nat \ {0}
  /\ PGSIZE \in Nat /\ PGSIZE > 1
  /\ None \notin Thread

VARIABLES
  locking, lock, panicked,   \* pr.locking, the holder of pr.lock, panicked
  pc,         \* where each thread is
  ret,        \* where its call of printf() returns to
  took,       \* printf()'s own locking
  put,        \* characters put by its call of printf()
  panicking,  \* it is inside panic()
  frames,     \* ends of the frames on its stack: what fp points to, one after the other
  fp,         \* backtrace()'s fp
  shown       \* history: frames whose return address backtrace() has printed

pr   == <<locking, lock, panicked>>
call == <<ret, took, put>>
walk == <<frames, fp, shown>>
vars == <<pr, pc, call, panicking, walk>>

InPrintf == {"printf", "acquire", "put", "release"}
Return   == {"idle", "string", "newline", "backtrace", "frame"}

TypeOK ==
  /\ locking \in BOOLEAN
  /\ lock \in Thread \cup {None}
  /\ panicked \in BOOLEAN
  /\ pc \in [Thread -> InPrintf \cup Return \cup {"freeze", "halted"}]
  /\ ret \in [Thread -> Return]
  /\ took \in [Thread -> BOOLEAN]
  /\ put \in [Thread -> 0 .. LineLen]
  /\ panicking \in [Thread -> BOOLEAN]
  /\ frames \in [Thread -> SUBSET Stack]
  /\ fp \in [Thread -> 0 .. Top]
  /\ shown \in [Thread -> SUBSET Stack]

\* printfinit() has run.  The outermost frame ends where the stack does: usertrap() and
\* forkret() start with sp = kstack + PGSIZE.
Init ==
  /\ locking = TRUE /\ lock = None /\ panicked = FALSE
  /\ pc = [t \in Thread |-> "idle"]
  /\ ret = [t \in Thread |-> "idle"]
  /\ took = [t \in Thread |-> FALSE]
  /\ put = [t \in Thread |-> 0]
  /\ panicking = [t \in Thread |-> FALSE]
  /\ frames \in [Thread -> {F \in SUBSET Stack : Top \in F}]
  /\ fp = [t \in Thread |-> Top]
  /\ shown = [t \in Thread |-> {}]

Goto(t, from, to) == pc[t] = from /\ pc' = [pc EXCEPT ![t] = to]

-----------------------------------------------------------------------------
(* printf()                                                                *)

\* t calls printf(), to go on at r.
Printf(t, from, r) ==
  /\ Goto(t, from, "printf")
  /\ ret' = [ret EXCEPT ![t] = r]
  /\ put' = [put EXCEPT ![t] = 0]
  /\ UNCHANGED took

\* locking = pr.locking
ReadLockingLate(t) ==
  /\ Goto(t, "printf", "put")
  /\ took' = [took EXCEPT ![t] = locking]
  /\ UNCHANGED <<pr, ret, put, panicking, walk>>

ReadLocking(t) ==
  /\ Goto(t, "printf", IF locking THEN "acquire" ELSE "put")
  /\ took' = [took EXCEPT ![t] = locking]
  /\ UNCHANGED <<pr, ret, put, panicking, walk>>

Acquire(t) ==
  /\ Goto(t, "acquire", "put")
  /\ lock = None
  /\ lock' = t
  /\ UNCHANGED <<locking, panicked, call, panicking, walk>>

\* consputc(), which spins for ever once panicked is set.
Consputc(t) ==
  /\ pc[t] = "put"
  /\ put[t] < LineLen
  /\ ~panicked
  /\ put' = [put EXCEPT ![t] = @ + 1]
  /\ UNCHANGED <<pr, pc, ret, took, panicking, walk>>

EndPrintfRereads(t) ==
  /\ put[t] = LineLen
  /\ Goto(t, "put", IF locking THEN "release" ELSE ret[t])
  /\ UNCHANGED <<pr, call, panicking, walk>>

EndPrintf(t) ==
  /\ put[t] = LineLen
  /\ Goto(t, "put", IF took[t] THEN "release" ELSE ret[t])
  /\ UNCHANGED <<pr, call, panicking, walk>>

Release(t) ==
  /\ Goto(t, "release", ret[t])
  /\ lock' = None
  /\ UNCHANGED <<locking, panicked, call, panicking, walk>>

-----------------------------------------------------------------------------
(* backtrace()                                                             *)

\* syscall() prints a line, or sys_sleep() calls backtrace().
PrintLine(t) ==
  /\ Printf(t, "idle", "idle")
  /\ UNCHANGED <<pr, panicking, walk>>

\* r_fp() is the end of backtrace()'s own frame, the innermost one.
Backtrace(t, from) ==
  /\ Printf(t, from, "frame")
  /\ \E f \in frames[t] :
       /\ \A g \in frames[t] : f <= g
       /\ fp' = [fp EXCEPT ![t] = f]
  /\ shown' = [shown EXCEPT ![t] = {}]
  /\ UNCHANGED <<pr, panicking, frames>>

PGROUNDDOWN(a)     == (a \div PGSIZE) * PGSIZE
PGROUNDUPToNext(a) == (a \div PGSIZE + 1) * PGSIZE
PGROUNDUP(a)       == ((a + PGSIZE - 1) \div PGSIZE) * PGSIZE

OnPage(a) == a # 0 /\ a >= PGROUNDDOWN(a) /\ a < PGROUNDUP(a)

\* The frame of the caller: the next one above.
Caller(t, g) ==
  /\ g \in frames[t] /\ fp[t] < g
  /\ \A h \in frames[t] : fp[t] < h => g <= h

\* Print the return address of the frame at fp, and follow the fp saved in it.  Above
\* the outermost frame there is none: what is saved there is the user program's, anything.
BacktraceFrame(t) ==
  /\ OnPage(fp[t])
  /\ Printf(t, "frame", "frame")
  /\ shown' = [shown EXCEPT ![t] = @ \cup {fp[t]}]
  /\ \E g \in 0 .. Top :
       /\ fp[t] # Top => Caller(t, g)
       /\ fp' = [fp EXCEPT ![t] = g]
  /\ UNCHANGED <<pr, panicking, frames>>

\* The end of backtrace(); panic() then goes on to freeze the console.
BacktraceEnd(t) ==
  /\ ~OnPage(fp[t])
  /\ Goto(t, "frame", IF panicking[t] THEN "freeze" ELSE "idle")
  /\ UNCHANGED <<pr, call, panicking, walk>>

-----------------------------------------------------------------------------
(* panic()                                                                 *)

PanicFreezesFirst(t) ==
  /\ Printf(t, "idle", "string")
  /\ panicking' = [panicking EXCEPT ![t] = TRUE]
  /\ locking' = FALSE
  /\ panicked' = TRUE
  /\ UNCHANGED <<lock, walk>>

Panic(t) ==
  /\ Printf(t, "idle", "string")
  /\ panicking' = [panicking EXCEPT ![t] = TRUE]
  /\ locking' = FALSE
  /\ UNCHANGED <<lock, panicked, walk>>

PanicString(t)  == Printf(t, "string", "newline") /\ UNCHANGED <<pr, panicking, walk>>
PanicNewline(t) == Printf(t, "newline", "backtrace") /\ UNCHANGED <<pr, panicking, walk>>

Freeze(t) ==
  /\ Goto(t, "freeze", "halted")
  /\ panicked' = TRUE
  /\ UNCHANGED <<locking, lock, call, panicking, walk>>

-----------------------------------------------------------------------------
Call(t) == PrintLine(t) \/ Backtrace(t, "idle") \/ Panic(t)

Step(t) ==
  \/ ReadLocking(t)
  \/ Acquire(t)
  \/ Consputc(t)
  \/ EndPrintf(t)
  \/ Release(t)
  \/ BacktraceFrame(t)
  \/ BacktraceEnd(t)
  \/ PanicString(t)
  \/ PanicNewline(t)
  \/ Backtrace(t, "backtrace")
  \/ Freeze(t)

Next == \E t \in Thread : Call(t) \/ Step(t)

Spec == Init /\ [][Next]_vars

\* A thread in the kernel goes on, and gets pr.lock if it is free again and again.
FairSpec == Spec /\ \A t \in Thread : SF_vars(Step(t))

-----------------------------------------------------------------------------
Inside(t) == pc[t] = "put" /\ put[t] \in 1 .. LineLen - 1   \* in the middle of a line

\* Until somebody panics, no line is broken by another one (printf.c:20, 70-72, 113-114).
LinesWhole ==
  (\A t \in Thread : ~panicking[t]) =>
    \A t, u \in Thread : Inside(t) /\ Inside(u) => t = u

\* pr.lock is with the one thread that took it and will release it, although panic() may
\* clear pr.locking between its acquire() and its release() (printf.c:70-72, 113-114, 120).
LockMatches ==
  \A t \in Thread : lock = t <=> took[t] /\ pc[t] \in {"put", "release"}

\* backtrace() prints all return addresses up to the outermost frame, and none beyond the
\* stack's page (printf.c:140-147).
BacktraceComplete ==
  \A t \in Thread : pc[t] = "freeze" \/ (pc[t] = "frame" /\ ~OnPage(fp[t])) =>
    shown[t] = frames[t] \ {Top}

\* A panic is reported: some panicking thread gets its message and its backtrace out
\* before the console is frozen (printf.c:120-125).
PanicReports == (\E t \in Thread : panicking[t]) ~> \E t \in Thread : pc[t] = "halted"
=============================================================================
