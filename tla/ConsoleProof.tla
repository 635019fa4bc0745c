---------------------------- MODULE ConsoleProof ----------------------------
(* Theorems about Console, for any number of threads, any length of lines  *)
(* and any size of a page.                                                 *)
EXTENDS Console, TLAPS

\* The one page boundary that fp meets is the end of the stack's page.  The test at the
\* head of backtrace()'s loop stops there, and at no frame below (printf.c:143).
LEMMA OnPageBelowTop == ~OnPage(Top) /\ \A a \in Stack \ {Top} : OnPage(a)
<1>1. PGSIZE \in Nat /\ PGSIZE > 1
  BY ConsoleAssumption
<1>2. (Top + PGSIZE - 1) \div PGSIZE = 2
  BY <1>1 DEF Top
<1>3. ~OnPage(Top)
  BY <1>1, <1>2 DEF OnPage, PGROUNDUP, Top
<1>4. ASSUME NEW a \in Stack \ {Top} PROVE OnPage(a)
  <2>1. a \in Int /\ PGSIZE + 1 <= a /\ a <= 2 * PGSIZE - 1
    BY <1>1, <1>4 DEF Stack, Top
  <2>2. a \div PGSIZE = 1 /\ (a + PGSIZE - 1) \div PGSIZE = 2
    BY <1>1, <2>1
  <2> QED
    BY <1>1, <2>1, <2>2 DEF OnPage, PGROUNDUP, PGROUNDDOWN
<1> QED
  BY <1>3, <1>4

-----------------------------------------------------------------------------
\* fp is always the end of a frame, and in the middle of a backtrace the frames below it
\* have been shown.
Walking(t) == pc[t] = "frame" \/ (pc[t] \in InPrintf /\ ret[t] = "frame")
WalkInv ==
  \A t \in Thread :
    /\ fp[t] \in frames[t] /\ Top \in frames[t]
    /\ Walking(t) => shown[t] = {f \in frames[t] : f < fp[t]}
    /\ pc[t] = "freeze" => shown[t] = frames[t] \ {Top}

\* Only a panic switches pr.locking off, and who prints without pr.lock has seen it off.
LockInv ==
  /\ LockMatches
  /\ ~locking => \E t \in Thread : panicking[t]
  /\ \A t \in Thread :
       /\ pc[t] \in {"acquire", "release"} => took[t]
       /\ pc[t] = "put" /\ ~took[t] => \E u \in Thread : panicking[u]

IInv == TypeOK /\ WalkInv /\ LockInv

\* The invariant holds when nobody has printed yet.
LEMMA ConsoleInit == Init => IInv
<1> SUFFICES ASSUME Init PROVE IInv
  OBVIOUS
<1>1. Top \in Stack
  BY ConsoleAssumption DEF Top, Stack
<1>2. TypeOK
  <2>1. /\ put \in [Thread -> 0 .. LineLen] /\ fp \in [Thread -> 0 .. Top]
        /\ frames \in [Thread -> SUBSET Stack] /\ shown \in [Thread -> SUBSET Stack]
    BY <1>1, ConsoleAssumption DEF Init, Stack, Top
  <2> QED
    BY <2>1 DEF Init, TypeOK, Return, InPrintf
<1>3. WalkInv
  BY DEF Init, WalkInv, Walking, InPrintf
<1>4. LockInv
  BY ConsoleAssumption DEF Init, LockInv, LockMatches
<1> QED
  BY <1>2, <1>3, <1>4 DEF IInv

\* Every step keeps the types.
LEMMA TypeStep == IInv /\ [Next]_vars => TypeOK'
<1> SUFFICES ASSUME IInv, [Next]_vars PROVE TypeOK'
  OBVIOUS
<1> USE ConsoleAssumption DEF IInv, TypeOK, Return, InPrintf, pr, call, walk, Goto
<1>1. CASE UNCHANGED vars
  BY <1>1 DEF vars
<1>2. ASSUME NEW t \in Thread, Call(t) \/ Step(t) PROVE TypeOK'
  <2>1. CASE PrintLine(t)
    BY <2>1 DEF PrintLine, Printf
  <2>2. ASSUME NEW from \in {"idle", "backtrace"}, Backtrace(t, from) PROVE TypeOK'
    <3>1. PICK f \in frames[t] : (\A g \in frames[t] : f <= g) /\ fp' = [fp EXCEPT ![t] = f]
      BY <2>2 DEF Backtrace
    <3>2. f \in 0 .. Top
      BY <3>1 DEF Stack, Top
    <3> QED
      BY <2>2, <3>1, <3>2 DEF Backtrace, Printf
  <2>3. CASE Panic(t)
    <3>1. panicking' \in [Thread -> BOOLEAN] /\ locking' \in BOOLEAN
      BY <2>3 DEF Panic
    <3> QED
      BY <2>3, <3>1 DEF Panic, Printf
  <2>4. CASE ReadLocking(t)
    BY <2>4 DEF ReadLocking
  <2>5. CASE Acquire(t)
    BY <2>5 DEF Acquire
  <2>6. CASE Consputc(t)
    BY <2>6 DEF Consputc
  <2>7. CASE EndPrintf(t)
    BY <2>7 DEF EndPrintf
  <2>8. CASE Release(t)
    BY <2>8 DEF Release
  <2>9. CASE BacktraceFrame(t)
    <3>1. fp[t] \in Stack \ {Top}
      BY <2>9, OnPageBelowTop DEF BacktraceFrame, WalkInv
    <3>2. PICK g \in 0 .. Top : Caller(t, g) /\ fp' = [fp EXCEPT ![t] = g]
      BY <2>9, <3>1 DEF BacktraceFrame
    <3> QED
      BY <2>9, <3>1, <3>2 DEF BacktraceFrame, Printf
  <2>10. CASE BacktraceEnd(t)
    BY <2>10 DEF BacktraceEnd
  <2>11. CASE PanicString(t)
    BY <2>11 DEF PanicString, Printf
  <2>12. CASE PanicNewline(t)
    BY <2>12 DEF PanicNewline, Printf
  <2>13. CASE Freeze(t)
    BY <2>13 DEF Freeze
  <2> QED
    BY <1>2, <2>1, <2>2, <2>3, <2>4, <2>5, <2>6, <2>7, <2>8, <2>9, <2>10, <2>11, <2>12,
       <2>13 DEF Call, Step
<1> QED
  BY <1>1, <1>2 DEF Next

\* Every step of backtrace() shows the frame it leaves.
LEMMA WalkStep == IInv /\ [Next]_vars => WalkInv'
<1> SUFFICES ASSUME IInv, [Next]_vars PROVE WalkInv'
  OBVIOUS
<1> USE ConsoleAssumption DEF IInv, TypeOK, WalkInv, Walking, Return, InPrintf, pr, call, walk, Goto
<1>1. CASE UNCHANGED vars
  BY <1>1 DEF vars
<1>2. ASSUME NEW t \in Thread, Call(t) \/ Step(t) PROVE WalkInv'
  <2>1. CASE PrintLine(t)
    BY <2>1 DEF PrintLine, Printf
  <2>2. ASSUME NEW from \in {"idle", "backtrace"}, Backtrace(t, from) PROVE WalkInv'
    <3>1. PICK f \in frames[t] : (\A g \in frames[t] : f <= g) /\ fp' = [fp EXCEPT ![t] = f]
      BY <2>2 DEF Backtrace
    <3>2. {g \in frames[t] : g < f} = {}
      BY <3>1 DEF Stack, Top
    <3> QED
      BY <2>2, <3>1, <3>2 DEF Backtrace, Printf
  <2>3. CASE Panic(t)
    BY <2>3 DEF Panic, Printf
  <2>4. CASE ReadLocking(t)
    BY <2>4 DEF ReadLocking
  <2>5. CASE Acquire(t)
    BY <2>5 DEF Acquire
  <2>6. CASE Consputc(t)
    BY <2>6 DEF Consputc
  <2>7. CASE EndPrintf(t)
    BY <2>7 DEF EndPrintf
  <2>8. CASE Release(t)
    BY <2>8 DEF Release
  <2>9. CASE BacktraceFrame(t)
    <3>1. fp[t] \in Stack \ {Top}
      BY <2>9, OnPageBelowTop DEF BacktraceFrame, WalkInv
    <3>2. PICK g \in 0 .. Top : Caller(t, g) /\ fp' = [fp EXCEPT ![t] = g]
      BY <2>9, <3>1 DEF BacktraceFrame
    <3>3. {f \in frames[t] : f < g} = {f \in frames[t] : f < fp[t]} \cup {fp[t]}
      BY <3>1, <3>2 DEF Caller, Stack, Top
    <3> QED
      BY <2>9, <3>1, <3>2, <3>3 DEF BacktraceFrame, Printf, Caller
  <2>10. CASE BacktraceEnd(t)
    <3>1. fp[t] = Top
      BY <2>10, OnPageBelowTop DEF BacktraceEnd
    <3>2. {f \in frames[t] : f < Top} = frames[t] \ {Top}
      BY DEF Stack, Top
    <3> QED
      BY <2>10, <3>1, <3>2 DEF BacktraceEnd
  <2>11. CASE PanicString(t)
    BY <2>11 DEF PanicString, Printf
  <2>12. CASE PanicNewline(t)
    BY <2>12 DEF PanicNewline, Printf
  <2>13. CASE Freeze(t)
    BY <2>13 DEF Freeze
  <2> QED
    BY <1>2, <2>1, <2>2, <2>3, <2>4, <2>5, <2>6, <2>7, <2>8, <2>9, <2>10, <2>11, <2>12,
       <2>13 DEF Call, Step
<1> QED
  BY <1>1, <1>2 DEF Next

\* Every step keeps pr.lock and pr.locking in order.
LEMMA LockStep == IInv /\ [Next]_vars => LockInv'
<1> SUFFICES ASSUME IInv, [Next]_vars PROVE LockInv'
  OBVIOUS
<1> USE ConsoleAssumption DEF IInv, TypeOK, LockInv, LockMatches, Return, InPrintf, pr, call, walk, Goto
<1>1. CASE UNCHANGED vars
  BY <1>1 DEF vars
<1>2. ASSUME NEW t \in Thread, Call(t) \/ Step(t) PROVE LockInv'
  <2>1. CASE PrintLine(t)
    BY <2>1 DEF PrintLine, Printf
  <2>2. ASSUME NEW from \in {"idle", "backtrace"}, Backtrace(t, from) PROVE LockInv'
    BY <2>2 DEF Backtrace, Printf
  <2>3. CASE Panic(t)
    BY <2>3 DEF Panic, Printf
  <2>4. CASE ReadLocking(t)
    BY <2>4 DEF ReadLocking
  <2>5. CASE Acquire(t)
    BY <2>5 DEF Acquire
  <2>6. CASE Consputc(t)
    BY <2>6 DEF Consputc
  <2>7. CASE EndPrintf(t)
    BY <2>7 DEF EndPrintf
  <2>8. CASE Release(t)
    BY <2>8 DEF Release
  <2>9. CASE BacktraceFrame(t)
    BY <2>9 DEF BacktraceFrame, Printf
  <2>10. CASE BacktraceEnd(t)
    BY <2>10 DEF BacktraceEnd
  <2>11. CASE PanicString(t)
    BY <2>11 DEF PanicString, Printf
  <2>12. CASE PanicNewline(t)
    BY <2>12 DEF PanicNewline, Printf
  <2>13. CASE Freeze(t)
    BY <2>13 DEF Freeze
  <2> QED
    BY <1>2, <2>1, <2>2, <2>3, <2>4, <2>5, <2>6, <2>7, <2>8, <2>9, <2>10, <2>11, <2>12,
       <2>13 DEF Call, Step
<1> QED
  BY <1>1, <1>2 DEF Next

\* Where each backtrace() is, and who holds pr.lock or prints without it.
THEOREM ConsoleCorrect == Spec => []IInv
<1>1. IInv /\ [Next]_vars => IInv'
  BY TypeStep, WalkStep, LockStep DEF IInv
<1> QED
  BY <1>1, ConsoleInit, PTL DEF Spec

-----------------------------------------------------------------------------
\* Until somebody panics, no line is broken by another one.
THEOREM LinesWholeCorrect == Spec => []LinesWhole
<1>1. IInv => LinesWhole
  BY DEF IInv, LockInv, LockMatches, LinesWhole, Inside
<1> QED
  BY <1>1, ConsoleCorrect, PTL

\* pr.lock is with the one thread that took it and will release it.
THEOREM LockMatchesCorrect == Spec => []LockMatches
<1>1. IInv => LockMatches
  BY DEF IInv, LockInv
<1> QED
  BY <1>1, ConsoleCorrect, PTL

\* backtrace() shows every frame of the stack and nothing outside it.
THEOREM BacktraceCompleteCorrect == Spec => []BacktraceComplete
<1>1. IInv => BacktraceComplete
  <2> SUFFICES ASSUME IInv, NEW t \in Thread, pc[t] = "frame", ~OnPage(fp[t])
               PROVE  shown[t] = frames[t] \ {Top}
    BY DEF IInv, WalkInv, BacktraceComplete
  <2>1. fp[t] = Top
    BY OnPageBelowTop DEF IInv, TypeOK, WalkInv
  <2>2. {f \in frames[t] : f < Top} = frames[t] \ {Top}
    BY ConsoleAssumption DEF IInv, TypeOK, Stack, Top
  <2> QED
    BY <2>1, <2>2 DEF IInv, WalkInv, Walking
<1> QED
  BY <1>1, ConsoleCorrect, PTL

\* The next frame that backtrace() goes to is one of the thread's, and further up.
BacktraceClimbs ==
  \A t \in Thread : BacktraceFrame(t) => fp'[t] \in frames[t] /\ fp[t] < fp'[t]

\* backtrace() ends: each turn of its loop goes up to another frame of the same stack, and never
\* follows what lies above the outermost one (printf.c:143-146).
THEOREM BacktraceClimbsCorrect == Spec => [][BacktraceClimbs]_vars
<1>1. IInv => BacktraceClimbs
  <2> SUFFICES ASSUME IInv, NEW t \in Thread, BacktraceFrame(t)
               PROVE  fp'[t] \in frames[t] /\ fp[t] < fp'[t]
    BY DEF BacktraceClimbs
  <2>1. OnPage(fp[t])
    BY DEF BacktraceFrame
  <2>2. fp[t] # Top
    BY <2>1, OnPageBelowTop
  <2>3. PICK g \in 0 .. Top : Caller(t, g) /\ fp' = [fp EXCEPT ![t] = g]
    BY <2>2 DEF BacktraceFrame
  <2>4. fp'[t] = g
    BY <2>3 DEF IInv, TypeOK
  <2> QED
    BY <2>3, <2>4 DEF Caller
<1>2. IInv /\ [Next]_vars => [BacktraceClimbs]_vars
  BY <1>1
<1> QED
  BY <1>2, ConsoleCorrect, PTL DEF Spec

\* A thread in panic() has switched pr.locking off, and neither has pr.lock nor asks for it.
PanicInv ==
  \A t \in Thread : panicking[t] =>
    /\ ~locking
    /\ pc[t] \notin {"idle", "acquire", "release"}
    /\ pc[t] = "put" => ~took[t]
    /\ pc[t] \in InPrintf => ret[t] # "idle"
    /\ pc[t] = "halted" => panicked

\* Every step keeps panic() free of pr.lock.
LEMMA PanicStep == IInv /\ PanicInv /\ [Next]_vars => PanicInv'
<1> SUFFICES ASSUME IInv, PanicInv, [Next]_vars PROVE PanicInv'
  OBVIOUS
<1> USE DEF IInv, TypeOK, PanicInv, Return, InPrintf, pr, call, walk, Goto
<1>1. CASE UNCHANGED vars
  BY <1>1 DEF vars
<1>2. ASSUME NEW t \in Thread, Call(t) \/ Step(t) PROVE PanicInv'
  <2>1. CASE PrintLine(t)
    BY <2>1 DEF PrintLine, Printf
  <2>2. ASSUME NEW from \in {"idle", "backtrace"}, Backtrace(t, from) PROVE PanicInv'
    BY <2>2 DEF Backtrace, Printf
  <2>3. CASE Panic(t)
    BY <2>3 DEF Panic, Printf
  <2>4. CASE ReadLocking(t)
    BY <2>4 DEF ReadLocking
  <2>5. CASE Acquire(t)
    BY <2>5 DEF Acquire
  <2>6. CASE Consputc(t)
    BY <2>6 DEF Consputc
  <2>7. CASE EndPrintf(t)
    BY <2>7 DEF EndPrintf
  <2>8. CASE Release(t)
    BY <2>8 DEF Release
  <2>9. CASE BacktraceFrame(t)
    BY <2>9 DEF BacktraceFrame, Printf
  <2>10. CASE BacktraceEnd(t)
    BY <2>10 DEF BacktraceEnd
  <2>11. CASE PanicString(t)
    BY <2>11 DEF PanicString, Printf
  <2>12. CASE PanicNewline(t)
    BY <2>12 DEF PanicNewline, Printf
  <2>13. CASE Freeze(t)
    BY <2>13 DEF Freeze
  <2> QED
    BY <1>2, <2>1, <2>2, <2>3, <2>4, <2>5, <2>6, <2>7, <2>8, <2>9, <2>10, <2>11, <2>12,
       <2>13 DEF Call, Step
<1> QED
  BY <1>1, <1>2 DEF Next

\* Until the console is frozen, a thread in panic() is not in acquire(), and one that is waits
\* for a thread which is printing or about to release.
ConsoleGoesOn ==
  ~panicked => \A t \in Thread :
    /\ panicking[t] => pc[t] \notin {"idle", "acquire", "halted"}
    /\ pc[t] = "acquire" /\ lock # None => lock # t /\ pc[lock] \in {"put", "release"}

\* A panic gets to its end whoever has pr.lock, and nobody waits for a thread that does not print:
\* panic() takes no lock, and backtrace() calls printf() without one (printf.c:70-72, 118-127).
THEOREM ConsoleNeverStuck == Spec => []ConsoleGoesOn
<1>1. Init => PanicInv
  BY DEF Init, PanicInv
<1>2. IInv /\ PanicInv => ConsoleGoesOn
  <2> SUFFICES ASSUME IInv, PanicInv, ~panicked, NEW t \in Thread
               PROVE  /\ panicking[t] => pc[t] \notin {"idle", "acquire", "halted"}
                      /\ pc[t] = "acquire" /\ lock # None => lock # t /\ pc[lock] \in {"put", "release"}
    BY DEF ConsoleGoesOn
  <2>1. lock # None => lock \in Thread
    BY DEF IInv, TypeOK
  <2>2. \A u \in Thread : lock = u => pc[u] \in {"put", "release"}
    BY DEF IInv, LockInv, LockMatches
  <2> QED
    BY <2>1, <2>2 DEF PanicInv
<1> QED
  BY <1>1, <1>2, PanicStep, ConsoleCorrect, PTL DEF Spec
=============================================================================
