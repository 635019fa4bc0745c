------------------------------- MODULE Primes -------------------------------
(***************************************************************************)
(* The prime sieve of Lab_util/primes.c: a pipeline of processes that      *)
(* grows by one process and one pipe for every prime.  Stage 0 is main();  *)
(* stage k reads from pipe k - 1 and makes pipe k and stage k + 1.         *)
(* Each system call is a step.  Pipes, fork and wait are the kernel's:     *)
(* a child starts with all descriptors of its parent, and read() returns 0 *)
(* only when no process has the write end open any more.                   *)
(***************************************************************************)
EXTENDS Integers, Sequences, FiniteSets

CONSTANTS
  Last,       \* the sieve goes through 2 .. Last
  MaxStage,   \* BOUND: number of the last process; one for every prime and two more do
  PipeSize,   \* numbers that fit into a pipe
  NOFILE      \* open files per process

ASSUME PrimesAssumption ==
  /\ Last \in Nat /\ Last >= 2
  /\ MaxStage \in Nat
  /\ PipeSize \in Nat \ {0}
  /\ NOFILE \in Nat

Stage == 0 .. MaxStage

VARIABLES
  pc,        \* next system call of each stage
  prime, num,
  files,     \* the ends of pipes each stage has open: <<pipe, "r" or "w">>
  pipe,      \* the numbers in each pipe
  printed

vars == <<pc, prime, num, files, pipe, printed>>

TypeOK ==
  /\ pc \in [Stage -> {"none", "pipe", "fork", "closeWrite", "first", "print", "closeRead",
                       "read", "write", "closeIn", "closeOut", "wait", "exited"}]
  /\ prime \in [Stage -> 0 .. Last]
  /\ num \in [Stage -> 0 .. Last]
  /\ files \in [Stage -> SUBSET (Stage \X {"r", "w"})]
  /\ pipe \in [Stage -> Seq(2 .. Last)]
  /\ printed \in Seq(2 .. Last)

Init ==
  /\ pc = [k \in Stage |-> IF k = 0 THEN "pipe" ELSE "none"]
  /\ prime = [k \in Stage |-> 0]
  /\ num = [k \in Stage |-> 0]
  /\ files = [k \in Stage |-> {}]
  /\ pipe = [k \in Stage |-> <<>>]
  /\ printed = <<>>

-----------------------------------------------------------------------------
Goto(k, from, to) == pc[k] = from /\ pc' = [pc EXCEPT ![k] = to]
Open(j, end) == \E k \in Stage : <<j, end>> \in files[k]
Close(k, j, end) == files' = [files EXCEPT ![k] = @ \ {<<j, end>>}]

\* pipe(pipe_fd), whose result is not looked at: beyond NOFILE there is no pipe.
Pipe(k) ==
  /\ Goto(k, "pipe", "fork")
  /\ 3 + Cardinality(files[k]) + 2 <= NOFILE
  /\ files' = [files EXCEPT ![k] = @ \cup {<<k, "r">>, <<k, "w">>}]
  /\ UNCHANGED <<prime, num, pipe, printed>>

\* Without a child too the stage goes on as a parent: what fork() returns, -1, is not 0.
ForkFails(k) ==
  /\ Goto(k, "fork", "closeRead")
  /\ UNCHANGED <<prime, num, files, pipe, printed>>

Fork(k) ==
  /\ pc[k] = "fork"
  /\ k + 1 \in Stage
  /\ pc' = [pc EXCEPT ![k] = "closeRead", ![k + 1] = "closeWrite"]
  /\ files' = [files EXCEPT ![k + 1] = files[k]]
  /\ UNCHANGED <<prime, num, pipe, printed>>

\* The child closes the write end it has inherited, and calls sieve().
CloseWriteForgotten(k) ==
  /\ Goto(k, "closeWrite", "first")
  /\ UNCHANGED <<prime, num, files, pipe, printed>>

CloseWrite(k) ==
  /\ Goto(k, "closeWrite", "first")
  /\ Close(k, k - 1, "w")
  /\ UNCHANGED <<prime, num, pipe, printed>>

\* The parent closes the read end.  main() starts with 2, sieve() with reading.
CloseRead(k) ==
  /\ pc[k] = "closeRead"
  /\ Close(k, k, "r")
  /\ pc' = [pc EXCEPT ![k] = IF k = 0 THEN "write" ELSE "read"]
  /\ num' = [num EXCEPT ![k] = IF k = 0 THEN 2 ELSE @]
  /\ UNCHANGED <<prime, pipe, printed>>

\* read() by stage k of the next number.  EOF: the pipe is empty and nobody can write to it.
Number(k)   == Head(pipe[k - 1])
Receives(k) == pipe[k - 1] # <<>> /\ pipe' = [pipe EXCEPT ![k - 1] = Tail(@)]
AtEOF(k)    == pipe[k - 1] = <<>> /\ ~Open(k - 1, "w") /\ UNCHANGED pipe

\* The first number of a stage is its prime; without one it exits.
First(k) ==
  \/ /\ Goto(k, "first", "print")
     /\ Receives(k)
     /\ prime' = [prime EXCEPT ![k] = Number(k)]
     /\ UNCHANGED <<num, files, printed>>
  \/ /\ Goto(k, "first", "exited")
     /\ AtEOF(k)
     /\ files' = [files EXCEPT ![k] = {}]
     /\ UNCHANGED <<prime, num, printed>>

PrintPrime(k) ==
  /\ Goto(k, "print", "pipe")
  /\ printed' = Append(printed, prime[k])
  /\ UNCHANGED <<prime, num, files, pipe>>

\* A number that prime[k] divides is dropped, another one is to be written.
PassesOnComposite(k, n) == n > prime[k]
PassesOn(k, n)          == n % prime[k] # 0

Read(k) ==
  /\ pc[k] = "read"
  /\ \/ /\ Receives(k)
        /\ num' = [num EXCEPT ![k] = Number(k)]
        /\ pc' = [pc EXCEPT ![k] = IF PassesOn(k, Number(k)) THEN "write" ELSE "read"]
     \/ AtEOF(k) /\ Goto(k, "read", "closeIn") /\ UNCHANGED num
  /\ UNCHANGED <<prime, files, printed>>

\* write() waits while the pipe is full; with no reader left the number is lost.
Write(k) ==
  /\ pc[k] = "write"
  /\ \/ Open(k, "r") /\ Len(pipe[k]) < PipeSize /\ pipe' = [pipe EXCEPT ![k] = Append(@, num[k])]
     \/ ~Open(k, "r") /\ UNCHANGED pipe
  /\ \/ k > 0 /\ Goto(k, "write", "read") /\ UNCHANGED num
     \/ k = 0 /\ num[k] < Last /\ num' = [num EXCEPT ![k] = @ + 1] /\ UNCHANGED pc
     \/ k = 0 /\ num[k] = Last /\ Goto(k, "write", "closeOut") /\ UNCHANGED num
  /\ UNCHANGED <<prime, files, printed>>

CloseIn(k) ==
  /\ Goto(k, "closeIn", "closeOut")
  /\ Close(k, k - 1, "r")
  /\ UNCHANGED <<prime, num, pipe, printed>>

CloseOut(k) ==
  /\ Goto(k, "closeOut", "wait")
  /\ Close(k, k, "w")
  /\ UNCHANGED <<prime, num, pipe, printed>>

HasChild(k) == k + 1 \in Stage /\ pc[k + 1] # "none"

\* wait(0) for the next stage, if there is one, and exit(0), which closes what is still open.
Wait(k) ==
  /\ Goto(k, "wait", "exited")
  /\ HasChild(k) => pc[k + 1] = "exited"
  /\ files' = [files EXCEPT ![k] = {}]
  /\ UNCHANGED <<prime, num, pipe, printed>>

Step(k) ==
  \/ Pipe(k)
  \/ Fork(k)
  \/ ForkFails(k)
  \/ CloseWrite(k)
  \/ CloseRead(k)
  \/ First(k)
  \/ PrintPrime(k)
  \/ Read(k)
  \/ Write(k)
  \/ CloseIn(k)
  \/ CloseOut(k)
  \/ Wait(k)

Next == \E k \in Stage : Step(k)

Spec == Init /\ [][Next]_vars

-----------------------------------------------------------------------------
PrimeNumbers == {n \in 2 .. Last : \A d \in 2 .. n - 1 : n % d # 0}
Printed      == {printed[j] : j \in 1 .. Len(printed)}

\* The numbers are printed in order (primes.c:20).
PrintsInOrder == \A j \in 2 .. Len(printed) : printed[j - 1] < printed[j]

\* The calls of stage k after its fork(); a stage whose pipe is at its end exits without one.
AfterFork == {"closeRead", "read", "write", "closeIn", "closeOut", "wait", "exited"}
HasForked(k)  == pc[k] \in AfterFork /\ (k = 0 \/ prime[k] # 0)
ForkFailed(k) == HasForked(k) /\ ~HasChild(k)

\* The primes are printed in order and without a gap.  When main() exits they are all there,
\* unless the fork() of a stage has failed: then those up to the prime of this stage are, and
\* the numbers it lets through are lost (primes.c:20, 25-39, 54-67).
PrintsThePrimes ==
  /\ Printed \subseteq PrimeNumbers
  /\ \A n \in PrimeNumbers \ Printed, m \in Printed : m < n
  /\ PrintsInOrder
  /\ pc[0] = "exited" =>
       \/ Printed = PrimeNumbers
       \/ \E k \in Stage : ForkFailed(k) /\ Len(printed) = k

\* No stage runs out of file descriptors, although each keeps the read ends of all the
\* stages before it: pipe() does not fail (primes.c:23, 52).
FilesSuffice == \A k \in Stage : pc[k] = "pipe" => 3 + Cardinality(files[k]) + 2 <= NOFILE
=============================================================================
