----------------------------- MODULE UtilProof ------------------------------
(* Theorems about the utilities as the shell runs them: primes, for any    *)
(* last number, length of the pipeline, size of the pipes and number of    *)
(* descriptors; pingpong; find | xargs, for any tree of directories, any   *)
(* paths and any size of the buffer and of xargs' array args.  In all of   *)
(* them fork() may fail.                                                   *)
EXTENDS Util, FiniteSetTheorems, FunctionTheorems, SequenceTheorems, WellFoundedInduction, TLAPS

\* The numbers in sequence s, and that they increase.
Nums(s)   == {s[j] : j \in 1 .. Len(s)}
Sorted(s) == \A i, j \in 1 .. Len(s) : i < j => s[i] < s[j]

\* A stage that has not forked is the last one, and its pipe is not used yet.
Control(k) ==
  /\ pc[k] \in {"none", "closeWrite", "first", "print", "pipe", "fork"} =>
       /\ pipe[k] = <<>>
       /\ num[k] = 0
       /\ k + 1 \in Stage => pc[k + 1] = "none"
  /\ pc[k] \in {"none", "closeWrite", "first"} => prime[k] = 0
  /\ pc[k] = "print" => 2 <= prime[k]
  /\ pc[k] = "closeRead" =>
       /\ pipe[k] = <<>>
       /\ k + 1 \in Stage => /\ pc[k + 1] \in {"none", "closeWrite", "first", "exited"}
                            /\ num[k + 1] = 0 /\ prime[k + 1] = 0
ControlInv ==
  /\ pc[0] \notin {"none", "closeWrite", "first", "print", "read", "closeIn"} /\ prime[0] = 0
  /\ \A k \in Stage : Control(k)

\* Number by number, what stage k has written grows, and stage k + 1 has come to less than what
\* is still in the pipe between them.
Order(k) ==
  /\ Sorted(pipe[k])
  /\ \A n \in Nums(pipe[k]) : prime[k] < n
  /\ pc[k] = "write" => prime[k] < num[k] /\ 2 <= num[k] /\ \A n \in Nums(pipe[k]) : n < num[k]
  /\ k > 0 => \A n \in Nums(pipe[k]) : n <= num[k]
  /\ k + 1 \in Stage =>
       /\ \A n \in Nums(pipe[k]) : prime[k + 1] < n /\ num[k + 1] < n
       /\ pc[k] = "write" => prime[k + 1] < num[k] /\ num[k + 1] < num[k]
       /\ k > 0 => prime[k + 1] <= num[k] /\ num[k + 1] <= num[k]
       /\ prime[k + 1] # 0 => prime[k] < prime[k + 1]
OrderInv == \A k \in Stage : Order(k)

\* The j-th number printed is the prime of stage j; the last stage is the next to print.
PrintInv ==
  /\ \A j \in 1 .. Len(printed) : j \in Stage /\ printed[j] = prime[j] /\ prime[j] # 0
  /\ \A k \in Stage :
       /\ pc[k] \in {"closeWrite", "first", "print"} => Len(printed) = k - 1
       /\ pc[k] \in {"pipe", "fork"} => Len(printed) = k

IInv == TypeOK /\ ControlInv /\ OrderInv /\ PrintInv

\* What read() leaves of the numbers in a pipe.
LEMMA TailFacts ==
  ASSUME NEW S \in SUBSET Int, NEW s \in Seq(S), s # <<>>
  PROVE  /\ Tail(s) \in Seq(S) /\ Head(s) \in S /\ Nums(Tail(s)) \subseteq Nums(s)
         /\ Head(s) \in Nums(s)
         /\ Sorted(s) => Sorted(Tail(s)) /\ \A n \in Nums(Tail(s)) : Head(s) < n
<1>1. /\ Tail(s) \in Seq(S) /\ Head(s) \in S /\ Len(Tail(s)) = Len(s) - 1 /\ Len(s) \in Nat /\ Len(s) > 0
      /\ \A j \in 1 .. Len(s) - 1 : Tail(s)[j] = s[j + 1]
      /\ Head(s) = s[1]
  OBVIOUS
<1>2. \A j \in 1 .. Len(s) - 1 : j + 1 \in 1 .. Len(s) /\ 1 < j + 1
  BY <1>1
<1>3. 1 \in 1 .. Len(s)
  BY <1>1
<1>4. Nums(Tail(s)) \subseteq Nums(s) /\ Head(s) \in Nums(s)
  BY <1>1, <1>2, <1>3 DEF Nums
<1>5. ASSUME Sorted(s) PROVE Sorted(Tail(s)) /\ \A n \in Nums(Tail(s)) : Head(s) < n
  BY <1>1, <1>2, <1>3, <1>5 DEF Sorted, Nums
<1> QED
  BY <1>1, <1>4, <1>5

\* What write() makes of the numbers in a pipe.
LEMMA AppendFacts ==
  ASSUME NEW s \in Seq(Int), NEW m \in Int
  PROVE  /\ Nums(Append(s, m)) = Nums(s) \cup {m}
         /\ Sorted(s) /\ (\A n \in Nums(s) : n < m) => Sorted(Append(s, m))
<1>1. /\ Len(Append(s, m)) = Len(s) + 1 /\ Len(s) \in Nat
      /\ \A j \in 1 .. Len(s) : Append(s, m)[j] = s[j]
      /\ Append(s, m)[Len(s) + 1] = m
  OBVIOUS
<1>2. /\ \A j \in 1 .. Len(s) + 1 : j = Len(s) + 1 \/ j \in 1 .. Len(s)
      /\ \A j \in 1 .. Len(s) : j \in 1 .. Len(s) + 1
      /\ Len(s) + 1 \in 1 .. Len(s) + 1
  BY <1>1
<1>3. Nums(Append(s, m)) = Nums(s) \cup {m}
  BY <1>1, <1>2 DEF Nums
<1>4. ASSUME Sorted(s), \A n \in Nums(s) : n < m PROVE Sorted(Append(s, m))
  <2>1. \A j \in 1 .. Len(s) : s[j] < m
    BY <1>4 DEF Nums
  <2> SUFFICES ASSUME NEW i \in 1 .. Len(s) + 1, NEW j \in 1 .. Len(s) + 1, i < j
               PROVE  Append(s, m)[i] < Append(s, m)[j]
    BY <1>1 DEF Sorted
  <2>2. i \in 1 .. Len(s)
    BY <1>1
  <2> QED
    BY <1>1, <1>2, <1>4, <2>1, <2>2 DEF Sorted
<1> QED
  BY <1>1, <1>3, <1>4

\* The elements of a sequence.
LEMMA ElementFacts == \A S : \A s \in Seq(S) : \A j \in 1 .. Len(s) : s[j] \in S
  OBVIOUS

\* The numbers of the sieve are integers.
LEMMA IntegerSequence == \A s \in Seq(2 .. Last) : s \in Seq(Int)
  BY PrimesAssumption

\* An empty pipe.
LEMMA EmptyFacts == Nums(<<>>) = {} /\ Sorted(<<>>)
  BY DEF Nums, Sorted

\* Stages are numbered.
LEMMA StageInt == \A k \in Stage : k \in Int
  BY PrimesAssumption DEF Stage

\* What a stage reads and keeps are integers.
LEMMA NumsInt ==
  ASSUME TypeOK, NEW k \in Stage
  PROVE  pipe[k] \in Seq(2 .. Last) /\ Nums(pipe[k]) \subseteq Int /\ num[k] \in Int /\ prime[k] \in Int
<1>1. pipe[k] \in Seq(2 .. Last) /\ num[k] \in Int /\ prime[k] \in Int
  BY PrimesAssumption DEF TypeOK
<1>2. \A j \in 1 .. Len(pipe[k]) : pipe[k][j] \in 2 .. Last
  BY <1>1, ElementFacts
<1>3. 2 .. Last \subseteq Int
  BY PrimesAssumption
<1> QED
  BY <1>1, <1>2, <1>3 DEF Nums

\* One stage follows another.
LEMMA PredecessorFacts == \A j, k \in Stage : j - 1 = k - 1 => j = k
  BY PrimesAssumption DEF Stage

\* main() is stage 0, and every other stage has one before it.
LEMMA StageFacts ==
  /\ 0 \in Stage
  /\ \A k \in Stage : k \in Int /\ k >= 0 /\ k + 1 # k /\ (k # 0 => k - 1 \in Stage /\ (k - 1) + 1 = k)
  BY PrimesAssumption DEF Stage

\* The invariant holds when main() starts.
LEMMA PrimesInit == Init => IInv
<1> SUFFICES ASSUME Init PROVE IInv
  OBVIOUS
<1> USE PrimesAssumption DEF Init
<1>1. TypeOK
  BY StageFacts DEF TypeOK
<1>2. ControlInv
  BY StageFacts DEF ControlInv, Control
<1>3. OrderInv
  BY StageFacts, EmptyFacts DEF OrderInv, Order
<1>4. PrintInv
  BY StageFacts DEF PrintInv
<1> QED
  BY <1>1, <1>2, <1>3, <1>4 DEF IInv

\* What stage k receives comes from the pipe of stage k - 1.
LEMMA ReceiveFacts ==
  ASSUME TypeOK, OrderInv, NEW k \in Stage, k # 0, Receives(k)
  PROVE  /\ k - 1 \in Stage /\ (k - 1) + 1 = k
         /\ Number(k) \in 2 .. Last /\ prime[k] < Number(k) /\ num[k] < Number(k)
         /\ prime[k - 1] < Number(k) /\ Number(k) \in Nums(pipe[k - 1])
         /\ pipe' \in [Stage -> Seq(2 .. Last)]
         /\ \A j \in Stage \ {k - 1} : pipe'[j] = pipe[j]
         /\ Sorted(pipe'[k - 1]) /\ Nums(pipe'[k - 1]) \subseteq Nums(pipe[k - 1])
         /\ \A n \in Nums(pipe'[k - 1]) : Number(k) < n
<1>1. k - 1 \in Stage /\ (k - 1) + 1 = k
  BY StageFacts
<1>2. pipe[k - 1] \in Seq(2 .. Last) /\ pipe[k - 1] # <<>> /\ pipe' = [pipe EXCEPT ![k - 1] = Tail(@)]
  BY <1>1 DEF TypeOK, Receives
<1>3. Number(k) \in 2 .. Last /\ Tail(pipe[k - 1]) \in Seq(2 .. Last)
  <2>1. 2 .. Last \in SUBSET Int
    BY PrimesAssumption
  <2> QED
    BY <1>2, <2>1, TailFacts DEF Number
<1>4. /\ pipe' \in [Stage -> Seq(2 .. Last)] /\ pipe'[k - 1] = Tail(pipe[k - 1])
      /\ \A j \in Stage \ {k - 1} : pipe'[j] = pipe[j]
  BY <1>1, <1>2, <1>3 DEF TypeOK
<1>0. 2 .. Last \in SUBSET Int
  BY PrimesAssumption
<1>5. /\ Number(k) \in Nums(pipe[k - 1])
      /\ Nums(Tail(pipe[k - 1])) \subseteq Nums(pipe[k - 1])
      /\ Sorted(Tail(pipe[k - 1])) /\ \A n \in Nums(Tail(pipe[k - 1])) : Number(k) < n
  BY <1>0, <1>1, <1>2, <1>4, TailFacts DEF OrderInv, Order, Number
<1>6. prime[k] < Number(k) /\ num[k] < Number(k) /\ prime[k - 1] < Number(k)
  BY <1>1, <1>5 DEF OrderInv, Order
<1> QED
  BY <1>1, <1>3, <1>4, <1>5, <1>6

\* Every step keeps the types: nothing but 2 .. Last goes through a pipe.
LEMMA TypeStep == IInv /\ [Next]_vars => TypeOK'
<1> SUFFICES ASSUME IInv, [Next]_vars PROVE TypeOK'
  OBVIOUS
<1> USE DEF IInv, TypeOK
<1>1. CASE UNCHANGED vars
  BY <1>1 DEF vars
<1>2. ASSUME NEW k \in Stage, Pipe(k) PROVE TypeOK'
  BY <1>2 DEF Pipe, Goto, Close, TypeOK
<1>3. ASSUME NEW k \in Stage, Fork(k) PROVE TypeOK'
  BY <1>3 DEF Fork, Goto, Close, TypeOK
<1>4. ASSUME NEW k \in Stage, CloseWrite(k) PROVE TypeOK'
  BY <1>4 DEF CloseWrite, Goto, Close, TypeOK
<1>5. ASSUME NEW k \in Stage, CloseRead(k) PROVE TypeOK'
  <2>1. num' \in [Stage -> 0 .. Last]
    BY <1>5, PrimesAssumption DEF CloseRead, TypeOK
  <2> QED
    BY <1>5, <2>1 DEF CloseRead, Goto, Close, TypeOK
<1>6. ASSUME NEW k \in Stage, First(k) PROVE TypeOK'
  <2>1. k # 0
    BY <1>6 DEF First, Goto, ControlInv, Control
  <2>2. CASE Receives(k)
    <3>1. Number(k) \in 0 .. Last /\ pipe' \in [Stage -> Seq(2 .. Last)]
      BY SMTT(30), <2>1, <2>2, ReceiveFacts, PrimesAssumption
    <3> QED
      BY ZenonT(60), <1>6, <2>2, <3>1 DEF First, Goto, Receives, AtEOF, TypeOK
  <2>3. CASE ~Receives(k)
    BY <1>6, <2>3 DEF First, Goto, AtEOF, TypeOK
  <2> QED
    BY <2>2, <2>3
<1>7. ASSUME NEW k \in Stage, PrintPrime(k) PROVE TypeOK'
  <2>1. prime[k] \in 2 .. Last
    BY <1>7, PrimesAssumption DEF PrintPrime, Goto, ControlInv, Control, TypeOK
  <2> QED
    BY <1>7, <2>1 DEF PrintPrime, Goto, TypeOK
<1>8. ASSUME NEW k \in Stage, Read(k) PROVE TypeOK'
  <2>1. k # 0
    BY <1>8 DEF Read, Goto, ControlInv, Control
  <2>2. CASE Receives(k)
    <3>1. Number(k) \in 0 .. Last /\ pipe' \in [Stage -> Seq(2 .. Last)]
      BY SMTT(30), <2>1, <2>2, ReceiveFacts, PrimesAssumption
    <3> QED
      BY ZenonT(60), <1>8, <2>2, <3>1 DEF Read, Goto, Receives, AtEOF, TypeOK
  <2>3. CASE ~Receives(k)
    BY <1>8, <2>3 DEF Read, Goto, AtEOF, TypeOK
  <2> QED
    BY <2>2, <2>3
<1>9. ASSUME NEW k \in Stage, Write(k) PROVE TypeOK'
  <2>1. num[k] \in 2 .. Last
    BY <1>9 DEF Write, OrderInv, Order, TypeOK
  <2>2. pipe' \in [Stage -> Seq(2 .. Last)]
    <3>1. Append(pipe[k], num[k]) \in Seq(2 .. Last)
      BY <2>1
    <3> QED
      BY <1>9, <3>1 DEF Write
  <2>3. pc' \in [Stage -> {"none", "pipe", "fork", "closeWrite", "first", "print", "closeRead",
                        "read", "write", "closeIn", "closeOut", "wait", "exited"}]
    BY <1>9 DEF Write, Goto, TypeOK
  <2>4. num' \in [Stage -> 0 .. Last]
    BY <1>9, <2>1, PrimesAssumption DEF Write, TypeOK
  <2> QED
    BY <1>9, <2>2, <2>3, <2>4 DEF Write, TypeOK
<1>10. ASSUME NEW k \in Stage, CloseIn(k) PROVE TypeOK'
  BY <1>10 DEF CloseIn, Goto, Close, TypeOK
<1>11. ASSUME NEW k \in Stage, CloseOut(k) PROVE TypeOK'
  BY <1>11 DEF CloseOut, Goto, Close, TypeOK
<1>12. ASSUME NEW k \in Stage, Wait(k) PROVE TypeOK'
  BY <1>12 DEF Wait, Goto, Close, TypeOK
<1>13. ASSUME NEW k \in Stage, ForkFails(k) PROVE TypeOK'
  BY <1>13 DEF ForkFails, Goto
<1> QED
  BY <1>1, <1>2, <1>3, <1>4, <1>5, <1>6, <1>7, <1>8,
     <1>9, <1>10, <1>11, <1>12, <1>13 DEF Next, Step

\* Every step keeps what is not yet in use empty.
LEMMA ControlStep == IInv /\ [Next]_vars => ControlInv'
<1> SUFFICES ASSUME IInv, [Next]_vars PROVE ControlInv'
  OBVIOUS
<1> USE StageFacts DEF IInv, TypeOK, ControlInv, Control
<1>1. CASE UNCHANGED vars
  BY <1>1 DEF vars
<1>2. ASSUME NEW k \in Stage, Pipe(k) PROVE ControlInv'
  BY <1>2 DEF Pipe, Goto, Close
<1>3. ASSUME NEW k \in Stage, Fork(k) PROVE ControlInv'
  <2>1. /\ pc[k] = "fork" /\ pc'[k] = "closeRead" /\ pc'[k + 1] = "closeWrite" /\ k + 1 \in Stage
        /\ \A j \in Stage \ {k, k + 1} : pc'[j] = pc[j]
        /\ UNCHANGED <<prime, num, pipe>>
    BY <1>3 DEF Fork
  <2>2. pc[k + 1] = "none" /\ k + 1 # 0 /\ ((k + 1) + 1 \in Stage => pc[(k + 1) + 1] = "none")
    BY <2>1
  <2>3. \A j \in Stage : j + 1 = k + 1 => j = k
    BY PrimesAssumption DEF Stage
  <2>4. ASSUME NEW j \in Stage, j + 1 = k
        PROVE  pc[j] \notin {"none", "closeWrite", "first", "print", "pipe", "fork", "closeRead"}
    <3>1. j + 1 \in Stage /\ pc[j + 1] = pc[k]
      BY <2>4
    <3> QED
      BY <2>1, <3>1
  <2>5. Control(k)' /\ Control(k + 1)'
    BY ZenonT(60), <2>1, <2>2
  <2>6. ASSUME NEW j \in Stage \ {k, k + 1} PROVE Control(j)'
    <3>1. Control(j) /\ pc'[j] = pc[j]
      BY <2>1
    <3>2. j + 1 # k + 1
      BY <2>3
    <3>3. CASE j + 1 = k
      BY <2>1, <2>4, <3>1, <3>3
    <3>4. CASE j + 1 # k
      <4>1. j + 1 \in Stage => pc'[j + 1] = pc[j + 1]
        BY <2>1, <3>2, <3>4
      <4> QED
        BY <2>1, <3>1, <4>1
    <3> QED
      BY <3>3, <3>4
  <2>7. pc'[0] \notin {"none", "closeWrite", "first", "print", "read", "closeIn"} /\ prime'[0] = 0
    BY <2>1, <2>2
  <2> HIDE DEF Control
  <2> QED
    BY <2>5, <2>6, <2>7
<1>4. ASSUME NEW k \in Stage, CloseWrite(k) PROVE ControlInv'
  BY <1>4 DEF CloseWrite, Goto, Close
<1>5. ASSUME NEW k \in Stage, CloseRead(k) PROVE ControlInv'
  BY <1>5 DEF CloseRead, Goto, Close
<1>6. ASSUME NEW k \in Stage, First(k) PROVE ControlInv'
  <2>1. k # 0
    BY <1>6 DEF First, Goto
  <2>2. CASE Receives(k)
    <3>0. Number(k) \in 2 .. Last => Number(k) >= 2
      BY PrimesAssumption
    <3>1. /\ Number(k) >= 2 /\ k - 1 \in Stage /\ \A j \in Stage \ {k - 1} : pipe'[j] = pipe[j]
          /\ pipe[k - 1] # <<>>
      BY <2>1, <2>2, <3>0, ReceiveFacts DEF Receives
    <3>2. \A j \in Stage : pipe[j] = <<>> => pipe'[j] = <<>> /\ j # k - 1
      BY <3>1
    <3>3. pc[k] = "first"
      BY <1>6 DEF First, Goto
    <3>4. /\ \A j \in Stage \ {k} : pc'[j] = pc[j] /\ num'[j] = num[j] /\ prime'[j] = prime[j]
          /\ \A j \in Stage : pc[j] = "none" => pc'[j] = "none"
      BY <1>6, <3>3 DEF First, Goto
    <3>5. CASE pc'[k] = "print"
      <4>1. num'[k] = num[k] /\ prime'[k] = Number(k) /\ pipe'[k] = pipe[k]
        BY <1>6, <3>1, <3>5 DEF First, Goto
      <4>2. \A j \in Stage : j + 1 = k => j = k - 1
        BY PrimesAssumption DEF Stage
      <4>3. pc'[0] = pc[0] /\ prime'[0] = prime[0]
        BY <2>1, <3>4
      <4>4. ASSUME NEW j \in Stage, j # k, pc'[j] = "closeRead", j + 1 \in Stage
            PROVE  /\ pc'[j + 1] \in {"none", "closeWrite", "first", "exited"}
                   /\ num'[j + 1] = 0 /\ prime'[j + 1] = 0
        <5>1. pc[j] = "closeRead" /\ pipe[j] = <<>>
          BY <3>4, <4>4
        <5>2. j + 1 # k
          BY <3>2, <4>2, <4>4, <5>1
        <5> QED
          BY <3>4, <4>4, <5>1, <5>2
      <4>5. ASSUME NEW j \in Stage, j # k
            PROVE  /\ pc'[j] \in {"none", "closeWrite", "first", "print", "pipe", "fork"} =>
                        /\ pipe'[j] = <<>>
                        /\ num'[j] = 0
                        /\ j + 1 \in Stage => pc'[j + 1] = "none"
                   /\ pc'[j] \in {"none", "closeWrite", "first"} => prime'[j] = 0
                   /\ pc'[j] = "print" => 2 <= prime'[j]
                   /\ pc'[j] = "closeRead" => pipe'[j] = <<>>
        BY <3>2, <3>4, <4>5
      <4>6. pipe'[k] = <<>> /\ num'[k] = 0 /\ (k + 1 \in Stage => pc'[k + 1] = "none")
        BY <3>2, <3>3, <3>4, <4>1
      <4>7. \A j \in Stage \ {k} : Control(j)'
        BY <4>4, <4>5
      <4>8. Control(k)'
        BY <3>1, <3>5, <4>1, <4>6
      <4> HIDE DEF Control
      <4> QED
        BY <4>3, <4>7, <4>8
    <3>6. CASE pc'[k] # "print"
      BY <1>6, <2>1, <2>2, <3>6 DEF First, Goto, AtEOF, Receives
    <3> QED
      BY <3>5, <3>6
  <2>3. CASE ~Receives(k)
    <3>1. /\ pipe' = pipe /\ UNCHANGED <<prime, num>>
          /\ pc[k] = "first" /\ pc' = [pc EXCEPT ![k] = "exited"]
      BY <1>6, <2>3 DEF First, Goto, AtEOF
    <3> QED
      BY <2>1, <3>1
  <2> QED
    BY <2>2, <2>3
<1>7. ASSUME NEW k \in Stage, PrintPrime(k) PROVE ControlInv'
  BY <1>7 DEF PrintPrime, Goto, Close
<1>8. ASSUME NEW k \in Stage, Read(k) PROVE ControlInv'
  <2>1. k # 0 /\ pc[k] = "read"
    BY <1>8 DEF Read
  <2>2. \A j \in Stage : pipe[j] = <<>> => pipe'[j] = <<>>
    BY <1>8, <2>1 DEF Read, Receives, AtEOF
  <2>3. /\ \A j \in Stage \ {k} : pc'[j] = pc[j] /\ num'[j] = num[j]
        /\ prime' = prime /\ pc'[k] \in {"read", "write", "closeIn"}
    BY <1>8 DEF Read, Goto
  <2>4. ASSUME NEW j \in Stage, j + 1 = k
        PROVE  pc[j] \notin {"none", "closeWrite", "first", "print", "pipe", "fork", "closeRead"}
    <3>1. j + 1 \in Stage /\ pc[j + 1] = pc[k]
      BY <2>4
    <3> QED
      BY <2>1, <3>1
  <2> QED
    BY SMTT(30), <2>1, <2>2, <2>3, <2>4
<1>9. ASSUME NEW k \in Stage, Write(k) PROVE ControlInv'
  <2>1. \A j \in Stage \ {k} : pipe'[j] = pipe[j] /\ num'[j] = num[j] /\ pc'[j] = pc[j]
    BY <1>9 DEF Write, Goto
  <2>2. pc'[k] \in {"read", "write", "closeOut"} /\ (k = 0 => pc'[k] # "read")
    BY <1>9 DEF Write, Goto
  <2>3. pc[k] = "write" /\ prime' = prime
    BY <1>9 DEF Write
  <2>4. Control(k)'
    BY <2>2
  <2>5. ASSUME NEW j \in Stage \ {k} PROVE Control(j)'
    <3>1. pc'[j] = pc[j] /\ num'[j] = num[j] /\ prime'[j] = prime[j] /\ pipe'[j] = pipe[j] /\ Control(j)
      BY <2>1, <2>3
    <3>2. CASE j + 1 = k
      BY <2>3, <3>1, <3>2
    <3>3. CASE j + 1 # k
      <4>1. j + 1 \in Stage => /\ pc'[j + 1] = pc[j + 1] /\ num'[j + 1] = num[j + 1]
                               /\ prime'[j + 1] = prime[j + 1]
        BY <2>1, <2>3, <3>3
      <4> QED
        BY <3>1, <4>1
    <3> QED
      BY <3>2, <3>3
  <2>6. pc'[0] \notin {"none", "closeWrite", "first", "print", "read", "closeIn"} /\ prime'[0] = 0
    BY <2>1, <2>2, <2>3
  <2> HIDE DEF Control
  <2> QED
    BY <2>4, <2>5, <2>6
<1>10. ASSUME NEW k \in Stage, CloseIn(k) PROVE ControlInv'
  BY <1>10 DEF CloseIn, Goto, Close
<1>11. ASSUME NEW k \in Stage, CloseOut(k) PROVE ControlInv'
  BY <1>11 DEF CloseOut, Goto, Close
<1>12. ASSUME NEW k \in Stage, Wait(k) PROVE ControlInv'
  BY <1>12 DEF Wait, Goto, Close
<1>13. ASSUME NEW k \in Stage, ForkFails(k) PROVE ControlInv'
  <2>1. /\ pc[k] = "fork" /\ pc'[k] = "closeRead" /\ UNCHANGED <<prime, num, pipe>>
        /\ \A j \in Stage \ {k} : pc'[j] = pc[j]
    BY <1>13 DEF ForkFails, Goto
  <2>2. k + 1 \in Stage => pc[k + 1] = "none" /\ num[k + 1] = 0 /\ prime[k + 1] = 0
    BY <2>1
  <2> QED
    BY <2>1, <2>2
<1> QED
  BY <1>1, <1>2, <1>3, <1>4, <1>5, <1>6, <1>7, <1>8,
     <1>9, <1>10, <1>11, <1>12, <1>13 DEF Next, Step

\* Every step keeps the printed numbers those of the stages in turn.
LEMMA PrintStep == IInv /\ [Next]_vars => PrintInv'
<1> SUFFICES ASSUME IInv, [Next]_vars PROVE PrintInv'
  OBVIOUS
<1> USE StageInt, StageFacts DEF IInv, TypeOK, PrintInv
<1>1. CASE UNCHANGED vars
  BY <1>1 DEF vars
<1>2. ASSUME NEW k \in Stage, Pipe(k) PROVE PrintInv'
  BY <1>2 DEF Pipe, Goto, Close
<1>3. ASSUME NEW k \in Stage, Fork(k) PROVE PrintInv'
  <2>1. /\ pc[k] = "fork" /\ pc'[k] = "closeRead" /\ pc'[k + 1] = "closeWrite" /\ k + 1 \in Stage
        /\ \A j \in Stage \ {k, k + 1} : pc'[j] = pc[j]
        /\ UNCHANGED <<prime, printed>>
    BY <1>3 DEF Fork
  <2>2. (k + 1) - 1 = k
    OBVIOUS
  <2> QED
    BY <2>1, <2>2
<1>4. ASSUME NEW k \in Stage, CloseWrite(k) PROVE PrintInv'
  BY <1>4 DEF CloseWrite, Goto, Close
<1>5. ASSUME NEW k \in Stage, CloseRead(k) PROVE PrintInv'
  BY <1>5 DEF CloseRead, Goto, Close
<1>6. ASSUME NEW k \in Stage, First(k) PROVE PrintInv'
  <2>1. k # 0 /\ pc[k] = "first" /\ prime[k] = 0 /\ printed' = printed
    BY <1>6 DEF First, Goto, ControlInv, Control
  <2>2. \A j \in Stage \ {k} : prime'[j] = prime[j] /\ pc'[j] = pc[j]
    BY ZenonT(60), <1>6 DEF First, Goto
  <2>3. pc'[k] \in {"print", "exited"}
    BY <1>6 DEF First, Goto
  <2>4. \A j \in 1 .. Len(printed) : j \in Stage \ {k}
    BY <2>1
  <2> QED
    BY <2>1, <2>2, <2>3, <2>4
<1>7. ASSUME NEW k \in Stage, PrintPrime(k) PROVE PrintInv'
  <2>1. /\ k # 0 /\ pc[k] = "print" /\ pc'[k] = "pipe" /\ prime' = prime /\ 2 <= prime[k]
        /\ printed' = Append(printed, prime[k]) /\ Len(printed) = k - 1
        /\ \A j \in Stage \ {k} : pc'[j] = pc[j]
    BY <1>7 DEF PrintPrime, Goto, ControlInv, Control
  <2>0. printed \in Seq(Int) /\ prime[k] \in Int /\ Len(printed) \in Nat
    BY PrimesAssumption
  <2>2. /\ Len(printed') = k /\ printed'[k] = prime[k]
        /\ \A j \in 1 .. Len(printed) : printed'[j] = printed[j]
    <3>1. /\ Len(Append(printed, prime[k])) = Len(printed) + 1
          /\ Append(printed, prime[k])[Len(printed) + 1] = prime[k]
          /\ \A j \in 1 .. Len(printed) : Append(printed, prime[k])[j] = printed[j]
      BY <2>0
    <3>2. Len(printed) + 1 = k
      BY <2>1, StageInt
    <3> QED
      BY <2>1, <3>1, <3>2
  <2>3. \A j \in 1 .. k : j = k \/ j \in 1 .. Len(printed)
    BY <2>1, StageInt
  <2>4. \A j \in 1 .. Len(printed') : j \in Stage /\ printed'[j] = prime'[j] /\ prime'[j] # 0
    <3>1. printed'[k] = prime'[k] /\ prime'[k] # 0
      BY <2>0, <2>1, <2>2
    <3>2. \A j \in 1 .. Len(printed) : j \in Stage /\ printed'[j] = prime'[j] /\ prime'[j] # 0
      BY <2>1, <2>2
    <3> QED
      BY <2>2, <2>3, <3>1, <3>2
  <2>5. ASSUME NEW j \in Stage, j # k
        PROVE  pc[j] \notin {"closeWrite", "first", "print", "pipe", "fork"}
    <3>1. CASE pc[j] \in {"closeWrite", "first", "print"}
      <4>1. j - 1 = k - 1
        BY <2>1, <3>1
      <4> QED
        BY <2>5, <4>1, PredecessorFacts
    <3>2. CASE pc[j] \in {"pipe", "fork"}
      <4>0. j = k - 1
        BY <2>1, <3>2
      <4>1. j + 1 = k /\ j + 1 \in Stage
        BY <4>0, StageInt
      <4>2. pc[j + 1] = "none"
        BY <3>2, <4>1 DEF ControlInv, Control
      <4> QED
        BY <2>1, <4>1, <4>2
    <3> QED
      BY <3>1, <3>2
  <2>6. \A j \in Stage : pc'[j] \in {"closeWrite", "first", "print"} => Len(printed') = j - 1
    BY ZenonT(60), <2>1, <2>5
  <2>7. \A j \in Stage : pc'[j] \in {"pipe", "fork"} => Len(printed') = j
    BY ZenonT(60), <2>1, <2>2, <2>5
  <2> QED
    BY <2>4, <2>6, <2>7
<1>8. ASSUME NEW k \in Stage, Read(k) PROVE PrintInv'
  <2>1. /\ UNCHANGED <<prime, printed>> /\ pc'[k] \in {"read", "write", "closeIn"}
        /\ \A j \in Stage \ {k} : pc'[j] = pc[j]
    BY <1>8 DEF Read, Goto
  <2> QED
    BY <2>1
<1>9. ASSUME NEW k \in Stage, Write(k) PROVE PrintInv'
  <2>1. /\ UNCHANGED <<prime, printed>> /\ pc'[k] \in {"read", "write", "closeOut"}
        /\ \A j \in Stage \ {k} : pc'[j] = pc[j]
    BY <1>9 DEF Write, Goto
  <2> QED
    BY <2>1
<1>10. ASSUME NEW k \in Stage, CloseIn(k) PROVE PrintInv'
  BY <1>10 DEF CloseIn, Goto, Close
<1>11. ASSUME NEW k \in Stage, CloseOut(k) PROVE PrintInv'
  BY <1>11 DEF CloseOut, Goto, Close
<1>12. ASSUME NEW k \in Stage, Wait(k) PROVE PrintInv'
  BY <1>12 DEF Wait, Goto, Close
<1>13. ASSUME NEW k \in Stage, ForkFails(k) PROVE PrintInv'
  BY <1>13 DEF ForkFails, Goto
<1> QED
  BY <1>1, <1>2, <1>3, <1>4, <1>5, <1>6, <1>7, <1>8,
     <1>9, <1>10, <1>11, <1>12, <1>13 DEF Next, Step

\* Every step keeps the numbers rising, in each pipe and from stage to stage.
LEMMA OrderStep == IInv /\ [Next]_vars => OrderInv'
<1> SUFFICES ASSUME IInv, [Next]_vars PROVE OrderInv'
  OBVIOUS
<1> USE StageInt, StageFacts DEF IInv
<1>1. CASE UNCHANGED vars
  BY <1>1 DEF vars, OrderInv, Order
<1>2. ASSUME NEW k \in Stage, Pipe(k) PROVE OrderInv'
  BY <1>2 DEF Pipe, Goto, Close, TypeOK, OrderInv, Order
<1>3. ASSUME NEW k \in Stage, Fork(k) PROVE OrderInv'
  BY <1>3 DEF Fork, Goto, Close, TypeOK, OrderInv, Order
<1>4. ASSUME NEW k \in Stage, CloseWrite(k) PROVE OrderInv'
  BY <1>4 DEF CloseWrite, Goto, Close, TypeOK, OrderInv, Order
<1>5. ASSUME NEW k \in Stage, CloseRead(k) PROVE OrderInv'
  <2>1. /\ pc[k] = "closeRead" /\ pipe[k] = <<>> /\ UNCHANGED <<prime, pipe>>
        /\ k + 1 \in Stage => num[k + 1] = 0 /\ prime[k + 1] = 0
        /\ \A j \in Stage \ {k} : pc'[j] = pc[j] /\ num'[j] = num[j]
        /\ k = 0 => pc'[k] = "write" /\ num'[k] = 2
        /\ k # 0 => pc'[k] = "read" /\ num'[k] = num[k]
    BY <1>5 DEF CloseRead, ControlInv, Control, TypeOK
  <2>2. k + 1 # k /\ prime[0] = 0
    BY DEF ControlInv
  <2>3. CASE k = 0
    <3>1. Order(k)'
      BY <2>1, <2>2, <2>3, EmptyFacts DEF Order
    <3>2. \A j \in Stage \ {k} : Order(j)'
      <4>1. \A j \in Stage : j + 1 # k
        BY <2>3, PrimesAssumption DEF Stage
      <4> QED
        BY <2>1, <4>1 DEF OrderInv, Order
    <3> QED
      BY <3>1, <3>2 DEF OrderInv
  <2>4. CASE k # 0
    <3>1. num' = num
      BY <1>5, <2>4 DEF CloseRead, TypeOK
    <3> QED
      BY <2>1, <2>4, <3>1 DEF OrderInv, Order
  <2> QED
    BY <2>3, <2>4
<1>6. ASSUME NEW k \in Stage, First(k) PROVE OrderInv'
  <2>1. /\ k # 0 /\ pc[k] = "first" /\ prime[k] = 0 /\ num[k] = 0 /\ num' = num /\ k + 1 # k
        /\ pipe[k] = <<>> /\ (k + 1 \in Stage => num[k + 1] = 0 /\ prime[k + 1] = 0)
        /\ pc'[k] \in {"print", "exited"} /\ \A j \in Stage \ {k} : pc'[j] = pc[j]
    BY <1>6 DEF First, Goto, ControlInv, Control, TypeOK
  <2>2. CASE Receives(k)
    <3>0. /\ k - 1 \in Stage /\ (k - 1) + 1 = k
          /\ Number(k) \in 2 .. Last /\ prime[k] < Number(k) /\ num[k] < Number(k)
          /\ prime[k - 1] < Number(k) /\ Number(k) \in Nums(pipe[k - 1])
          /\ \A j \in Stage \ {k - 1} : pipe'[j] = pipe[j]
          /\ Sorted(pipe'[k - 1]) /\ Nums(pipe'[k - 1]) \subseteq Nums(pipe[k - 1])
          /\ \A n \in Nums(pipe'[k - 1]) : Number(k) < n
      BY <2>1, <2>2, ReceiveFacts
    <3>1. /\ k - 1 \in Stage /\ (k - 1) + 1 = k /\ k - 1 # k
          /\ Number(k) \in Int /\ prime[k - 1] < Number(k) /\ Number(k) \in Nums(pipe[k - 1])
          /\ \A j \in Stage \ {k - 1} : pipe'[j] = pipe[j]
          /\ Sorted(pipe'[k - 1]) /\ Nums(pipe'[k - 1]) \subseteq Nums(pipe[k - 1])
          /\ \A n \in Nums(pipe'[k - 1]) : Number(k) < n
      BY <3>0, StageInt, PrimesAssumption
    <3>2. prime' = [prime EXCEPT ![k] = Number(k)] \/ prime' = prime
      BY <1>6 DEF First
    <3>3. /\ prime'[k] \in {Number(k), prime[k]}
          /\ \A j \in Stage \ {k} : prime'[j] = prime[j]
      BY <3>2 DEF TypeOK
    <3>4. Order(k)'
      BY SMTT(30), <2>1, <3>1, <3>3, EmptyFacts DEF Order
    <3>5. Order(k - 1)'
      BY <2>1, <3>1, <3>3 DEF OrderInv, Order
    <3>6. ASSUME NEW j \in Stage \ {k, k - 1} PROVE Order(j)'
      <4>1. j + 1 # k
        BY PrimesAssumption DEF Stage
      <4> QED
        BY <2>1, <3>1, <3>3, <4>1 DEF OrderInv, Order
    <3> QED
      BY <3>4, <3>5, <3>6 DEF OrderInv
  <2>3. CASE ~Receives(k)
    <3>1. UNCHANGED <<pipe, prime>>
      BY <1>6, <2>3 DEF First, AtEOF
    <3> QED
      BY <2>1, <3>1 DEF OrderInv, Order
  <2> QED
    BY <2>2, <2>3
<1>7. ASSUME NEW k \in Stage, PrintPrime(k) PROVE OrderInv'
  BY <1>7 DEF PrintPrime, Goto, Close, TypeOK, OrderInv, Order
<1>8. ASSUME NEW k \in Stage, Read(k) PROVE OrderInv'
  <2>1. /\ k # 0 /\ pc[k] = "read" /\ prime' = prime /\ k + 1 # k
        /\ \A j \in Stage \ {k} : pc'[j] = pc[j] /\ num'[j] = num[j]
    BY <1>8, StageFacts DEF Read, Goto, ControlInv, TypeOK
  <2>2. CASE Receives(k)
    <3>0. /\ k - 1 \in Stage /\ (k - 1) + 1 = k
          /\ Number(k) \in 2 .. Last /\ prime[k] < Number(k) /\ num[k] < Number(k)
          /\ prime[k - 1] < Number(k) /\ Number(k) \in Nums(pipe[k - 1])
          /\ \A j \in Stage \ {k - 1} : pipe'[j] = pipe[j]
          /\ Sorted(pipe'[k - 1]) /\ Nums(pipe'[k - 1]) \subseteq Nums(pipe[k - 1])
          /\ \A n \in Nums(pipe'[k - 1]) : Number(k) < n
      BY <2>1, <2>2, ReceiveFacts
    <3>1. /\ k - 1 \in Stage /\ (k - 1) + 1 = k /\ k - 1 # k
          /\ Number(k) \in Int /\ Number(k) >= 2 /\ prime[k] < Number(k) /\ num[k] < Number(k)
          /\ Number(k) \in Nums(pipe[k - 1])
          /\ \A j \in Stage \ {k - 1} : pipe'[j] = pipe[j]
          /\ Sorted(pipe'[k - 1]) /\ Nums(pipe'[k - 1]) \subseteq Nums(pipe[k - 1])
          /\ \A n \in Nums(pipe'[k - 1]) : Number(k) < n
      BY <3>0, StageInt, PrimesAssumption
    <3>2. num'[k] = Number(k) \/ (num'[k] = num[k] /\ pc'[k] # "write")
      BY <1>8 DEF Read, Goto, TypeOK
    <3>3. Nums(pipe[k]) \subseteq Int /\ num[k] \in Int /\ prime[k] \in Int
      BY NumsInt
    <3>4. Order(k)'
      <4>1. /\ pipe'[k] = pipe[k] /\ (pc'[k] = "write" => num'[k] = Number(k))
            /\ num[k] <= num'[k] /\ num'[k] \in Int /\ k > 0
        BY <2>1, <3>1, <3>2, <3>3, StageFacts
      <4>2. /\ Sorted(pipe'[k]) /\ \A n \in Nums(pipe'[k]) : prime'[k] < n
            /\ \A n \in Nums(pipe'[k]) : n <= num[k]
        BY <2>1, <4>1 DEF OrderInv, Order
      <4>3. \A n \in Nums(pipe'[k]) : n <= num'[k]
        BY <3>3, <4>1, <4>2
      <4>4. pc'[k] = "write" => /\ prime'[k] < num'[k] /\ 2 <= num'[k]
                               /\ \A n \in Nums(pipe'[k]) : n < num'[k]
        BY <2>1, <3>1, <3>3, <4>1, <4>2
      <4>5. ASSUME k + 1 \in Stage
            PROVE  /\ \A n \in Nums(pipe'[k]) : prime'[k + 1] < n /\ num'[k + 1] < n
                   /\ pc'[k] = "write" => prime'[k + 1] < num'[k] /\ num'[k + 1] < num'[k]
                   /\ prime'[k + 1] <= num'[k] /\ num'[k + 1] <= num'[k]
                   /\ prime'[k + 1] # 0 => prime'[k] < prime'[k + 1]
        <5>1. prime[k + 1] \in Int /\ num[k + 1] \in Int
          BY <4>5, NumsInt
        <5>2. num'[k + 1] = num[k + 1] /\ prime'[k + 1] = prime[k + 1]
          BY <2>1, <4>5
        <5>3. /\ \A n \in Nums(pipe[k]) : prime[k + 1] < n /\ num[k + 1] < n
              /\ prime[k + 1] <= num[k] /\ num[k + 1] <= num[k]
              /\ prime[k + 1] # 0 => prime[k] < prime[k + 1]
          BY <4>1, <4>5 DEF OrderInv, Order
        <5> QED
          BY <2>1, <3>1, <3>3, <4>1, <5>1, <5>2, <5>3
      <4> QED
        BY <4>2, <4>3, <4>4, <4>5 DEF Order
    <3>5. Order(k - 1)'
      BY <2>1, <3>1, <3>2 DEF OrderInv, Order
    <3>6. ASSUME NEW j \in Stage \ {k, k - 1} PROVE Order(j)'
      <4>1. j + 1 # k
        BY PrimesAssumption DEF Stage
      <4> QED
        BY <2>1, <3>1, <4>1 DEF OrderInv, Order
    <3> QED
      BY <3>4, <3>5, <3>6 DEF OrderInv
  <2>3. CASE ~Receives(k)
    <3>1. UNCHANGED <<pipe, num>> /\ pc'[k] = "closeIn"
      BY <1>8, <2>3 DEF Read, AtEOF, Goto, TypeOK
    <3> QED
      BY <2>1, <3>1 DEF OrderInv, Order
  <2> QED
    BY <2>2, <2>3
<1>9. ASSUME NEW k \in Stage, Write(k) PROVE OrderInv'
  <2>1. /\ pc[k] = "write" /\ prime' = prime /\ k + 1 # k
        /\ \A j \in Stage \ {k} : pc'[j] = pc[j] /\ num'[j] = num[j] /\ pipe'[j] = pipe[j]
    BY SMTT(30), <1>9 DEF Write, Goto, TypeOK
  <2>2. \/ pipe'[k] = pipe[k]
        \/ pipe'[k] = Append(pipe[k], num[k])
    BY <1>9 DEF Write, TypeOK
  <2>3. /\ num[k] \in Int /\ num'[k] \in Int
        /\ \/ num'[k] = num[k] /\ pc'[k] # "write"
           \/ k = 0 /\ num'[k] = num[k] + 1
    BY SMTT(30), <1>9, NumsInt DEF Write, Goto, TypeOK
  <2>4. Sorted(pipe'[k]) /\ Nums(pipe'[k]) \subseteq Nums(pipe[k]) \cup {num[k]}
    <3>1. num[k] \in 2 .. Last /\ pipe[k] \in Seq(2 .. Last)
      BY <2>1, PrimesAssumption DEF TypeOK, OrderInv, Order
    <3>2. 2 .. Last \in SUBSET Int
      BY PrimesAssumption
    <3>3. Sorted(pipe[k]) /\ \A n \in Nums(pipe[k]) : n < num[k]
      BY <2>1 DEF OrderInv, Order
    <3>4. Sorted(Append(pipe[k], num[k])) /\ Nums(Append(pipe[k], num[k])) = Nums(pipe[k]) \cup {num[k]}
      <4>1. pipe[k] \in Seq(Int) /\ num[k] \in Int
        BY <3>1, IntegerSequence, NumsInt
      <4> QED
        BY <3>3, <4>1, AppendFacts
    <3> QED
      BY <2>2, <3>3, <3>4
  <2>5. Nums(pipe[k]) \subseteq Int
    BY NumsInt
  <2>6. Order(k)'
    <3>1. /\ Sorted(pipe'[k]) /\ prime[k] < num[k] /\ 2 <= num[k] /\ prime[k] \in Int
          /\ \A n \in Nums(pipe'[k]) : n \in Int /\ prime[k] < n /\ n <= num[k]
      <4>1. /\ prime[k] < num[k] /\ 2 <= num[k]
            /\ \A n \in Nums(pipe[k]) : prime[k] < n /\ n < num[k]
        BY <2>1 DEF OrderInv, Order
      <4>2. prime[k] \in Int
        BY NumsInt
      <4> QED
        BY <2>3, <2>4, <2>5, <4>1, <4>2
    <3>2. num[k] <= num'[k] /\ (pc'[k] = "write" => num[k] < num'[k])
      BY <2>3
    <3>3. /\ \A n \in Nums(pipe'[k]) : prime'[k] < n /\ n <= num'[k]
          /\ pc'[k] = "write" => /\ prime'[k] < num'[k] /\ 2 <= num'[k]
                                 /\ \A n \in Nums(pipe'[k]) : n < num'[k]
      BY <2>1, <2>3, <3>1, <3>2
    <3>4. ASSUME k + 1 \in Stage
          PROVE  /\ \A n \in Nums(pipe'[k]) : prime'[k + 1] < n /\ num'[k + 1] < n
                 /\ pc'[k] = "write" => prime'[k + 1] < num'[k] /\ num'[k + 1] < num'[k]
                 /\ prime'[k + 1] <= num'[k] /\ num'[k + 1] <= num'[k]
                 /\ prime'[k + 1] # 0 => prime'[k] < prime'[k + 1]
      <4>1. prime[k + 1] \in Int /\ num[k + 1] \in Int
        BY <3>4, NumsInt
      <4>2. num'[k + 1] = num[k + 1] /\ prime'[k + 1] = prime[k + 1]
        BY <2>1, <3>4
      <4>3. /\ \A n \in Nums(pipe[k]) : prime[k + 1] < n /\ num[k + 1] < n
            /\ prime[k + 1] < num[k] /\ num[k + 1] < num[k]
            /\ prime[k + 1] # 0 => prime[k] < prime[k + 1]
        BY <2>1, <3>4 DEF OrderInv, Order
      <4>4. \A n \in Nums(pipe'[k]) : prime[k + 1] < n /\ num[k + 1] < n
        BY <2>4, <4>3
      <4> QED
        BY <2>1, <2>3, <3>2, <4>1, <4>2, <4>3, <4>4
    <3> QED
      BY <3>1, <3>3, <3>4 DEF Order
  <2>7. ASSUME NEW j \in Stage, j # k PROVE Order(j)'
    <3>1. j + 1 = k => k # 0 /\ num'[k] = num[k]
      BY <2>3, PrimesAssumption DEF Stage
    <3> QED
      BY <2>1, <2>7, <3>1, NumsInt DEF OrderInv, Order
  <2> QED
    BY <2>6, <2>7 DEF OrderInv
<1>10. ASSUME NEW k \in Stage, CloseIn(k) PROVE OrderInv'
  BY <1>10 DEF CloseIn, Goto, Close, TypeOK, OrderInv, Order
<1>11. ASSUME NEW k \in Stage, CloseOut(k) PROVE OrderInv'
  BY <1>11 DEF CloseOut, Goto, Close, TypeOK, OrderInv, Order
<1>12. ASSUME NEW k \in Stage, Wait(k) PROVE OrderInv'
  BY <1>12 DEF Wait, Goto, Close, TypeOK, OrderInv, Order
<1>13. ASSUME NEW k \in Stage, ForkFails(k) PROVE OrderInv'
  BY <1>13 DEF ForkFails, Goto, TypeOK, OrderInv, Order
<1> QED
  BY <1>1, <1>2, <1>3, <1>4, <1>5, <1>6, <1>7, <1>8,
     <1>9, <1>10, <1>11, <1>12, <1>13 DEF Next, Step

\* Every stage reads rising numbers above its prime, and they reach the printer stage by stage.
THEOREM PrimesCorrect == Spec => []IInv
<1>1. IInv /\ [Next]_vars => IInv'
  BY TypeStep, ControlStep, OrderStep, PrintStep DEF IInv
<1> QED
  BY PrimesInit, <1>1, PTL DEF Spec

\* The numbers are printed in order, each once.
THEOREM PrintsInOrderCorrect == Spec => []PrintsInOrder
<1>1. IInv => PrintsInOrder
  <2> SUFFICES ASSUME IInv, NEW j \in 2 .. Len(printed) PROVE printed[j - 1] < printed[j]
    BY DEF PrintsInOrder
  <2>1. j - 1 \in 1 .. Len(printed) /\ j \in 1 .. Len(printed) /\ (j - 1) + 1 = j
    BY DEF IInv, TypeOK
  <2>2. /\ j - 1 \in Stage /\ (j - 1) + 1 \in Stage /\ prime[(j - 1) + 1] # 0
        /\ printed[j - 1] = prime[j - 1] /\ printed[j] = prime[j]
    BY <2>1 DEF IInv, PrintInv
  <2>3. prime[j - 1] < prime[(j - 1) + 1]
    BY <2>2 DEF IInv, OrderInv, Order
  <2> QED
    BY <2>1, <2>2, <2>3
<1> QED
  BY <1>1, PrimesCorrect, PTL

-----------------------------------------------------------------------------
\* The states of a stage that has its prime and made its pipe, and of one that reads no more.
Before   == {"none", "closeWrite", "first", "print", "pipe", "fork"}
Finished == {"closeIn", "closeOut", "wait", "exited"}

\* Only the last stage has no child: it has not forked, or its fork() has failed, or it got no
\* number and has exited.  When a stage has exited, so have all after it.
Later(k) ==
  /\ pc[k] \in Before => \A j \in Stage : j > k => pc[j] = "none"
  /\ pc[k] = "exited" => \A j \in Stage : j > k => pc[j] \in {"none", "exited"}
  /\ k # 0 /\ pc[k] \notin {"none", "closeWrite", "first", "exited"} => prime[k] # 0
  /\ ~HasChild(k) => \A j \in Stage : j > k => pc[j] = "none"
  /\ k # 0 /\ prime[k] = 0 => \A j \in Stage : j > k => pc[j] = "none"
Tip(m) ==
  /\ m \in Stage
  /\ pc[m] \notin {"none", "closeWrite", "first", "print"}
  /\ m # 0 => prime[m] # 0
  /\ pc[m] \notin {"pipe", "fork"} /\ HasChild(m) =>
       /\ pc[m + 1] \in {"closeWrite", "first", "print", "exited"}
       /\ pc[m + 1] = "exited" => prime[m + 1] = 0
TipInv == (\A k \in Stage : Later(k)) /\ Tip(Len(printed))

\* Which ends of pipe j stage k has open.
Reads(k, j) ==
  \/ j < k - 1 /\ pc[k] \notin {"none", "exited"}
  \/ j = k - 1 /\ pc[k] \notin {"none", "closeOut", "wait", "exited"}
  \/ j = k /\ pc[k] \in {"fork", "closeRead"}
Writes(k, j) ==
  \/ j = k - 1 /\ pc[k] = "closeWrite"
  \/ j = k /\ pc[k] \in {"fork", "closeRead", "read", "write", "closeIn", "closeOut"}

\* The descriptors are as the program text says, and a stage stops reading only when the one
\* before it has closed its pipe.
FileInv ==
  /\ \A k, j \in Stage : /\ <<j, "r">> \in files[k] <=> Reads(k, j)
                         /\ <<j, "w">> \in files[k] <=> Writes(k, j)
  /\ \A k \in Stage : k + 1 \in Stage /\ pc[k + 1] \in Finished => pc[k] \in {"wait", "exited"}

\* The numbers that no prime of the stages 1 .. k divides; what stage k has written of them.
Sieved(k)  == {n \in 2 .. Last : \A i \in 1 .. k : prime[i] # 0 => PassesOn(i, n)}
Sent(k, n) == n <= num[k] /\ (pc[k] = "write" => n # num[k])

\* What stage k has sent and its child has not yet received is in the pipe, and nothing else is;
\* the prime of a stage is the least number that comes to it; at the end everything is through.
Flow(k) ==
  /\ HasChild(k) => \A n \in Sieved(k) : prime[k + 1] < n /\ num[k + 1] < n /\ Sent(k, n)
                                           => n \in Nums(pipe[k])
  /\ \A n \in Nums(pipe[k]) : n \in Sieved(k) /\ Sent(k, n)
  /\ pc[k] = "write" => num[k] \in Sieved(k)
  /\ prime[k] # 0 => k - 1 \in Stage /\ prime[k] \in Sieved(k - 1) /\ \A n \in Sieved(k - 1) : prime[k] <= n
  /\ pc[k] \in Finished /\ (k = 0 \/ prime[k] # 0) => \A n \in Sieved(k) : n <= num[k]
  /\ pc[k] = "exited" /\ k # 0 /\ prime[k] = 0 => Sieved(k - 1) = {}
FlowInv == \A k \in Stage : Flow(k)

\* What the sieve has reached when main() starts.
LEMMA TipInit == Init => TipInv
<1> SUFFICES ASSUME Init PROVE TipInv
  OBVIOUS
<1>1. Len(printed) = 0 /\ 0 \in Stage /\ pc[0] = "pipe" /\ \A j \in Stage : j > 0 => pc[j] = "none"
  BY StageFacts DEF Init
<1>2. \A k \in Stage : Later(k)
  <2>1. \A k \in Stage : \A j \in Stage : j > k => j # 0
    BY StageFacts
  <2>2. \A k \in Stage : pc[k] = IF k = 0 THEN "pipe" ELSE "none"
    BY DEF Init
  <2> QED
    BY <2>1, <2>2 DEF Later, Before
<1> QED
  BY <1>1, <1>2 DEF TipInv, Tip

\* A step of stage k that stays with its kind of state, and prints nothing, keeps the last stage.
LEMMA TipStill ==
  ASSUME IInv, TipInv, UNCHANGED <<prime, printed>>, NEW k \in Stage,
         \A j \in Stage \ {k} : pc'[j] = pc[j],
         pc[k] \in {"pipe"} => pc'[k] \in {"fork"},
         pc[k] \in {"closeWrite"} => pc'[k] = "first",
         pc[k] \in {"closeRead", "read", "write", "closeIn", "closeOut"} =>
           pc'[k] \in {"read", "write", "closeIn", "closeOut", "wait"},
         pc[k] \in {"pipe", "closeWrite", "closeRead", "read", "write", "closeIn", "closeOut"}
  PROVE  TipInv'
<1>1. ASSUME NEW j \in Stage PROVE Later(j)'
  <2>1. Later(j) /\ \A i \in Stage : pc[i] = "none" \/ pc[i] = "exited" => pc'[i] = pc[i]
    BY DEF TipInv
  <2>2. pc'[j] \in Before <=> pc[j] \in Before
    BY DEF Before
  <2>3. pc[j] = "exited" <=> pc'[j] = "exited"
    BY <2>1
  <2>4. \A i \in Stage : pc[i] # "none" => pc'[i] # "none"
    OBVIOUS
  <2>5. j # 0 /\ pc'[j] \notin {"none", "closeWrite", "first", "exited"} => prime[j] # 0
    BY <2>1 DEF Later
  <2>6. HasChild(j)' <=> HasChild(j)
    BY <2>1 DEF HasChild
  <2> QED
    BY <2>1, <2>2, <2>3, <2>4, <2>5, <2>6 DEF Later
<1>2. Tip(Len(printed))'
  BY DEF TipInv, Tip, HasChild
<1> QED
  BY <1>1, <1>2 DEF TipInv

\* Every step keeps the last stage the only one that has not forked.
LEMMA TipStep == IInv /\ TipInv /\ [Next]_vars => TipInv'
<1> SUFFICES ASSUME IInv, TipInv, [Next]_vars PROVE TipInv'
  OBVIOUS
<1>0. TypeOK /\ printed \in Seq(Int)
  <2>1. TypeOK
    BY DEF IInv
  <2> QED
    BY <2>1, IntegerSequence DEF TypeOK
<1>1. CASE UNCHANGED vars
  BY <1>1 DEF vars, TipInv, Later, Tip, HasChild
<1>2. ASSUME NEW k \in Stage, Pipe(k) PROVE TipInv'
  BY <1>0, <1>2, TipStill DEF Pipe, Goto, TypeOK
<1>3. ASSUME NEW k \in Stage, Fork(k) PROVE TipInv'
  <2>1. /\ pc[k] = "fork" /\ pc'[k] = "closeRead" /\ pc'[k + 1] = "closeWrite" /\ k + 1 \in Stage
        /\ \A j \in Stage \ {k, k + 1} : pc'[j] = pc[j]
        /\ UNCHANGED <<prime, printed>>
    BY <1>0, <1>3, StageFacts DEF Fork, TypeOK
  <2>2. Len(printed) = k
    BY <2>1 DEF IInv, PrintInv
  <2>3. \A j \in Stage : j > k => pc[j] = "none"
    BY <2>1 DEF TipInv, Later, Before
  <2>4. ASSUME NEW j \in Stage PROVE Later(j)'
    <3>1. Later(j)
      BY DEF TipInv
    <3>2. \A i \in Stage : i > k + 1 => i > k /\ i # k /\ i # k + 1
      BY StageInt
    <3>3. CASE j = k + 1
      <4>1. pc'[j] = "closeWrite" /\ \A i \in Stage : i > j => pc'[i] = "none"
        BY <2>1, <2>3, <3>2, <3>3
      <4> QED
        BY <4>1 DEF Later, Before
    <3>4. CASE j = k
      <4>1. HasChild(j)'
        BY <2>1, <3>4 DEF HasChild
      <4> QED
        BY <2>1, <3>1, <3>4, <4>1 DEF Later, Before
    <3>5. CASE j # k /\ j # k + 1
      <4>1. pc'[j] = pc[j]
        BY <2>1, <3>5
      <4>2. CASE j > k
        <5>1. pc[j] = "none" /\ \A i \in Stage : i > j => i > k + 1
          BY <2>3, <3>5, <4>2, StageInt
        <5> QED
          BY <2>1, <2>3, <3>2, <4>1, <5>1 DEF Later, Before
      <4>3. CASE j < k
        <5>1. pc[j] \notin Before /\ pc[j] # "exited" /\ HasChild(j)
          BY <2>1, <3>1, <4>3 DEF Later, Before
        <5>2. HasChild(j)'
          BY <2>1, <5>1 DEF HasChild
        <5>3. ~(j # 0 /\ prime[j] = 0)
          BY <2>1, <3>1, <4>3 DEF Later
        <5> QED
          BY <2>1, <4>1, <5>1, <5>2, <5>3 DEF Later, Before
      <4> QED
        BY <3>5, <4>2, <4>3, StageInt
    <3> QED
      BY <3>3, <3>4, <3>5
  <2>5. Tip(Len(printed))'
    BY <2>1, <2>2 DEF TipInv, Tip
  <2> QED
    BY <2>4, <2>5 DEF TipInv
<1>4. ASSUME NEW k \in Stage, CloseWrite(k) PROVE TipInv'
  BY <1>0, <1>4, TipStill DEF CloseWrite, Goto, TypeOK
<1>5. ASSUME NEW k \in Stage, CloseRead(k) PROVE TipInv'
  BY <1>0, <1>5, TipStill DEF CloseRead, TypeOK
<1>6. ASSUME NEW k \in Stage, First(k) PROVE TipInv'
  <2>1. /\ k # 0 /\ pc[k] = "first" /\ pc'[k] \in {"print", "exited"} /\ printed' = printed
        /\ \A j \in Stage \ {k} : pc'[j] = pc[j] /\ prime'[j] = prime[j]
        /\ pc'[k] = "exited" => prime' = prime
    BY <1>0, <1>6 DEF First, Goto, TypeOK, IInv, ControlInv, Control
  <2>2. Len(printed) = k - 1 /\ prime[k] = 0 /\ Len(printed) # k /\ Len(printed) + 1 = k
    BY <2>1, StageInt DEF IInv, PrintInv, ControlInv, Control
  <2>3. pc'[k] = "print" => prime'[k] # 0
    <3>1. CASE Receives(k)
      <4>1. Number(k) \in 2 .. Last
        BY <2>1, <3>1, ReceiveFacts DEF IInv
      <4>2. Number(k) # 0
        BY <4>1, PrimesAssumption
      <4>3. pc'[k] = "print" => prime'[k] = Number(k)
        BY <1>0, <1>6, <2>1 DEF First, Goto, TypeOK
      <4> QED
        BY <4>2, <4>3
    <3>2. CASE ~Receives(k)
      BY <1>0, <1>6, <3>2 DEF First, Goto, TypeOK
    <3> QED
      BY <3>1, <3>2
  <2>4. ASSUME NEW j \in Stage PROVE Later(j)'
    <3>1. Later(j) /\ Later(k)
      BY DEF TipInv
    <3>2. \A i \in Stage : i > k => pc'[i] = "none" /\ i # k
      BY <2>1, <3>1, StageInt DEF Later, Before
    <3>3. CASE j = k
      BY <2>1, <2>3, <3>2, <3>3 DEF Later, Before
    <3>4. CASE j > k
      <4>1. pc'[j] = "none" /\ \A i \in Stage : i > j => i > k
        BY <3>2, <3>4, StageInt
      <4> QED
        BY <3>2, <4>1 DEF Later, Before
    <3>5. CASE j < k
      <4>1. pc[j] \notin Before /\ pc[j] # "exited" /\ pc'[j] = pc[j] /\ prime'[j] = prime[j]
        BY <2>1, <3>1, <3>5, StageInt DEF Later, Before
      <4>2. ~(j # 0 /\ prime[j] = 0) /\ HasChild(j)
        BY <2>1, <3>1, <3>5 DEF Later
      <4>3. HasChild(j)'
        BY <2>1, <4>2 DEF HasChild
      <4> QED
        BY <4>1, <4>2, <4>3 DEF Later, Before
    <3> QED
      BY <3>3, <3>4, <3>5, StageInt
  <2>5. Tip(Len(printed))'
    <3>1. Tip(k - 1)
      BY <2>2 DEF TipInv
    <3>2. k - 1 \in Stage /\ k - 1 # k /\ (k - 1) + 1 = k
      BY <2>1, StageFacts, StageInt
    <3>3. Tip(k - 1)'
      BY <2>1, <2>2, <3>1, <3>2 DEF Tip
    <3> QED
      BY <2>1, <2>2, <3>3
  <2> QED
    BY <2>4, <2>5 DEF TipInv
<1>7. ASSUME NEW k \in Stage, PrintPrime(k) PROVE TipInv'
  <2>1. /\ k # 0 /\ pc[k] = "print" /\ pc'[k] = "pipe" /\ prime' = prime /\ prime[k] # 0
        /\ printed' = Append(printed, prime[k]) /\ Len(printed) = k - 1
        /\ \A j \in Stage \ {k} : pc'[j] = pc[j]
    BY <1>0, <1>7 DEF PrintPrime, Goto, TypeOK, IInv, ControlInv, Control, PrintInv
  <2>2. Len(printed') = k
    <3>1. Len(Append(printed, prime[k])) = Len(printed) + 1
      BY <1>0, NumsInt
    <3> QED
      BY <2>1, <3>1, StageInt
  <2>3. \A j \in Stage : Later(j)'
    <3>1. \A j \in Stage : HasChild(j)' <=> HasChild(j)
      BY <2>1 DEF HasChild
    <3> QED
      BY <2>1, <3>1 DEF TipInv, Later, Before
  <2>4. Tip(k)'
    BY <2>1 DEF Tip
  <2> QED
    BY <2>2, <2>3, <2>4 DEF TipInv
<1>8. ASSUME NEW k \in Stage, Read(k) PROVE TipInv'
  <2>1. /\ UNCHANGED <<prime, printed>> /\ pc[k] = "read" /\ pc'[k] \in {"read", "write", "closeIn"}
        /\ \A j \in Stage \ {k} : pc'[j] = pc[j]
    BY <1>0, <1>8 DEF Read, Goto, TypeOK
  <2> QED
    BY <2>1, TipStill
<1>9. ASSUME NEW k \in Stage, Write(k) PROVE TipInv'
  <2>1. /\ UNCHANGED <<prime, printed>> /\ pc[k] = "write" /\ pc'[k] \in {"read", "write", "closeOut"}
        /\ \A j \in Stage \ {k} : pc'[j] = pc[j]
    BY <1>0, <1>9 DEF Write, Goto, TypeOK
  <2> QED
    BY <2>1, TipStill
<1>10. ASSUME NEW k \in Stage, CloseIn(k) PROVE TipInv'
  BY <1>0, <1>10, TipStill DEF CloseIn, Goto, TypeOK
<1>11. ASSUME NEW k \in Stage, CloseOut(k) PROVE TipInv'
  BY <1>0, <1>11, TipStill DEF CloseOut, Goto, TypeOK
<1>12. ASSUME NEW k \in Stage, Wait(k) PROVE TipInv'
  <2>1. /\ pc[k] = "wait" /\ pc'[k] = "exited" /\ UNCHANGED <<prime, printed>>
        /\ HasChild(k) => pc[k + 1] = "exited"
        /\ \A j \in Stage \ {k} : pc'[j] = pc[j]
    BY <1>0, <1>12 DEF Wait, Goto, TypeOK
  <2>2. \A j \in Stage : HasChild(j)' <=> HasChild(j)
    BY <2>1 DEF HasChild
  <2>3. ASSUME NEW j \in Stage PROVE Later(j)'
    <3>1. Later(j) /\ Later(k) /\ (k + 1 \in Stage => Later(k + 1))
      BY DEF TipInv
    <3>2. CASE j = k
      <4>1. \A i \in Stage : i > k => i = k + 1 \/ i > k + 1
        BY StageInt
      <4>2. \A i \in Stage : i > k => pc[i] \in {"none", "exited"} /\ i # k
        <5>1. CASE HasChild(k)
          BY <2>1, <3>1, <4>1, <5>1, StageInt DEF Later, HasChild
        <5>2. CASE ~HasChild(k)
          BY <3>1, <5>2, StageInt DEF Later
        <5> QED
          BY <5>1, <5>2
      <4> QED
        BY <2>1, <2>2, <3>1, <3>2, <4>2 DEF Later, Before
    <3>3. CASE j < k
      <4>1. pc[j] \notin Before /\ pc[j] # "exited" /\ pc'[j] = pc[j] /\ HasChild(j)
        BY <2>1, <3>1, <3>3, StageInt DEF Later, Before
      <4>2. ~(j # 0 /\ prime[j] = 0)
        BY <2>1, <3>1, <3>3 DEF Later
      <4> QED
        BY <2>1, <2>2, <4>1, <4>2 DEF Later, Before
    <3>4. CASE j > k
      <4>1. \A i \in Stage : i > j => i # k
        BY <3>4, StageInt
      <4> QED
        BY <2>1, <2>2, <3>1, <3>4, <4>1, StageInt DEF Later, Before
    <3> QED
      BY <3>2, <3>3, <3>4, StageInt
  <2>4. Tip(Len(printed))'
    <3> DEFINE m == Len(printed)
    <3>0. Tip(m) /\ printed' = printed
      BY <2>1 DEF TipInv
    <3> HIDE DEF m
    <3>1. m \in Stage /\ pc[m] \notin {"none", "closeWrite", "first", "print"} /\ (m # 0 => prime[m] # 0)
      BY <3>0 DEF Tip
    <3>2. pc'[m] \notin {"none", "closeWrite", "first", "print"} /\ (pc'[m] # pc[m] => m = k)
      BY <2>1, <3>1
    <3>3. ASSUME pc'[m] \notin {"pipe", "fork"}, HasChild(m)
          PROVE  /\ pc'[m + 1] \in {"closeWrite", "first", "print", "exited"}
                 /\ pc'[m + 1] = "exited" => prime[m + 1] = 0
      <4>1. pc[m] \notin {"pipe", "fork"} /\ m + 1 \in Stage
        BY <2>1, <3>1, <3>2, <3>3 DEF HasChild
      <4>2. /\ pc[m + 1] \in {"closeWrite", "first", "print", "exited"}
            /\ pc[m + 1] = "exited" => prime[m + 1] = 0
        BY <3>0, <3>3, <4>1 DEF Tip
      <4>3. pc'[m + 1] = pc[m + 1]
        BY <2>1, <4>1, <4>2
      <4> QED
        BY <4>2, <4>3
    <3>4. Tip(m)'
      BY <2>1, <2>2, <3>0, <3>1, <3>2, <3>3 DEF Tip, m
    <3> QED
      BY <3>4 DEF m
  <2> QED
    BY <2>3, <2>4 DEF TipInv
<1>13. ASSUME NEW k \in Stage, ForkFails(k) PROVE TipInv'
  <2>1. /\ pc[k] = "fork" /\ pc'[k] = "closeRead" /\ UNCHANGED <<prime, printed>>
        /\ \A j \in Stage \ {k} : pc'[j] = pc[j]
    BY <1>0, <1>13 DEF ForkFails, Goto, TypeOK
  <2>2. \A j \in Stage : HasChild(j)' <=> HasChild(j)
    BY <2>1 DEF HasChild
  <2>3. \A j \in Stage : j > k => pc[j] = "none" /\ j # k
    BY <2>1, StageInt DEF TipInv, Later, Before
  <2>4. ASSUME NEW j \in Stage PROVE Later(j)'
    <3>1. Later(j)
      BY DEF TipInv
    <3>2. CASE j = k
      BY <2>1, <2>3, <3>1, <3>2 DEF Later, Before
    <3>3. CASE j # k
      <4>1. pc'[j] = pc[j] /\ \A i \in Stage : pc[i] \in {"none", "exited"} => pc'[i] = pc[i]
        BY <2>1, <3>3
      <4> QED
        BY <2>1, <2>2, <3>1, <4>1 DEF Later
    <3> QED
      BY <3>2, <3>3
  <2>5. Tip(Len(printed))'
    <3>1. ~HasChild(k) /\ Len(printed) = k
      BY <2>1 DEF HasChild, IInv, ControlInv, Control, PrintInv
    <3> QED
      BY <2>1, <2>2, <3>1 DEF TipInv, Tip
  <2> QED
    BY <2>4, <2>5 DEF TipInv
<1> QED
  BY <1>1, <1>2, <1>3, <1>4, <1>5, <1>6, <1>7, <1>8,
     <1>9, <1>10, <1>11, <1>12, <1>13 DEF Next, Step

\* No descriptor is open when main() starts.
LEMMA FileInit == Init => FileInv
<1> SUFFICES ASSUME Init PROVE FileInv
  OBVIOUS
<1>1. \A k \in Stage : files[k] = {} /\ pc[k] = IF k = 0 THEN "pipe" ELSE "none"
  BY DEF Init
<1>2. \A k, j \in Stage : ~Reads(k, j) /\ ~Writes(k, j)
  BY <1>1, StageInt DEF Reads, Writes, Stage
<1> QED
  BY <1>1, <1>2 DEF FileInv, Finished

\* read() returns 0 only when the stage before has closed its write end.
LEMMA EndOfFile ==
  ASSUME TypeOK, TipInv, FileInv, NEW k \in Stage, k # 0, pc[k] # "none", AtEOF(k)
  PROVE  k - 1 \in Stage /\ pc[k - 1] \in {"wait", "exited"} /\ pipe[k - 1] = <<>>
<1>1. k - 1 \in Stage /\ k > k - 1 /\ k - 1 \in Int
  BY StageFacts
<1>2. pc[k - 1] \notin Before
  BY <1>1 DEF TipInv, Later
<1>3. ~Writes(k - 1, k - 1)
  BY <1>1 DEF AtEOF, Open, FileInv
<1>4. pc[k - 1] \in {"closeIn", "closeOut", "wait", "exited", "read", "write", "closeRead"}
  BY <1>1, <1>2 DEF TypeOK, Before
<1> QED
  BY <1>1, <1>3, <1>4 DEF Writes, AtEOF

\* The descriptors of one stage are right, by the state it is in.
FilesRight(k) ==
  \A j \in Stage : /\ <<j, "r">> \in files[k] <=> Reads(k, j)
                   /\ <<j, "w">> \in files[k] <=> Writes(k, j)

\* A step that leaves a stage alone leaves its descriptors right.
LEMMA FilesStill ==
  ASSUME FileInv, NEW k \in Stage, files'[k] = files[k], pc'[k] = pc[k]
  PROVE  FilesRight(k)'
BY DEF FileInv, FilesRight, Reads, Writes

\* Where no stage stops reading, none has stopped too early.
LEMMA EndStill ==
  ASSUME FileInv, NEW k \in Stage, pc[k] \notin {"wait", "exited"}, k + 1 # k,
         \A j \in Stage \ {k} : pc'[j] = pc[j],
         pc'[k] \in Finished => pc[k] \in Finished \/ (k - 1 \in Stage => pc[k - 1] \in {"wait", "exited"})
  PROVE  \A j \in Stage : j + 1 \in Stage /\ pc'[j + 1] \in Finished => pc'[j] \in {"wait", "exited"}
<1> SUFFICES ASSUME NEW j \in Stage, j + 1 \in Stage, pc'[j + 1] \in Finished
             PROVE  pc'[j] \in {"wait", "exited"}
  OBVIOUS
<1>1. CASE j + 1 = k
  <2>1. j = k - 1 /\ j # k
    BY <1>1, StageInt
  <2>2. pc[j] \in {"wait", "exited"}
    BY <1>1, <2>1 DEF FileInv
  <2> QED
    BY <2>1, <2>2
<1>2. CASE j + 1 # k
  BY <1>2 DEF FileInv
<1> QED
  BY <1>1, <1>2

\* Every step keeps the descriptors of the stages as the program text says.
LEMMA FileStep == IInv /\ TipInv /\ FileInv /\ [Next]_vars => FileInv'
<1> SUFFICES ASSUME IInv, TipInv, FileInv, [Next]_vars PROVE FileInv'
  OBVIOUS
<1>0. TypeOK
  BY DEF IInv
<1>r. \A k, j \in Stage : /\ <<j, "r">> \in files[k] <=> Reads(k, j)
                          /\ <<j, "w">> \in files[k] <=> Writes(k, j)
  BY DEF FileInv
<1>s. \A k \in Stage : k \in Int /\ k + 1 # k /\ k - 1 # k
  BY StageInt
<1>q. ASSUME \A k \in Stage : FilesRight(k)',
             \A k \in Stage : k + 1 \in Stage /\ pc'[k + 1] \in Finished => pc'[k] \in {"wait", "exited"}
      PROVE  FileInv'
  BY <1>q DEF FileInv, FilesRight, Reads, Writes
<1>1. CASE UNCHANGED vars
  BY <1>1 DEF vars, FileInv, Reads, Writes
<1>2. ASSUME NEW k \in Stage, Pipe(k) PROVE FileInv'
  <2>1. /\ pc[k] = "pipe" /\ pc'[k] = "fork" /\ files'[k] = files[k] \cup {<<k, "r">>, <<k, "w">>}
        /\ \A j \in Stage \ {k} : pc'[j] = pc[j] /\ files'[j] = files[j]
    BY <1>0, <1>2 DEF Pipe, Goto, TypeOK
  <2>2. FilesRight(k)'
    BY <1>r, <1>s, <2>1 DEF FilesRight, Reads, Writes
  <2>3. \A j \in Stage : FilesRight(j)'
    BY <2>1, <2>2, FilesStill
  <2> QED
    BY <1>q, <1>s, <2>1, <2>3, EndStill DEF Finished
<1>3. ASSUME NEW k \in Stage, Fork(k) PROVE FileInv'
  <2>1. /\ pc[k] = "fork" /\ pc'[k] = "closeRead" /\ pc'[k + 1] = "closeWrite" /\ k + 1 \in Stage
        /\ files'[k] = files[k] /\ files'[k + 1] = files[k]
        /\ \A j \in Stage \ {k, k + 1} : pc'[j] = pc[j] /\ files'[j] = files[j]
    BY <1>0, <1>3, StageFacts DEF Fork, TypeOK
  <2>2. FilesRight(k)'
    BY <1>r, <1>s, <2>1 DEF FilesRight, Reads, Writes
  <2>3. FilesRight(k + 1)'
    <3>1. \A j \in Stage : /\ Reads(k, j) <=> (j < k - 1 \/ j = k - 1 \/ j = k)
                           /\ Writes(k, j) <=> j = k
      BY <1>s, <2>1 DEF Reads, Writes
    <3>2. \A j \in Stage : /\ Reads(k + 1, j)' <=> (j < (k + 1) - 1 \/ j = (k + 1) - 1)
                           /\ Writes(k + 1, j)' <=> j = (k + 1) - 1
      BY <1>s, <2>1 DEF Reads, Writes
    <3>3. \A j \in Stage : /\ Reads(k, j) <=> Reads(k + 1, j)'
                           /\ Writes(k, j) <=> Writes(k + 1, j)'
      BY <1>s, <3>1, <3>2
    <3>4. \A j \in Stage : /\ <<j, "r">> \in files[k] <=> Reads(k, j)
                           /\ <<j, "w">> \in files[k] <=> Writes(k, j)
      BY <1>r
    <3> QED
      BY <2>1, <3>3, <3>4 DEF FilesRight
  <2>4. \A j \in Stage : FilesRight(j)'
    BY <2>1, <2>2, <2>3, FilesStill
  <2>5. ASSUME NEW j \in Stage, j + 1 \in Stage, pc'[j + 1] \in Finished
        PROVE  pc'[j] \in {"wait", "exited"}
    <3>1. j + 1 # k /\ j + 1 # k + 1 /\ pc[j + 1] \in Finished
      BY <2>1, <2>5 DEF Finished
    <3>2. pc[j] \in {"wait", "exited"}
      BY <2>5, <3>1 DEF FileInv
    <3>3. j # k /\ j # k + 1
      <4>1. pc[k + 1] = "none"
        BY <1>s, <2>1 DEF TipInv, Later, Before
      <4> QED
        BY <2>1, <3>2, <4>1
    <3> QED
      BY <2>1, <3>2, <3>3
  <2> QED
    BY <1>q, <2>4, <2>5
<1>4. ASSUME NEW k \in Stage, CloseWrite(k) PROVE FileInv'
  <2>1. /\ pc[k] = "closeWrite" /\ pc'[k] = "first" /\ files'[k] = files[k] \ {<<k - 1, "w">>}
        /\ \A j \in Stage \ {k} : pc'[j] = pc[j] /\ files'[j] = files[j]
    BY <1>0, <1>4 DEF CloseWrite, Goto, Close, TypeOK
  <2>2. FilesRight(k)'
    BY <1>r, <1>s, <2>1 DEF FilesRight, Reads, Writes
  <2>3. \A j \in Stage : FilesRight(j)'
    BY <2>1, <2>2, FilesStill
  <2> QED
    BY <1>q, <1>s, <2>1, <2>3, EndStill DEF Finished
<1>5. ASSUME NEW k \in Stage, CloseRead(k) PROVE FileInv'
  <2>1. /\ pc[k] = "closeRead" /\ pc'[k] \in {"read", "write"} /\ files'[k] = files[k] \ {<<k, "r">>}
        /\ \A j \in Stage \ {k} : pc'[j] = pc[j] /\ files'[j] = files[j]
    BY <1>0, <1>5 DEF CloseRead, Close, TypeOK
  <2>2. FilesRight(k)'
    <3>1. \A j \in Stage : /\ <<j, "r">> \in files'[k] <=> Reads(k, j) /\ j # k
                           /\ <<j, "w">> \in files'[k] <=> Writes(k, j)
      <4>1. \A j : /\ <<j, "r">> \in {<<k, "r">>} <=> j = k
                   /\ <<j, "w">> \notin {<<k, "r">>}
        OBVIOUS
      <4> QED
        BY <1>r, <2>1, <4>1
    <3>2. \A j \in Stage : /\ Reads(k, j)' <=> Reads(k, j) /\ j # k
                           /\ Writes(k, j)' <=> Writes(k, j)
      BY <1>s, <2>1 DEF Reads, Writes
    <3> SUFFICES ASSUME NEW j \in Stage
                 PROVE  /\ <<j, "r">> \in files'[k] <=> Reads(k, j)'
                        /\ <<j, "w">> \in files'[k] <=> Writes(k, j)'
      BY DEF FilesRight
    <3>3. <<j, "r">> \in files'[k] <=> Reads(k, j)'
      BY <3>1, <3>2
    <3>4. <<j, "w">> \in files'[k] <=> Writes(k, j)'
      BY <3>1, <3>2
    <3> QED
      BY <3>3, <3>4
  <2>3. \A j \in Stage : FilesRight(j)'
    BY <2>1, <2>2, FilesStill
  <2> QED
    BY <1>q, <1>s, <2>1, <2>3, EndStill DEF Finished
<1>6. ASSUME NEW k \in Stage, First(k) PROVE FileInv'
  <2>1. /\ k # 0 /\ pc[k] = "first" /\ \A j \in Stage \ {k} : pc'[j] = pc[j] /\ files'[j] = files[j]
    BY <1>0, <1>6 DEF First, Goto, TypeOK, IInv, ControlInv
  <2>2. \/ pc'[k] = "print" /\ files'[k] = files[k]
        \/ pc'[k] = "exited" /\ files'[k] = {} /\ AtEOF(k)
    BY <1>0, <1>6 DEF First, Goto, TypeOK
  <2>3. FilesRight(k)'
    BY <1>r, <1>s, <2>1, <2>2 DEF FilesRight, Reads, Writes
  <2>4. \A j \in Stage : FilesRight(j)'
    BY <2>1, <2>3, FilesStill
  <2>5. pc'[k] \in Finished => k - 1 \in Stage /\ pc[k - 1] \in {"wait", "exited"}
    BY <1>0, <2>1, <2>2, EndOfFile DEF Finished
  <2> QED
    BY <1>q, <1>s, <2>1, <2>4, <2>5, EndStill
<1>7. ASSUME NEW k \in Stage, PrintPrime(k) PROVE FileInv'
  <2>1. /\ pc[k] = "print" /\ pc'[k] = "pipe" /\ files' = files
        /\ \A j \in Stage \ {k} : pc'[j] = pc[j]
    BY <1>0, <1>7 DEF PrintPrime, Goto, TypeOK
  <2>2. FilesRight(k)'
    BY <1>r, <1>s, <2>1 DEF FilesRight, Reads, Writes
  <2>3. \A j \in Stage : FilesRight(j)'
    BY <2>1, <2>2, FilesStill
  <2> QED
    BY <1>q, <1>s, <2>1, <2>3, EndStill DEF Finished
<1>8. ASSUME NEW k \in Stage, Read(k) PROVE FileInv'
  <2>1. /\ k # 0 /\ pc[k] = "read" /\ files' = files /\ \A j \in Stage \ {k} : pc'[j] = pc[j]
    BY <1>0, <1>8 DEF Read, Goto, TypeOK, IInv, ControlInv
  <2>2. \/ pc'[k] \in {"read", "write"}
        \/ pc'[k] = "closeIn" /\ AtEOF(k)
    BY <1>0, <1>8 DEF Read, Goto, TypeOK
  <2>3. FilesRight(k)'
    BY <1>r, <1>s, <2>1, <2>2 DEF FilesRight, Reads, Writes
  <2>4. \A j \in Stage : FilesRight(j)'
    BY <2>1, <2>3, FilesStill
  <2>5. pc'[k] \in Finished => k - 1 \in Stage /\ pc[k - 1] \in {"wait", "exited"}
    BY <1>0, <2>1, <2>2, EndOfFile DEF Finished
  <2> QED
    BY <1>q, <1>s, <2>1, <2>4, <2>5, EndStill
<1>9. ASSUME NEW k \in Stage, Write(k) PROVE FileInv'
  <2>1. /\ pc[k] = "write" /\ files' = files /\ \A j \in Stage \ {k} : pc'[j] = pc[j]
        /\ pc'[k] \in {"read", "write"} \/ (k = 0 /\ pc'[k] = "closeOut")
    <3>1. \E S : pc \in [Stage -> S]
      BY <1>0 DEF TypeOK
    <3>2. /\ pc[k] = "write" /\ files' = files
          /\ \/ pc' = [pc EXCEPT ![k] = "read"]
             \/ pc' = pc
             \/ k = 0 /\ pc' = [pc EXCEPT ![k] = "closeOut"]
      BY <1>9 DEF Write, Goto
    <3> QED
      BY <3>1, <3>2
  <2>2. FilesRight(k)'
    <3>1. k = 0 => \A j \in Stage : ~(j < k - 1) /\ j # k - 1
      BY DEF Stage
    <3> QED
      BY <1>r, <1>s, <2>1, <3>1 DEF FilesRight, Reads, Writes
  <2>3. \A j \in Stage : FilesRight(j)'
    BY <2>1, <2>2, FilesStill
  <2>4. k = 0 => k - 1 \notin Stage
    BY DEF Stage
  <2> QED
    BY <1>q, <1>s, <2>1, <2>3, <2>4, EndStill DEF Finished
<1>10. ASSUME NEW k \in Stage, CloseIn(k) PROVE FileInv'
  <2>1. /\ pc[k] = "closeIn" /\ pc'[k] = "closeOut" /\ files'[k] = files[k] \ {<<k - 1, "r">>}
        /\ \A j \in Stage \ {k} : pc'[j] = pc[j] /\ files'[j] = files[j]
    BY <1>0, <1>10 DEF CloseIn, Goto, Close, TypeOK
  <2>2. FilesRight(k)'
    <3>1. \A j \in Stage : /\ <<j, "r">> \in files'[k] <=> Reads(k, j) /\ j # k - 1
                           /\ <<j, "w">> \in files'[k] <=> Writes(k, j)
      <4>1. \A j : /\ <<j, "r">> \in {<<k - 1, "r">>} <=> j = k - 1
                   /\ <<j, "w">> \notin {<<k - 1, "r">>}
        OBVIOUS
      <4> QED
        BY <1>r, <2>1, <4>1
    <3>2. \A j \in Stage : /\ Reads(k, j)' <=> Reads(k, j) /\ j # k - 1
                           /\ Writes(k, j)' <=> Writes(k, j)
      BY <1>s, <2>1 DEF Reads, Writes
    <3> SUFFICES ASSUME NEW j \in Stage
                 PROVE  /\ <<j, "r">> \in files'[k] <=> Reads(k, j)'
                        /\ <<j, "w">> \in files'[k] <=> Writes(k, j)'
      BY DEF FilesRight
    <3>3. <<j, "r">> \in files'[k] <=> Reads(k, j)'
      BY <3>1, <3>2
    <3>4. <<j, "w">> \in files'[k] <=> Writes(k, j)'
      BY <3>1, <3>2
    <3> QED
      BY <3>3, <3>4
  <2>3. \A j \in Stage : FilesRight(j)'
    BY <2>1, <2>2, FilesStill
  <2> QED
    BY <1>q, <1>s, <2>1, <2>3, EndStill DEF Finished
<1>11. ASSUME NEW k \in Stage, CloseOut(k) PROVE FileInv'
  <2>1. /\ pc[k] = "closeOut" /\ pc'[k] = "wait" /\ files'[k] = files[k] \ {<<k, "w">>}
        /\ \A j \in Stage \ {k} : pc'[j] = pc[j] /\ files'[j] = files[j]
    BY <1>0, <1>11 DEF CloseOut, Goto, Close, TypeOK
  <2>2. FilesRight(k)'
    BY <1>r, <1>s, <2>1 DEF FilesRight, Reads, Writes
  <2>3. \A j \in Stage : FilesRight(j)'
    BY <2>1, <2>2, FilesStill
  <2> QED
    BY <1>q, <1>s, <2>1, <2>3, EndStill DEF Finished
<1>12. ASSUME NEW k \in Stage, Wait(k) PROVE FileInv'
  <2>1. /\ pc[k] = "wait" /\ pc'[k] = "exited" /\ files'[k] = {}
        /\ \A j \in Stage \ {k} : pc'[j] = pc[j] /\ files'[j] = files[j]
    BY <1>0, <1>12 DEF Wait, Goto, TypeOK
  <2>2. FilesRight(k)'
    BY <1>r, <1>s, <2>1 DEF FilesRight, Reads, Writes
  <2>3. \A j \in Stage : FilesRight(j)'
    BY <2>1, <2>2, FilesStill
  <2>4. \A j \in Stage : j + 1 \in Stage /\ pc'[j + 1] \in Finished => pc'[j] \in {"wait", "exited"}
    <3>1. \A j \in Stage : pc'[j] \in Finished <=> pc[j] \in Finished
      BY <2>1 DEF Finished
    <3>2. \A j \in Stage : pc[j] \in {"wait", "exited"} => pc'[j] \in {"wait", "exited"}
      BY <2>1
    <3> QED
      BY <3>1, <3>2 DEF FileInv
  <2> QED
    BY <1>q, <2>3, <2>4
<1>13. ASSUME NEW k \in Stage, ForkFails(k) PROVE FileInv'
  <2>1. /\ pc[k] = "fork" /\ pc'[k] = "closeRead" /\ files' = files
        /\ \A j \in Stage \ {k} : pc'[j] = pc[j]
    BY <1>0, <1>13 DEF ForkFails, Goto, TypeOK
  <2>2. FilesRight(k)'
    BY <1>r, <1>s, <2>1 DEF FilesRight, Reads, Writes
  <2>3. \A j \in Stage : FilesRight(j)'
    BY <2>1, <2>2, FilesStill
  <2> QED
    BY <1>q, <1>s, <2>1, <2>3, EndStill DEF Finished
<1> QED
  BY <1>1, <1>2, <1>3, <1>4, <1>5, <1>6, <1>7, <1>8,
     <1>9, <1>10, <1>11, <1>12, <1>13 DEF Next, Step

\* What read() takes out of a pipe with rising numbers is the least of them.
LEMMA HeadFacts ==
  ASSUME NEW S \in SUBSET Int, NEW s \in Seq(S), s # <<>>, Sorted(s)
  PROVE  \A n \in Nums(s) : Head(s) <= n /\ (Head(s) < n => n \in Nums(Tail(s)))
<1>1. /\ Len(Tail(s)) = Len(s) - 1 /\ Len(s) \in Nat /\ Len(s) > 0 /\ Head(s) = s[1]
      /\ \A j \in 1 .. Len(s) - 1 : Tail(s)[j] = s[j + 1]
  OBVIOUS
<1>0. \A j \in 1 .. Len(s) : s[j] \in Int
  BY ElementFacts
<1> SUFFICES ASSUME NEW j \in 1 .. Len(s)
             PROVE  Head(s) <= s[j] /\ (Head(s) < s[j] => s[j] \in Nums(Tail(s)))
  BY DEF Nums
<1>2. CASE j = 1
  BY <1>0, <1>1, <1>2
<1>3. CASE j # 1
  <2>1. j - 1 \in 1 .. Len(s) - 1 /\ (j - 1) + 1 = j /\ 1 < j /\ 1 \in 1 .. Len(s)
    BY <1>1, <1>3
  <2>2. Tail(s)[j - 1] = s[j] /\ j - 1 \in 1 .. Len(Tail(s))
    BY <1>1, <2>1
  <2>3. s[1] < s[j]
    BY <2>1 DEF Sorted
  <2>4. s[j] \in Nums(Tail(s))
    BY <2>2 DEF Nums
  <2> QED
    BY <1>0, <1>1, <2>1, <2>3, <2>4
<1> QED
  BY <1>2, <1>3

\* What the sieve has done when main() starts: nothing.
LEMMA FlowInit == Init => FlowInv
<1> SUFFICES ASSUME Init, NEW k \in Stage PROVE Flow(k)
  BY DEF FlowInv
<1>1. /\ pc[k] \notin Finished /\ pc[k] # "write" /\ pc[k] # "exited"
      /\ num[k] = 0 /\ prime[k] = 0 /\ Nums(pipe[k]) = {}
  BY EmptyFacts DEF Init, Finished
<1>2. \A n \in 2 .. Last : ~(n <= 0)
  BY PrimesAssumption
<1> QED
  BY <1>1, <1>2 DEF Flow, Sent, Sieved

\* The sieve up to stage k is made of the primes of its stages.
LEMMA SieveStill ==
  ASSUME NEW k \in Int, \A i \in 1 .. k : prime'[i] = prime[i]
  PROVE  Sieved(k)' = Sieved(k)
BY DEF Sieved, PassesOn

\* What the sieve up to stage k lets through, the sieve up to stage k - 1 does; no prime does.
LEMMA SieveFacts ==
  ASSUME TypeOK, NEW k \in Stage, k # 0
  PROVE  /\ Sieved(k) \subseteq Sieved(k - 1)
         /\ prime[k] # 0 => /\ prime[k] \notin Sieved(k)
                            /\ \A n \in Sieved(k - 1) : PassesOn(k, n) => n \in Sieved(k)
                            /\ \A n \in Sieved(k) : PassesOn(k, n)
<1>1. k \in 1 .. k /\ \A i \in 1 .. k - 1 : i \in 1 .. k
  BY StageFacts
<1>2. \A i \in 1 .. k : i = k \/ i \in 1 .. k - 1
  BY StageFacts
<1>3. Sieved(k) \subseteq Sieved(k - 1)
  BY <1>1 DEF Sieved
<1>4. prime[k] # 0 => ~PassesOn(k, prime[k])
  <2>1. prime[k] \in 0 .. Last
    BY DEF TypeOK
  <2>2. \A m \in Nat \ {0} : m % m = 0
    OBVIOUS
  <2> QED
    BY <2>1, <2>2, PrimesAssumption DEF PassesOn
<1>5. prime[k] # 0 => \A n \in Sieved(k) : PassesOn(k, n)
  BY <1>1 DEF Sieved
<1>6. \A n \in Sieved(k - 1) : PassesOn(k, n) => n \in Sieved(k)
  BY <1>2 DEF Sieved
<1> QED
  BY <1>3, <1>4, <1>5, <1>6

\* The numbers in the sieve are integers above 1.
LEMMA SievedInt == \A k : \A n \in Sieved(k) : n \in 2 .. Last /\ n \in Int /\ n >= 2
  BY PrimesAssumption DEF Sieved

\* A step that leaves stage k, the one after it and the pipe between them alone.
LEMMA FlowStill ==
  ASSUME NEW k \in Stage, Flow(k), num'[k] = num[k], pipe'[k] = pipe[k], prime'[k] = prime[k],
         pc'[k] = "write" <=> pc[k] = "write",
         pc'[k] \in Finished => pc[k] \in Finished,
         pc'[k] = "exited" /\ prime[k] = 0 /\ k # 0 => pc[k] = "exited",
         \A i \in 1 .. k : prime'[i] = prime[i],
         k + 1 \in Stage => prime'[k + 1] = prime[k + 1] /\ num'[k + 1] = num[k + 1],
         k + 1 \in Stage /\ pc[k + 1] = "none" => pc'[k + 1] = "none"
  PROVE  Flow(k)'
<1>1. Sieved(k)' = Sieved(k) /\ Sieved(k - 1)' = Sieved(k - 1)
  <2>1. k \in Int /\ k - 1 \in Int /\ \A i \in 1 .. k - 1 : i \in 1 .. k
    BY StageFacts
  <2> QED
    BY <2>1, SieveStill
<1>2. \A n : Sent(k, n)' <=> Sent(k, n)
  BY DEF Sent
<1>3. HasChild(k)' => HasChild(k) /\ prime'[k + 1] = prime[k + 1] /\ num'[k + 1] = num[k + 1]
  BY DEF HasChild
<1> QED
  BY <1>1, <1>2, <1>3 DEF Flow

\* A stage that has not been forked yet.
LEMMA FlowFresh ==
  ASSUME NEW k \in Stage, pc[k] = "none", Control(k)
  PROVE  Flow(k)
<1>1. num[k] = 0 /\ prime[k] = 0 /\ Nums(pipe[k]) = {} /\ pc[k] \notin Finished
  BY EmptyFacts DEF Control, Finished
<1>2. \A n \in 2 .. Last : ~(n <= 0)
  BY PrimesAssumption
<1> QED
  BY <1>1, <1>2 DEF Flow, Sent, Sieved

\* A step in which only the program counter of stage k moves, and it neither finishes nor starts
\* to write.
LEMMA FlowQuiet ==
  ASSUME FlowInv, NEW k \in Stage, UNCHANGED <<prime, num, pipe>>,
         \A j \in Stage \ {k} : pc'[j] = pc[j], pc[k] \notin {"none", "write"}, pc'[k] # "write",
         pc'[k] \in Finished => pc[k] \in Finished,
         pc'[k] = "exited" => k = 0 \/ prime[k] # 0
  PROVE  FlowInv'
<1> SUFFICES ASSUME NEW j \in Stage PROVE Flow(j)'
  BY DEF FlowInv
<1>1. Flow(j)
  BY DEF FlowInv
<1> QED
  BY <1>1, FlowStill

\* write() finds a reader: the next stage goes on reading as long as this one may write.
LEMMA ReaderOpen ==
  ASSUME TypeOK, TipInv, FileInv, NEW k \in Stage, pc[k] = "write", HasChild(k)
  PROVE  Open(k, "r")
<1>1. k + 1 \in Stage /\ pc[k + 1] # "none"
  BY DEF HasChild
<1>2. pc[k + 1] \notin Finished
  BY <1>1 DEF FileInv
<1>3. k = (k + 1) - 1
  BY StageInt
<1>4. Reads(k + 1, k)
  BY <1>1, <1>2, <1>3 DEF Reads, Finished
<1> QED
  BY <1>1, <1>4 DEF FileInv, Open

\* What the pipe between stages k - 1 and k tells about the number that stage k receives.
LEMMA ReceivedFlow ==
  ASSUME IInv, FlowInv, NEW k \in Stage, k # 0, pc[k] # "none", Receives(k)
  PROVE  /\ Number(k) \in Sieved(k - 1)
         /\ \A m \in Sieved(k - 1) : prime[k] < m /\ num[k] < m => Number(k) <= m
         /\ pipe'[k - 1] = Tail(pipe[k - 1])
         /\ \A m \in Sieved(k - 1) : Number(k) < m /\ Sent(k - 1, m) => m \in Nums(pipe'[k - 1])
<1>1. k - 1 \in Stage /\ (k - 1) + 1 = k /\ TypeOK
  BY StageFacts DEF IInv
<1>2. /\ Number(k) \in 2 .. Last /\ prime[k] < Number(k) /\ num[k] < Number(k)
      /\ Number(k) \in Nums(pipe[k - 1])
  BY <1>1, ReceiveFacts DEF IInv
<1>3. pipe'[k - 1] = Tail(pipe[k - 1]) /\ pipe[k - 1] # <<>>
  BY <1>1 DEF Receives, TypeOK
<1>4. \A m \in Nums(pipe[k - 1]) : Number(k) <= m /\ (Number(k) < m => m \in Nums(Tail(pipe[k - 1])))
  <2>1. 2 .. Last \in SUBSET Int /\ pipe[k - 1] \in Seq(2 .. Last)
    BY <1>1, PrimesAssumption, NumsInt
  <2>2. Sorted(pipe[k - 1])
    BY <1>1 DEF IInv, OrderInv, Order
  <2> QED
    BY <1>3, <2>1, <2>2, HeadFacts DEF Number
<1>5. /\ \A m \in Sieved(k - 1) : prime[k] < m /\ num[k] < m /\ Sent(k - 1, m) => m \in Nums(pipe[k - 1])
      /\ \A m \in Nums(pipe[k - 1]) : m \in Sieved(k - 1) /\ Sent(k - 1, m)
  BY <1>1 DEF FlowInv, Flow, HasChild
<1>6. /\ Number(k) \in Int /\ num[k - 1] \in Int /\ num[k] \in Int /\ prime[k] \in Int
      /\ Number(k) \in Sieved(k - 1) /\ Sent(k - 1, Number(k))
  BY <1>1, <1>2, <1>5, NumsInt, PrimesAssumption
<1>7. ASSUME NEW m \in Sieved(k - 1), prime[k] < m, num[k] < m PROVE Number(k) <= m
  <2>1. m \in Int
    BY SievedInt
  <2>2. SUFFICES ASSUME m < Number(k) PROVE FALSE
    BY <1>6, <2>1
  <2>3. Sent(k - 1, m)
    BY <1>6, <2>1, <2>2 DEF Sent
  <2>4. Number(k) <= m
    BY <1>4, <1>5, <1>7, <2>3
  <2> QED
    BY <1>6, <2>1, <2>2, <2>4
<1>8. ASSUME NEW m \in Sieved(k - 1), Number(k) < m, Sent(k - 1, m)
      PROVE  m \in Nums(Tail(pipe[k - 1]))
  <2>1. m \in Int
    BY SievedInt
  <2>2. prime[k] < m /\ num[k] < m
    BY <1>2, <1>6, <1>8, <2>1
  <2> QED
    BY <1>4, <1>5, <1>8, <2>2
<1> QED
  BY <1>3, <1>6, <1>7, <1>8

\* The pipe that stage k has read from is right after it.
LEMMA ReceivedPipe ==
  ASSUME IInv, FlowInv, NEW k \in Stage, k # 0, pc[k] # "none", Receives(k), NEW n, n = Number(k),
         pc'[k - 1] = pc[k - 1], num'[k - 1] = num[k - 1],
         \A i \in 0 .. k - 1 : prime'[i] = prime[i],
         prime'[k] \in Int, num'[k] \in Int,
         prime'[k] = n \/ num'[k] = n
  PROVE  Flow(k - 1)'
<1>1. /\ k - 1 \in Stage /\ (k - 1) + 1 = k /\ TypeOK /\ k - 1 \in Int /\ (k - 1) - 1 \in Int
      /\ prime'[k - 1] = prime[k - 1] /\ \A i \in 1 .. k - 1 : prime'[i] = prime[i]
      /\ \A i \in 1 .. (k - 1) - 1 : prime'[i] = prime[i]
  BY StageFacts DEF IInv
<1>2. Sieved(k - 1)' = Sieved(k - 1) /\ Sieved((k - 1) - 1)' = Sieved((k - 1) - 1)
  BY <1>1, SieveStill
<1>3. /\ \A m \in Sieved(k - 1) : n < m /\ Sent(k - 1, m) => m \in Nums(pipe'[k - 1])
      /\ pipe'[k - 1] = Tail(pipe[k - 1])
  BY ReceivedFlow
<1>4. Nums(pipe'[k - 1]) \subseteq Nums(pipe[k - 1])
  BY <1>1, ReceiveFacts DEF IInv
<1>5. \A m : Sent(k - 1, m)' <=> Sent(k - 1, m)
  BY DEF Sent
<1>6. Flow(k - 1)
  BY <1>1 DEF FlowInv
<1>7. \A m \in Sieved(k - 1) : prime'[k] < m /\ num'[k] < m => n < m
  BY SievedInt
<1>8. \A m \in Sieved(k - 1) : prime'[k] < m /\ num'[k] < m /\ Sent(k - 1, m) => m \in Nums(pipe'[k - 1])
  BY <1>3, <1>7
<1>9. \A m \in Nums(pipe'[k - 1]) : m \in Sieved(k - 1) /\ Sent(k - 1, m)
  BY <1>4, <1>6 DEF Flow
<1> QED
  BY <1>1, <1>2, <1>5, <1>6, <1>8, <1>9 DEF Flow

\* The first number that a stage gets is the least that comes through the sieve before it.
LEMMA FlowFirst ==
  ASSUME IInv, TipInv, FileInv, FlowInv, NEW k \in Stage, First(k)
  PROVE  FlowInv'
<1>1. /\ TypeOK /\ k # 0 /\ pc[k] = "first" /\ num' = num /\ num[k] = 0 /\ prime[k] = 0
      /\ pipe[k] = <<>> /\ \A j \in Stage \ {k} : pc'[j] = pc[j] /\ prime'[j] = prime[j]
      /\ k - 1 \in Stage /\ (k - 1) + 1 = k /\ k \in Int /\ k - 1 # k /\ k - 1 \in Int
  BY StageFacts DEF First, Goto, TypeOK, IInv, ControlInv, Control
<1>2. /\ \A j \in Stage : j > k => pc[j] = "none" /\ pc'[j] = "none" /\ Flow(j)
      /\ \A j \in Stage : Flow(j) /\ Control(j)
  BY <1>1, StageInt DEF TipInv, Later, Before, FlowInv, IInv, ControlInv
<1>3. \A n \in 2 .. Last : ~(n <= 0) /\ 0 < n
  BY PrimesAssumption
<1>4. \A i \in 0 .. k - 1 : prime'[i] = prime[i]
  <2>1. \A i \in 0 .. k - 1 : i \in Stage /\ i # k
    BY <1>1, PrimesAssumption DEF Stage
  <2> QED
    BY <1>1, <2>1
<1>5. Sieved(k - 1)' = Sieved(k - 1)
  <2>1. \A i \in 1 .. k - 1 : i \in 0 .. k - 1
    BY <1>1
  <2> QED
    BY <1>1, <1>4, <2>1, SieveStill
<1>6. CASE Receives(k)
  <2>1. /\ prime' = [prime EXCEPT ![k] = Number(k)] /\ pc'[k] = "print"
        /\ Number(k) \in Int /\ Number(k) \in Sieved(k - 1)
        /\ \A m \in Sieved(k - 1) : Number(k) <= m
        /\ pipe'[k] = pipe[k] /\ \A j \in Stage \ {k - 1} : pipe'[j] = pipe[j]
    <3>1. pipe[k - 1] # <<>>
      BY <1>6 DEF Receives
    <3>2. prime' = [prime EXCEPT ![k] = Number(k)] /\ pc'[k] = "print"
      BY <1>1, <3>1 DEF First, AtEOF, Goto, TypeOK
    <3>3. Number(k) \in Sieved(k - 1) /\ \A m \in Sieved(k - 1) : 0 < m => Number(k) <= m
      BY <1>1, <1>6, ReceivedFlow
    <3>4. \A m \in Sieved(k - 1) : 0 < m
      BY <1>3, SievedInt
    <3>5. \A j \in Stage \ {k - 1} : pipe'[j] = pipe[j]
      BY <1>1, <1>6 DEF Receives, TypeOK
    <3> QED
      BY <1>1, <3>2, <3>3, <3>4, <3>5, SievedInt
  <2>2. prime'[k] = Number(k)
    BY <1>1, <2>1 DEF TypeOK
  <2>3. Flow(k)'
    <3>1. \A n \in Sieved(k)' : ~Sent(k, n)'
      BY <1>1, <1>3 DEF Sent, Sieved
    <3>2. Nums(pipe'[k]) = {}
      BY <1>1, <2>1, EmptyFacts
    <3> QED
      BY <1>1, <1>5, <2>1, <2>2, <3>1, <3>2 DEF Flow, Finished
  <2>4. Flow(k - 1)'
    <3>1. num'[k] \in Int /\ prime'[k] \in Int
      BY <1>1, <2>1, <2>2
    <3> QED
      BY <1>1, <1>4, <1>6, <2>2, <3>1, ReceivedPipe
  <2>5. ASSUME NEW j \in Stage, j > k PROVE Flow(j)'
    <3>1. /\ pc'[j] = "none" /\ num'[j] = 0 /\ prime'[j] = 0 /\ Nums(pipe'[j]) = {}
      <4>0. j # k /\ j # k - 1
        BY <1>1, <2>5, StageInt
      <4>1. j # k /\ j # k - 1 /\ pc[j] = "none"
        BY <1>2, <2>5, <4>0
      <4> QED
        BY <1>1, <1>2, <2>1, <2>5, <4>1, EmptyFacts DEF Control
    <3>2. \A n \in Sieved(j)' : ~Sent(j, n)'
      BY <1>3, <3>1 DEF Sent, Sieved
    <3> QED
      BY <3>1, <3>2 DEF Flow, Finished
  <2>6. ASSUME NEW j \in Stage, j < k - 1 PROVE Flow(j)'
    <3>1. /\ j # k /\ j # k - 1 /\ j + 1 # k /\ \A i \in 1 .. j : i \in 0 .. k - 1
      BY <1>1, <2>6, StageInt
    <3>2. \A i \in 1 .. j : prime'[i] = prime[i]
      BY <1>4, <3>1
    <3> QED
      BY <1>1, <1>2, <2>1, <3>1, <3>2, FlowStill
  <2>7. \A j \in Stage : j = k \/ j = k - 1 \/ j > k \/ j < k - 1
    BY StageInt
  <2> QED
    BY <2>3, <2>4, <2>5, <2>6, <2>7 DEF FlowInv
<1>7. CASE ~Receives(k)
  <2>1. AtEOF(k) /\ pc'[k] = "exited" /\ UNCHANGED <<prime, pipe>>
    BY <1>1, <1>7 DEF First, Goto, AtEOF, TypeOK
  <2>2. pc[k - 1] \in {"wait", "exited"} /\ pipe[k - 1] = <<>>
    BY <1>1, <2>1, EndOfFile
  <2>3. Sieved(k - 1) = {}
    <3>1. k - 1 = 0 \/ prime[k - 1] # 0
      <4>1. pc[k] # "none" /\ k > k - 1
        BY <1>1
      <4> QED
        BY <1>1, <4>1 DEF TipInv, Later
    <3>2. \A n \in Sieved(k - 1) : n <= num[k - 1]
      BY <1>1, <1>2, <2>2, <3>1 DEF Flow, Finished
    <3>3. \A n \in Sieved(k - 1) : Sent(k - 1, n) /\ 0 < n
      BY <1>3, <2>2, <3>2, SievedInt DEF Sent
    <3>4. \A n \in Sieved(k - 1) : n \in Nums(pipe[k - 1])
      BY <1>1, <1>2, <3>3 DEF Flow, HasChild
    <3> QED
      BY <2>2, <3>4, EmptyFacts
  <2>4. Flow(k)'
    <3>1. \A n \in Sieved(k)' : ~Sent(k, n)'
      BY <1>1, <1>3 DEF Sent, Sieved
    <3>2. Nums(pipe'[k]) = {} /\ prime'[k] = 0
      BY <1>1, <2>1, EmptyFacts
    <3> QED
      BY <1>1, <1>5, <2>1, <2>3, <3>1, <3>2 DEF Flow
  <2>5. \A j \in Stage : j # k => Flow(j)'
    BY <1>1, <1>2, <2>1, FlowStill
  <2> QED
    BY <2>4, <2>5 DEF FlowInv
<1> QED
  BY <1>6, <1>7

\* What stage k has read goes on to be written when its prime does not divide it, and only then.
LEMMA FlowRead ==
  ASSUME IInv, TipInv, FileInv, FlowInv, NEW k \in Stage, Read(k)
  PROVE  FlowInv'
<1>1. /\ TypeOK /\ k # 0 /\ pc[k] = "read" /\ prime' = prime /\ prime[k] # 0
      /\ \A j \in Stage \ {k} : pc'[j] = pc[j] /\ num'[j] = num[j]
      /\ k - 1 \in Stage /\ (k - 1) + 1 = k /\ k \in Int /\ k - 1 # k /\ k - 1 \in Int
  <2>1. /\ TypeOK /\ k # 0 /\ pc[k] = "read" /\ prime' = prime
        /\ \A j \in Stage \ {k} : pc'[j] = pc[j] /\ num'[j] = num[j]
    BY DEF Read, Goto, TypeOK, IInv, ControlInv
  <2>2. prime[k] # 0
    BY <2>1 DEF TipInv, Later
  <2> QED
    BY <2>1, <2>2, StageFacts
<1>2. \A j \in Stage : Flow(j) /\ j \in Int
  BY StageInt DEF FlowInv
<1>3. \A j : Sieved(j)' = Sieved(j)
  BY <1>1 DEF Sieved, PassesOn
<1>4. /\ Sieved(k) \subseteq Sieved(k - 1) /\ prime[k] \notin Sieved(k)
      /\ \A m \in Sieved(k - 1) : PassesOn(k, m) => m \in Sieved(k)
      /\ \A m \in Sieved(k) : PassesOn(k, m)
  BY <1>1, SieveFacts
<1>5. \A m \in Sieved(k) : prime[k] < m
  <2>1. \A m \in Sieved(k - 1) : prime[k] <= m
    BY <1>1, <1>2 DEF Flow
  <2>2. prime[k] \in Int
    BY <1>1, NumsInt
  <2> QED
    BY <1>4, <2>1, <2>2, SievedInt
<1>6. CASE Receives(k)
  <2> DEFINE n == Number(k)
  <2>1. /\ \/ pc'[k] = "write" /\ PassesOn(k, n)
           \/ pc'[k] = "read" /\ ~PassesOn(k, n)
        /\ num'[k] = n /\ \A j \in Stage \ {k - 1} : pipe'[j] = pipe[j]
    <3>1. pipe[k - 1] # <<>>
      BY <1>6 DEF Receives
    <3>2. /\ num' = [num EXCEPT ![k] = Number(k)]
          /\ pc' = [pc EXCEPT ![k] = IF PassesOn(k, Number(k)) THEN "write" ELSE "read"]
      BY <3>1 DEF Read, AtEOF
    <3>3. \A j \in Stage \ {k - 1} : pipe'[j] = pipe[j]
      BY <1>1, <1>6 DEF Receives, TypeOK
    <3> HIDE DEF n
    <3>4. num'[k] = Number(k) /\ pc'[k] = IF PassesOn(k, Number(k)) THEN "write" ELSE "read"
      BY <1>1, <3>2 DEF TypeOK
    <3> QED
      BY <3>3, <3>4 DEF n
  <2>2. n \in Sieved(k - 1) /\ \A m \in Sieved(k - 1) : prime[k] < m /\ num[k] < m => n <= m
    BY <1>1, <1>6, ReceivedFlow
  <2>3. num[k] < n /\ n \in Int /\ num[k] \in Int
    BY <1>1, <1>6, <2>2, ReceiveFacts, SievedInt, NumsInt DEF IInv
  <2> HIDE DEF n
  <2>4. \A m \in Sieved(k) : m < n => m <= num[k]
    BY <1>4, <1>5, <2>2, <2>3, SievedInt
  <2>5. Flow(k)'
    <3>1. \A m \in Sieved(k) : Sent(k, m)' => m < n
      BY <1>4, <2>1, <2>3, SievedInt DEF Sent
    <3>2. \A m \in Sieved(k) : Sent(k, m)' => Sent(k, m)
      BY <1>1, <2>4, <3>1 DEF Sent
    <3>3. \A m \in Sieved(k) : Sent(k, m) => Sent(k, m)'
      BY <1>1, <2>1, <2>3, SievedInt DEF Sent
    <3>4. pc'[k] = "write" => num'[k] \in Sieved(k)
      BY <1>4, <2>1, <2>2
    <3>5. k + 1 \in Stage => k + 1 # k
      BY <1>1
    <3>6. /\ pipe'[k] = pipe[k] /\ (k + 1 \in Stage => num'[k + 1] = num[k + 1])
          /\ HasChild(k)' <=> HasChild(k)
          /\ HasChild(k) => k + 1 \in Stage
      BY <1>1, <2>1, <3>5 DEF HasChild
    <3>7. Flow(k)
      BY <1>2
    <3>8. pc'[k] \notin Finished /\ pc'[k] # "exited"
      BY <2>1 DEF Finished
    <3> QED
      BY <1>1, <1>3, <3>2, <3>3, <3>4, <3>6, <3>7, <3>8 DEF Flow
  <2>6. Flow(k - 1)'
    <3>1. num'[k] \in Int /\ prime'[k] \in Int
      BY <1>1, <2>1, <2>3, NumsInt
    <3> QED
      BY <1>1, <1>6, <2>1, <3>1, ReceivedPipe DEF n
  <2>7. ASSUME NEW j \in Stage, j # k, j # k - 1 PROVE Flow(j)'
    <3>1. j + 1 # k
      <4>1. j \in Int /\ k \in Int
        BY StageInt
      <4> QED
        BY <2>7, <4>1
    <3> QED
      BY <1>1, <1>2, <2>1, <2>7, <3>1, FlowStill
  <2> QED
    BY <2>5, <2>6, <2>7 DEF FlowInv
<1>7. CASE ~Receives(k)
  <2>1. AtEOF(k) /\ pc'[k] = "closeIn" /\ UNCHANGED <<num, pipe>>
    BY <1>1, <1>7 DEF Read, Goto, AtEOF, TypeOK
  <2>2. pc[k - 1] \in {"wait", "exited"} /\ pipe[k - 1] = <<>>
    BY <1>1, <2>1, EndOfFile
  <2>3. \A m \in Sieved(k) : m <= num[k]
    <3>1. k - 1 = 0 \/ prime[k - 1] # 0
      <4>1. pc[k] # "none" /\ k > k - 1
        BY <1>1
      <4> QED
        BY <1>1, <4>1 DEF TipInv, Later
    <3>2. \A m \in Sieved(k - 1) : m <= num[k - 1]
      BY <1>1, <1>2, <2>2, <3>1 DEF Flow, Finished
    <3>3. \A m \in Sieved(k - 1) : Sent(k - 1, m)
      BY <2>2, <3>2 DEF Sent
    <3>4. \A m \in Sieved(k - 1) : prime[k] < m /\ num[k] < m => m \in Nums(pipe[k - 1])
      BY <1>1, <1>2, <3>3 DEF Flow, HasChild
    <3>5. \A m \in Sieved(k) : ~(num[k] < m)
      BY <1>4, <1>5, <2>2, <3>4, EmptyFacts
    <3> QED
      BY <1>1, <3>5, SievedInt, NumsInt
  <2>4. Flow(k)'
    <3>1. \A m : Sent(k, m)' <=> Sent(k, m)
      BY <1>1, <2>1 DEF Sent
    <3>2. HasChild(k)' <=> HasChild(k)
      BY <1>1 DEF HasChild
    <3> QED
      BY <1>1, <1>2, <1>3, <2>1, <2>3, <3>1, <3>2 DEF Flow
  <2>5. \A j \in Stage : j # k => Flow(j)'
    BY <1>1, <1>2, <2>1, FlowStill
  <2> QED
    BY <2>4, <2>5 DEF FlowInv
<1> QED
  BY <1>6, <1>7

\* No number that is written is lost as long as there is a child, and main() writes them all.
LEMMA FlowWrite ==
  ASSUME IInv, TipInv, FileInv, FlowInv, NEW k \in Stage, Write(k)
  PROVE  FlowInv'
<1>1. /\ TypeOK /\ pc[k] = "write" /\ prime' = prime
      /\ \A j \in Stage \ {k} : pc'[j] = pc[j] /\ num'[j] = num[j] /\ pipe'[j] = pipe[j]
      /\ k \in Int /\ num[k] \in Int /\ pipe[k] \in Seq(Int)
  <2>1. /\ \A j \in Stage \ {k} : num'[j] = num[j] /\ pipe'[j] = pipe[j]
        /\ TypeOK /\ pc[k] = "write" /\ prime' = prime
    BY SMTT(30) DEF Write, Goto, TypeOK, IInv
  <2>2. \A j \in Stage \ {k} : pc'[j] = pc[j]
    BY <2>1 DEF Write, Goto, TypeOK
  <2> QED
    BY <2>1, <2>2, NumsInt, IntegerSequence, StageInt
<1>2. \A j \in Stage : Flow(j) /\ j \in Int
  BY StageInt DEF FlowInv
<1>3. \A j : Sieved(j)' = Sieved(j)
  BY <1>1 DEF Sieved, PassesOn
<1>4. /\ pipe'[k] = pipe[k] \/ pipe'[k] = Append(pipe[k], num[k])
      /\ HasChild(k) => pipe'[k] = Append(pipe[k], num[k])
  <2>1. HasChild(k) => Open(k, "r")
    BY <1>1, ReaderOpen
  <2>2. \/ pipe' = pipe /\ ~Open(k, "r")
        \/ pipe' = [pipe EXCEPT ![k] = Append(pipe[k], num[k])]
    BY DEF Write
  <2> QED
    BY <1>1, <2>1, <2>2 DEF TypeOK
<1>5. /\ Nums(pipe'[k]) \subseteq Nums(pipe[k]) \cup {num[k]}
      /\ HasChild(k) => Nums(pipe'[k]) = Nums(pipe[k]) \cup {num[k]}
  <2>1. Nums(Append(pipe[k], num[k])) = Nums(pipe[k]) \cup {num[k]}
    BY <1>1, AppendFacts
  <2> QED
    BY <1>4, <2>1
<1>6. \/ k > 0 /\ pc'[k] = "read" /\ num'[k] = num[k]
      \/ k = 0 /\ num[k] < Last /\ num'[k] = num[k] + 1 /\ pc'[k] = "write"
      \/ k = 0 /\ num[k] = Last /\ pc'[k] = "closeOut" /\ num'[k] = num[k]
  BY <1>1 DEF Write, Goto, TypeOK
<1>7. \A m \in Sieved(k) : Sent(k, m)' <=> m <= num[k]
  <2> SUFFICES ASSUME NEW m \in Sieved(k) PROVE Sent(k, m)' <=> m <= num[k]
    OBVIOUS
  <2>1. m \in Int
    BY <1>1, SievedInt
  <2> QED
    BY <1>1, <1>6, <2>1 DEF Sent
<1>8. num[k] \in Sieved(k)
  BY <1>1, <1>2 DEF Flow
<1>9. k = 0 => Sieved(k) = 2 .. Last
  BY DEF Sieved
<1>10. Flow(k)'
  <2>1. k + 1 # k /\ (k + 1 \in Stage => num'[k + 1] = num[k + 1])
    BY <1>1
  <2>2. Flow(k)
    BY <1>2
  <2>3. \A m \in Sieved(k) : Sent(k, m) <=> m <= num[k] /\ m # num[k]
    BY <1>1 DEF Sent
  <2>4. HasChild(k)' => \A m \in Sieved(k) : prime'[k + 1] < m /\ num'[k + 1] < m /\ Sent(k, m)'
                                              => m \in Nums(pipe'[k])
    <3>1. HasChild(k)' => HasChild(k) /\ num'[k + 1] = num[k + 1] /\ prime'[k + 1] = prime[k + 1]
      BY <1>1, <2>1 DEF HasChild
    <3> QED
      BY <1>5, <1>7, <2>2, <2>3, <3>1 DEF Flow
  <2>5. \A m \in Nums(pipe'[k]) : m \in Sieved(k) /\ Sent(k, m)'
    <3>1. \A m \in Nums(pipe[k]) : m \in Sieved(k) /\ m <= num[k]
      BY <2>2, <2>3 DEF Flow
    <3> QED
      BY <1>1, <1>5, <1>7, <1>8, <3>1
  <2>6. pc'[k] = "write" => num'[k] \in Sieved(k)
    <3>1. pc'[k] = "write" => k = 0 /\ num[k] + 1 \in 2 .. Last /\ num'[k] = num[k] + 1
      BY <1>6, <1>8, SievedInt, PrimesAssumption
    <3> QED
      BY <1>9, <3>1
  <2>7. pc'[k] \in Finished => \A m \in Sieved(k) : m <= num'[k]
    <3>1. pc'[k] \in Finished => k = 0 /\ num'[k] = Last
      BY <1>6 DEF Finished
    <3> QED
      BY <3>1, SievedInt
  <2>8. pc'[k] # "exited"
    BY <1>6
  <2>9. prime[k] # 0 => /\ k - 1 \in Stage /\ prime[k] \in Sieved(k - 1)
                        /\ \A m \in Sieved(k - 1) : prime[k] <= m
    BY <2>2 DEF Flow
  <2> QED
    BY <1>1, <1>3, <2>4, <2>5, <2>6, <2>7, <2>8, <2>9 DEF Flow
<1>11. ASSUME NEW j \in Stage, j # k PROVE Flow(j)'
  <2>1. j + 1 \in Stage => num'[j + 1] = num[j + 1]
    <3>1. j + 1 = k => num'[k] = num[k]
      <4>1. j + 1 = k => k > 0
        BY <1>11, PrimesAssumption DEF Stage
      <4> QED
        BY <1>6, <4>1
    <3> QED
      BY <1>1, <3>1
  <2> QED
    BY <1>1, <1>2, <1>11, <2>1, FlowStill
<1> QED
  BY <1>10, <1>11 DEF FlowInv

\* Every step keeps what is in the pipes and what the stages have done in step with each other.
LEMMA FlowStep == IInv /\ TipInv /\ FileInv /\ FlowInv /\ [Next]_vars => FlowInv'
<1> SUFFICES ASSUME IInv, TipInv, FileInv, FlowInv, [Next]_vars PROVE FlowInv'
  OBVIOUS
<1>0. TypeOK
  BY DEF IInv
<1>1. CASE UNCHANGED vars
  <2>1. \A j \in Stage : Flow(j)
    BY DEF FlowInv
  <2>2. \A j \in Stage : Flow(j)'
    BY <1>1, <2>1, FlowStill DEF vars
  <2> QED
    BY <2>2 DEF FlowInv
<1>2. ASSUME NEW k \in Stage, Pipe(k) PROVE FlowInv'
  BY <1>0, <1>2, FlowQuiet DEF Pipe, Goto, TypeOK, Finished
<1>3. ASSUME NEW k \in Stage, Fork(k) PROVE FlowInv'
  <2>1. /\ pc[k] = "fork" /\ pc'[k] = "closeRead" /\ pc'[k + 1] = "closeWrite" /\ k + 1 \in Stage
        /\ \A j \in Stage \ {k, k + 1} : pc'[j] = pc[j]
        /\ UNCHANGED <<prime, num, pipe>>
    BY <1>0, <1>3, StageFacts DEF Fork, TypeOK
  <2>2. pc[k + 1] = "none"
    BY <2>1 DEF IInv, ControlInv, Control
  <2>3. ASSUME NEW j \in Stage PROVE Flow(j)'
    <3>1. Flow(j)
      BY DEF FlowInv
    <3>2. pc'[j] # "exited" \/ pc[j] = "exited"
      BY <2>1
    <3>3. pc'[j] \in Finished => pc[j] \in Finished
      BY <2>1 DEF Finished
    <3>4. pc'[j] = "write" <=> pc[j] = "write"
      BY <2>1, <2>2
    <3>5. CASE j = k
      <4>1. num[k] = 0 /\ \A i : Sieved(i)' = Sieved(i)
        BY <2>1 DEF IInv, ControlInv, Control, Sieved, PassesOn
      <4>2. \A n \in Sieved(k) : ~Sent(k, n)'
        BY <2>1, <4>1, SievedInt DEF Sent
      <4>3. pipe[k] = <<>>
        BY <2>1 DEF IInv, ControlInv, Control
      <4> QED
        BY <2>1, <3>1, <3>5, <4>1, <4>2, <4>3, EmptyFacts DEF Flow, Finished
    <3>6. CASE j # k
      <4>1. j + 1 # k + 1
        BY <3>6, StageInt
      <4>2. j + 1 \in Stage /\ pc[j + 1] = "none" => pc'[j + 1] = "none"
        BY <2>1, <4>1
      <4> QED
        BY <2>1, <3>1, <3>2, <3>3, <3>4, <4>2, FlowStill
    <3> QED
      BY <3>5, <3>6
  <2> QED
    BY <2>3 DEF FlowInv
<1>4. ASSUME NEW k \in Stage, CloseWrite(k) PROVE FlowInv'
  BY <1>0, <1>4, FlowQuiet DEF CloseWrite, Goto, TypeOK, Finished
<1>5. ASSUME NEW k \in Stage, CloseRead(k) PROVE FlowInv'
  <2>1. /\ pc[k] = "closeRead" /\ pipe[k] = <<>> /\ UNCHANGED <<prime, pipe>>
        /\ \A j \in Stage \ {k} : pc'[j] = pc[j] /\ num'[j] = num[j]
        /\ k = 0 => pc'[k] = "write" /\ num'[k] = 2
        /\ k # 0 => pc'[k] = "read" /\ num'[k] = num[k]
    BY <1>0, <1>5 DEF CloseRead, IInv, ControlInv, Control, TypeOK
  <2>2. CASE k = 0
    <3>1. \A j : Sieved(j)' = Sieved(j)
      BY <2>1 DEF Sieved, PassesOn
    <3>2. Sieved(k) = 2 .. Last /\ 2 \in 2 .. Last
      BY <2>2, PrimesAssumption DEF Sieved
    <3>3. \A n \in Sieved(k) : ~Sent(k, n)'
      BY <2>1, <2>2, SievedInt DEF Sent
    <3>4. Nums(pipe'[k]) = {}
      BY <2>1, EmptyFacts
    <3>5. prime'[k] = 0 /\ pc'[k] \notin Finished
      BY <2>1, <2>2 DEF IInv, ControlInv, Finished
    <3>6. Flow(k)'
      BY <2>1, <2>2, <3>1, <3>2, <3>3, <3>4, <3>5 DEF Flow
    <3>7. ASSUME NEW j \in Stage, j # k PROVE Flow(j)'
      <4>1. j + 1 # k
        BY <2>2, PrimesAssumption DEF Stage
      <4>2. Flow(j)
        BY DEF FlowInv
      <4> QED
        BY <2>1, <3>7, <4>1, <4>2, FlowStill
    <3> QED
      BY <3>6, <3>7 DEF FlowInv
  <2>3. CASE k # 0
    <3>1. num' = num
      BY <1>0, <1>5, <2>3 DEF CloseRead, TypeOK
    <3> QED
      BY <2>1, <2>3, <3>1, FlowQuiet DEF Finished
  <2> QED
    BY <2>2, <2>3
<1>6. ASSUME NEW k \in Stage, First(k) PROVE FlowInv'
  BY <1>6, FlowFirst
<1>7. ASSUME NEW k \in Stage, PrintPrime(k) PROVE FlowInv'
  BY <1>0, <1>7, FlowQuiet DEF PrintPrime, Goto, TypeOK, Finished
<1>8. ASSUME NEW k \in Stage, Read(k) PROVE FlowInv'
  BY <1>8, FlowRead
<1>9. ASSUME NEW k \in Stage, Write(k) PROVE FlowInv'
  BY <1>9, FlowWrite
<1>10. ASSUME NEW k \in Stage, CloseIn(k) PROVE FlowInv'
  BY <1>0, <1>10, FlowQuiet DEF CloseIn, Goto, TypeOK, Finished
<1>11. ASSUME NEW k \in Stage, CloseOut(k) PROVE FlowInv'
  BY <1>0, <1>11, FlowQuiet DEF CloseOut, Goto, TypeOK, Finished
<1>12. ASSUME NEW k \in Stage, Wait(k) PROVE FlowInv'
  <2>1. pc[k] = "wait" => k = 0 \/ prime[k] # 0
    BY DEF TipInv, Later
  <2> QED
    BY <1>0, <1>12, <2>1, FlowQuiet DEF Wait, Goto, TypeOK, Finished
<1>13. ASSUME NEW k \in Stage, ForkFails(k) PROVE FlowInv'
  BY <1>0, <1>13, FlowQuiet DEF ForkFails, Goto, TypeOK, Finished
<1> QED
  BY <1>1, <1>2, <1>3, <1>4, <1>5, <1>6, <1>7, <1>8,
     <1>9, <1>10, <1>11, <1>12, <1>13 DEF Next, Step

\* The sieve loses no number between a stage and its child and lets none through twice, and its
\* descriptors are as they should be, at every moment, whatever calls of fork() fail
\* (primes.c:8-79).
THEOREM SieveCorrect == Spec => [](IInv /\ TipInv /\ FileInv /\ FlowInv)
<1>1. Init => IInv /\ TipInv /\ FileInv /\ FlowInv
  BY PrimesInit, TipInit, FileInit, FlowInit
<1>2. IInv /\ TipInv /\ FileInv /\ FlowInv /\ [Next]_vars => (IInv /\ TipInv /\ FileInv /\ FlowInv)'
  BY TypeStep, ControlStep, OrderStep, PrintStep, TipStep, FileStep, FlowStep DEF IInv
<1> QED
  BY <1>1, <1>2, PTL DEF Spec

\* Divisibility is transitive, and nothing above a number divides it.
LEMMA DivisionFacts ==
  ASSUME NEW n \in Nat \ {0}, NEW p \in Nat \ {0}
  PROVE  /\ \A d \in Nat \ {0} : n % d = 0 /\ d % p = 0 => n % p = 0
         /\ n % p = 0 => p <= n
<1>1. \A a, b \in Nat \ {0} : a % b = 0 => a = b * (a \div b) /\ a \div b \in Nat
  OBVIOUS
<1>2. \A q \in Nat : (p * q) % p = 0
  OBVIOUS
<1>3. ASSUME NEW d \in Nat \ {0}, n % d = 0, d % p = 0 PROVE n % p = 0
  <2>1. PICK a \in Nat : n = d * a
    BY <1>1, <1>3
  <2>2. PICK b \in Nat : d = p * b
    BY <1>1, <1>3
  <2>3. n = p * (b * a) /\ b * a \in Nat
    BY <2>1, <2>2
  <2> QED
    BY <1>2, <2>3
<1>4. n < p => n % p = n
  OBVIOUS
<1> QED
  BY <1>3, <1>4

\* The number that a stage starts with is a prime, and no stage after it has the same.
LEMMA StagePrimes ==
  ASSUME TypeOK, FlowInv, NEW k \in Stage, prime[k] # 0
  PROVE  /\ prime[k] \in PrimeNumbers /\ k - 1 \in Stage
         /\ \A i \in 1 .. k - 1 : i \in Stage /\ (prime[i] # 0 => prime[i] # prime[k])
<1>1. /\ k - 1 \in Stage /\ prime[k] \in Sieved(k - 1)
      /\ \A n \in Sieved(k - 1) : prime[k] <= n
  BY DEF FlowInv, Flow
<1>2. prime[k] \in 2 .. Last /\ prime[k] \in Nat \ {0}
  BY <1>1, SievedInt, PrimesAssumption
<1>3. \A i \in 1 .. k - 1 : i \in Stage /\ (prime[i] # 0 => prime[i] \in Nat \ {0})
  <2>1. \A i \in 1 .. k - 1 : i \in Stage
    BY <1>1, PrimesAssumption DEF Stage
  <2> QED
    BY <2>1, PrimesAssumption DEF TypeOK
<1>4. \A i \in 1 .. k - 1 : prime[i] # 0 => prime[k] % prime[i] # 0
  BY <1>1 DEF Sieved, PassesOn
<1>5. ASSUME NEW d \in 2 .. prime[k] - 1, prime[k] % d = 0 PROVE FALSE
  <2>1. d \in 2 .. Last /\ d \in Nat \ {0} /\ ~(prime[k] <= d)
    BY <1>2, PrimesAssumption
  <2>2. PICK i \in 1 .. k - 1 : prime[i] # 0 /\ d % prime[i] = 0
    BY <1>1, <2>1 DEF Sieved, PassesOn
  <2>3. prime[k] % prime[i] = 0
    BY <1>2, <1>3, <1>5, <2>1, <2>2, DivisionFacts
  <2> QED
    BY <1>4, <2>2, <2>3
<1>6. \A m \in Nat \ {0} : m % m = 0
  OBVIOUS
<1> QED
  BY <1>1, <1>2, <1>3, <1>4, <1>5, <1>6 DEF PrimeNumbers

\* A prime number that the sieve up to stage k holds back is the prime of one of its stages.
LEMMA HeldBack ==
  ASSUME TypeOK, FlowInv, NEW k \in Stage, NEW n \in PrimeNumbers, n \notin Sieved(k)
  PROVE  \E i \in 1 .. k : prime[i] = n
<1>1. n \in 2 .. Last /\ n \in Nat \ {0} /\ \A d \in 2 .. n - 1 : n % d # 0
  BY PrimesAssumption DEF PrimeNumbers
<1>2. PICK i \in 1 .. k : prime[i] # 0 /\ n % prime[i] = 0
  BY <1>1 DEF Sieved, PassesOn
<1>3. i \in Stage
  BY PrimesAssumption DEF Stage
<1>4. prime[i] \in 2 .. Last /\ prime[i] \in Nat \ {0}
  BY <1>2, <1>3, StagePrimes, PrimesAssumption DEF PrimeNumbers
<1>5. prime[i] <= n
  BY <1>1, <1>2, <1>4, DivisionFacts
<1> QED
  BY <1>1, <1>2, <1>4, <1>5

\* The primes of the stages up to the last one that has printed are what is printed.
LEMMA PrintedPrimes ==
  ASSUME TypeOK, PrintInv, TipInv, FlowInv
  PROVE  /\ Len(printed) \in Stage /\ Len(printed) \in Nat
         /\ Printed = {prime[i] : i \in 1 .. Len(printed)}
         /\ \A i \in 1 .. Len(printed) : i \in Stage /\ prime[i] # 0 /\ prime[i] \in PrimeNumbers
<1>1. Len(printed) \in Stage /\ Len(printed) \in Nat
  BY DEF TypeOK, TipInv, Tip
<1>2. \A i \in 1 .. Len(printed) : i \in Stage /\ printed[i] = prime[i] /\ prime[i] # 0
  BY DEF PrintInv
<1>3. \A i \in 1 .. Len(printed) : prime[i] \in PrimeNumbers
  BY <1>2, StagePrimes
<1>4. Printed = {prime[i] : i \in 1 .. Len(printed)}
  BY <1>2 DEF Printed
<1> QED
  BY <1>1, <1>2, <1>3, <1>4

\* primes prints prime numbers only, in order and none left out.  By the time main() exits it has
\* printed all of them, or those up to the prime of the stage whose fork() has failed; for any
\* last number and any size of the pipes (primes.c:8-79).
THEOREM PrintsThePrimesCorrect == Spec => []PrintsThePrimes
<1>1. IInv /\ TipInv /\ FileInv /\ FlowInv => Printed \subseteq PrimeNumbers
  BY PrintedPrimes DEF IInv
<1>2. IInv /\ TipInv /\ FileInv /\ FlowInv => \A n \in PrimeNumbers \ Printed, m \in Printed : m < n
  <2> SUFFICES ASSUME IInv, TipInv, FileInv, FlowInv,
                      NEW n \in PrimeNumbers, n \notin Printed, NEW m \in Printed, ~(m < n)
               PROVE  FALSE
    OBVIOUS
  <2>0. TypeOK /\ PrintInv
    BY DEF IInv
  <2>1. PICK j \in 1 .. Len(printed) : m = prime[j]
    BY <2>0, PrintedPrimes
  <2>2. j \in Stage /\ prime[j] # 0 /\ Len(printed) \in Nat
    BY <2>0, <2>1, PrintedPrimes
  <2>3. m \in 2 .. Last /\ n \in 2 .. Last /\ n < m
    <3>1. m \in 2 .. Last /\ n \in 2 .. Last
      BY <2>0, <2>1, PrintedPrimes DEF PrimeNumbers
    <3>2. m # n
      OBVIOUS
    <3> QED
      BY <3>1, <3>2, PrimesAssumption
  <2>4. j - 1 \in Stage /\ \A i \in Sieved(j - 1) : m <= i
    BY <2>1, <2>2 DEF FlowInv, Flow
  <2>5. n \notin Sieved(j - 1)
    BY <2>3, <2>4, PrimesAssumption
  <2>6. PICK i \in 1 .. j - 1 : prime[i] = n
    BY <2>0, <2>4, <2>5, HeldBack
  <2>7. i \in 1 .. Len(printed)
    BY <2>2
  <2> QED
    BY <2>0, <2>6, <2>7, PrintedPrimes
<1>3. IInv /\ TipInv /\ FileInv /\ FlowInv /\ pc[0] = "exited" =>
        Printed = PrimeNumbers \/ \E k \in Stage : ForkFailed(k) /\ Len(printed) = k
  <2> SUFFICES ASSUME IInv, TipInv, FileInv, FlowInv, pc[0] = "exited"
               PROVE  Printed = PrimeNumbers \/ \E k \in Stage : ForkFailed(k) /\ Len(printed) = k
    OBVIOUS
  <2>0. TypeOK /\ PrintInv
    BY DEF IInv
  <2> DEFINE l == Len(printed)
  <2>1. l \in Stage /\ l \in Nat /\ 0 \in Stage /\ Tip(l)
    BY <2>0, PrintedPrimes, StageFacts DEF TipInv
  <2>2. Printed \subseteq PrimeNumbers
    BY <1>1
  <2> HIDE DEF l
  <2>3. pc[l] = "exited"
    <3>1. \A j \in Stage : j > 0 => pc[j] \in {"none", "exited"}
      BY <2>1 DEF TipInv, Later
    <3> QED
      BY <2>1, <3>1 DEF Tip
  <2>4. CASE HasChild(l)
    <3>1. l + 1 \in Stage /\ prime[l + 1] = 0 /\ l + 1 > 0 /\ (l + 1) - 1 = l /\ pc[l + 1] = "exited"
      <4>1. l + 1 \in Stage /\ pc[l + 1] # "none" /\ l + 1 > 0 /\ (l + 1) - 1 = l
        BY <2>1, <2>4 DEF HasChild
      <4>2. pc[l + 1] \in {"none", "exited"}
        BY <2>1, <4>1 DEF TipInv, Later
      <4> QED
        BY <2>1, <2>3, <2>4, <4>1, <4>2 DEF Tip
    <3>2. Sieved((l + 1) - 1) = {}
      <4>1. Flow(l + 1) /\ l + 1 # 0
        BY <3>1 DEF FlowInv
      <4> QED
        BY <3>1, <4>1 DEF Flow
    <3>3. ASSUME NEW n \in PrimeNumbers PROVE n \in Printed
      <4>1. PICK i \in 1 .. l : prime[i] = n
        BY <2>0, <2>1, <3>1, <3>2, HeldBack
      <4> QED
        BY <2>0, <4>1, PrintedPrimes DEF l
    <3> QED
      BY <2>2, <3>3
  <2>5. CASE ~HasChild(l)
    <3>1. l = 0 \/ prime[l] # 0
      BY <2>1 DEF Tip
    <3>2. ForkFailed(l)
      BY <2>3, <2>5, <3>1 DEF ForkFailed, HasForked, AfterFork
    <3> QED
      BY <2>1, <3>2 DEF l
  <2> QED
    BY <2>4, <2>5
<1>4. IInv /\ TipInv /\ FileInv /\ FlowInv /\ PrintsInOrder => PrintsThePrimes
  BY <1>1, <1>2, <1>3 DEF PrintsThePrimes
<1> QED
  BY <1>4, SieveCorrect, PrintsInOrderCorrect, PTL

\* Each descriptor of a stage that is about to make its pipe is the read end which a stage before
\* it read its prime from, so no stage has more than there are primes (primes.c:23, 36-38).
LEMMA DescriptorsArePrimes ==
  ASSUME TypeOK, PrintInv, TipInv, FileInv, FlowInv, NEW k \in Stage, pc[k] = "pipe"
  PROVE  /\ IsFiniteSet(PrimeNumbers) /\ Cardinality(PrimeNumbers) \in Nat
         /\ Cardinality(files[k]) \in Nat /\ Cardinality(files[k]) <= Cardinality(PrimeNumbers)
<1>1. IsFiniteSet(PrimeNumbers) /\ Cardinality(PrimeNumbers) \in Nat
  <2>1. IsFiniteSet(2 .. Last)
    BY FS_Interval, PrimesAssumption
  <2> QED
    BY <2>1, FS_Subset, FS_CardinalityType DEF PrimeNumbers
<1>2. Len(printed) = k /\ k \in Nat
  BY StageFacts DEF PrintInv
<1>3. \A x \in files[k] : x = <<x[1], "r">> /\ x[1] \in 0 .. k - 1
  <2> SUFFICES ASSUME NEW x \in files[k] PROVE x = <<x[1], "r">> /\ x[1] \in 0 .. k - 1
    OBVIOUS
  <2>1. PICK j \in Stage, e \in {"r", "w"} : x = <<j, e>>
    BY DEF TypeOK
  <2>2. ~Writes(k, j)
    BY DEF Writes
  <2>3. e = "r"
    BY <2>1, <2>2 DEF FileInv
  <2>4. Reads(k, j)
    BY <2>1, <2>3 DEF FileInv
  <2>5. j \in 0 .. k - 1
    BY <1>2, <2>4, StageFacts DEF Reads
  <2> QED
    BY <2>1, <2>3, <2>5
<1>4. \A j \in 0 .. k - 1 : /\ j + 1 \in 1 .. k /\ j + 1 \in Stage
                            /\ prime[j + 1] # 0 /\ prime[j + 1] \in PrimeNumbers
  <2>1. \A j \in 0 .. k - 1 : j + 1 \in 1 .. k
    BY <1>2
  <2> QED
    BY <1>2, <2>1, PrintedPrimes
<1>5. \A i, j \in 0 .. k - 1 : prime[i + 1] = prime[j + 1] => i = j
  <2>1. ASSUME NEW i \in 0 .. k - 1, NEW j \in 0 .. k - 1, i < j PROVE prime[i + 1] # prime[j + 1]
    <3>1. i + 1 \in 1 .. (j + 1) - 1
      BY <1>2, <2>1
    <3> QED
      BY <1>4, <3>1, StagePrimes
  <2> QED
    BY <1>2, <2>1
<1> DEFINE F == [x \in files[k] |-> prime[x[1] + 1]]
<1>6. F \in Injection(files[k], PrimeNumbers)
  <2>1. F \in [files[k] -> PrimeNumbers]
    BY <1>3, <1>4
  <2>2. \A x, y \in files[k] : F[x] = F[y] => x = y
    BY <1>3, <1>5
  <2> QED
    BY <2>1, <2>2, Fun_IsInj
<1>7. IsFiniteSet(files[k]) /\ Cardinality(files[k]) <= Cardinality(PrimeNumbers)
  BY <1>1, <1>6, FS_Injection
<1> QED
  BY <1>1, <1>7, FS_CardinalityType

\* Where a process may have five files more than there are primes up to Last, pipe() always finds
\* two: for Last = 35 that is the 16 that NOFILE says, and not one to spare (param.h; primes.c:23).
THEOREM FilesSufficeCorrect ==
  ASSUME Cardinality(PrimeNumbers) + 5 <= NOFILE
  PROVE  Spec => []FilesSuffice
<1>1. IInv /\ TipInv /\ FileInv /\ FlowInv => FilesSuffice
  <2> SUFFICES ASSUME IInv, TipInv, FileInv, FlowInv, NEW k \in Stage, pc[k] = "pipe"
               PROVE  3 + Cardinality(files[k]) + 2 <= NOFILE
    BY DEF FilesSuffice
  <2>1. /\ Cardinality(PrimeNumbers) \in Nat /\ Cardinality(files[k]) \in Nat
        /\ Cardinality(files[k]) <= Cardinality(PrimeNumbers)
    BY DescriptorsArePrimes DEF IInv
  <2> QED
    BY <2>1, PrimesAssumption
<1> QED
  BY <1>1, SieveCorrect, PTL

\* Among some of the numbers up to m one is the least.
LEMMA LeastNumber ==
  ASSUME NEW m \in Nat, NEW S \in SUBSET (0 .. m), S # {}
  PROVE  \E n \in S : \A k \in S : n <= k
<1> DEFINE R == StrictSubsetOrdering(0 .. m)
           T == {0 .. n : n \in S}
<1>1. IsFiniteSet(0 .. m)
  BY FS_Interval
<1>2. IsWellFoundedOn(R, SUBSET (0 .. m))
  BY <1>1, FS_StrictSubsetOrderingWellFounded, FS_FiniteSubsetsOfFinite
<1>3. T \subseteq SUBSET (0 .. m) /\ T # {}
  <2>1. ASSUME NEW n \in S PROVE 0 .. n \subseteq 0 .. m
    OBVIOUS
  <2> QED
    BY <2>1
<1> HIDE DEF R
<1>4. PICK A \in T : \A B \in T : ~(<<B, A>> \in R)
  BY <1>2, <1>3, WFMin
<1>5. PICK n \in S : A = 0 .. n
  OBVIOUS
<1>6. ASSUME NEW k \in S, ~(n <= k) PROVE FALSE
  <2>1. 0 .. k \in T /\ 0 .. k \subseteq A /\ 0 .. k # A
    <3>1. k \in Nat /\ n \in Nat /\ k < n
      BY <1>6
    <3>2. n \in 0 .. n /\ n \notin 0 .. k
      BY <3>1
    <3>3. 0 .. k \subseteq 0 .. n
      BY <3>1
    <3> QED
      BY <1>5, <3>2, <3>3
  <2>2. <<0 .. k, A>> \in R
    BY <1>3, <2>1 DEF R, StrictSubsetOrdering
  <2> QED
    BY <1>4, <2>1, <2>2
<1> QED
  BY <1>5, <1>6

\* Any number of naturals have a least one.
LEMMA LeastNatural ==
  ASSUME NEW S \in SUBSET Nat, S # {}
  PROVE  \E n \in S : \A k \in S : n <= k
<1>1. PICK m \in S : TRUE
  OBVIOUS
<1>2. S \cap (0 .. m) \in SUBSET (0 .. m) /\ S \cap (0 .. m) # {} /\ m \in Nat
  BY <1>1
<1>3. PICK n \in S \cap (0 .. m) : \A k \in S \cap (0 .. m) : n <= k
  BY <1>2, LeastNumber
<1> QED
  BY <1>2, <1>3

\* A set of naturals that holds 0 and with each number the next one holds all.
LEMMA Induction ==
  ASSUME NEW S \in SUBSET Nat, 0 \in S, \A n \in S : n + 1 \in S
  PROVE  S = Nat
<1> SUFFICES ASSUME Nat \ S # {}
             PROVE  FALSE
  OBVIOUS
<1>1. PICK n \in Nat \ S : \A m \in Nat \ S : n <= m
  BY LeastNatural
<1>2. n - 1 \in Nat /\ ~(n <= n - 1)
  BY <1>1
<1>3. n - 1 \in S /\ n = (n - 1) + 1
  BY <1>1, <1>2
<1> QED
  BY <1>1, <1>3

\* The first n steps of the recursion from b by g.
Steps(V, b, g, n, f) ==
  /\ f \in [0 .. n -> V]
  /\ f[0] = b
  /\ \A i \in 0 .. n - 1 : f[i + 1] = g[<<i, f[i]>>]

\* g takes the n-th value in V to the next one; f is what follows from the first, b.
IsStep(V, g) == g \in [Nat \X V -> V]

IsSolution(V, b, g, f) ==
  /\ f \in [Nat -> V]
  /\ f[0] = b
  /\ \A n \in Nat : f[n + 1] = g[<<n, f[n]>>]

\* A recursion over the naturals, given by a function, has a solution.
LEMMA Recursion ==
  ASSUME NEW V, NEW b, NEW g, b \in V, IsStep(V, g)
  PROVE  \E f : IsSolution(V, b, g, f)
<1>0. g \in [Nat \X V -> V]
  BY DEF IsStep
<1> DEFINE P(n, f) == Steps(V, b, g, n, f)
           S == {n \in Nat : \E f : P(n, f)}
           F(n) == CHOOSE f : P(n, f)
<1>1. 0 \in S
  <2>1. P(0, [i \in 0 .. 0 |-> b])
    BY DEF Steps
  <2> QED
    BY <2>1
<1>2. ASSUME NEW n \in S PROVE n + 1 \in S
  <2>1. PICK f : P(n, f)
    OBVIOUS
  <2> DEFINE e == [i \in 0 .. n + 1 |-> IF i = n + 1 THEN g[<<n, f[n]>>] ELSE f[i]]
  <2>2. e \in [0 .. n + 1 -> V]
    BY <1>0, <2>1 DEF Steps
  <2>3. e[0] = b
    BY <2>1 DEF Steps
  <2>4. ASSUME NEW i \in 0 .. (n + 1) - 1 PROVE e[i + 1] = g[<<i, e[i]>>]
    <3>0. n \in Nat /\ n # n + 1 /\ n \in 0 .. n + 1 /\ n + 1 \in 0 .. n + 1
      OBVIOUS
    <3>1. CASE i = n
      <4>1. e[n] = f[n] /\ e[n + 1] = g[<<n, f[n]>>]
        BY <3>0
      <4> QED
        BY <3>1, <4>1
    <3>2. CASE i # n
      <4>1. i \in 0 .. n - 1
        BY <3>2
      <4> QED
        BY <2>1, <4>1 DEF Steps
    <3> QED
      BY <3>1, <3>2
  <2>5. P(n + 1, e)
    <3> HIDE DEF e
    <3> QED
      BY <2>2, <2>3, <2>4 DEF Steps
  <2> QED
    BY <2>5
<1>3. S = Nat
  <2> HIDE DEF S
  <2> QED
    BY <1>1, <1>2, Induction DEF S
<1>4. ASSUME NEW n \in Nat PROVE P(n, F(n))
  BY <1>3
<1> HIDE DEF S, F
<1>5. ASSUME NEW n \in Nat PROVE F(n)[n] = F(n + 1)[n]
  <2> DEFINE T == {i \in Nat : i <= n => F(n)[i] = F(n + 1)[i]}
  <2>0. P(n, F(n)) /\ P(n + 1, F(n + 1))
    BY <1>4
  <2>1. 0 \in T
    BY <2>0 DEF Steps
  <2>2. ASSUME NEW i \in T PROVE i + 1 \in T
    <3> SUFFICES ASSUME i + 1 <= n
                 PROVE  F(n)[i + 1] = F(n + 1)[i + 1]
      OBVIOUS
    <3>1. F(n)[i] = F(n + 1)[i] /\ i \in 0 .. n - 1 /\ i \in 0 .. (n + 1) - 1
      OBVIOUS
    <3> QED
      BY <2>0, <3>1 DEF Steps
  <2>3. T = Nat
    <3>1. T \in SUBSET Nat
      OBVIOUS
    <3> HIDE DEF T
    <3> QED
      BY <2>1, <2>2, <3>1, Induction
  <2>4. n \in T
    BY <2>3
  <2> QED
    BY <2>4
<1> DEFINE h == [n \in Nat |-> F(n)[n]]
<1>6. h \in [Nat -> V] /\ h[0] = b
  BY <1>4 DEF Steps
<1>7. ASSUME NEW n \in Nat PROVE h[n + 1] = g[<<n, h[n]>>]
  <2>1. F(n + 1)[n + 1] = g[<<n, F(n + 1)[n]>>]
    <3>1. P(n + 1, F(n + 1)) /\ n \in 0 .. (n + 1) - 1
      BY <1>4
    <3> QED
      BY <3>1 DEF Steps
  <2>2. h[n] = F(n)[n] /\ h[n + 1] = F(n + 1)[n + 1]
    OBVIOUS
  <2> HIDE DEF h
  <2> QED
    BY <1>5, <2>1, <2>2
<1> HIDE DEF h
<1>8. IsSolution(V, b, g, h)
  BY <1>6, <1>7 DEF IsSolution
<1> QED
  BY <1>8

-----------------------------------------------------------------------------
(* What find prints.                                                       *)

\* The recursion of find(), as an equation.
Walks(f) ==
  f = [c \in Node \X Nat \X Nat |->
        IF c[3] > 0
        THEN IF c[3] > Len(Entries[c[1]]) THEN <<>>
             ELSE f[<<Entries[c[1]][c[3]], c[2], 0>>] \o f[<<c[1], c[2], c[3] + 1>>]
        ELSE IF 3 + c[2] >= FindFiles THEN <<>>
             ELSE CASE Kind[c[1]] = "file" -> IF c[1] \in Target THEN <<Words[c[1]]>> ELSE <<>>
                    [] Kind[c[1]] = "long" -> <<TooLong>>
                    [] Kind[c[1]] = "dir"  -> f[<<c[1], c[2] + 1, 1>>]
                    [] Kind[c[1]] = "skip" -> <<>>]

\* What the entries of n from each on, counted from the last one, print, if a says what they do.
Listed(n, a, f) ==
  /\ f \in [Nat -> Seq(ArgLists)]
  /\ f[0] = <<>>
  /\ \A j \in 0 .. Len(Entries[n]) - 1 : f[j + 1] = a[Entries[n][Len(Entries[n]) - j]] \o f[j]

\* The entries of a directory are finitely many, so that what they print can be put together.
LEMMA ListedExists ==
  ASSUME NEW n \in Node, NEW a \in [Node -> Seq(ArgLists)]
  PROVE  \E f : Listed(n, a, f)
<1> DEFINE Out == Seq(ArgLists)
           L == Len(Entries[n])
           next == [x \in Nat \X Out |-> IF x[1] < L THEN a[Entries[n][L - x[1]]] \o x[2] ELSE x[2]]
<1>1. L \in Nat /\ \A j \in 0 .. L - 1 : Entries[n][L - j] \in Node
  BY UtilAssumption
<1>2. <<>> \in Out /\ \A s, t \in Out : s \o t \in Out
  OBVIOUS
<1>3. next \in [Nat \X Out -> Out]
  <2>1. ASSUME NEW j \in Nat, NEW v \in Out PROVE (IF j < L THEN a[Entries[n][L - j]] \o v ELSE v) \in Out
    <3>1. CASE j < L
      <4>1. j \in 0 .. L - 1
        BY <1>1, <3>1
      <4>2. a[Entries[n][L - j]] \in Out
        BY <1>1, <4>1
      <4> QED
        BY <1>2, <3>1, <4>2
    <3> QED
      BY <3>1
  <2> HIDE DEF Out, L
  <2> QED
    BY <2>1
<1> HIDE DEF Out, next
<1>4. \E f : IsSolution(Out, <<>>, next, f)
  BY <1>2, <1>3, Recursion DEF IsStep
<1>4a. PICK f \in [Nat -> Out] : f[0] = <<>> /\ \A j \in Nat : f[j + 1] = next[<<j, f[j]>>]
  BY <1>4 DEF IsSolution
<1>5. ASSUME NEW j \in 0 .. L - 1 PROVE f[j + 1] = a[Entries[n][L - j]] \o f[j]
  <2>1. j \in Nat /\ j < L /\ <<j, f[j]>> \in Nat \X Out
    BY <1>1, <1>4a
  <2> QED
    BY <1>4a, <2>1 DEF next
<1> QED
  BY <1>4a, <1>5 DEF Listed, Out

\* How deep below directory number d directories can be opened.
Levels(d) == IF 3 + d >= FindFiles THEN 0 ELSE FindFiles - 3 - d

\* The recursion of find() ends: it has a solution.
LEMMA WalkExists == \E f : Walks(f)
<1> DEFINE Out == [Node -> Seq(ArgLists)]
           From(a, n) == CHOOSE f : Listed(n, a, f)
           Call(a, n) == CASE Kind[n] = "file" -> IF n \in Target THEN <<Words[n]>> ELSE <<>>
                           [] Kind[n] = "long" -> <<TooLong>>
                           [] Kind[n] = "dir"  -> From(a, n)[Len(Entries[n])]
                           [] Kind[n] = "skip" -> <<>>
           none == [n \in Node |-> <<>>]
           next == [x \in Nat \X Out |-> [n \in Node |-> Call(x[2], n)]]
<1>0. ASSUME NEW n \in Node
      PROVE  Len(Entries[n]) \in Nat /\ \A k \in 1 .. Len(Entries[n]) : Entries[n][k] \in Node
  BY UtilAssumption
<1>1. ASSUME NEW a \in Out, NEW n \in Node PROVE Listed(n, a, From(a, n))
  BY ListedExists
<1> HIDE DEF From
<1>2. ASSUME NEW a \in Out, NEW n \in Node PROVE Call(a, n) \in Seq(ArgLists)
  <2>1. From(a, n)[Len(Entries[n])] \in Seq(ArgLists)
    BY <1>0, <1>1 DEF Listed
  <2>2. Kind[n] \in {"file", "dir", "skip", "long"} /\ TooLong \in ArgLists
    BY UtilAssumption
  <2>3. n \in Target => Words[n] \in ArgLists
    BY UtilAssumption
  <2> HIDE DEF Out
  <2> QED
    BY <2>1, <2>2, <2>3
<1> HIDE DEF Call
<1>3. none \in Out
  OBVIOUS
<1>4. next \in [Nat \X Out -> Out]
  BY <1>2
<1> HIDE DEF Out, none, next
<1>5. PICK A \in [Nat -> Out] : A[0] = none /\ \A e \in Nat : A[e + 1] = next[<<e, A[e]>>]
  <2>1. \E A : IsSolution(Out, none, next, A)
    BY <1>3, <1>4, Recursion DEF IsStep
  <2> QED
    BY <2>1 DEF IsSolution
<1>6. ASSUME NEW n \in Node PROVE A[0][n] = <<>> /\ \A e \in Nat : A[e + 1][n] = Call(A[e], n)
  BY <1>5 DEF none, next
<1> DEFINE Value(n, d, k) ==
             IF k > 0 THEN IF k > Len(Entries[n]) THEN <<>>
                           ELSE From(A[Levels(d)], n)[Len(Entries[n]) + 1 - k]
             ELSE A[Levels(d)][n]
           f == [c \in Node \X Nat \X Nat |-> Value(c[1], c[2], c[3])]
<1>7. ASSUME NEW d \in Nat PROVE Levels(d) \in Nat /\ A[Levels(d)] \in Out
  BY <1>5, UtilAssumption DEF Levels
<1> DEFINE W(n, d, k) ==
             IF k > 0
             THEN IF k > Len(Entries[n]) THEN <<>>
                  ELSE f[<<Entries[n][k], d, 0>>] \o f[<<n, d, k + 1>>]
             ELSE IF 3 + d >= FindFiles THEN <<>>
                  ELSE CASE Kind[n] = "file" -> IF n \in Target THEN <<Words[n]>> ELSE <<>>
                         [] Kind[n] = "long" -> <<TooLong>>
                         [] Kind[n] = "dir"  -> f[<<n, d + 1, 1>>]
                         [] Kind[n] = "skip" -> <<>>
<1>7a. ASSUME NEW n \in Node, NEW d \in Nat, NEW k \in Nat
      PROVE  f[<<n, d, k>>] = Value(n, d, k)
  <2> HIDE DEF Value
  <2> QED
    OBVIOUS
<1>7b. f = [c \in Node \X Nat \X Nat |-> f[c]]
  OBVIOUS
<1> HIDE DEF f
<1>8. ASSUME NEW n \in Node, NEW d \in Nat, NEW k \in Nat
      PROVE  f[<<n, d, k>>] = W(n, d, k)
  <2> DEFINE L == Len(Entries[n])
             a == A[Levels(d)]
  <2>0. L \in Nat /\ a \in Out /\ Listed(n, a, From(a, n)) /\ Len(Entries[n]) = L /\ A[Levels(d)] = a
    BY <1>0, <1>1, <1>7
  <2> HIDE DEF L, a
  <2>1. CASE k > L
    <3>1. k > 0 /\ f[<<n, d, k>>] = <<>>
      BY <1>7a, <2>0, <2>1
    <3> QED
      BY <2>0, <2>1, <3>1
  <2>2. CASE k > 0 /\ ~(k > L)
    <3>1. /\ L - k \in 0 .. L - 1 /\ L + 1 - k \in Nat /\ L - k \in Nat /\ Entries[n][k] \in Node
          /\ L - (L - k) = k /\ (L - k) + 1 = L + 1 - k
      BY <1>0, <2>0, <2>2
    <3>2. From(a, n)[L + 1 - k] = a[Entries[n][k]] \o From(a, n)[L - k]
      BY <2>0, <3>1 DEF Listed
    <3>3. f[<<n, d, k>>] = From(a, n)[L + 1 - k]
      BY <1>7a, <2>0, <2>2
    <3>4. f[<<Entries[n][k], d, 0>>] = a[Entries[n][k]]
      <4>1. f[<<Entries[n][k], d, 0>>] = Value(Entries[n][k], d, 0)
        BY <1>7a, <3>1
      <4> QED
        BY <2>0, <4>1
    <3>5. f[<<n, d, k + 1>>] = From(a, n)[L - k]
      <4>1. CASE k = L
        <5>1. f[<<n, d, k + 1>>] = <<>> /\ L - k = 0
          BY <1>7a, <2>0, <4>1
        <5> QED
          BY <2>0, <4>1, <5>1 DEF Listed
      <4>2. CASE k # L
        <5>1. k + 1 \in Nat /\ k + 1 > 0 /\ ~(k + 1 > L) /\ L + 1 - (k + 1) = L - k
          BY <2>0, <2>2, <4>2
        <5>2. f[<<n, d, k + 1>>] = Value(n, d, k + 1)
          BY <1>7a, <5>1
        <5> QED
          BY <2>0, <5>1, <5>2
      <4> QED
        BY <4>1, <4>2
    <3>6. W(n, d, k) = f[<<Entries[n][k], d, 0>>] \o f[<<n, d, k + 1>>]
      BY <2>0, <2>2
    <3> QED
      BY <3>2, <3>3, <3>4, <3>5, <3>6
  <2>3. CASE k = 0 /\ 3 + d >= FindFiles
    <3>1. Levels(d) = 0
      BY <2>3 DEF Levels
    <3>2. f[<<n, d, k>>] = A[0][n]
      BY <1>7a, <2>3, <3>1
    <3>3. f[<<n, d, k>>] = <<>>
      BY <1>6, <3>2
    <3> QED
      BY <2>3, <3>3
  <2>4. CASE k = 0 /\ ~(3 + d >= FindFiles)
    <3>1. Levels(d + 1) \in Nat /\ Levels(d) = Levels(d + 1) + 1 /\ d + 1 \in Nat
      BY <2>4, UtilAssumption DEF Levels
    <3> DEFINE a1 == A[Levels(d + 1)]
    <3>2. f[<<n, d, k>>] = Call(a1, n)
      <4>1. f[<<n, d, k>>] = A[Levels(d)][n]
        BY <1>7a, <2>4
      <4> QED
        BY <1>6, <3>1, <4>1
    <3>3. f[<<n, d + 1, 1>>] = From(a1, n)[L]
      <4>0. a1 \in Out /\ Listed(n, a1, From(a1, n))
        BY <1>1, <1>7, <3>1
      <4>1. CASE L = 0
        <5>1. f[<<n, d + 1, 1>>] = <<>>
          BY <1>7a, <2>0, <3>1, <4>1
        <5> QED
          BY <4>0, <4>1, <5>1 DEF Listed
      <4>2. CASE L # 0
        <5>1. ~(1 > L) /\ L + 1 - 1 = L
          BY <2>0, <4>2
        <5>2. f[<<n, d + 1, 1>>] = Value(n, d + 1, 1)
          BY <1>7a, <3>1
        <5> QED
          BY <2>0, <5>1, <5>2
      <4> QED
        BY <4>1, <4>2
    <3>4. W(n, d, k) = Call(a1, n)
      <4> HIDE DEF a1
      <4>1. W(n, d, k) = CASE Kind[n] = "file" -> IF n \in Target THEN <<Words[n]>> ELSE <<>>
                               [] Kind[n] = "long" -> <<TooLong>>
                               [] Kind[n] = "dir"  -> f[<<n, d + 1, 1>>]
                               [] Kind[n] = "skip" -> <<>>
        <5>1. ~(k > 0)
          BY <2>4
        <5> QED
          BY <2>4, <5>1, Zenon
      <4> QED
        BY <2>0, <3>3, <4>1, Zenon DEF Call
    <3> HIDE DEF a1, W
    <3> QED
      BY <3>2, <3>4
  <2> HIDE DEF W
  <2> QED
    BY <2>0, <2>1, <2>2, <2>3, <2>4
<1>9. ASSUME NEW c \in Node \X Nat \X Nat PROVE f[c] = W(c[1], c[2], c[3])
  <2>1. c = <<c[1], c[2], c[3]>> /\ c[1] \in Node /\ c[2] \in Nat /\ c[3] \in Nat
    OBVIOUS
  <2> HIDE DEF W
  <2> QED
    BY <1>8, <2>1
<1>10. Walks(f)
  BY <1>9, <1>7b DEF Walks
<1> QED
  BY <1>10


\* What find prints, as Lines says, call by call and entry by entry.
LEMMA LinesIs ==
  ASSUME NEW n \in Node, NEW d \in Nat
  PROVE  /\ 3 + d >= FindFiles => FX!Lines[<<n, d, 0>>] = <<>>
         /\ ~(3 + d >= FindFiles) =>
              /\ Kind[n] = "file" =>
                   FX!Lines[<<n, d, 0>>] = IF n \in Target THEN <<Words[n]>> ELSE <<>>
              /\ Kind[n] = "long" => FX!Lines[<<n, d, 0>>] = <<TooLong>>
              /\ Kind[n] = "dir"  => FX!Lines[<<n, d, 0>>] = FX!Lines[<<n, d + 1, 1>>]
         /\ Kind[n] = "skip" => FX!Lines[<<n, d, 0>>] = <<>>
         /\ \A k \in Nat \ {0} :
              /\ k > Len(Entries[n]) => FX!Lines[<<n, d, k>>] = <<>>
              /\ ~(k > Len(Entries[n])) =>
                   FX!Lines[<<n, d, k>>] =
                     FX!Lines[<<Entries[n][k], d, 0>>] \o FX!Lines[<<n, d, k + 1>>]
<1> DEFINE f == FX!Lines
<1>1. f = CHOOSE e : Walks(e)
  BY Zenon DEF FX!Lines, Walks
<1>2. Walks(f)
  <2> HIDE DEF f
  <2> QED
    BY <1>1, WalkExists
<1> HIDE DEF f
<1>3. ASSUME NEW k \in Nat
      PROVE  f[<<n, d, k>>] =
               IF k > 0
               THEN IF k > Len(Entries[n]) THEN <<>>
                    ELSE f[<<Entries[n][k], d, 0>>] \o f[<<n, d, k + 1>>]
               ELSE IF 3 + d >= FindFiles THEN <<>>
                    ELSE CASE Kind[n] = "file" -> IF n \in Target THEN <<Words[n]>> ELSE <<>>
                           [] Kind[n] = "long" -> <<TooLong>>
                           [] Kind[n] = "dir"  -> f[<<n, d + 1, 1>>]
                           [] Kind[n] = "skip" -> <<>>
  BY <1>2 DEF Walks
<1>4. ASSUME NEW k \in Nat \ {0}
      PROVE  /\ k > Len(Entries[n]) => f[<<n, d, k>>] = <<>>
             /\ ~(k > Len(Entries[n])) =>
                  f[<<n, d, k>>] = f[<<Entries[n][k], d, 0>>] \o f[<<n, d, k + 1>>]
  <2>1. k \in Nat /\ k > 0
    OBVIOUS
  <2> QED
    BY <1>3, <2>1
<1>5. f[<<n, d, 0>>] = IF 3 + d >= FindFiles THEN <<>>
                       ELSE CASE Kind[n] = "file" -> IF n \in Target THEN <<Words[n]>> ELSE <<>>
                              [] Kind[n] = "long" -> <<TooLong>>
                              [] Kind[n] = "dir"  -> f[<<n, d + 1, 1>>]
                              [] Kind[n] = "skip" -> <<>>
  <2>1. 0 \in Nat /\ ~(0 > 0)
    OBVIOUS
  <2> QED
    BY <1>3, <2>1, Zenon
<1>6. QED
  BY <1>4, <1>5 DEF f

\* The lines that find prints are argument lists.
LEMMA LinesType ==
  \A n \in Node, d \in Nat, k \in Nat : FX!Lines[<<n, d, k>>] \in Seq(ArgLists)
<1> DEFINE Called(d) == \A n \in Node : FX!Lines[<<n, d, 0>>] \in Seq(ArgLists)
           ReadsOn(d) == \A n \in Node, k \in Nat \ {0} : FX!Lines[<<n, d, k>>] \in Seq(ArgLists)
           S == {e \in Nat : \A d \in Nat : Levels(d) = e => Called(d) /\ ReadsOn(d)}
<1>0. /\ <<>> \in Seq(ArgLists)
      /\ \A w \in ArgLists : <<w>> \in Seq(ArgLists)
      /\ \A s, t \in Seq(ArgLists) : s \o t \in Seq(ArgLists)
  OBVIOUS
<1>1. ASSUME NEW d \in Nat, Called(d) PROVE ReadsOn(d)
  <2> SUFFICES ASSUME NEW n \in Node
               PROVE  \A k \in Nat \ {0} : FX!Lines[<<n, d, k>>] \in Seq(ArgLists)
    OBVIOUS
  <2> DEFINE L == Len(Entries[n])
             T == {j \in Nat : \A k \in Nat \ {0} : L + 1 - k <= j => FX!Lines[<<n, d, k>>] \in Seq(ArgLists)}
  <2>1. L \in Nat /\ \A k \in 1 .. L : Entries[n][k] \in Node
    BY UtilAssumption
  <2>2. ASSUME NEW k \in Nat \ {0}, k > L PROVE FX!Lines[<<n, d, k>>] \in Seq(ArgLists)
    BY <1>0, <2>2, LinesIs
  <2>3. ASSUME NEW k \in Nat \ {0}, ~(k > L), FX!Lines[<<n, d, k + 1>>] \in Seq(ArgLists)
        PROVE  FX!Lines[<<n, d, k>>] \in Seq(ArgLists)
    <3>1. FX!Lines[<<n, d, k>>] = FX!Lines[<<Entries[n][k], d, 0>>] \o FX!Lines[<<n, d, k + 1>>]
      BY <2>3, LinesIs
    <3>2. FX!Lines[<<Entries[n][k], d, 0>>] \in Seq(ArgLists)
      BY <1>1, <2>1, <2>3
    <3> QED
      BY <1>0, <2>3, <3>1, <3>2
  <2> HIDE DEF L
  <2>4. 0 \in T
    <3>1. ASSUME NEW k \in Nat \ {0}, L + 1 - k <= 0 PROVE k > L
      BY <2>1, <3>1
    <3> QED
      BY <2>2, <3>1
  <2>5. ASSUME NEW j \in T PROVE j + 1 \in T
    <3> SUFFICES ASSUME NEW k \in Nat \ {0}, L + 1 - k <= j + 1, ~(k > L)
                 PROVE  FX!Lines[<<n, d, k>>] \in Seq(ArgLists)
      BY <2>2
    <3>1. k + 1 \in Nat \ {0} /\ L + 1 - (k + 1) <= j
      BY <2>1
    <3> QED
      BY <2>3, <3>1
  <2>6. T = Nat
    <3>1. T \in SUBSET Nat
      OBVIOUS
    <3> HIDE DEF T
    <3> QED
      BY <2>4, <2>5, <3>1, Induction
  <2> SUFFICES ASSUME NEW k \in Nat \ {0}
               PROVE  FX!Lines[<<n, d, k>>] \in Seq(ArgLists)
    OBVIOUS
  <2>7. L + 1 \in Nat /\ L + 1 - k <= L + 1
    BY <2>1
  <2>8. L + 1 \in T
    <3> HIDE DEF T
    <3> QED
      BY <2>6, <2>7
  <2> QED
    BY <2>7, <2>8
<1>2. ASSUME NEW d \in Nat, NEW n \in Node, 3 + d >= FindFiles \/ ReadsOn(d + 1)
      PROVE  FX!Lines[<<n, d, 0>>] \in Seq(ArgLists)
  <2>1. CASE 3 + d >= FindFiles
    BY <1>0, <2>1, LinesIs
  <2>2. CASE ~(3 + d >= FindFiles)
    <3>1. FX!Lines[<<n, d + 1, 1>>] \in Seq(ArgLists)
      BY <1>2, <2>2
    <3>2. Kind[n] \in {"file", "dir", "skip", "long"} /\ TooLong \in ArgLists
      BY UtilAssumption
    <3>3. n \in Target => Words[n] \in ArgLists
      BY UtilAssumption
    <3> QED
      BY <1>0, <2>2, <3>1, <3>2, <3>3, LinesIs
  <2> QED
    BY <2>1, <2>2
<1>3. 0 \in S
  <2> SUFFICES ASSUME NEW d \in Nat, Levels(d) = 0
               PROVE  Called(d)
    BY <1>1
  <2>1. 3 + d >= FindFiles
    BY UtilAssumption DEF Levels
  <2> QED
    BY <1>2, <2>1
<1>4. ASSUME NEW e \in S PROVE e + 1 \in S
  <2> SUFFICES ASSUME NEW d \in Nat, Levels(d) = e + 1
               PROVE  Called(d)
    BY <1>1
  <2>1. Levels(d + 1) = e
    BY UtilAssumption DEF Levels
  <2> QED
    BY <1>2, <2>1
<1>5. S = Nat
  <2>1. S \in SUBSET Nat
    OBVIOUS
  <2> HIDE DEF S
  <2> QED
    BY <1>3, <1>4, <2>1, Induction
<1>6. ASSUME NEW d \in Nat PROVE Called(d) /\ ReadsOn(d)
  <2>1. Levels(d) \in Nat
    BY UtilAssumption DEF Levels
  <2>2. Levels(d) \in S
    <3> HIDE DEF S
    <3> QED
      BY <1>5, <2>1
  <2> QED
    BY <2>2
<1> SUFFICES ASSUME NEW n \in Node, NEW d \in Nat, NEW k \in Nat
             PROVE  FX!Lines[<<n, d, k>>] \in Seq(ArgLists)
  OBVIOUS
<1>7. CASE k = 0
  BY <1>6, <1>7
<1>8. CASE k # 0
  BY <1>6, <1>8
<1> QED
  BY <1>7, <1>8

-----------------------------------------------------------------------------
(* The characters on their way from find to the commands.  Each has a      *)
(* place, <<line, word, character>>, in the lines that find is to print,   *)
(* and they come in the order of their places.                             *)

Commands == FX!Expected

Letter == STRING \ {" ", "\n"}
Text   == Letter \cup {" ", "\n"}

\* The word that a place is in; p[3] characters of it come before the place.
WordAt(p) == Commands[p[1]][p[2]]

Place ==
  {p \in Nat \X Nat \X Nat : /\ p[1] \in 1 .. Len(Commands)
                             /\ p[2] \in 1 .. Len(Commands[p[1]])
                             /\ p[3] \in 0 .. Len(WordAt(p))}

\* Where line m begins, and where all lines end.
Begin(m)  == <<m, 1, 0>>
EndOfText == Begin(Len(Commands) + 1)

\* The character at a place, and the place that follows it.
CharAt(p) ==
  IF p[3] < Len(WordAt(p)) THEN WordAt(p)[p[3] + 1]
  ELSE IF p[2] < Len(Commands[p[1]]) THEN " " ELSE "\n"

After(p) ==
  IF p[3] < Len(WordAt(p)) THEN <<p[1], p[2], p[3] + 1>>
  ELSE IF p[2] < Len(Commands[p[1]]) THEN <<p[1], p[2] + 1, 0>>
  ELSE Begin(p[1] + 1)

\* s is the text from place a up to place b; h: the place of each of its characters.
Spells(s, a, b, h) ==
  /\ h \in [0 .. Len(s) -> Place \cup {EndOfText}]
  /\ h[0] = a /\ h[Len(s)] = b
  /\ \A q \in 1 .. Len(s) : h[q - 1] \in Place /\ s[q] = CharAt(h[q - 1]) /\ h[q] = After(h[q - 1])

Spelt(s, a, b) == \E h : Spells(s, a, b, h)

\* The lines to print are argument lists: each has a word, and each word is of letters.
LEMMA CommandsType ==
  /\ Commands \in Seq(ArgLists)
  /\ \A m \in 1 .. Len(Commands) :
       /\ Commands[m] \in ArgLists /\ Commands[m] \in Seq(Seq(Letter)) /\ Len(Commands[m]) >= 1
       /\ \A i \in 1 .. Len(Commands[m]) : Commands[m][i] \in Seq(Letter)
<1>1. Commands \in Seq(ArgLists)
  BY LinesType, UtilAssumption DEF Commands, FX!Expected
<1>2. ASSUME NEW w \in ArgLists
      PROVE  w \in Seq(Seq(Letter)) /\ Len(w) >= 1 /\ \A i \in 1 .. Len(w) : w[i] \in Seq(Letter)
  <2>1. w \in Seq(Seq(Letter)) /\ w # <<>>
    BY DEF ArgLists, Letter
  <2> HIDE DEF Letter
  <2> QED
    BY <2>1
<1> QED
  BY <1>1, <1>2

\* What a place, its character and the next place are.
LEMMA PlaceFacts ==
  ASSUME NEW p \in Place
  PROVE  /\ WordAt(p) \in Seq(Letter) /\ p[1] \in 1 .. Len(Commands)
         /\ p = <<p[1], p[2], p[3]>> /\ p[3] \in 0 .. Len(WordAt(p))
         /\ p[2] \in 1 .. Len(Commands[p[1]])
         /\ CharAt(p) \in Text
         /\ After(p) \in Place \cup {EndOfText}
<1>1. /\ p[1] \in 1 .. Len(Commands) /\ p[2] \in 1 .. Len(Commands[p[1]])
      /\ p[3] \in 0 .. Len(WordAt(p)) /\ p = <<p[1], p[2], p[3]>>
      /\ p[1] \in Nat /\ p[2] \in Nat /\ p[3] \in Nat
  BY DEF Place
<1>2. /\ WordAt(p) \in Seq(Letter) /\ Commands[p[1]] \in Seq(Seq(Letter))
      /\ Commands \in Seq(ArgLists)
  BY <1>1, CommandsType DEF WordAt
<1>3. CharAt(p) \in Text
  <2>1. CASE p[3] < Len(WordAt(p))
    <3>1. p[3] + 1 \in 1 .. Len(WordAt(p))
      BY <1>1, <1>2, <2>1
    <3>2. WordAt(p)[p[3] + 1] \in Letter
      BY <1>2, <3>1, ElementOfSeq
    <3> QED
      BY <2>1, <3>2 DEF CharAt, Text
  <2>2. CASE ~(p[3] < Len(WordAt(p)))
    BY <2>2 DEF CharAt, Text
  <2> QED
    BY <2>1, <2>2
<1>4. CASE p[3] < Len(WordAt(p))
  <2>1. After(p) = <<p[1], p[2], p[3] + 1>>
    BY <1>4 DEF After
  <2>2. WordAt(After(p)) = WordAt(p)
    BY <2>1 DEF WordAt
  <2>3. p[3] + 1 \in 0 .. Len(WordAt(p)) /\ p[3] + 1 \in Nat
    BY <1>1, <1>2, <1>4
  <2>4. After(p) \in Place
    BY <1>1, <2>1, <2>2, <2>3 DEF Place
  <2> QED
    BY <1>1, <1>2, <1>3, <2>4
<1>5. CASE ~(p[3] < Len(WordAt(p))) /\ p[2] < Len(Commands[p[1]])
  <2>1. After(p) = <<p[1], p[2] + 1, 0>>
    BY <1>5 DEF After
  <2>2. p[2] + 1 \in 1 .. Len(Commands[p[1]]) /\ p[2] + 1 \in Nat
    BY SMTT(30), <1>1, <1>2, <1>5
  <2>3. WordAt(After(p)) \in Seq(Letter)
    BY <1>1, <2>1, <2>2, CommandsType DEF WordAt
  <2>4. 0 \in 0 .. Len(WordAt(After(p))) /\ 0 \in Nat
    <3>1. Len(WordAt(After(p))) \in Nat
      BY <2>3
    <3> QED
      BY <3>1
  <2>5. After(p) \in Place
    BY <1>1, <2>1, <2>2, <2>4 DEF Place
  <2> QED
    BY <1>1, <1>2, <1>3, <2>5
<1>6. CASE ~(p[3] < Len(WordAt(p))) /\ ~(p[2] < Len(Commands[p[1]]))
  <2>1. After(p) = Begin(p[1] + 1)
    BY <1>6 DEF After
  <2>2. CASE p[1] = Len(Commands)
    BY <1>1, <1>2, <1>3, <2>1, <2>2 DEF EndOfText
  <2>3. CASE p[1] # Len(Commands)
    <3>1. p[1] + 1 \in 1 .. Len(Commands) /\ p[1] + 1 \in Nat
      BY <1>1, <1>2, <2>3
    <3>2. Begin(p[1] + 1) \in Place
      <4>1. 1 \in 1 .. Len(Commands[p[1] + 1]) /\ Commands[p[1] + 1][1] \in Seq(Letter)
        BY <3>1, CommandsType
      <4>2. WordAt(Begin(p[1] + 1)) = Commands[p[1] + 1][1]
        BY DEF WordAt, Begin
      <4>3. 0 \in 0 .. Len(WordAt(Begin(p[1] + 1))) /\ 0 \in Nat
        <5>1. Len(WordAt(Begin(p[1] + 1))) \in Nat
          BY <4>1, <4>2
        <5> QED
          BY <5>1
      <4> QED
        BY <3>1, <4>1, <4>3 DEF Place, Begin
    <3> QED
      BY <1>1, <1>2, <1>3, <2>1, <3>2
  <2> QED
    BY <2>2, <2>3
<1> QED
  BY <1>4, <1>5, <1>6

\* A line begins at a place, and the text ends after all places.
LEMMA BeginFacts ==
  /\ \A m \in 1 .. Len(Commands) : Begin(m) \in Place
  /\ EndOfText \notin Place /\ Begin(Len(Commands) + 1) = EndOfText
  /\ \A m \in 1 .. Len(Commands) + 1 : Begin(m) \in Place \cup {EndOfText} /\ Begin(m)[1] = m
<1>0. Len(Commands) \in Nat
  BY CommandsType
<1>1. ASSUME NEW m \in 1 .. Len(Commands) PROVE Begin(m) \in Place
  <2>1. 1 \in 1 .. Len(Commands[m]) /\ Commands[m][1] \in Seq(Letter)
    BY CommandsType
  <2>2. WordAt(Begin(m)) = Commands[m][1]
    BY DEF WordAt, Begin
  <2>3. 0 \in 0 .. Len(WordAt(Begin(m))) /\ m \in Nat
    <3>1. Len(WordAt(Begin(m))) \in Nat
      BY <2>1, <2>2
    <3> QED
      BY <1>0, <3>1
  <2> QED
    BY <2>1, <2>3 DEF Place, Begin
<1>2. EndOfText \notin Place /\ Begin(Len(Commands) + 1) = EndOfText
  BY <1>0 DEF EndOfText, Begin, Place
<1>3. ASSUME NEW m \in 1 .. Len(Commands) + 1
      PROVE  Begin(m) \in Place \cup {EndOfText} /\ Begin(m)[1] = m
  <2>1. m \in 1 .. Len(Commands) \/ m = Len(Commands) + 1
    BY <1>0
  <2> QED
    BY <1>1, <1>2, <2>1 DEF Begin
<1> QED
  BY <1>1, <1>2, <1>3

\* No text goes from a place to that place, and where no text goes to nothing is spelt.
LEMMA SpeltNothing ==
  /\ \A a \in Place \cup {EndOfText} : Spelt(<<>>, a, a)
  /\ \A a, b : Spelt(<<>>, a, b) => a = b
<1>1. ASSUME NEW a \in Place \cup {EndOfText} PROVE Spelt(<<>>, a, a)
  <2>1. Spells(<<>>, a, a, [q \in 0 .. 0 |-> a])
    BY DEF Spells
  <2> QED
    BY <2>1 DEF Spelt
<1>2. ASSUME NEW a, NEW b, Spelt(<<>>, a, b) PROVE a = b
  BY <1>2 DEF Spelt, Spells
<1> QED
  BY <1>1, <1>2

\* One character of the text.
LEMMA SpeltOne ==
  ASSUME NEW a \in Place
  PROVE  Spelt(<<CharAt(a)>>, a, After(a))
<1> DEFINE s == <<CharAt(a)>>
           h == [q \in 0 .. 1 |-> IF q = 0 THEN a ELSE After(a)]
<1>1. Len(s) = 1 /\ s[1] = CharAt(a)
  OBVIOUS
<1>2. h[0] = a /\ h[1] = After(a) /\ h \in [0 .. 1 -> Place \cup {EndOfText}]
  BY PlaceFacts
<1> HIDE DEF s, h
<1>3. Spells(s, a, After(a), h)
  BY <1>1, <1>2 DEF Spells
<1> QED
  BY <1>3 DEF Spelt, s

\* The text from a to b and that from b to c make the text from a to c.
LEMMA SpeltConcat ==
  ASSUME NEW s \in Seq(Text), NEW t \in Seq(Text), NEW a, NEW b, NEW c,
         Spelt(s, a, b), Spelt(t, b, c)
  PROVE  Spelt(s \o t, a, c)
<1>1. PICK h : Spells(s, a, b, h)
  BY DEF Spelt
<1>2. PICK e : Spells(t, b, c, e)
  BY DEF Spelt
<1> DEFINE m == Len(s)
           n == Len(t)
           u == s \o t
           j == [q \in 0 .. m + n |-> IF q <= m THEN h[q] ELSE e[q - m]]
<1>3. /\ m \in Nat /\ n \in Nat /\ Len(u) = m + n
      /\ \A q \in 1 .. m + n : u[q] = IF q <= m THEN s[q] ELSE t[q - m]
  BY ConcatProperties
<1>4. /\ h \in [0 .. m -> Place \cup {EndOfText}] /\ h[0] = a /\ h[m] = b
      /\ \A q \in 1 .. m : h[q - 1] \in Place /\ s[q] = CharAt(h[q - 1]) /\ h[q] = After(h[q - 1])
  BY <1>1 DEF Spells
<1>5. /\ e \in [0 .. n -> Place \cup {EndOfText}] /\ e[0] = b /\ e[n] = c
      /\ \A q \in 1 .. n : e[q - 1] \in Place /\ t[q] = CharAt(e[q - 1]) /\ e[q] = After(e[q - 1])
  BY <1>2 DEF Spells
<1> HIDE DEF m, n, u
<1>6. /\ \A q \in 0 .. m : j[q] = h[q]
      /\ \A q \in 0 .. n : j[m + q] = e[q]
  <2>1. ASSUME NEW q \in 0 .. n PROVE j[m + q] = e[q]
    <3>1. CASE q = 0
      BY <1>3, <1>4, <1>5, <3>1
    <3>2. CASE q # 0
      BY <1>3, <3>2
    <3> QED
      BY <3>1, <3>2
  <2>2. ASSUME NEW q \in 0 .. m PROVE j[q] = h[q]
    BY <1>3
  <2> QED
    BY <2>1, <2>2
<1>7. j \in [0 .. m + n -> Place \cup {EndOfText}]
  <2> SUFFICES ASSUME NEW q \in 0 .. m + n
               PROVE  (IF q <= m THEN h[q] ELSE e[q - m]) \in Place \cup {EndOfText}
    OBVIOUS
  <2>1. CASE q <= m
    BY <1>3, <1>4, <2>1
  <2>2. CASE ~(q <= m)
    <3>1. q - m \in 0 .. n
      BY <1>3, <2>2
    <3> QED
      BY <1>5, <2>2, <3>1
  <2> QED
    BY <2>1, <2>2
<1> HIDE DEF j
<1>8. ASSUME NEW q \in 1 .. m + n
      PROVE  j[q - 1] \in Place /\ u[q] = CharAt(j[q - 1]) /\ j[q] = After(j[q - 1])
  <2>1. CASE q <= m
    <3>1. q \in 1 .. m /\ q \in 0 .. m /\ q - 1 \in 0 .. m
      BY <1>3, <2>1
    <3> QED
      BY <1>3, <1>4, <1>6, <2>1, <3>1
  <2>2. CASE ~(q <= m)
    <3> DEFINE k == q - m
    <3>1. k \in 1 .. n /\ k \in 0 .. n /\ k - 1 \in 0 .. n /\ q = m + k /\ q - 1 = m + (k - 1)
      BY <1>3, <2>2
    <3>2. u[q] = t[k]
      BY <1>3, <2>2
    <3> HIDE DEF k
    <3> QED
      BY <1>5, <1>6, <3>1, <3>2
  <2> QED
    BY <2>1, <2>2
<1>9. j[0] = a /\ j[m + n] = c
  <2>1. 0 \in 0 .. m /\ n \in 0 .. n
    BY <1>3
  <2> QED
    BY <1>4, <1>5, <1>6, <2>1
<1>10. Spells(u, a, c, j)
  BY <1>3, <1>7, <1>8, <1>9 DEF Spells
<1> QED
  BY <1>10 DEF Spelt, u

\* Where a text is cut, the first part goes up to a place and the second on from there.
LEMMA SpeltCut ==
  ASSUME NEW s \in Seq(Text), NEW n \in 0 .. Len(s), NEW a, NEW c, Spelt(s, a, c)
  PROVE  \E b : Spelt(SubSeq(s, 1, n), a, b) /\ Spelt(SubSeq(s, n + 1, Len(s)), b, c)
<1>1. PICK h : Spells(s, a, c, h)
  BY DEF Spelt
<1> DEFINE l == Len(s)
           u == SubSeq(s, 1, n)
           v == SubSeq(s, n + 1, l)
           g == [q \in 0 .. n |-> h[q]]
           e == [q \in 0 .. l - n |-> h[n + q]]
<1>2. l \in Nat /\ n \in Nat /\ n <= l
  OBVIOUS
<1>3. /\ h \in [0 .. l -> Place \cup {EndOfText}] /\ h[0] = a /\ h[l] = c
      /\ \A q \in 1 .. l : h[q - 1] \in Place /\ s[q] = CharAt(h[q - 1]) /\ h[q] = After(h[q - 1])
  BY <1>1 DEF Spells
<1>4. Len(u) = n /\ \A q \in 1 .. n : u[q] = s[q]
  BY <1>2
<1>5. Len(v) = l - n /\ \A q \in 1 .. l - n : v[q] = s[n + q]
  BY <1>2
<1> HIDE DEF l, u, v
<1>6. /\ g \in [0 .. n -> Place \cup {EndOfText}] /\ g[0] = a /\ g[n] = h[n]
      /\ \A q \in 0 .. n : g[q] = h[q]
  BY <1>2, <1>3
<1>7. /\ e \in [0 .. l - n -> Place \cup {EndOfText}] /\ e[0] = h[n] /\ e[l - n] = c
      /\ \A q \in 0 .. l - n : e[q] = h[n + q]
  <2>1. \A q \in 0 .. l - n : n + q \in 0 .. l
    BY <1>2
  <2>2. n + 0 = n /\ n + (l - n) = l /\ 0 \in 0 .. l - n /\ l - n \in 0 .. l - n
    BY <1>2
  <2> QED
    BY <1>3, <2>1, <2>2
<1> HIDE DEF g, e
<1>8. Spells(u, a, h[n], g)
  <2> SUFFICES ASSUME NEW q \in 1 .. n
               PROVE  g[q - 1] \in Place /\ u[q] = CharAt(g[q - 1]) /\ g[q] = After(g[q - 1])
    BY <1>4, <1>6 DEF Spells
  <2>1. q \in 1 .. l /\ q \in 0 .. n /\ q - 1 \in 0 .. n
    BY <1>2
  <2> QED
    BY <1>3, <1>4, <1>6, <2>1
<1>9. Spells(v, h[n], c, e)
  <2> SUFFICES ASSUME NEW q \in 1 .. l - n
               PROVE  e[q - 1] \in Place /\ v[q] = CharAt(e[q - 1]) /\ e[q] = After(e[q - 1])
    BY <1>5, <1>7 DEF Spells
  <2>1. n + q \in 1 .. l /\ q \in 0 .. l - n /\ q - 1 \in 0 .. l - n /\ n + (q - 1) = (n + q) - 1
    BY <1>2
  <2>2. h[(n + q) - 1] \in Place /\ s[n + q] = CharAt(h[(n + q) - 1])
        /\ h[n + q] = After(h[(n + q) - 1])
    BY <1>3, <2>1
  <2>3. e[q - 1] = h[(n + q) - 1] /\ e[q] = h[n + q] /\ v[q] = s[n + q]
    BY <1>5, <1>7, <2>1
  <2> QED
    BY <2>2, <2>3
<1> QED
  BY <1>8, <1>9 DEF Spelt, u, v, l

\* The next character of a text is the one at the place where it begins.
LEMMA SpeltHead ==
  ASSUME NEW s \in Seq(Text), s # <<>>, NEW a, NEW b, Spelt(s, a, b)
  PROVE  a \in Place /\ Head(s) = CharAt(a) /\ Spelt(Tail(s), After(a), b)
<1>1. Len(s) \in Nat /\ 1 \in 0 .. Len(s) /\ 1 \in 1 .. Len(s)
  OBVIOUS
<1>2. PICK c : Spelt(SubSeq(s, 1, 1), a, c) /\ Spelt(SubSeq(s, 2, Len(s)), c, b)
  BY <1>1, SpeltCut
<1> DEFINE u == SubSeq(s, 1, 1)
<1>3. Len(u) = 1 /\ u[1] = Head(s)
  BY <1>1
<1>4. Tail(s) = SubSeq(s, 2, Len(s))
  BY TailIsSubSeq
<1>5. PICK h : Spells(u, a, c, h)
  BY <1>2 DEF Spelt
<1> HIDE DEF u
<1>6. h[0] = a /\ h[1] = c /\ h[0] \in Place /\ u[1] = CharAt(h[0]) /\ h[1] = After(h[0])
  <2>1. 1 \in 1 .. Len(u) /\ 1 - 1 = 0
    BY <1>3
  <2> QED
    BY <1>3, <1>5, <2>1 DEF Spells
<1> QED
  BY <1>2, <1>3, <1>4, <1>6

\* A word of the text, a blank or a line end is a piece of text, and so are two pieces in a row.
LEMMA TextFacts ==
  /\ <<" ">> \in Seq(Text) /\ <<"\n">> \in Seq(Text)
  /\ \A s \in Seq(Letter) : s \in Seq(Text)
  /\ \A s, t \in Seq(Text) : s \o t \in Seq(Text)
<1>1. " " \in Text /\ "\n" \in Text /\ Letter \subseteq Text
  BY DEF Text
<1>2. \A s \in Seq(Letter) : s \in Seq(Text)
  BY <1>1, SeqMonotonic
<1> HIDE DEF Text
<1>3. \A c \in Text : <<c>> \in Seq(Text)
  OBVIOUS
<1>4. <<" ">> \in Seq(Text) /\ <<"\n">> \in Seq(Text)
  BY <1>1, <1>3
<1>5. \A s, t \in Seq(Text) : s \o t \in Seq(Text)
  OBVIOUS
<1> QED
  BY <1>2, <1>4, <1>5

\* The rest of a word is the text from a place in it up to its end.
LEMMA WordSpelt ==
  ASSUME NEW m \in 1 .. Len(Commands), NEW i \in 1 .. Len(Commands[m])
  PROVE  LET w == Commands[m][i] IN
         Spelt(w, <<m, i, 0>>, <<m, i, Len(w)>>) /\ <<m, i, Len(w)>> \in Place
<1> DEFINE w == Commands[m][i]
           h == [q \in 0 .. Len(w) |-> <<m, i, q>>]
<1>1. w \in Seq(Letter) /\ Len(w) \in Nat /\ m \in Nat /\ i \in Nat
  BY CommandsType
<1>2. ASSUME NEW q \in 0 .. Len(w)
      PROVE  <<m, i, q>> \in Place /\ WordAt(<<m, i, q>>) = w /\ h[q] = <<m, i, q>>
  BY <1>1 DEF Place, WordAt
<1>3. h \in [0 .. Len(w) -> Place \cup {EndOfText}]
  BY <1>2
<1>4. ASSUME NEW q \in 1 .. Len(w)
      PROVE  h[q - 1] \in Place /\ w[q] = CharAt(h[q - 1]) /\ h[q] = After(h[q - 1])
  <2>1. q \in 0 .. Len(w) /\ q - 1 \in 0 .. Len(w) /\ q - 1 < Len(w) /\ (q - 1) + 1 = q
    BY <1>1
  <2>2. h[q - 1] = <<m, i, q - 1>> /\ h[q] = <<m, i, q>> /\ WordAt(<<m, i, q - 1>>) = w
    BY <1>2, <2>1
  <2>3. <<m, i, q - 1>> \in Place
    BY <1>2, <2>1
  <2> DEFINE p == <<m, i, q - 1>>
  <2>4. p[1] = m /\ p[2] = i /\ p[3] = q - 1
    OBVIOUS
  <2> HIDE DEF h, w, p
  <2>5. CharAt(p) = w[q] /\ After(p) = <<m, i, q>>
    BY <2>1, <2>2, <2>4 DEF CharAt, After, p
  <2> QED
    BY <2>2, <2>3, <2>5 DEF p
<1>5. 0 \in 0 .. Len(w) /\ Len(w) \in 0 .. Len(w)
  BY <1>1
<1>6. Spells(w, <<m, i, 0>>, <<m, i, Len(w)>>, h)
  <2> HIDE DEF h, w
  <2> QED
    BY <1>2, <1>3, <1>4, <1>5 DEF Spells
<1> HIDE DEF h
<1> QED
  BY <1>2, <1>5, <1>6 DEF Spelt

\* The recursion of Line, as an equation.
Joins(w, f) ==
  f = [i \in 1 .. Len(w) |-> w[i] \o (IF i = Len(w) THEN <<"\n">> ELSE <<" ">> \o f[i + 1])]

\* The words of a line are finitely many, so that they can be joined.
LEMMA JoinExists ==
  ASSUME NEW w \in Seq(Seq(Letter)), Len(w) >= 1
  PROVE  \E f : Joins(w, f)
<1> DEFINE S == Seq(Text)
           L == Len(w)
           first == w[L] \o <<"\n">>
           next == [x \in Nat \X S |->
                      IF x[1] + 1 < L THEN w[L - (x[1] + 1)] \o (<<" ">> \o x[2]) ELSE x[2]]
<1>1. L \in Nat /\ L >= 1 /\ L \in 1 .. L /\ \A i \in 1 .. L : w[i] \in S
  <2>1. L \in Nat /\ L >= 1 /\ \A i \in 1 .. L : w[i] \in Seq(Letter)
    OBVIOUS
  <2> HIDE DEF L
  <2>2. ASSUME NEW i \in 1 .. L PROVE w[i] \in Seq(Text)
    BY <2>1, TextFacts
  <2> QED
    BY <2>1, <2>2
<1>2. <<"\n">> \in S /\ <<" ">> \in S /\ \A s, t \in S : s \o t \in S
  BY TextFacts
<1> HIDE DEF L, S
<1>3. first \in S
  BY <1>1, <1>2
<1>4. next \in [Nat \X S -> S]
  <2>1. ASSUME NEW j \in Nat, NEW s \in S, j + 1 < L
        PROVE  w[L - (j + 1)] \o (<<" ">> \o s) \in S
    <3>1. L - (j + 1) \in 1 .. L
      BY <1>1, <2>1
    <3> QED
      BY <1>1, <1>2, <3>1
  <2> QED
    BY <2>1
<1> HIDE DEF first, next
<1>5. PICK g : IsSolution(S, first, next, g)
  BY <1>3, <1>4, Recursion DEF IsStep
<1> DEFINE f == [i \in 1 .. L |-> g[L - i]]
<1>6. ASSUME NEW i \in 1 .. L
      PROVE  f[i] = w[i] \o (IF i = L THEN <<"\n">> ELSE <<" ">> \o f[i + 1])
  <2>1. CASE i = L
    <3>1. f[i] = g[0]
      BY <1>1, <2>1
    <3> QED
      BY <2>1, <3>1, <1>5 DEF IsSolution, first
  <2>2. CASE i # L
    <3> DEFINE j == L - (i + 1)
    <3>1. j \in Nat /\ j + 1 = L - i /\ j + 1 < L /\ L - (j + 1) = i /\ i + 1 \in 1 .. L
      BY <1>1, <2>2
    <3>2. f[i] = g[j + 1] /\ f[i + 1] = g[j]
      BY <3>1
    <3> HIDE DEF f, j
    <3>3. g[j] \in S /\ g[j + 1] = next[<<j, g[j]>>]
      BY <1>5, <3>1 DEF IsSolution
    <3>4. next[<<j, g[j]>>] = w[i] \o (<<" ">> \o g[j])
      BY <3>1, <3>3 DEF next
    <3> QED
      BY <2>2, <3>2, <3>3, <3>4
  <2> QED
    BY <2>1, <2>2
<1>7. f = [i \in 1 .. L |-> f[i]]
  OBVIOUS
<1> HIDE DEF f
<1>8. Joins(w, f)
  BY <1>6, <1>7 DEF Joins, L
<1> QED
  BY <1>8

\* What find writes for a line is the text of that line, and no more.
LEMMA LineSpelt ==
  ASSUME NEW m \in 1 .. Len(Commands)
  PROVE  /\ FX!Line(Commands[m]) \in Seq(Text)
         /\ Spelt(FX!Line(Commands[m]), Begin(m), Begin(m + 1))
<1> DEFINE w == Commands[m]
           L == Len(w)
           f == CHOOSE e : Joins(w, e)
           T == {j \in Nat : j < L => /\ f[L - j] \in Seq(Text)
                                      /\ Spelt(f[L - j], <<m, L - j, 0>>, Begin(m + 1))}
<1>1. w \in Seq(Seq(Letter)) /\ L >= 1 /\ L \in Nat
  BY CommandsType
<1>2. FX!Line(w) = f[1]
  BY Zenon DEF FX!Line, Joins
<1>3. Joins(w, f)
  <2> HIDE DEF w
  <2> QED
    BY <1>1, JoinExists
<1> HIDE DEF f
<1>4. ASSUME NEW i \in 1 .. L
      PROVE  f[i] = w[i] \o (IF i = L THEN <<"\n">> ELSE <<" ">> \o f[i + 1])
  BY <1>3 DEF Joins
<1>5. ASSUME NEW i \in 1 .. L
      PROVE  /\ w[i] \in Seq(Text) /\ <<m, i, Len(w[i])>> \in Place
             /\ Spelt(w[i], <<m, i, 0>>, <<m, i, Len(w[i])>>)
             /\ CharAt(<<m, i, Len(w[i])>>) = IF i = L THEN "\n" ELSE " "
             /\ After(<<m, i, Len(w[i])>>) = IF i = L THEN Begin(m + 1) ELSE <<m, i + 1, 0>>
  <2>1. w[i] \in Seq(Letter) /\ Len(w[i]) \in Nat
    BY CommandsType
  <2>2. w[i] \in Seq(Text)
    BY <2>1, TextFacts
  <2>3. WordAt(<<m, i, Len(w[i])>>) = w[i]
    BY DEF WordAt
  <2>4. i = L \/ i < L
    BY <1>1
  <2> DEFINE p == <<m, i, Len(w[i])>>
  <2>5. p[1] = m /\ p[2] = i /\ p[3] = Len(w[i]) /\ ~(Len(w[i]) < Len(w[i]))
    BY <2>1
  <2>6. Spelt(w[i], <<m, i, 0>>, p) /\ p \in Place
    BY WordSpelt
  <2>7. CharAt(p) = (IF i < L THEN " " ELSE "\n")
    BY <2>3, <2>5 DEF CharAt
  <2>8. After(p) = IF i < L THEN <<m, i + 1, 0>> ELSE Begin(m + 1)
    BY <2>3, <2>5 DEF After
  <2>9. i < L <=> i # L
    BY <1>1, <2>4
  <2> HIDE DEF L, w
  <2> QED
    BY <2>2, <2>6, <2>7, <2>8, <2>9
<1>6. <<"\n">> \in Seq(Text) /\ <<" ">> \in Seq(Text) /\ \A s, t \in Seq(Text) : s \o t \in Seq(Text)
  BY TextFacts
<1> HIDE DEF w, L
<1>7. 0 \in T
  <2>1. L \in 1 .. L /\ L - 0 = L
    BY <1>1
  <2> DEFINE p == <<m, L, Len(w[L])>>
  <2>2. Spelt(<<"\n">>, p, Begin(m + 1))
    <3>1. p \in Place /\ CharAt(p) = "\n" /\ After(p) = Begin(m + 1)
      BY <1>5, <2>1
    <3> QED
      BY <3>1, SpeltOne
  <2>3. Spelt(w[L] \o <<"\n">>, <<m, L, 0>>, Begin(m + 1)) /\ w[L] \in Seq(Text)
    <3> HIDE DEF p
    <3>1. Spelt(w[L], <<m, L, 0>>, p) /\ w[L] \in Seq(Text)
      BY <1>5, <2>1 DEF p
    <3> QED
      BY <1>6, <2>2, <3>1, SpeltConcat
  <2>4. f[L] = w[L] \o <<"\n">>
    BY <1>4, <2>1
  <2> QED
    BY <1>6, <2>1, <2>3, <2>4
<1>8. ASSUME NEW j \in T PROVE j + 1 \in T
  <2> SUFFICES ASSUME j + 1 < L
               PROVE  /\ f[L - (j + 1)] \in Seq(Text)
                      /\ Spelt(f[L - (j + 1)], <<m, L - (j + 1), 0>>, Begin(m + 1))
    OBVIOUS
  <2> DEFINE i == L - (j + 1)
             p == <<m, i, Len(w[i])>>
  <2>1. i \in 1 .. L /\ i # L /\ i + 1 = L - j
    BY <1>1
  <2>2. f[i + 1] \in Seq(Text) /\ Spelt(f[i + 1], <<m, i + 1, 0>>, Begin(m + 1))
    BY <1>1, <2>1
  <2> HIDE DEF i
  <2>3. Spelt(<<" ">>, p, <<m, i + 1, 0>>) /\ Spelt(w[i], <<m, i, 0>>, p) /\ w[i] \in Seq(Text)
    <3>1. p \in Place /\ CharAt(p) = " " /\ After(p) = <<m, i + 1, 0>>
      BY <1>5, <2>1
    <3>2. Spelt(<<" ">>, p, <<m, i + 1, 0>>)
      BY <3>1, SpeltOne
    <3> QED
      BY <1>5, <2>1, <3>2
  <2> HIDE DEF p
  <2>4. /\ <<" ">> \o f[i + 1] \in Seq(Text)
        /\ Spelt(<<" ">> \o f[i + 1], p, Begin(m + 1))
    BY <1>6, <2>2, <2>3, SpeltConcat
  <2>5. Spelt(w[i] \o (<<" ">> \o f[i + 1]), <<m, i, 0>>, Begin(m + 1))
    BY <2>3, <2>4, SpeltConcat
  <2>6. f[i] = w[i] \o (<<" ">> \o f[i + 1])
    BY <1>4, <2>1
  <2> QED
    BY <1>6, <2>3, <2>4, <2>5, <2>6 DEF i
<1>9. T = Nat
  <2>1. T \in SUBSET Nat
    OBVIOUS
  <2> HIDE DEF T
  <2> QED
    BY <1>7, <1>8, <2>1, Induction
<1>10. L - 1 \in T /\ L - (L - 1) = 1 /\ L - 1 < L
  <2> HIDE DEF T
  <2> QED
    BY <1>1, <1>9
<1>11. f[1] \in Seq(Text) /\ Spelt(f[1], <<m, 1, 0>>, Begin(m + 1))
  BY <1>10
<1> QED
  BY <1>2, <1>11 DEF w, Begin

-----------------------------------------------------------------------------
(* The inductive invariant of find | xargs.                                *)

Process == [buf : Seq(Text), args : Seq(Seq(Letter)), token : Seq(Letter)]

PipeType ==
  /\ visit \in Node \cup {0}
  /\ open \in Seq(Node \X (Nat \ {0}))
  /\ out \in Seq(Text)
  /\ fpipe \in Seq(Text)
  /\ found \in BOOLEAN
  /\ xargs \in Seq(Process)
  /\ ran \in Seq(ArgLists)
  /\ failed \in Seq(ArgLists)

\* The lines from a + 1 to b.
Stretch(a, b) == SubSeq(Commands, a + 1, b)

\* said lines have been given to printf(); the directory that is read j-th from the outside
\* has still to print those from cut[j] + 1 to cut[j - 1], and the call that begins those before.
WalkInv(said, cut) ==
  /\ said \in 0 .. Len(Commands)
  /\ cut \in [0 .. Len(open) -> 0 .. Len(Commands)]
  /\ cut[0] = Len(Commands)
  /\ \A j \in 1 .. Len(open) :
       /\ cut[j] <= cut[j - 1]
       /\ Stretch(cut[j], cut[j - 1]) = FX!Lines[<<open[j][1], j, open[j][2]>>]
  /\ IF visit = 0 THEN said = cut[Len(open)]
     ELSE /\ out = <<>>
          /\ said <= cut[Len(open)]
          /\ Stretch(said, cut[Len(open)]) = FX!Lines[<<visit, Len(open), 0>>]

\* Process x of xargs has taken the text of a line up to place p; its buffer goes on to place e.
Parsed(x, p) ==
  IF p \in Place
  THEN x.args = SubSeq(Commands[p[1]], 1, p[2] - 1) /\ x.token = SubSeq(WordAt(p), 1, p[3])
  ELSE x.args = <<>> /\ x.token = <<>>

On(x, p, e) == p \in Place \cup {EndOfText} /\ Parsed(x, p) /\ Spelt(x.buf, p, e)

Top == xargs[Len(xargs)]

\* The lines up to m have been run, or fork() or exec() failed for them.
Settled(m) ==
  \A l \in 1 .. m : \/ \E k \in 1 .. Len(ran) : ran[k] = Commands[l]
                    \/ \E k \in 1 .. Len(failed) : failed[k] = Commands[l]

\* The running process reads on: what is in its buffer, in the pipe and in printf() is the
\* text from where it is to where find is.
Reading(said) ==
  /\ xargs # <<>>
  /\ \E p, e, b :
       /\ On(Top, p, e) /\ Spelt(fpipe, e, b) /\ Spelt(out, b, Begin(said + 1))
       /\ Settled(p[1] - 1)
       /\ failed = <<>> => Len(xargs) = 1 /\ ran = Stretch(0, p[1] - 1)

\* A process has come to the end of the text.
AllRead ==
  /\ found /\ fpipe = <<>>
  /\ Settled(Len(Commands))
  /\ failed = <<>> => xargs = <<>> /\ ran = Commands

\* Every process of xargs, those that wait too, is in a line, and its buffer goes on from there.
StackInv == \A k \in 1 .. Len(xargs) : \E p, e : On(xargs[k], p, e)

FoundInv == found => visit = 0 /\ open = <<>> /\ out = <<>>

\* Only lines of find are run.
RanInv == \A k \in 1 .. Len(ran) : \E l \in 1 .. Len(Commands) : ran[k] = Commands[l]

StreamInv == \E said, cut : WalkInv(said, cut) /\ (Reading(said) \/ AllRead)

PipelineInv == PipeType /\ FoundInv /\ StackInv /\ RanInv /\ StreamInv

\* Nothing has been printed or read, and find has all its lines to print.
LEMMA PipelineInit == FX!Init => PipelineInv
<1> SUFFICES ASSUME FX!Init
             PROVE  PipelineInv
  OBVIOUS
<1> DEFINE x == [buf |-> <<>>, args |-> <<>>, token |-> <<>>]
<1>0. Len(Commands) \in Nat /\ Commands \in Seq(ArgLists) /\ 1 \in 1 .. Len(Commands) + 1
  BY CommandsType
<1>1. /\ visit = 1 /\ open = <<>> /\ out = <<>> /\ fpipe = <<>> /\ found = FALSE
      /\ xargs = <<x>> /\ ran = <<>> /\ failed = <<>>
  BY DEF FX!Init, FX!NewLine
<1>2. PipeType
  <2>1. x \in Process
    BY DEF Process
  <2>2. \A y \in Process : <<y>> \in Seq(Process)
    OBVIOUS
  <2> HIDE DEF x
  <2>3. xargs \in Seq(Process)
    BY <1>1, <2>1, <2>2
  <2>4. \A S : <<>> \in Seq(S)
    OBVIOUS
  <2> QED
    BY <1>1, <2>3, <2>4, UtilAssumption DEF PipeType
<1>3. WalkInv(0, [j \in 0 .. 0 |-> Len(Commands)])
  <2>1. Stretch(0, Len(Commands)) = Commands
    BY <1>0 DEF Stretch
  <2>2. Commands = FX!Lines[<<1, 0, 0>>]
    BY DEF Commands, FX!Expected
  <2> QED
    BY <1>0, <1>1, <2>1, <2>2, UtilAssumption DEF WalkInv
<1>4. On(x, Begin(1), Begin(1))
  <2>1. Begin(1) \in Place \cup {EndOfText} /\ Spelt(<<>>, Begin(1), Begin(1))
    BY <1>0, BeginFacts, SpeltNothing
  <2>2. SubSeq(Commands[1], 1, 0) = <<>> /\ SubSeq(WordAt(Begin(1)), 1, 0) = <<>>
    BY SubSeqEmpty
  <2>3. Begin(1)[1] = 1 /\ Begin(1)[2] = 1 /\ Begin(1)[3] = 0
    BY DEF Begin
  <2> QED
    BY <2>1, <2>2, <2>3 DEF On, Parsed
<1>5. Reading(0)
  <2>1. Top = x /\ Len(xargs) = 1 /\ xargs # <<>>
    BY <1>1 DEF Top
  <2>2. Spelt(fpipe, Begin(1), Begin(1)) /\ Spelt(out, Begin(1), Begin(0 + 1))
    BY <1>0, <1>1, BeginFacts, SpeltNothing
  <2>3. Settled(Begin(1)[1] - 1) /\ ran = Stretch(0, Begin(1)[1] - 1)
    BY <1>1 DEF Settled, Begin, Stretch
  <2> HIDE DEF x
  <2> QED
    BY <1>4, <2>1, <2>2, <2>3 DEF Reading
<1>6. StackInv
  <2> HIDE DEF x
  <2> QED
    BY <1>1, <1>4 DEF StackInv
<1> HIDE DEF x
<1> QED
  BY <1>1, <1>2, <1>3, <1>5, <1>6 DEF PipelineInv, FoundInv, RanInv, StreamInv

\* What a step of find does to what it has to print: nothing, or printf() has got the next lines.
Prints(said, next) ==
  \/ next = said /\ out' = out
  \/ out = <<>> /\ out' \in Seq(Text) /\ Spelt(out', Begin(said + 1), Begin(next + 1))

\* Two stretches in a row.
LEMMA StretchFacts ==
  /\ \A a, b \in 0 .. Len(Commands) : a <= b => Len(Stretch(a, b)) = b - a
  /\ \A a \in 0 .. Len(Commands) : Stretch(a, a) = <<>>
  /\ \A a \in 0 .. Len(Commands) - 1 : Stretch(a, a + 1) = <<Commands[a + 1]>>
  /\ \A a, b \in 0 .. Len(Commands), n \in Nat : a <= b /\ n <= b - a =>
       /\ SubSeq(Stretch(a, b), 1, n) = Stretch(a, a + n)
       /\ SubSeq(Stretch(a, b), n + 1, b - a) = Stretch(a + n, b)
<1>0. Len(Commands) \in Nat /\ Commands \in Seq(ArgLists)
  BY CommandsType
<1>1. ASSUME NEW a \in 0 .. Len(Commands), NEW b \in 0 .. Len(Commands), a <= b
      PROVE  /\ Len(Stretch(a, b)) = b - a /\ Stretch(a, b) \in Seq(ArgLists)
             /\ \A i \in 1 .. b - a : Stretch(a, b)[i] = Commands[a + i]
  <2>1. \A i \in a + 1 .. b : Commands[i] \in ArgLists
    BY <1>0
  <2>2. /\ Stretch(a, b) \in Seq(ArgLists)
        /\ Len(Stretch(a, b)) = IF a + 1 <= b THEN b - (a + 1) + 1 ELSE 0
        /\ \A i \in 1 .. b - (a + 1) + 1 : Stretch(a, b)[i] = Commands[a + 1 + i - 1]
    BY <1>0, <2>1, SubSeqProperties DEF Stretch
  <2>3. \A i \in 1 .. b - a : a + 1 + i - 1 = a + i
    BY <1>0
  <2>4. b - (a + 1) + 1 = b - a /\ (a + 1 <= b <=> a # b)
    BY <1>0, <1>1
  <2> QED
    BY <1>0, <1>1, <2>2, <2>3, <2>4
<1>2. ASSUME NEW a \in 0 .. Len(Commands) PROVE Stretch(a, a) = <<>>
  BY <1>0, SubSeqEmpty DEF Stretch
<1>3. ASSUME NEW a \in 0 .. Len(Commands) - 1 PROVE Stretch(a, a + 1) = <<Commands[a + 1]>>
  <2>1. a \in 0 .. Len(Commands) /\ a + 1 \in 0 .. Len(Commands) /\ a <= a + 1 /\ (a + 1) - a = 1
    BY <1>0
  <2>2. /\ Stretch(a, a + 1) \in Seq(ArgLists) /\ Len(Stretch(a, a + 1)) = 1
        /\ Stretch(a, a + 1)[1] = Commands[a + 1]
    <3>1. 1 \in 1 .. 1
      OBVIOUS
    <3> QED
      BY <1>1, <2>1, <3>1
  <2> QED
    BY <2>2
<1>4. ASSUME NEW a \in 0 .. Len(Commands), NEW b \in 0 .. Len(Commands), NEW n \in Nat,
             a <= b, n <= b - a
      PROVE  /\ SubSeq(Stretch(a, b), 1, n) = Stretch(a, a + n)
             /\ SubSeq(Stretch(a, b), n + 1, b - a) = Stretch(a + n, b)
  <2> DEFINE s == Stretch(a, b)
  <2>0. a + n \in 0 .. Len(Commands) /\ a <= a + n /\ a + n <= b
    BY <1>0, <1>4
  <2>1. /\ Len(s) = b - a /\ s \in Seq(ArgLists)
        /\ \A i \in 1 .. b - a : s[i] = Commands[a + i]
    BY <1>1, <1>4
  <2>2. /\ Len(Stretch(a, a + n)) = n /\ Stretch(a, a + n) \in Seq(ArgLists)
        /\ \A i \in 1 .. n : Stretch(a, a + n)[i] = Commands[a + i]
    <3>1. (a + n) - a = n
      BY <1>0
    <3> QED
      BY <1>1, <2>0, <3>1
  <2>3. /\ Len(Stretch(a + n, b)) = b - (a + n) /\ Stretch(a + n, b) \in Seq(ArgLists)
        /\ \A i \in 1 .. b - (a + n) : Stretch(a + n, b)[i] = Commands[(a + n) + i]
    BY <1>1, <2>0
  <2> HIDE DEF s
  <2>4. SubSeq(s, 1, n) = Stretch(a, a + n)
    <3>1. SubSeq(s, 1, n) \in Seq(ArgLists) /\ Len(SubSeq(s, 1, n)) = n
      BY <1>0, <1>4, <2>1
    <3>2. \A i \in 1 .. n : SubSeq(s, 1, n)[i] = Stretch(a, a + n)[i]
      <4> SUFFICES ASSUME NEW i \in 1 .. n
                   PROVE  SubSeq(s, 1, n)[i] = Stretch(a, a + n)[i]
        OBVIOUS
      <4>1. SubSeq(s, 1, n)[i] = s[i] /\ i \in 1 .. b - a
        BY <1>0, <1>4, <2>1
      <4> QED
        BY <2>1, <2>2, <4>1
    <3> QED
      BY <2>2, <3>1, <3>2, SeqEqual
  <2>5. SubSeq(s, n + 1, b - a) = Stretch(a + n, b)
    <3>1. /\ SubSeq(s, n + 1, b - a) \in Seq(ArgLists)
          /\ Len(SubSeq(s, n + 1, b - a)) = b - (a + n)
      BY <1>0, <1>4, <2>1
    <3>2. \A i \in 1 .. b - (a + n) : SubSeq(s, n + 1, b - a)[i] = Stretch(a + n, b)[i]
      <4> SUFFICES ASSUME NEW i \in 1 .. b - (a + n)
                   PROVE  SubSeq(s, n + 1, b - a)[i] = Stretch(a + n, b)[i]
        OBVIOUS
      <4>1. SubSeq(s, n + 1, b - a)[i] = s[n + i] /\ n + i \in 1 .. b - a
        BY <1>0, <1>4, <2>1
      <4>2. a + (n + i) = (a + n) + i
        BY <1>0
      <4> QED
        BY <2>1, <2>3, <4>1, <4>2
    <3> QED
      BY <2>3, <3>1, <3>2, SeqEqual
  <2> QED
    BY <2>4, <2>5 DEF s
<1> QED
  BY <1>1, <1>2, <1>3, <1>4

\* What WalkInv says of a call that begins: so many lines are its own.
LEMMA CallFacts ==
  ASSUME PipeType, NEW said, NEW cut, WalkInv(said, cut), visit # 0
  PROVE  /\ visit \in Node /\ Len(open) \in Nat /\ out = <<>>
         /\ said \in 0 .. Len(Commands) /\ cut[Len(open)] \in 0 .. Len(Commands)
         /\ said <= cut[Len(open)]
         /\ FX!Lines[<<visit, Len(open), 0>>] = <<>> => said = cut[Len(open)]
         /\ \A w : FX!Lines[<<visit, Len(open), 0>>] = <<w>> =>
              /\ cut[Len(open)] = said + 1 /\ said + 1 \in 1 .. Len(Commands)
              /\ w = Commands[said + 1]
<1> DEFINE L == Len(open)
           s == FX!Lines[<<visit, L, 0>>]
<1>1. visit \in Node /\ L \in Nat /\ Len(Commands) \in Nat
  BY CommandsType DEF PipeType
<1>2. L \in 0 .. L
  BY <1>1
<1>3. /\ out = <<>> /\ said \in 0 .. Len(Commands) /\ cut[L] \in 0 .. Len(Commands)
      /\ said <= cut[L] /\ Stretch(said, cut[L]) = s
  BY <1>2 DEF WalkInv
<1> HIDE DEF L, s
<1>4. Len(s) = cut[L] - said
  BY <1>3, StretchFacts
<1>5. s = <<>> => said = cut[L]
  BY <1>1, <1>3, <1>4
<1>6. ASSUME NEW w, s = <<w>>
      PROVE  cut[L] = said + 1 /\ said + 1 \in 1 .. Len(Commands) /\ w = Commands[said + 1]
  <2>1. Len(s) = 1
    BY <1>6
  <2>2. cut[L] = said + 1 /\ said + 1 \in 1 .. Len(Commands) /\ said \in 0 .. Len(Commands) - 1
    BY <1>1, <1>3, <1>4, <2>1
  <2>3. s = <<Commands[said + 1]>>
    BY <1>3, <2>2, StretchFacts
  <2> QED
    BY <1>6, <2>2, <2>3
<1> QED
  BY <1>1, <1>3, <1>5, <1>6 DEF L, s

\* A call that prints nothing itself has ended when it returns.
LEMMA ReturnWalk ==
  ASSUME PipeType, NEW said, NEW cut, WalkInv(said, cut), visit # 0, visit' = 0, open' = open,
         FX!Lines[<<visit, Len(open), 0>>] = <<>>
  PROVE  WalkInv(said, cut)'
<1>1. said = cut[Len(open)]
  BY CallFacts
<1> QED
  BY <1>1 DEF WalkInv, Stretch

\* A call that prints one line has given it to printf().
LEMMA LineWalk ==
  ASSUME PipeType, NEW said, NEW cut, WalkInv(said, cut), visit # 0, visit' = 0, open' = open,
         NEW w, FX!Lines[<<visit, Len(open), 0>>] = <<w>>, out' = FX!Line(w)
  PROVE  WalkInv(said + 1, cut)' /\ Prints(said, said + 1)
<1>1. /\ cut[Len(open)] = said + 1 /\ said + 1 \in 1 .. Len(Commands) /\ w = Commands[said + 1]
      /\ out = <<>> /\ said \in 0 .. Len(Commands)
  BY CallFacts
<1>2. said + 1 \in 0 .. Len(Commands)
  BY <1>1, CommandsType
<1>3. WalkInv(said + 1, cut)'
  BY <1>1, <1>2 DEF WalkInv, Stretch
<1>4. out' \in Seq(Text) /\ Spelt(out', Begin(said + 1), Begin((said + 1) + 1))
  BY <1>1, LineSpelt
<1> QED
  BY <1>1, <1>3, <1>4 DEF Prints

\* A directory that is opened prints what the call for it does.
LEMMA DirWalk ==
  ASSUME PipeType, NEW said, NEW cut, WalkInv(said, cut), visit # 0, FX!FindDir
  PROVE  \E c : WalkInv(said, c)'
<1> DEFINE L == Len(open)
<1>0. PICK c : c = [j \in 0 .. L + 1 |-> IF j = L + 1 THEN said ELSE cut[j]]
  OBVIOUS
<1>1. /\ visit \in Node /\ L \in Nat /\ said \in 0 .. Len(Commands)
      /\ cut[L] \in 0 .. Len(Commands) /\ said <= cut[L] /\ out = <<>>
  BY CallFacts
<1>2. /\ open' = Append(open, <<visit, 1>>) /\ visit' = 0 /\ out' = out
      /\ Kind[visit] = "dir" /\ ~(3 + L >= FindFiles)
  BY <1>1, UtilAssumption DEF FX!FindDir
<1>3. /\ Len(open') = L + 1 /\ open'[L + 1] = <<visit, 1>>
      /\ \A j \in 1 .. L : open'[j] = open[j]
  BY <1>1, <1>2 DEF PipeType
<1>4. FX!Lines[<<visit, L, 0>>] = FX!Lines[<<visit, L + 1, 1>>]
  BY <1>1, <1>2, LinesIs
<1>5. /\ cut \in [0 .. L -> 0 .. Len(Commands)] /\ cut[0] = Len(Commands)
      /\ Stretch(said, cut[L]) = FX!Lines[<<visit, L, 0>>]
      /\ \A j \in 1 .. L : /\ cut[j] <= cut[j - 1]
                           /\ Stretch(cut[j], cut[j - 1]) = FX!Lines[<<open[j][1], j, open[j][2]>>]
  BY DEF WalkInv
<1> HIDE DEF L
<1>6. /\ c \in [0 .. L + 1 -> 0 .. Len(Commands)] /\ c[0] = Len(Commands) /\ c[L + 1] = said
      /\ \A j \in 0 .. L : c[j] = cut[j]
  BY <1>0, <1>1, <1>5
<1>7. ASSUME NEW j \in 1 .. L + 1
      PROVE  /\ c[j] <= c[j - 1]
             /\ Stretch(c[j], c[j - 1]) = FX!Lines[<<open'[j][1], j, open'[j][2]>>]
  <2>1. CASE j = L + 1
    <3>1. j - 1 = L /\ L \in 0 .. L
      BY <1>1, <2>1
    <3>2. c[j] = said /\ c[j - 1] = cut[L]
      BY <1>6, <2>1, <3>1
    <3>3. open'[j][1] = visit /\ open'[j][2] = 1
      BY <1>3, <2>1
    <3> QED
      BY <1>1, <1>4, <1>5, <2>1, <3>2, <3>3
  <2>2. CASE j # L + 1
    <3>1. j \in 1 .. L /\ j \in 0 .. L /\ j - 1 \in 0 .. L
      BY <1>1, <2>2
    <3> QED
      BY <1>3, <1>5, <1>6, <3>1
  <2> QED
    BY <2>1, <2>2
<1>8. WalkInv(said, c)'
  <2>1. said = c[Len(open')] /\ c \in [0 .. Len(open') -> 0 .. Len(Commands)]
    BY <1>3, <1>6
  <2>2. \A j \in 1 .. Len(open') :
          /\ c[j] <= c[j - 1]
          /\ Stretch(c[j], c[j - 1]) = FX!Lines[<<open'[j][1], j, open'[j][2]>>]
    BY <1>3, <1>7
  <2> QED
    BY <1>1, <1>2, <1>6, <2>1, <2>2 DEF WalkInv, Stretch
<1> QED
  BY <1>8

\* The directory that is read, if a call is not about to begin.
LEMMA TopDirectory ==
  ASSUME PipeType, NEW said, NEW cut, WalkInv(said, cut), visit = 0, open # <<>>
  PROVE  LET L == Len(open)  d == open[L][1]  n == open[L][2] IN
         /\ L \in Nat \ {0} /\ d \in Node /\ n \in Nat \ {0} /\ open[L] = <<d, n>>
         /\ said \in 0 .. Len(Commands) /\ said = cut[L] /\ cut[L - 1] \in 0 .. Len(Commands)
         /\ said <= cut[L - 1]
         /\ Stretch(said, cut[L - 1]) = FX!Lines[<<d, L, n>>]
<1> DEFINE L == Len(open)
<1>1. L \in Nat \ {0} /\ open[L] \in Node \X (Nat \ {0})
  BY DEF PipeType
<1>2. L \in 1 .. L /\ L \in 0 .. L /\ L - 1 \in 0 .. L
  BY <1>1
<1>3. /\ said \in 0 .. Len(Commands) /\ said = cut[L] /\ cut[L - 1] \in 0 .. Len(Commands)
      /\ cut[L] <= cut[L - 1]
      /\ Stretch(cut[L], cut[L - 1]) = FX!Lines[<<open[L][1], L, open[L][2]>>]
  BY <1>2 DEF WalkInv
<1> HIDE DEF L
<1> QED
  BY <1>1, <1>3 DEF L

\* The next entry: the lines of the directory are those of the entry, and then the others.
LEMMA EntryWalk ==
  ASSUME PipeType, NEW said, NEW cut, WalkInv(said, cut), FX!FindEntry
  PROVE  \E c : WalkInv(said, c)'
<1> DEFINE L == Len(open)
           d == open[L][1]
           n == open[L][2]
           e == Entries[d][n]
           l == FX!Lines[<<e, L, 0>>]
<1>0. PICK c : c = [cut EXCEPT ![L] = said + Len(l)]
  OBVIOUS
<1>1. /\ visit = 0 /\ out = <<>> /\ open # <<>> /\ out' = out
      /\ n <= Len(Entries[d])
      /\ visit' = IF Kind[e] = "skip" THEN 0 ELSE e
      /\ open' = [open EXCEPT ![L] = <<d, n + 1>>]
  BY DEF FX!FindEntry, FX!Last
<1>2. /\ L \in Nat \ {0} /\ d \in Node /\ n \in Nat \ {0}
      /\ said \in 0 .. Len(Commands) /\ said = cut[L] /\ cut[L - 1] \in 0 .. Len(Commands)
      /\ said <= cut[L - 1]
      /\ Stretch(said, cut[L - 1]) = FX!Lines[<<d, L, n>>]
  BY <1>1, TopDirectory
<1>3. e \in Node /\ Len(Entries[d]) \in Nat /\ L \in Nat /\ ~(n > Len(Entries[d]))
  <2> HIDE DEF d, n, L
  <2>1. Entries[d] \in Seq(Node)
    BY <1>2, UtilAssumption
  <2>2. n \in 1 .. Len(Entries[d])
    BY <1>1, <1>2, <2>1
  <2> QED
    BY <1>2, <2>1, <2>2
<1>4. FX!Lines[<<d, L, n>>] = l \o FX!Lines[<<d, L, n + 1>>]
  <2> HIDE DEF d, n, L
  <2> QED
    BY <1>2, <1>3, LinesIs
<1>5. /\ cut \in [0 .. L -> 0 .. Len(Commands)] /\ cut[0] = Len(Commands)
      /\ \A j \in 1 .. L : /\ cut[j] <= cut[j - 1]
                           /\ Stretch(cut[j], cut[j - 1]) = FX!Lines[<<open[j][1], j, open[j][2]>>]
  BY DEF WalkInv
<1>6. /\ Len(open') = L /\ open'[L][1] = d /\ open'[L][2] = n + 1
      /\ \A j \in 1 .. L : j # L => open'[j] = open[j]
  BY <1>1, <1>2 DEF PipeType
<1> DEFINE r == FX!Lines[<<d, L, n + 1>>]
<1>7. l \in Seq(ArgLists) /\ r \in Seq(ArgLists)
  BY SMTT(30), <1>2, <1>3, LinesType
<1>8. Kind[e] = "skip" => l = <<>>
  BY <1>2, <1>3, LinesIs
<1> HIDE DEF L, d, n, e, l, r
<1>9. /\ Len(l) \in Nat /\ said + Len(l) <= cut[L - 1] /\ said + Len(l) \in 0 .. Len(Commands)
      /\ Stretch(said, said + Len(l)) = l /\ Stretch(said + Len(l), cut[L - 1]) = r
  <2> DEFINE s == Stretch(said, cut[L - 1])
  <2>1. s = l \o r /\ Len(s) = cut[L - 1] - said
    BY <1>2, <1>4, StretchFacts DEF r
  <2>2. Len(l) \in Nat /\ Len(r) \in Nat /\ Len(s) = Len(l) + Len(r)
    BY <1>7, <2>1
  <2>3. said + Len(l) <= cut[L - 1] /\ Len(l) <= cut[L - 1] - said
    BY <1>2, <2>1, <2>2
  <2>4. /\ SubSeq(s, 1, Len(l)) = Stretch(said, said + Len(l))
        /\ SubSeq(s, Len(l) + 1, cut[L - 1] - said) = Stretch(said + Len(l), cut[L - 1])
    BY <1>2, <2>2, <2>3, StretchFacts
  <2> HIDE DEF s
  <2>5. SubSeq(l \o r, 1, Len(l)) = l
    BY <1>7
  <2>6. SubSeq(l \o r, Len(l) + 1, Len(l) + Len(r)) = r
    BY <1>7
  <2>7. said + Len(l) \in 0 .. Len(Commands)
    BY SMTT(30), <1>2, <2>2, <2>3, CommandsType
  <2>8. Len(l) + Len(r) = cut[L - 1] - said
    BY <2>1, <2>2
  <2> QED
    BY <2>1, <2>2, <2>3, <2>4, <2>5, <2>6, <2>7, <2>8
<1>10. /\ c \in [0 .. L -> 0 .. Len(Commands)] /\ c[0] = Len(Commands)
       /\ c[L] = said + Len(l)
       /\ \A j \in 0 .. L : j # L => c[j] = cut[j]
  BY <1>0, <1>2, <1>5, <1>9
<1>11. ASSUME NEW j \in 1 .. L
       PROVE  /\ c[j] <= c[j - 1]
              /\ Stretch(c[j], c[j - 1]) = FX!Lines[<<open'[j][1], j, open'[j][2]>>]
  <2>1. CASE j = L
    <3>1. j - 1 \in 0 .. L /\ j - 1 # L
      BY <1>2, <2>1
    <3>2. c[j] = said + Len(l) /\ c[j - 1] = cut[L - 1]
      BY <1>10, <2>1, <3>1
    <3> QED
      BY <1>6, <1>9, <2>1, <3>2 DEF r
  <2>2. CASE j # L
    <3>1. j \in 0 .. L /\ j - 1 \in 0 .. L /\ j - 1 # L
      BY <1>2, <2>2
    <3> QED
      BY <1>5, <1>6, <1>10, <2>2, <3>1
  <2> QED
    BY <2>1, <2>2
<1>12. IF visit' = 0 THEN said = c[L]
       ELSE /\ out' = <<>> /\ said <= c[L]
            /\ Stretch(said, c[L]) = FX!Lines[<<visit', L, 0>>]
  <2>1. CASE Kind[e] = "skip"
    BY <1>1, <1>2, <1>8, <1>10, <2>1
  <2>2. CASE Kind[e] # "skip"
    <3>1. visit' = e /\ visit' # 0
      BY <1>1, <1>3, <2>2, UtilAssumption
    <3>2. Stretch(said, c[L]) = l /\ said <= c[L]
      BY <1>2, <1>9, <1>10
    <3>3. l = FX!Lines[<<visit', L, 0>>]
      BY <3>1 DEF l
    <3> QED
      BY <1>1, <3>1, <3>2, <3>3
  <2> QED
    BY <2>1, <2>2
<1>13. WalkInv(said, c)'
  <2>1. \A j \in 1 .. Len(open') :
          /\ c[j] <= c[j - 1]
          /\ Stretch(c[j], c[j - 1]) = FX!Lines[<<open'[j][1], j, open'[j][2]>>]
    BY <1>6, <1>11
  <2>2. IF visit' = 0 THEN said = c[Len(open')]
        ELSE /\ out' = <<>> /\ said <= c[Len(open')]
             /\ Stretch(said, c[Len(open')]) = FX!Lines[<<visit', Len(open'), 0>>]
    BY <1>6, <1>12
  <2>3. c \in [0 .. Len(open') -> 0 .. Len(Commands)]
    BY <1>6, <1>10
  <2> QED
    BY <1>2, <1>10, <2>1, <2>2, <2>3 DEF WalkInv, Stretch
<1> QED
  BY <1>13

\* At the end of a directory none of its lines are left.
LEMMA CloseWalk ==
  ASSUME PipeType, NEW said, NEW cut, WalkInv(said, cut), FX!FindClose
  PROVE  \E c : WalkInv(said, c)'
<1> DEFINE L == Len(open)
           d == open[L][1]
           n == open[L][2]
<1>0. PICK c : c = [j \in 0 .. L - 1 |-> cut[j]]
  OBVIOUS
<1>1. /\ visit = 0 /\ out = <<>> /\ open # <<>> /\ out' = out /\ visit' = visit
      /\ n > Len(Entries[d])
      /\ open' = SubSeq(open, 1, L - 1)
  BY DEF FX!FindClose, FX!Last, FX!Front
<1>2. /\ L \in Nat \ {0} /\ d \in Node /\ n \in Nat \ {0}
      /\ said \in 0 .. Len(Commands) /\ said = cut[L] /\ cut[L - 1] \in 0 .. Len(Commands)
      /\ said <= cut[L - 1]
      /\ Stretch(said, cut[L - 1]) = FX!Lines[<<d, L, n>>]
  BY <1>1, TopDirectory
<1>3. Stretch(said, cut[L - 1]) = <<>>
  BY <1>1, <1>2, LinesIs
<1>4. said = cut[L - 1]
  <2>1. Len(Stretch(said, cut[L - 1])) = cut[L - 1] - said
    BY <1>2, StretchFacts
  <2> HIDE DEF L
  <2> QED
    BY <1>2, <1>3, <2>1
<1>5. /\ cut \in [0 .. L -> 0 .. Len(Commands)] /\ cut[0] = Len(Commands)
      /\ \A j \in 1 .. L : /\ cut[j] <= cut[j - 1]
                           /\ Stretch(cut[j], cut[j - 1]) = FX!Lines[<<open[j][1], j, open[j][2]>>]
  BY DEF WalkInv
<1>6. Len(open') = L - 1 /\ \A j \in 1 .. L - 1 : open'[j] = open[j]
  <2>1. open \in Seq(Node \X (Nat \ {0}))
    BY DEF PipeType
  <2>2. \A i \in 1 .. L - 1 : open[i] \in Node \X (Nat \ {0})
    BY <2>1
  <2>3. 1 \in Int /\ L - 1 \in Int /\ L - 1 \in Nat
    BY <1>2
  <2>4. /\ Len(open') = IF 1 <= L - 1 THEN (L - 1) - 1 + 1 ELSE 0
        /\ \A i \in 1 .. (L - 1) - 1 + 1 : open'[i] = open[1 + i - 1]
    BY <1>1, <2>2, <2>3, SubSeqProperties
  <2>5. (L - 1) - 1 + 1 = L - 1 /\ \A i \in 1 .. L - 1 : 1 + i - 1 = i
    BY <2>3
  <2> HIDE DEF L
  <2> QED
    BY <2>3, <2>4, <2>5
<1> HIDE DEF L
<1>7. /\ c \in [0 .. L - 1 -> 0 .. Len(Commands)] /\ c[0] = Len(Commands) /\ c[L - 1] = said
      /\ \A j \in 0 .. L - 1 : c[j] = cut[j]
  BY <1>0, <1>2, <1>4, <1>5
<1>8. ASSUME NEW j \in 1 .. L - 1
      PROVE  /\ c[j] <= c[j - 1]
             /\ Stretch(c[j], c[j - 1]) = FX!Lines[<<open'[j][1], j, open'[j][2]>>]
  <2>1. j \in 1 .. L /\ j \in 0 .. L - 1 /\ j - 1 \in 0 .. L - 1
    BY <1>2
  <2> QED
    BY <1>5, <1>6, <1>7, <2>1
<1>9. WalkInv(said, c)'
  BY <1>1, <1>2, <1>6, <1>7, <1>8 DEF WalkInv, Stretch
<1> QED
  BY <1>9

\* A step of find that is not printf()'s next character: where find is then, and what it prints.
LEMMA FindMoves ==
  ASSUME PipeType, NEW said, NEW cut, WalkInv(said, cut), FX!Find, ~FX!FindWrite
  PROVE  /\ \E next, c : WalkInv(next, c)' /\ Prints(said, next)
         /\ UNCHANGED <<fpipe, xargs, ran, failed>>
<1>0. visit # 0 => Len(open) \in Nat /\ visit \in Node /\ out = <<>> /\ said \in Nat
  BY CallFacts
<1>1. CASE FX!FindCannotOpen
  <2>1. /\ visit # 0 /\ 3 + Len(open) >= FindFiles /\ visit' = 0 /\ open' = open /\ out' = out
        /\ UNCHANGED <<fpipe, xargs, ran, failed>>
    BY <1>1 DEF FX!FindCannotOpen, FX!reader
  <2>2. FX!Lines[<<visit, Len(open), 0>>] = <<>>
    BY <1>0, <2>1, LinesIs
  <2>3. WalkInv(said, cut)'
    BY <2>1, <2>2, ReturnWalk
  <2> QED
    BY <2>1, <2>3 DEF Prints
<1>2. CASE FX!FindFile
  <2>1. /\ visit # 0 /\ 3 + Len(open) < FindFiles /\ Kind[visit] = "file"
        /\ visit' = 0 /\ open' = open
        /\ out' = IF visit \in Target THEN FX!Line(Words[visit]) ELSE <<>>
        /\ UNCHANGED <<fpipe, xargs, ran, failed>>
    BY <1>2 DEF FX!FindFile, FX!reader
  <2>2. ~(3 + Len(open) >= FindFiles)
    BY <1>0, <2>1, UtilAssumption
  <2>3. FX!Lines[<<visit, Len(open), 0>>] = IF visit \in Target THEN <<Words[visit]>> ELSE <<>>
    BY <1>0, <2>1, <2>2, LinesIs
  <2>4. CASE visit \in Target
    <3>1. /\ FX!Lines[<<visit, Len(open), 0>>] = <<Words[visit]>>
          /\ out' = FX!Line(Words[visit])
      BY <2>1, <2>3, <2>4
    <3>2. ASSUME NEW w, w = Words[visit] PROVE WalkInv(said + 1, cut)' /\ Prints(said, said + 1)
      <4>1. FX!Lines[<<visit, Len(open), 0>>] = <<w>> /\ out' = FX!Line(w)
        BY <3>1, <3>2
      <4> QED
        BY <2>1, <4>1, LineWalk
    <3>3. \E w : w = Words[visit]
      OBVIOUS
    <3> QED
      BY <2>1, <3>2, <3>3
  <2>5. CASE visit \notin Target
    <3>1. WalkInv(said, cut)'
      BY <2>1, <2>3, <2>5, ReturnWalk
    <3>2. out' = out
      BY <1>0, <2>1, <2>5
    <3> QED
      BY <2>1, <3>1, <3>2 DEF Prints
  <2> QED
    BY <2>4, <2>5
<1>3. CASE FX!FindTooLong
  <2>1. /\ visit # 0 /\ 3 + Len(open) < FindFiles /\ Kind[visit] = "long"
        /\ visit' = 0 /\ open' = open /\ out' = FX!Line(TooLong)
        /\ UNCHANGED <<fpipe, xargs, ran, failed>>
    BY <1>3 DEF FX!FindTooLong, FX!reader
  <2>2. ~(3 + Len(open) >= FindFiles)
    BY <1>0, <2>1, UtilAssumption
  <2>3. FX!Lines[<<visit, Len(open), 0>>] = <<TooLong>>
    BY <1>0, <2>1, <2>2, LinesIs
  <2> QED
    BY <2>1, <2>3, LineWalk
<1>4. CASE FX!FindDir
  <2>1. visit # 0 /\ out' = out /\ UNCHANGED <<fpipe, xargs, ran, failed>>
    BY <1>4 DEF FX!FindDir, FX!reader
  <2>2. \E c : WalkInv(said, c)'
    BY <1>4, <2>1, DirWalk
  <2> QED
    BY <2>1, <2>2 DEF Prints
<1>5. CASE FX!FindEntry
  <2>1. out' = out /\ UNCHANGED <<fpipe, xargs, ran, failed>>
    BY <1>5 DEF FX!FindEntry, FX!reader
  <2>2. \E c : WalkInv(said, c)'
    BY <1>5, EntryWalk
  <2> QED
    BY <2>1, <2>2 DEF Prints
<1>6. CASE FX!FindClose
  <2>1. out' = out /\ UNCHANGED <<fpipe, xargs, ran, failed>>
    BY <1>6 DEF FX!FindClose, FX!reader
  <2>2. \E c : WalkInv(said, c)'
    BY <1>6, CloseWalk
  <2> QED
    BY <2>1, <2>2 DEF Prints
<1>7. CASE FX!FindExit
  <2>1. UNCHANGED <<visit, open, out, fpipe, xargs, ran, failed>>
    BY <1>7 DEF FX!FindExit, FX!reader
  <2>2. WalkInv(said, cut)'
    BY <2>1 DEF WalkInv, Stretch
  <2> QED
    BY <2>1, <2>2 DEF Prints
<1> QED
  BY <1>1, <1>2, <1>3, <1>4, <1>5, <1>6, <1>7 DEF FX!Find

\* find keeps its types; it has not exited, and has nothing left to do when it does.
LEMMA FindType ==
  ASSUME PipeType, FoundInv, NEW said, NEW cut, WalkInv(said, cut), FX!Find
  PROVE  PipeType' /\ ~found /\ FoundInv'
<1>0. /\ open \in Seq(Node \X (Nat \ {0})) /\ out \in Seq(Text) /\ fpipe \in Seq(Text)
      /\ found \in BOOLEAN
  BY DEF PipeType
<1>1. ~found
  BY DEF FoundInv, FX!Find, FX!FindCannotOpen, FX!FindFile, FX!FindTooLong, FX!FindDir,
         FX!FindEntry, FX!FindClose, FX!FindWrite, FX!FindExit, FX!reader
<1>2. UNCHANGED <<xargs, ran, failed>>
  BY DEF FX!Find, FX!FindCannotOpen, FX!FindFile, FX!FindTooLong, FX!FindDir,
         FX!FindEntry, FX!FindClose, FX!FindWrite, FX!FindExit, FX!reader
<1>3. found' = found \/ FX!FindExit
  BY DEF FX!Find, FX!FindCannotOpen, FX!FindFile, FX!FindTooLong, FX!FindDir,
         FX!FindEntry, FX!FindClose, FX!FindWrite
<1>4. FX!FindExit => found' = TRUE /\ visit' = 0 /\ open' = <<>> /\ out' = <<>>
  BY DEF FX!FindExit, FX!reader
<1>5. FoundInv' /\ found' \in BOOLEAN
  <2>1. CASE FX!FindExit
    <3>1. found' \in BOOLEAN
      BY <1>4, <2>1
    <3> QED
      BY <1>4, <2>1, <3>1 DEF FoundInv
  <2>2. CASE found' = found
    <3>1. found' \in BOOLEAN /\ ~found'
      BY <1>0, <1>1, <2>2
    <3> QED
      BY <3>1 DEF FoundInv
  <2> QED
    BY <1>3, <2>1, <2>2
<1>6. out' \in Seq(Text) /\ fpipe' \in Seq(Text)
  <2>1. CASE FX!FindWrite
    <3>1. fpipe' = Append(fpipe, Head(out)) /\ out' = Tail(out) /\ out # <<>>
      BY <2>1 DEF FX!FindWrite, FX!reader
    <3>2. Head(out) \in Text /\ Tail(out) \in Seq(Text)
      BY <1>0, <3>1
    <3> QED
      BY <1>0, <3>1, <3>2
  <2>2. CASE ~FX!FindWrite
    BY <1>0, <2>2, FindMoves DEF Prints
  <2> QED
    BY <2>1, <2>2
<1>7. visit' \in Node \cup {0}
  <2>1. CASE FX!FindEntry
    <3> DEFINE L == Len(open)
               d == open[L][1]
               n == open[L][2]
    <3>1. /\ visit = 0 /\ open # <<>> /\ n <= Len(Entries[d])
          /\ visit' \in {0, Entries[d][n]}
      BY <2>1 DEF FX!FindEntry, FX!Last
    <3>2. d \in Node /\ n \in Nat \ {0}
      BY <3>1, TopDirectory
    <3>3. Entries[d] \in Seq(Node)
      BY <3>2, UtilAssumption
    <3> HIDE DEF d, n
    <3>4. n \in 1 .. Len(Entries[d])
      BY <3>1, <3>2, <3>3
    <3> QED
      BY <3>1, <3>3, <3>4
  <2>2. CASE ~FX!FindEntry
    <3>1. visit' = visit \/ visit' = 0
      BY <2>2 DEF FX!Find, FX!FindCannotOpen, FX!FindFile, FX!FindTooLong, FX!FindDir,
                  FX!FindClose, FX!FindWrite, FX!FindExit
    <3> QED
      BY <3>1 DEF PipeType
  <2> QED
    BY <2>1, <2>2
<1>8. open' \in Seq(Node \X (Nat \ {0}))
  <2> DEFINE S == Node \X (Nat \ {0})
             L == Len(open)
  <2>1. CASE FX!FindDir
    <3>1. visit # 0 /\ open' = Append(open, <<visit, 1>>)
      BY <2>1 DEF FX!FindDir, FX!reader
    <3>2. <<visit, 1>> \in S
      BY <3>1 DEF PipeType
    <3> HIDE DEF S
    <3> QED
      BY <1>0, <3>1, <3>2 DEF S
  <2>2. CASE FX!FindEntry
    <3>1. visit = 0 /\ open # <<>> /\ open' = [open EXCEPT ![L] = <<open[L][1], open[L][2] + 1>>]
      BY <2>2 DEF FX!FindEntry, FX!Last
    <3>2. open[L][1] \in Node /\ open[L][2] \in Nat \ {0} /\ L \in Nat \ {0}
      BY <3>1, TopDirectory
    <3>3. ASSUME NEW x, x = <<open[L][1], open[L][2] + 1>> PROVE x \in S
      BY <3>2, <3>3
    <3>4. ASSUME NEW x, x = <<open[L][1], open[L][2] + 1>> PROVE open' \in Seq(S)
      <4>1. open' = [open EXCEPT ![L] = x] /\ x \in S /\ open \in Seq(S)
        BY <1>0, <3>1, <3>3, <3>4
      <4> HIDE DEF S
      <4> QED
        BY <3>2, <4>1
    <3> QED
      BY <3>4
  <2>3. CASE FX!FindClose
    <3>1. open # <<>> /\ open' = SubSeq(open, 1, L - 1)
      BY <2>3 DEF FX!FindClose, FX!Front
    <3>2. open \in Seq(S)
      BY <1>0
    <3> HIDE DEF S
    <3>3. L \in Nat \ {0}
      BY <3>1, <3>2
    <3>4. \A i \in 1 .. L - 1 : open[i] \in S
      BY <3>2, <3>3
    <3>5. 1 \in Int /\ L - 1 \in Int
      BY <3>3
    <3>6. open' \in Seq(S)
      BY <3>1, <3>4, <3>5, SubSeqProperties
    <3> QED
      BY <3>6 DEF S
  <2>4. CASE ~FX!FindDir /\ ~FX!FindEntry /\ ~FX!FindClose
    <3>1. open' = open
      BY <2>4 DEF FX!Find, FX!FindCannotOpen, FX!FindFile, FX!FindTooLong, FX!FindWrite, FX!FindExit
    <3> QED
      BY <1>0, <3>1
  <2> QED
    BY <2>1, <2>2, <2>3, <2>4
<1> QED
  BY <1>1, <1>2, <1>5, <1>6, <1>7, <1>8 DEF PipeType

\* What find prints is behind what xargs has not read yet.
LEMMA FindReading ==
  ASSUME PipeType, FoundInv, NEW said, NEW cut, WalkInv(said, cut), Reading(said), FX!Find
  PROVE  \E next, c : WalkInv(next, c)' /\ Reading(next)'
<1>1. PICK p, e, b :
        /\ On(Top, p, e) /\ Spelt(fpipe, e, b) /\ Spelt(out, b, Begin(said + 1))
        /\ Settled(p[1] - 1)
        /\ failed = <<>> => Len(xargs) = 1 /\ ran = Stretch(0, p[1] - 1)
  BY DEF Reading
<1>2. xargs # <<>> /\ out \in Seq(Text) /\ fpipe \in Seq(Text)
  BY DEF Reading, PipeType
<1>3. CASE FX!FindWrite
  <2>1. /\ out # <<>> /\ fpipe' = Append(fpipe, Head(out)) /\ out' = Tail(out)
        /\ UNCHANGED <<visit, open, found, xargs, ran, failed>>
    BY <1>3 DEF FX!FindWrite, FX!reader
  <2>2. b \in Place /\ Head(out) = CharAt(b) /\ Spelt(Tail(out), After(b), Begin(said + 1))
    BY <1>1, <1>2, <2>1, SpeltHead
  <2>3. CharAt(b) \in Text /\ Spelt(<<CharAt(b)>>, b, After(b))
    BY <2>2, PlaceFacts, SpeltOne
  <2>4. fpipe' = fpipe \o <<CharAt(b)>> /\ <<CharAt(b)>> \in Seq(Text)
    <3>1. \A s \in Seq(Text), x \in Text : Append(s, x) = s \o <<x>> /\ <<x>> \in Seq(Text)
      OBVIOUS
    <3> QED
      BY <1>2, <2>1, <2>2, <2>3, <3>1
  <2>5. Spelt(fpipe', e, After(b))
    BY <1>1, <1>2, <2>3, <2>4, SpeltConcat
  <2>6. WalkInv(said, cut)'
    <3>1. visit = 0
      BY <2>1 DEF WalkInv
    <3> QED
      BY <2>1, <3>1 DEF WalkInv, Stretch
  <2>7. Reading(said)'
    <3>1. On(Top, p, e)' /\ Settled(p[1] - 1)'
          /\ (failed' = <<>> => Len(xargs') = 1 /\ ran' = Stretch(0, p[1] - 1)')
      BY <1>1, <2>1 DEF On, Parsed, Top, Settled, Stretch
    <3> QED
      BY <1>2, <2>1, <2>2, <2>5, <3>1 DEF Reading
  <2> QED
    BY <2>6, <2>7
<1>4. CASE ~FX!FindWrite
  <2>1. PICK next, c : WalkInv(next, c)' /\ Prints(said, next)
    BY <1>4, FindMoves
  <2>2. UNCHANGED <<fpipe, xargs, ran, failed>>
    BY <1>4, FindMoves
  <2>3. Spelt(out', b, Begin(next + 1))
    <3>1. CASE next = said /\ out' = out
      BY <1>1, <3>1
    <3>2. CASE out = <<>> /\ Spelt(out', Begin(said + 1), Begin(next + 1))
      <4>1. b = Begin(said + 1)
        BY <1>1, <3>2, SpeltNothing
      <4> QED
        BY <3>2, <4>1
    <3> QED
      BY <2>1, <3>1, <3>2 DEF Prints
  <2>4. On(Top, p, e)' /\ Settled(p[1] - 1)'
        /\ (failed' = <<>> => Len(xargs') = 1 /\ ran' = Stretch(0, p[1] - 1)')
    BY <1>1, <2>2 DEF On, Parsed, Top, Settled, Stretch
  <2>5. Reading(next)'
    BY <1>1, <1>2, <2>2, <2>3, <2>4 DEF Reading
  <2> QED
    BY <2>1, <2>5
<1> QED
  BY <1>3, <1>4

\* A step of find.
LEMMA FindStep ==
  ASSUME PipelineInv, FX!Find
  PROVE  PipelineInv'
<1>0. PipeType /\ FoundInv /\ StackInv /\ RanInv /\ StreamInv
  BY DEF PipelineInv
<1>1. PICK said, cut : WalkInv(said, cut) /\ (Reading(said) \/ AllRead)
  BY <1>0 DEF StreamInv
<1>2. PipeType' /\ ~found /\ FoundInv'
  BY <1>0, <1>1, FindType
<1>3. UNCHANGED <<xargs, ran, failed>>
  BY DEF FX!Find, FX!FindCannotOpen, FX!FindFile, FX!FindTooLong, FX!FindDir,
         FX!FindEntry, FX!FindClose, FX!FindWrite, FX!FindExit, FX!reader
<1>4. StackInv' /\ RanInv'
  BY <1>0, <1>3 DEF StackInv, RanInv, On, Parsed
<1>5. Reading(said)
  BY <1>1, <1>2 DEF AllRead
<1>6. StreamInv'
  <2>1. PICK next, c : WalkInv(next, c)' /\ Reading(next)'
    BY <1>0, <1>1, <1>5, FindReading
  <2> QED
    BY <2>1 DEF StreamInv
<1> QED
  BY <1>2, <1>4, <1>6 DEF PipelineInv

\* One more element of a sequence, and all of it.
LEMMA PrefixFacts ==
  ASSUME NEW S, NEW s \in Seq(S)
  PROVE  /\ SubSeq(s, 1, Len(s)) = s
         /\ SubSeq(s, 1, 0) = <<>>
         /\ \A i \in 1 .. Len(s) : Append(SubSeq(s, 1, i - 1), s[i]) = SubSeq(s, 1, i)
<1>0. Len(s) \in Nat /\ \A i \in 1 .. Len(s) : s[i] \in S
  OBVIOUS
<1>1. SubSeq(s, 1, Len(s)) = s /\ SubSeq(s, 1, 0) = <<>>
  OBVIOUS
<1>2. ASSUME NEW i \in 1 .. Len(s)
      PROVE  Append(SubSeq(s, 1, i - 1), s[i]) = SubSeq(s, 1, i)
  <2> DEFINE t == SubSeq(s, 1, i - 1)
             u == SubSeq(s, 1, i)
  <2>1. /\ t \in Seq(S) /\ Len(t) = i - 1 /\ u \in Seq(S) /\ Len(u) = i /\ s[i] \in S
        /\ i \in Nat /\ i - 1 \in Nat
    BY <1>0
  <2>2. \A j \in 1 .. i : u[j] = s[j]
    BY <1>0
  <2>3. \A j \in 1 .. i - 1 : t[j] = s[j]
    BY <1>0
  <2> HIDE DEF t, u
  <2>4. Append(t, s[i]) \in Seq(S) /\ Len(Append(t, s[i])) = i
    BY <2>1
  <2>5. \A j \in 1 .. i : Append(t, s[i])[j] = u[j]
    <3> SUFFICES ASSUME NEW j \in 1 .. i
                 PROVE  Append(t, s[i])[j] = u[j]
      OBVIOUS
    <3>1. CASE j = i
      BY <2>1, <2>2, <3>1
    <3>2. CASE j # i
      <4>1. j \in 1 .. i - 1
        BY <2>1, <3>2
      <4>2. Append(t, s[i])[j] = t[j]
        BY <2>1, <4>1
      <4> QED
        BY <2>2, <2>3, <4>1, <4>2
    <3> QED
      BY <3>1, <3>2
  <2>6. Append(t, s[i]) = u
    BY <2>1, <2>4, <2>5, SeqEqual
  <2> QED
    BY <2>6 DEF t, u
<1> QED
  BY <1>1, <1>2

\* The running process, and the ones that wait.
LEMMA TopFacts ==
  ASSUME PipeType, xargs # <<>>
  PROVE  /\ Len(xargs) \in Nat \ {0} /\ FX!Last(xargs) = Top /\ Top \in Process
         /\ Top.buf \in Seq(Text) /\ Top.args \in Seq(Seq(Letter)) /\ Top.token \in Seq(Letter)
         /\ FX!Front(xargs) \in Seq(Process) /\ Len(FX!Front(xargs)) = Len(xargs) - 1
         /\ \A k \in 1 .. Len(xargs) - 1 : FX!Front(xargs)[k] = xargs[k]
<1>1. xargs \in Seq(Process)
  BY DEF PipeType
<1>2. Len(xargs) \in Nat \ {0} /\ \A k \in 1 .. Len(xargs) : xargs[k] \in Process
  BY <1>1
<1>3. FX!Last(xargs) = Top /\ Top \in Process
  BY <1>2 DEF FX!Last, Top
<1>4. Top.buf \in Seq(Text) /\ Top.args \in Seq(Seq(Letter)) /\ Top.token \in Seq(Letter)
  BY <1>3 DEF Process
<1> DEFINE f == SubSeq(xargs, 1, Len(xargs) - 1)
<1>5. 1 \in Int /\ Len(xargs) - 1 \in Int /\ \A k \in 1 .. Len(xargs) - 1 : xargs[k] \in Process
  BY <1>2
<1>6. /\ f \in Seq(Process)
      /\ Len(f) = IF 1 <= Len(xargs) - 1 THEN (Len(xargs) - 1) - 1 + 1 ELSE 0
      /\ \A k \in 1 .. (Len(xargs) - 1) - 1 + 1 : f[k] = xargs[1 + k - 1]
  BY <1>5, SubSeqProperties
<1> HIDE DEF f
<1>7. Len(f) = Len(xargs) - 1 /\ \A k \in 1 .. Len(xargs) - 1 : f[k] = xargs[k]
  <2> DEFINE n == Len(xargs) - 1
  <2>1. n \in Nat /\ (n - 1) + 1 = n /\ \A k \in 1 .. n : 1 + k - 1 = k
    BY <1>2
  <2>2. /\ Len(f) = IF 1 <= n THEN (n - 1) + 1 ELSE 0
        /\ \A k \in 1 .. (n - 1) + 1 : f[k] = xargs[1 + k - 1]
    BY <1>6
  <2> HIDE DEF n
  <2>3. Len(f) = n /\ \A k \in 1 .. n : f[k] = xargs[k]
    BY <2>1, <2>2
  <2> QED
    BY <2>3 DEF n
<1>8. FX!Front(xargs) = f
  BY DEF FX!Front, f
<1> QED
  BY <1>2, <1>3, <1>4, <1>6, <1>7, <1>8

\* The running process changes.
LEMMA BecomesFacts ==
  ASSUME PipeType, StackInv, xargs # <<>>, NEW x \in Process, NEW p, NEW e, On(x, p, e),
         xargs' = Append(FX!Front(xargs), x)
  PROVE  /\ xargs' \in Seq(Process) /\ Len(xargs') = Len(xargs) /\ xargs' # <<>>
         /\ Top' = x /\ StackInv'
<1> DEFINE f == FX!Front(xargs)
<1>1. /\ Len(xargs) \in Nat \ {0} /\ f \in Seq(Process) /\ Len(f) = Len(xargs) - 1
      /\ \A k \in 1 .. Len(xargs) - 1 : f[k] = xargs[k]
  BY TopFacts
<1> HIDE DEF f
<1>2. xargs' = Append(f, x)
  BY DEF f
<1>3. /\ xargs' \in Seq(Process) /\ Len(xargs') = Len(xargs) /\ xargs'[Len(xargs)] = x
      /\ \A k \in 1 .. Len(xargs) - 1 : xargs'[k] = f[k]
  BY <1>1, <1>2
<1>4. Top' = x /\ xargs' # <<>>
  BY <1>1, <1>3 DEF Top
<1>5. StackInv'
  <2> SUFFICES ASSUME NEW k \in 1 .. Len(xargs)
               PROVE  \E i, j : On(xargs'[k], i, j)
    BY <1>3 DEF StackInv, On, Parsed
  <2>1. CASE k = Len(xargs)
    BY <1>3, <2>1
  <2>2. CASE k # Len(xargs)
    <3>1. k \in 1 .. Len(xargs) - 1
      BY <1>1, <2>2
    <3>2. xargs'[k] = xargs[k]
      BY <1>1, <1>3, <3>1
    <3> QED
      BY <3>2 DEF StackInv
  <2> QED
    BY <2>1, <2>2
<1> QED
  BY <1>3, <1>4, <1>5

\* What a process has before it in its buffer is the character where it is in the text.
LEMMA SeesFacts ==
  ASSUME PipeType, NEW p, NEW e, NEW c, xargs # <<>>, On(Top, p, e), FX!Sees(c)
  PROVE  /\ p \in Place /\ c = CharAt(p) /\ Spelt(FX!Rest, After(p), e)
         /\ FX!Rest \in Seq(Text)
         /\ Top.args = SubSeq(Commands[p[1]], 1, p[2] - 1)
         /\ Top.token = SubSeq(WordAt(p), 1, p[3])
         /\ FX!Argv = Append(Top.args, Top.token)
<1>1. FX!Last(xargs) = Top /\ Top.buf \in Seq(Text)
  BY TopFacts
<1>2. Top.buf # <<>> /\ c = Head(Top.buf)
  BY <1>1 DEF FX!Sees
<1>3. FX!Rest = Tail(Top.buf) /\ FX!Argv = Append(Top.args, Top.token)
  BY <1>1 DEF FX!Rest, FX!Argv
<1>4. Spelt(Top.buf, p, e)
  BY DEF On
<1>5. p \in Place /\ Head(Top.buf) = CharAt(p) /\ Spelt(Tail(Top.buf), After(p), e)
  BY <1>1, <1>2, <1>4, SpeltHead
<1>6. Tail(Top.buf) \in Seq(Text)
  BY <1>1, <1>2
<1> QED
  BY <1>2, <1>3, <1>5, <1>6 DEF On, Parsed

\* A character that is neither a blank nor the end of a line goes on with the word.
LEMMA LetterTaken ==
  ASSUME PipeType, NEW p, NEW e, NEW c \in Letter, xargs # <<>>, On(Top, p, e), FX!Takes(c),
         NEW x, x = [Top EXCEPT !.buf = FX!Rest, !.token = Append(@, c)]
  PROVE  x \in Process /\ On(x, After(p), e) /\ After(p)[1] = p[1]
<1>1. /\ p \in Place /\ c = CharAt(p) /\ Spelt(FX!Rest, After(p), e) /\ FX!Rest \in Seq(Text)
      /\ Top.args = SubSeq(Commands[p[1]], 1, p[2] - 1)
      /\ Top.token = SubSeq(WordAt(p), 1, p[3])
  BY SeesFacts DEF FX!Takes
<1>2. /\ WordAt(p) \in Seq(Letter) /\ p[3] \in 0 .. Len(WordAt(p))
      /\ After(p) \in Place \cup {EndOfText}
      /\ p[1] \in 1 .. Len(Commands) /\ p[2] \in 1 .. Len(Commands[p[1]])
  BY <1>1, PlaceFacts
<1>3. c # " " /\ c # "\n"
  BY DEF Letter
<1>4. p[3] < Len(WordAt(p))
  BY <1>1, <1>3 DEF CharAt
<1>5. c = WordAt(p)[p[3] + 1] /\ After(p) = <<p[1], p[2], p[3] + 1>>
  BY <1>1, <1>4 DEF CharAt, After
<1>6. After(p)[1] = p[1] /\ After(p)[2] = p[2] /\ After(p)[3] = p[3] + 1
  BY <1>5
<1>7. WordAt(After(p)) = WordAt(p)
  BY <1>6 DEF WordAt
<1>8. After(p) \in Place
  <2>1. p[1] # Len(Commands) + 1
    BY <1>2, CommandsType
  <2>2. EndOfText[1] = Len(Commands) + 1
    BY DEF EndOfText, Begin
  <2>3. After(p) # EndOfText
    BY <1>6, <2>1, <2>2
  <2> QED
    BY <1>2, <2>3
<1>9. Append(Top.token, c) = SubSeq(WordAt(p), 1, p[3] + 1)
  <2> DEFINE i == p[3] + 1
  <2>1. i \in 1 .. Len(WordAt(p)) /\ i - 1 = p[3]
    <3>1. Len(WordAt(p)) \in Nat
      BY <1>2
    <3>2. p[3] \in Nat
      BY <1>2, <3>1
    <3> QED
      BY <1>4, <3>1, <3>2
  <2>2. Append(SubSeq(WordAt(p), 1, i - 1), WordAt(p)[i]) = SubSeq(WordAt(p), 1, i)
    <3> HIDE DEF i
    <3> QED
      BY <1>2, <2>1, PrefixFacts
  <2> QED
    BY <1>1, <1>5, <2>1, <2>2
<1>10. /\ Top \in Process /\ Top.args \in Seq(Seq(Letter)) /\ Top.token \in Seq(Letter)
  BY TopFacts
<1>11. x.buf = FX!Rest /\ x.args = Top.args /\ x.token = Append(Top.token, c)
  BY <1>10 DEF Process
<1>12. x \in Process
  <2>1. Append(Top.token, c) \in Seq(Letter)
    BY <1>10
  <2> QED
    BY <1>1, <1>10, <2>1 DEF Process
<1>13. On(x, After(p), e)
  BY <1>1, <1>6, <1>7, <1>8, <1>9, <1>11 DEF On, Parsed
<1> QED
  BY <1>6, <1>12, <1>13

\* A process at the beginning of a word.
NextWord(rest, argv) == [buf |-> rest, args |-> argv, token |-> <<>>]

\* A blank ends a word of the line.
LEMMA BlankTaken ==
  ASSUME PipeType, NEW p, NEW e, NEW c, c \notin Letter, c # "\n", xargs # <<>>,
         On(Top, p, e), FX!Takes(c),
         NEW x, x = NextWord(FX!Rest, FX!Argv)
  PROVE  x \in Process /\ On(x, After(p), e) /\ After(p)[1] = p[1]
<1>1. /\ p \in Place /\ c = CharAt(p) /\ Spelt(FX!Rest, After(p), e) /\ FX!Rest \in Seq(Text)
      /\ Top.args = SubSeq(Commands[p[1]], 1, p[2] - 1)
      /\ Top.token = SubSeq(WordAt(p), 1, p[3])
      /\ FX!Argv = Append(Top.args, Top.token)
  BY SeesFacts DEF FX!Takes
<1>2. /\ WordAt(p) \in Seq(Letter) /\ p[3] \in 0 .. Len(WordAt(p))
      /\ After(p) \in Place \cup {EndOfText}
      /\ p[1] \in 1 .. Len(Commands) /\ p[2] \in 1 .. Len(Commands[p[1]])
  BY <1>1, PlaceFacts
<1>3. ~(p[3] < Len(WordAt(p)))
  <2> SUFFICES ASSUME p[3] < Len(WordAt(p))
               PROVE  FALSE
    OBVIOUS
  <2>1. p[3] + 1 \in 1 .. Len(WordAt(p))
    BY <1>2
  <2>2. WordAt(p)[p[3] + 1] \in Letter
    BY <1>2, <2>1
  <2>3. c = WordAt(p)[p[3] + 1]
    BY <1>1 DEF CharAt
  <2> QED
    BY <2>2, <2>3
<1>4. p[3] = Len(WordAt(p))
  BY <1>2, <1>3
<1>5. p[2] < Len(Commands[p[1]])
  BY <1>1, <1>3 DEF CharAt
<1>6. After(p) = <<p[1], p[2] + 1, 0>>
  BY <1>3, <1>5 DEF After
<1>7. After(p)[1] = p[1] /\ After(p)[2] = p[2] + 1 /\ After(p)[3] = 0
  BY <1>6
<1>8. After(p) \in Place
  <2>1. p[1] # Len(Commands) + 1
    BY <1>2, CommandsType
  <2>2. EndOfText[1] = Len(Commands) + 1
    BY DEF EndOfText, Begin
  <2> QED
    BY <1>2, <1>7, <2>1, <2>2
<1>9. FX!Argv = SubSeq(Commands[p[1]], 1, p[2])
  <2>1. Top.token = Commands[p[1]][p[2]]
    <3>1. SubSeq(WordAt(p), 1, Len(WordAt(p))) = WordAt(p)
      BY <1>2, PrefixFacts
    <3> QED
      BY <1>1, <1>4, <3>1 DEF WordAt
  <2>2. Commands[p[1]] \in Seq(Seq(Letter))
    BY <1>2, CommandsType
  <2>3. Append(SubSeq(Commands[p[1]], 1, p[2] - 1), Commands[p[1]][p[2]])
          = SubSeq(Commands[p[1]], 1, p[2])
    BY <1>2, <2>2, PrefixFacts
  <2> QED
    BY <1>1, <2>1, <2>3
<1>10. Top.args \in Seq(Seq(Letter)) /\ Top.token \in Seq(Letter)
  BY TopFacts
<1>11. x.buf = FX!Rest /\ x.args = FX!Argv /\ x.token = <<>>
  BY DEF NextWord
<1>12. x \in Process
  <2>1. FX!Argv \in Seq(Seq(Letter))
    <3>1. \A S : \A s \in Seq(S), y \in S : Append(s, y) \in Seq(S)
      OBVIOUS
    <3> QED
      BY <1>1, <1>10, <3>1
  <2>2. \A S : <<>> \in Seq(S)
    OBVIOUS
  <2> QED
    BY <1>1, <2>1, <2>2 DEF Process, NextWord
<1>13. On(x, After(p), e)
  <2>1. SubSeq(WordAt(After(p)), 1, 0) = <<>> /\ (p[2] + 1) - 1 = p[2]
    BY <1>2, SubSeqEmpty
  <2> QED
    BY <1>1, <1>7, <1>8, <1>9, <1>11, <2>1 DEF On, Parsed
<1> QED
  BY <1>7, <1>12, <1>13

\* The end of a line: its arguments are complete, and the next one begins.
LEMMA LineTaken ==
  ASSUME PipeType, NEW p, NEW e, xargs # <<>>, On(Top, p, e), FX!Takes("\n"),
         NEW x, x = FX!NewLine(FX!Rest)
  PROVE  /\ x \in Process /\ On(x, Begin(p[1] + 1), e) /\ p[1] \in 1 .. Len(Commands)
         /\ FX!Argv = Commands[p[1]] /\ FX!Argv \in ArgLists
<1>1. /\ p \in Place /\ "\n" = CharAt(p) /\ Spelt(FX!Rest, After(p), e) /\ FX!Rest \in Seq(Text)
      /\ Top.args = SubSeq(Commands[p[1]], 1, p[2] - 1)
      /\ Top.token = SubSeq(WordAt(p), 1, p[3])
      /\ FX!Argv = Append(Top.args, Top.token)
  BY SeesFacts DEF FX!Takes
<1>2. /\ WordAt(p) \in Seq(Letter) /\ p[3] \in 0 .. Len(WordAt(p))
      /\ After(p) \in Place \cup {EndOfText}
      /\ p[1] \in 1 .. Len(Commands) /\ p[2] \in 1 .. Len(Commands[p[1]])
  BY <1>1, PlaceFacts
<1>3. ~(p[3] < Len(WordAt(p)))
  <2> SUFFICES ASSUME p[3] < Len(WordAt(p))
               PROVE  FALSE
    OBVIOUS
  <2>1. p[3] + 1 \in 1 .. Len(WordAt(p))
    BY <1>2
  <2>2. WordAt(p)[p[3] + 1] \in Letter
    BY <1>2, <2>1
  <2>3. "\n" = WordAt(p)[p[3] + 1]
    BY <1>1 DEF CharAt
  <2> QED
    BY <2>2, <2>3 DEF Letter
<1>4. p[3] = Len(WordAt(p))
  BY <1>2, <1>3
<1>5. ~(p[2] < Len(Commands[p[1]]))
  BY <1>1, <1>3 DEF CharAt
<1>6. After(p) = Begin(p[1] + 1)
  BY <1>3, <1>5 DEF After
<1>7. /\ Commands[p[1]] \in Seq(Seq(Letter)) /\ Commands[p[1]] \in ArgLists
      /\ p[2] = Len(Commands[p[1]])
  BY <1>2, <1>5, CommandsType
<1>8. FX!Argv = Commands[p[1]]
  <2>1. Top.token = Commands[p[1]][p[2]]
    <3>1. SubSeq(WordAt(p), 1, Len(WordAt(p))) = WordAt(p)
      BY <1>2, PrefixFacts
    <3> QED
      BY <1>1, <1>4, <3>1 DEF WordAt
  <2>2. Append(SubSeq(Commands[p[1]], 1, p[2] - 1), Commands[p[1]][p[2]])
          = SubSeq(Commands[p[1]], 1, p[2])
    BY <1>2, <1>7, PrefixFacts
  <2>3. SubSeq(Commands[p[1]], 1, Len(Commands[p[1]])) = Commands[p[1]]
    BY <1>7, PrefixFacts
  <2> QED
    BY <1>1, <1>7, <2>1, <2>2, <2>3
<1>9. x.buf = FX!Rest /\ x.args = <<>> /\ x.token = <<>>
  BY DEF FX!NewLine
<1>10. x \in Process
  <2>1. \A S : <<>> \in Seq(S)
    OBVIOUS
  <2> QED
    BY <1>1, <2>1 DEF Process, FX!NewLine
<1>11. On(x, Begin(p[1] + 1), e)
  <2>1. /\ Begin(p[1] + 1)[1] = p[1] + 1 /\ Begin(p[1] + 1)[2] = 1
        /\ Begin(p[1] + 1)[3] = 0
    BY DEF Begin
  <2>2. SubSeq(Commands[p[1] + 1], 1, 0) = <<>> /\ SubSeq(WordAt(Begin(p[1] + 1)), 1, 0) = <<>>
    BY SubSeqEmpty
  <2>3. Parsed(x, Begin(p[1] + 1))
    BY <1>9, <2>1, <2>2 DEF Parsed
  <2> QED
    BY <1>1, <1>2, <1>6, <1>9, <2>3 DEF On
<1> QED
  BY <1>2, <1>7, <1>8, <1>10, <1>11

\* Where find is depends on nothing that xargs does.
LEMMA FindStill ==
  ASSUME NEW said, NEW cut, WalkInv(said, cut), FoundInv, UNCHANGED <<visit, open, out, found>>
  PROVE  WalkInv(said, cut)' /\ FoundInv'
BY DEF WalkInv, Stretch, FoundInv

\* At the end of its input a process knows that find has exited and the text is read.
LEMMA EndFacts ==
  ASSUME PipeType, FoundInv, NEW said, NEW cut, WalkInv(said, cut), found
  PROVE  out = <<>> /\ Begin(said + 1) = EndOfText /\ EndOfText[1] - 1 = Len(Commands)
<1>1. visit = 0 /\ open = <<>> /\ out = <<>>
  BY DEF FoundInv
<1>2. Len(open) = 0
  BY <1>1
<1>3. said = Len(Commands)
  BY <1>1, <1>2 DEF WalkInv
<1>4. Len(Commands) \in Nat
  BY CommandsType
<1> QED
  BY <1>1, <1>3, <1>4 DEF EndOfText, Begin

\* read() moves the text from the pipe into the buffer.
LEMMA ReadStep ==
  ASSUME PipelineInv, FX!XargsRead
  PROVE  PipelineInv'
<1>0. PipeType /\ FoundInv /\ StackInv /\ RanInv /\ StreamInv
  BY DEF PipelineInv
<1>1. PICK said, cut : WalkInv(said, cut) /\ (Reading(said) \/ AllRead)
  BY <1>0 DEF StreamInv
<1> DEFINE n == IF Len(fpipe) < XargsBuf THEN Len(fpipe) ELSE XargsBuf
<1>2. xargs # <<>> /\ fpipe # <<>> /\ UNCHANGED <<visit, open, out, found, ran, failed>>
  BY DEF FX!XargsRead, FX!Running, FX!find
<1>3. FX!Last(xargs) = Top /\ Top \in Process
  BY <1>0, <1>2, TopFacts
<1>4. /\ Top.buf = <<>>
      /\ xargs' = Append(FX!Front(xargs), [Top EXCEPT !.buf = SubSeq(fpipe, 1, n)])
      /\ fpipe' = SubSeq(fpipe, n + 1, Len(fpipe))
  BY <1>3 DEF FX!XargsRead, FX!Becomes
<1>5. fpipe \in Seq(Text) /\ n \in 0 .. Len(fpipe)
  <2>1. fpipe \in Seq(Text)
    BY <1>0 DEF PipeType
  <2> QED
    BY <2>1, UtilAssumption
<1> HIDE DEF n
<1>6. SubSeq(fpipe, 1, n) \in Seq(Text) /\ fpipe' \in Seq(Text)
  <2>1. \A S : \A s \in Seq(S) : \A m \in 0 .. Len(s) :
          SubSeq(s, 1, m) \in Seq(S) /\ SubSeq(s, m + 1, Len(s)) \in Seq(S)
    OBVIOUS
  <2> QED
    BY <1>4, <1>5, <2>1
<1>7. Reading(said)
  BY <1>1, <1>2 DEF AllRead
<1>8. PICK p, e, b :
        /\ On(Top, p, e) /\ Spelt(fpipe, e, b) /\ Spelt(out, b, Begin(said + 1))
        /\ Settled(p[1] - 1)
        /\ failed = <<>> => Len(xargs) = 1 /\ ran = Stretch(0, p[1] - 1)
  BY <1>7 DEF Reading
<1>9. e = p
  <2>1. Spelt(<<>>, p, e)
    BY <1>4, <1>8 DEF On
  <2> QED
    BY <2>1, SpeltNothing
<1>10. PICK q : Spelt(SubSeq(fpipe, 1, n), p, q) /\ Spelt(fpipe', q, b)
  BY <1>4, <1>5, <1>8, <1>9, SpeltCut
<1>11. PICK x : x = [Top EXCEPT !.buf = SubSeq(fpipe, 1, n)]
  OBVIOUS
<1>12. /\ x \in Process /\ x.buf = SubSeq(fpipe, 1, n) /\ x.args = Top.args
       /\ x.token = Top.token
  BY <1>3, <1>6, <1>11 DEF Process
<1>13. On(x, p, q)
  BY <1>8, <1>10, <1>12 DEF On, Parsed
<1>14. xargs' = Append(FX!Front(xargs), x)
  BY <1>4, <1>11
<1>15. /\ xargs' \in Seq(Process) /\ Len(xargs') = Len(xargs) /\ xargs' # <<>>
       /\ Top' = x /\ StackInv'
  BY <1>0, <1>2, <1>12, <1>13, <1>14, BecomesFacts
<1>16. Reading(said)'
  <2>1. On(Top, p, q)'
    BY <1>13, <1>15 DEF On, Parsed
  <2>2. Settled(p[1] - 1)'
    BY <1>2, <1>8 DEF Settled
  <2>3. failed' = <<>> => Len(xargs') = 1 /\ ran' = Stretch(0, p[1] - 1)'
    BY <1>2, <1>8, <1>15 DEF Stretch
  <2> QED
    BY <1>2, <1>8, <1>10, <1>15, <2>1, <2>2, <2>3 DEF Reading
<1>17. WalkInv(said, cut)' /\ FoundInv'
  BY <1>0, <1>1, <1>2, FindStill
<1>18. PipeType'
  BY <1>0, <1>2, <1>6, <1>15 DEF PipeType
<1>19. RanInv'
  BY <1>0, <1>2 DEF RanInv
<1> QED
  BY <1>15, <1>16, <1>17, <1>18, <1>19 DEF PipelineInv, StreamInv

\* A process that is at the end of its input has taken the whole text.
LEMMA ExitStep ==
  ASSUME PipelineInv, FX!XargsExit
  PROVE  PipelineInv'
<1>0. PipeType /\ FoundInv /\ StackInv /\ RanInv /\ StreamInv
  BY DEF PipelineInv
<1>1. PICK said, cut : WalkInv(said, cut) /\ (Reading(said) \/ AllRead)
  BY <1>0 DEF StreamInv
<1>2. /\ xargs # <<>> /\ fpipe = <<>> /\ found /\ xargs' = FX!Front(xargs)
      /\ UNCHANGED <<visit, open, out, found, fpipe, ran, failed>>
  BY DEF FX!XargsExit, FX!Running, FX!find
<1>3. /\ FX!Last(xargs) = Top /\ Len(xargs) \in Nat \ {0}
      /\ xargs' \in Seq(Process) /\ Len(xargs') = Len(xargs) - 1
      /\ \A k \in 1 .. Len(xargs) - 1 : xargs'[k] = xargs[k]
  BY <1>0, <1>2, TopFacts
<1>4. Top.buf = <<>>
  BY <1>3 DEF FX!XargsExit
<1>5. Settled(Len(Commands)) /\ (failed = <<>> => xargs' = <<>> /\ ran = Commands)
  <2>1. CASE Reading(said)
    <3>1. PICK p, e, b :
            /\ On(Top, p, e) /\ Spelt(fpipe, e, b) /\ Spelt(out, b, Begin(said + 1))
            /\ Settled(p[1] - 1)
            /\ failed = <<>> => Len(xargs) = 1 /\ ran = Stretch(0, p[1] - 1)
      BY <2>1 DEF Reading
    <3>2. out = <<>> /\ Begin(said + 1) = EndOfText /\ EndOfText[1] - 1 = Len(Commands)
      BY <1>0, <1>1, <1>2, EndFacts
    <3>3. p = EndOfText
      BY <1>2, <1>4, <3>1, <3>2, SpeltNothing DEF On
    <3>4. Stretch(0, Len(Commands)) = Commands
      BY CommandsType DEF Stretch
    <3>5. Len(xargs) = 1 => xargs' = <<>>
      BY <1>3
    <3> QED
      BY <3>1, <3>2, <3>3, <3>4, <3>5
  <2>2. CASE AllRead
    BY <1>2, <2>2 DEF AllRead
  <2> QED
    BY <1>1, <2>1, <2>2
<1>6. AllRead'
  <2>1. Settled(Len(Commands))'
    BY <1>2, <1>5 DEF Settled, Commands
  <2> QED
    BY <1>2, <1>5, <2>1 DEF AllRead, Commands
<1>7. StackInv'
  <2> SUFFICES ASSUME NEW k \in 1 .. Len(xargs')
               PROVE  \E i, j : On(xargs'[k], i, j)
    BY DEF StackInv, On, Parsed
  <2>1. k \in 1 .. Len(xargs) - 1 /\ k \in 1 .. Len(xargs)
    BY <1>3
  <2> QED
    BY <1>0, <1>3, <2>1 DEF StackInv
<1>8. WalkInv(said, cut)' /\ FoundInv'
  BY <1>0, <1>1, <1>2, FindStill
<1>9. PipeType' /\ RanInv'
  BY <1>0, <1>2, <1>3 DEF PipeType, RanInv
<1> QED
  BY <1>6, <1>7, <1>8, <1>9 DEF PipelineInv, StreamInv

\* Within a line, the running process goes on with the text.
LEMMA GoesOn ==
  ASSUME PipelineInv, NEW c, FX!Takes(c), xargs # <<>>, NEW x,
         xargs' = Append(FX!Front(xargs), x), ran' = ran, failed' = failed,
         \A p, e : On(Top, p, e) => x \in Process /\ On(x, After(p), e) /\ After(p)[1] = p[1]
  PROVE  PipelineInv'
<1>0. PipeType /\ FoundInv /\ StackInv /\ RanInv /\ StreamInv
  BY DEF PipelineInv
<1>1. PICK said, cut : WalkInv(said, cut) /\ (Reading(said) \/ AllRead)
  BY <1>0 DEF StreamInv
<1>2. UNCHANGED <<visit, open, out, fpipe, found>>
  BY DEF FX!Takes, FX!find
<1>3. PICK p0, e0 : On(Top, p0, e0)
  <2>1. Len(xargs) \in 1 .. Len(xargs)
    BY <1>0, TopFacts
  <2> QED
    BY <1>0, <2>1 DEF StackInv, Top
<1>4. x \in Process /\ On(x, After(p0), e0)
  BY <1>3
<1>5. /\ xargs' \in Seq(Process) /\ Len(xargs') = Len(xargs) /\ xargs' # <<>>
      /\ Top' = x /\ StackInv'
  BY <1>0, <1>4, BecomesFacts
<1>6. Reading(said)' \/ AllRead'
  <2>1. CASE Reading(said)
    <3>1. PICK p, e, b :
            /\ On(Top, p, e) /\ Spelt(fpipe, e, b) /\ Spelt(out, b, Begin(said + 1))
            /\ Settled(p[1] - 1)
            /\ failed = <<>> => Len(xargs) = 1 /\ ran = Stretch(0, p[1] - 1)
      BY <2>1 DEF Reading
    <3>2. On(x, After(p), e) /\ After(p)[1] = p[1]
      BY <3>1
    <3>3. On(Top, After(p), e)'
      BY <1>5, <3>2 DEF On, Parsed
    <3>4. Settled(After(p)[1] - 1)'
      BY <3>1, <3>2 DEF Settled
    <3>5. failed' = <<>> => Len(xargs') = 1 /\ ran' = Stretch(0, After(p)[1] - 1)'
      BY <1>5, <3>1, <3>2 DEF Stretch
    <3> QED
      BY <1>2, <1>5, <3>1, <3>3, <3>4, <3>5 DEF Reading
  <2>2. CASE AllRead
    <3>1. Settled(Len(Commands))'
      BY <2>2 DEF AllRead, Settled, Commands
    <3> QED
      BY <1>2, <2>2, <3>1 DEF AllRead
  <2> QED
    BY <1>1, <2>1, <2>2
<1>7. WalkInv(said, cut)' /\ FoundInv'
  BY <1>0, <1>1, <1>2, FindStill
<1>8. PipeType' /\ RanInv'
  BY <1>0, <1>2, <1>5 DEF PipeType, RanInv
<1> QED
  BY <1>5, <1>6, <1>7, <1>8 DEF PipelineInv, StreamInv

\* When exec() fails there are two processes in the place of one, which go on alike.
LEMMA TwoFacts ==
  ASSUME PipeType, StackInv, xargs # <<>>, NEW x \in Process, NEW p, NEW e, On(x, p, e),
         xargs' = FX!Front(xargs) \o <<x, x>>
  PROVE  /\ xargs' \in Seq(Process) /\ xargs' # <<>> /\ Top' = x /\ StackInv'
<1> DEFINE f == FX!Front(xargs)
           n == Len(xargs)
<1>1. n \in Nat \ {0} /\ f \in Seq(Process) /\ Len(f) = n - 1 /\ \A k \in 1 .. n - 1 : f[k] = xargs[k]
  BY TopFacts
<1> HIDE DEF f, n
<1>2. xargs' = f \o <<x, x>>
  BY DEF f
<1>3. /\ <<x, x>> \in Seq(Process) /\ Len(<<x, x>>) = 2 /\ <<x, x>>[1] = x /\ <<x, x>>[2] = x
  OBVIOUS
<1>4. /\ xargs' \in Seq(Process) /\ Len(xargs') = n + 1 /\ xargs'[n] = x /\ xargs'[n + 1] = x
      /\ \A k \in 1 .. n - 1 : xargs'[k] = f[k]
  <2> DEFINE y == <<x, x>>
  <2>1. y \in Seq(Process) /\ Len(y) = 2 /\ y[1] = x /\ y[2] = x /\ xargs' = f \o y
    BY <1>2, <1>3
  <2> HIDE DEF y
  <2>2. xargs' \in Seq(Process) /\ Len(xargs') = n + 1
    <3>1. \A S : \A s, t \in Seq(S) : s \o t \in Seq(S) /\ Len(s \o t) = Len(s) + Len(t)
      OBVIOUS
    <3>2. f \o y \in Seq(Process) /\ Len(f \o y) = Len(f) + Len(y)
      BY <1>1, <2>1, <3>1
    <3>3. Len(f) + Len(y) = n + 1
      BY <1>1, <2>1
    <3> QED
      BY <2>1, <3>2, <3>3
  <2>3. \A k \in 1 .. n - 1 : xargs'[k] = f[k]
    BY SMTT(30), <1>1, <2>1
  <2>4. xargs'[n] = y[1] /\ xargs'[n + 1] = y[2]
    <3>1. \A S : \A s, t \in Seq(S) : \A i \in 1 .. Len(t) : (s \o t)[Len(s) + i] = t[i]
      OBVIOUS
    <3>2. (f \o y)[Len(f) + 1] = y[1] /\ (f \o y)[Len(f) + 2] = y[2]
      <4>1. 1 \in 1 .. Len(y) /\ 2 \in 1 .. Len(y)
        BY <2>1
      <4> QED
        BY SMTT(30), <1>1, <2>1, <3>1, <4>1
    <3>3. Len(f) + 1 = n /\ Len(f) + 2 = n + 1
      BY <1>1
    <3> QED
      BY <2>1, <3>2, <3>3
  <2> QED
    BY <2>1, <2>2, <2>3, <2>4
<1>5. Top' = x /\ xargs' # <<>>
  BY <1>1, <1>4 DEF Top
<1>6. StackInv'
  <2> SUFFICES ASSUME NEW k \in 1 .. n + 1
               PROVE  \E i, j : On(xargs'[k], i, j)
    BY <1>4 DEF StackInv, On, Parsed
  <2>1. CASE k \in 1 .. n - 1
    <3>1. xargs'[k] = xargs[k]
      BY <1>1, <1>4, <2>1
    <3>2. k \in 1 .. Len(xargs)
      BY <1>1, <2>1 DEF n
    <3> QED
      BY <3>1, <3>2 DEF StackInv
  <2>2. CASE k \notin 1 .. n - 1
    <3>1. k = n \/ k = n + 1
      BY <1>1, <2>2
    <3> QED
      BY <1>4, <3>1
  <2> QED
    BY <2>1, <2>2
<1> QED
  BY <1>4, <1>5, <1>6

\* The end of a line: it is run, or fork() or exec() fails for it.
LEMMA LineStep ==
  ASSUME PipelineInv, FX!XargsRun \/ FX!XargsForkFails \/ FX!XargsExecFails
  PROVE  PipelineInv'
<1>0. PipeType /\ FoundInv /\ StackInv /\ RanInv /\ StreamInv
  BY DEF PipelineInv
<1>1. PICK said, cut : WalkInv(said, cut) /\ (Reading(said) \/ AllRead)
  BY <1>0 DEF StreamInv
<1>2. /\ xargs # <<>> /\ FX!Takes("\n") /\ UNCHANGED <<visit, open, out, fpipe, found>>
  BY DEF FX!XargsRun, FX!XargsForkFails, FX!XargsExecFails, FX!Takes, FX!Sees, FX!Running, FX!find
<1> DEFINE argv == FX!Argv
<1>3. \/ ran' = Append(ran, argv) /\ failed' = failed
      \/ ran' = ran /\ failed' = Append(failed, argv)
  BY DEF FX!XargsRun, FX!XargsForkFails, FX!XargsExecFails
<1>4. PICK x : x = FX!NewLine(FX!Rest)
  OBVIOUS
<1>5. \/ xargs' = Append(FX!Front(xargs), x)
      \/ xargs' = FX!Front(xargs) \o <<x, x>> /\ failed' = Append(failed, argv)
  BY <1>4 DEF FX!XargsRun, FX!XargsForkFails, FX!XargsExecFails, FX!Becomes
<1>6. ASSUME NEW p, NEW e, On(Top, p, e)
      PROVE  /\ x \in Process /\ On(x, Begin(p[1] + 1), e) /\ p[1] \in 1 .. Len(Commands)
             /\ argv = Commands[p[1]] /\ argv \in ArgLists
  BY <1>0, <1>2, <1>4, <1>6, LineTaken
<1>7. PICK p0, e0 : On(Top, p0, e0)
  <2>1. Len(xargs) \in 1 .. Len(xargs)
    BY <1>0, <1>2, TopFacts
  <2> QED
    BY <1>0, <2>1 DEF StackInv, Top
<1>8. /\ x \in Process /\ On(x, Begin(p0[1] + 1), e0) /\ p0[1] \in 1 .. Len(Commands)
      /\ argv = Commands[p0[1]] /\ argv \in ArgLists
  BY <1>6, <1>7
<1> HIDE DEF argv
<1>9. xargs' \in Seq(Process) /\ xargs' # <<>> /\ Top' = x /\ StackInv'
  BY <1>0, <1>2, <1>5, <1>8, BecomesFacts, TwoFacts
<1>10. \A S : \A s \in Seq(S), y \in S :
         /\ Append(s, y) \in Seq(S) /\ Len(Append(s, y)) = Len(s) + 1 /\ Len(s) \in Nat
         /\ Append(s, y)[Len(s) + 1] = y /\ Append(s, y) # <<>>
         /\ \A k \in 1 .. Len(s) : Append(s, y)[k] = s[k]
  OBVIOUS
<1>11. /\ ran \in Seq(ArgLists) /\ failed \in Seq(ArgLists)
       /\ ran' \in Seq(ArgLists) /\ failed' \in Seq(ArgLists)
       /\ \A s \in Seq(ArgLists) :
            /\ Len(Append(s, argv)) = Len(s) + 1 /\ Append(s, argv)[Len(s) + 1] = argv
            /\ \A k \in 1 .. Len(s) : Append(s, argv)[k] = s[k]
            /\ Append(s, argv) # <<>> /\ Len(s) \in Nat
  <2>1. ran \in Seq(ArgLists) /\ failed \in Seq(ArgLists)
    BY <1>0 DEF PipeType
  <2>2. ran' \in Seq(ArgLists) /\ failed' \in Seq(ArgLists)
    <3>1. Append(ran, argv) \in Seq(ArgLists) /\ Append(failed, argv) \in Seq(ArgLists)
      BY <1>8, <1>10, <2>1
    <3>2. CASE ran' = Append(ran, argv) /\ failed' = failed
      BY <2>1, <3>1, <3>2
    <3>3. CASE ran' = ran /\ failed' = Append(failed, argv)
      BY <2>1, <3>1, <3>3
    <3> QED
      BY <1>3, <3>2, <3>3
  <2>3. ASSUME NEW s \in Seq(ArgLists)
        PROVE  /\ Len(Append(s, argv)) = Len(s) + 1 /\ Append(s, argv)[Len(s) + 1] = argv
               /\ \A k \in 1 .. Len(s) : Append(s, argv)[k] = s[k]
               /\ Append(s, argv) # <<>> /\ Len(s) \in Nat
    BY <1>8, <1>10
  <2> QED
    BY <2>1, <2>2, <2>3
<1>12. RanInv'
  <2> SUFFICES ASSUME NEW k \in 1 .. Len(ran')
               PROVE  \E l \in 1 .. Len(Commands) : ran'[k] = Commands[l]
    BY DEF RanInv, Commands
  <2>1. CASE k \in 1 .. Len(ran)
    <3>1. ran'[k] = ran[k]
      BY <1>3, <1>11, <2>1
    <3> QED
      BY <1>0, <2>1, <3>1 DEF RanInv
  <2>2. CASE k \notin 1 .. Len(ran)
    <3>1. ran' = Append(ran, argv) /\ k = Len(ran) + 1
      BY <1>3, <1>11, <2>2
    <3>2. ran'[k] = argv
      BY <1>11, <3>1
    <3> QED
      BY <1>8, <3>2
  <2> QED
    BY <2>1, <2>2
<1>13. ASSUME NEW l, \/ \E k \in 1 .. Len(ran) : ran[k] = Commands[l]
                     \/ \E k \in 1 .. Len(failed) : failed[k] = Commands[l]
       PROVE  \/ \E k \in 1 .. Len(ran') : ran'[k] = Commands[l]
              \/ \E k \in 1 .. Len(failed') : failed'[k] = Commands[l]
  <2>1. ASSUME NEW k \in 1 .. Len(ran) PROVE k \in 1 .. Len(ran') /\ ran'[k] = ran[k]
    <3>1. CASE ran' = ran
      BY <3>1
    <3>2. CASE ran' = Append(ran, argv)
      <4>1. /\ Len(Append(ran, argv)) = Len(ran) + 1 /\ Append(ran, argv)[k] = ran[k]
            /\ Len(ran) \in Nat
        BY <1>11
      <4> QED
        BY <3>2, <4>1
    <3> QED
      BY <1>3, <3>1, <3>2
  <2>2. ASSUME NEW k \in 1 .. Len(failed) PROVE k \in 1 .. Len(failed') /\ failed'[k] = failed[k]
    <3>1. CASE failed' = failed
      BY <3>1
    <3>2. CASE failed' = Append(failed, argv)
      <4>1. /\ Len(Append(failed, argv)) = Len(failed) + 1 /\ Append(failed, argv)[k] = failed[k]
            /\ Len(failed) \in Nat
        BY <1>11
      <4> QED
        BY <3>2, <4>1
    <3> QED
      BY <1>3, <3>1, <3>2
  <2> QED
    BY <1>13, <2>1, <2>2
<1>14. \/ \E k \in 1 .. Len(ran') : ran'[k] = argv
       \/ \E k \in 1 .. Len(failed') : failed'[k] = argv
  <2>1. CASE ran' = Append(ran, argv)
    <3>1. Len(ran) + 1 \in 1 .. Len(ran') /\ ran'[Len(ran) + 1] = argv
      BY <1>11, <2>1
    <3> QED
      BY <3>1
  <2>2. CASE failed' = Append(failed, argv)
    <3>1. Len(failed) + 1 \in 1 .. Len(failed') /\ failed'[Len(failed) + 1] = argv
      BY <1>11, <2>2
    <3> QED
      BY <3>1
  <2> QED
    BY <1>3, <2>1, <2>2
<1>15. failed' = <<>> =>
         failed = <<>> /\ ran' = Append(ran, argv) /\ xargs' = Append(FX!Front(xargs), x)
  BY <1>3, <1>5, <1>11
<1>16. ASSUME Reading(said) PROVE Reading(said)'
  <2>1. PICK p, e, b :
          /\ On(Top, p, e) /\ Spelt(fpipe, e, b) /\ Spelt(out, b, Begin(said + 1))
          /\ Settled(p[1] - 1)
          /\ failed = <<>> => Len(xargs) = 1 /\ ran = Stretch(0, p[1] - 1)
    BY <1>16 DEF Reading
  <2>2. /\ On(x, Begin(p[1] + 1), e) /\ p[1] \in 1 .. Len(Commands)
        /\ argv = Commands[p[1]]
    BY <1>6, <2>1
  <2>3. Begin(p[1] + 1)[1] - 1 = p[1]
    BY <2>2 DEF Begin
  <2>4. On(Top, Begin(p[1] + 1), e)'
    BY <1>9, <2>2 DEF On, Parsed
  <2>5. Settled(p[1])'
    <3> SUFFICES ASSUME NEW l \in 1 .. p[1]
                 PROVE  \/ \E k \in 1 .. Len(ran') : ran'[k] = Commands[l]
                        \/ \E k \in 1 .. Len(failed') : failed'[k] = Commands[l]
      BY DEF Settled, Commands
    <3>1. CASE l = p[1]
      BY <1>14, <2>2, <3>1
    <3>2. CASE l # p[1]
      <4>1. l \in 1 .. p[1] - 1
        BY <2>2, <3>2
      <4>2. \/ \E k \in 1 .. Len(ran) : ran[k] = Commands[l]
            \/ \E k \in 1 .. Len(failed) : failed[k] = Commands[l]
        BY <2>1, <4>1 DEF Settled
      <4> QED
        BY <1>13, <4>2
    <3> QED
      BY <3>1, <3>2
  <2>6. ASSUME failed' = <<>> PROVE Len(xargs') = 1 /\ ran' = Stretch(0, p[1])'
    <3>1. /\ failed = <<>> /\ ran' = Append(ran, argv)
          /\ xargs' = Append(FX!Front(xargs), x)
      BY <1>15, <2>6
    <3>2. Len(xargs) = 1 /\ ran = Stretch(0, p[1] - 1)
      BY <2>1, <3>1
    <3>3. Len(xargs') = Len(xargs)
      BY <1>0, <1>2, <1>8, <3>1, BecomesFacts
    <3>4. Append(SubSeq(Commands, 1, p[1] - 1), Commands[p[1]]) = SubSeq(Commands, 1, p[1])
      BY <2>2, CommandsType, PrefixFacts
    <3>5. Stretch(0, p[1] - 1) = SubSeq(Commands, 1, p[1] - 1)
          /\ Stretch(0, p[1]) = SubSeq(Commands, 1, p[1])
      BY DEF Stretch
    <3>6. ran' = Stretch(0, p[1])
      BY <2>2, <3>1, <3>2, <3>4, <3>5
    <3> QED
      BY <3>2, <3>3, <3>6 DEF Stretch, Commands
  <2>7. Reading(said)'
    BY <1>2, <1>9, <2>1, <2>3, <2>4, <2>5, <2>6 DEF Reading
  <2> QED
    BY <2>7
<1>17. ASSUME AllRead PROVE AllRead'
  <2>1. found /\ fpipe = <<>> /\ Settled(Len(Commands)) /\ failed # <<>>
    BY <1>2, <1>17 DEF AllRead
  <2>2. Settled(Len(Commands))'
    BY <1>13, <2>1 DEF Settled, Commands
  <2>3. failed' # <<>>
    BY <1>15, <2>1
  <2>4. AllRead'
    BY <1>2, <2>1, <2>2, <2>3 DEF AllRead
  <2> QED
    BY <2>4
<1>18. WalkInv(said, cut)' /\ FoundInv'
  BY <1>0, <1>1, <1>2, FindStill
<1>19. PipeType'
  BY <1>0, <1>2, <1>9, <1>11 DEF PipeType
<1> QED
  BY <1>1, <1>9, <1>12, <1>16, <1>17, <1>18, <1>19 DEF PipelineInv, StreamInv

\* A step that leaves the two programs alone, or after which xargs does no longer what it says.
LEMMA PipelineStill ==
  ASSUME PipelineInv, UNCHANGED <<visit, open, out, fpipe, found, xargs, ran, failed>>
  PROVE  PipelineInv'
<1>1. PipeType' /\ FoundInv' /\ RanInv'
  BY DEF PipelineInv, PipeType, FoundInv, RanInv
<1>2. StackInv'
  BY DEF PipelineInv, StackInv, On, Parsed
<1>3. PICK said, cut : WalkInv(said, cut) /\ (Reading(said) \/ AllRead)
  BY DEF PipelineInv, StreamInv
<1>4. WalkInv(said, cut)'
  BY <1>3 DEF WalkInv, Stretch
<1>5. ASSUME AllRead PROVE AllRead'
  BY <1>5 DEF AllRead, Settled
<1>6. ASSUME Reading(said) PROVE Reading(said)'
  BY <1>6 DEF Reading, On, Parsed, Top, Settled, Stretch
<1> QED
  BY <1>1, <1>2, <1>3, <1>4, <1>5, <1>6 DEF PipelineInv, StreamInv

\* A step of xargs.
LEMMA XargsStep ==
  ASSUME PipelineInv, FX!Xargs
  PROVE  PipelineInv'
<1>1. PipeType
  BY DEF PipelineInv
<1>2. xargs # <<>>
  BY DEF FX!Xargs, FX!XargsRead, FX!XargsExit, FX!XargsRun, FX!XargsForkFails, FX!XargsExecFails,
         FX!XargsBlank, FX!XargsChar, FX!XargsOverruns, FX!Takes, FX!Sees, FX!Running
<1>3. FX!Last(xargs) = Top /\ Top.buf \in Seq(Text)
  BY <1>1, <1>2, TopFacts
<1>4. CASE FX!XargsBlank
  <2>1. PICK c : c = " "
    OBVIOUS
  <2>2. c \notin Letter /\ c # "\n"
    BY <2>1 DEF Letter
  <2>3. PICK x : x = NextWord(FX!Rest, FX!Argv)
    OBVIOUS
  <2>4. /\ FX!Takes(c) /\ xargs' = Append(FX!Front(xargs), x) /\ ran' = ran /\ failed' = failed
    BY <1>4, <2>1, <2>3 DEF FX!XargsBlank, FX!Becomes, NextWord
  <2>5. ASSUME NEW p, NEW e, On(Top, p, e)
        PROVE  x \in Process /\ On(x, After(p), e) /\ After(p)[1] = p[1]
    BY <1>1, <1>2, <2>2, <2>3, <2>4, <2>5, BlankTaken
  <2> QED
    BY <1>2, <2>4, <2>5, GoesOn
<1>5. CASE FX!XargsChar
  <2>1. PICK c :
          /\ c \notin {" ", "\n"} /\ FX!Takes(c)
          /\ xargs' = Append(FX!Front(xargs), [Top EXCEPT !.buf = FX!Rest, !.token = Append(@, c)])
          /\ ran' = ran /\ failed' = failed
    BY <1>3, <1>5 DEF FX!XargsChar, FX!Becomes
  <2>2. c \in Letter
    <3>1. Top.buf # <<>> /\ c = Head(Top.buf)
      BY <1>3, <2>1 DEF FX!Takes, FX!Sees
    <3>2. \A S : \A s \in Seq(S) : s # <<>> => Head(s) \in S
      OBVIOUS
    <3>3. c \in Text
      BY <1>3, <3>1, <3>2
    <3> QED
      BY <2>1, <3>3 DEF Text
  <2>3. PICK x : x = [Top EXCEPT !.buf = FX!Rest, !.token = Append(@, c)]
    OBVIOUS
  <2>4. FX!Takes(c) /\ xargs' = Append(FX!Front(xargs), x) /\ ran' = ran /\ failed' = failed
    BY <2>1, <2>3
  <2>5. ASSUME NEW p, NEW e, On(Top, p, e)
        PROVE  x \in Process /\ On(x, After(p), e) /\ After(p)[1] = p[1]
    BY ZenonT(30), <1>1, <1>2, <2>2, <2>3, <2>4, <2>5, LetterTaken
  <2> QED
    BY <1>2, <2>4, <2>5, GoesOn
<1>6. CASE FX!XargsOverruns
  BY <1>6, PipelineStill DEF FX!XargsOverruns, FX!find
<1> QED
  BY <1>4, <1>5, <1>6, ReadStep, ExitStep, LineStep DEF FX!Xargs

\* A step of the shell's command line is one of find or of xargs, or leaves them alone.
LEMMA PipelineStep == PipelineInv /\ [UtilNext]_utilVars => PipelineInv'
<1> SUFFICES ASSUME PipelineInv, [UtilNext]_utilVars
             PROVE  PipelineInv'
  OBVIOUS
<1>1. FX!Next \/ UNCHANGED fxVars
  BY DEF UtilNext, utilVars
<1>2. CASE UNCHANGED fxVars
  BY <1>2, PipelineStill DEF fxVars
<1> QED
  BY <1>1, <1>2, FindStep, XargsStep DEF FX!Next

\* However read() cuts the stream of find and whichever fork() and exec() fail, every process
\* of xargs is at a place in the text of find's lines, and what it has not read yet goes on there.
THEOREM PipelineCorrect == UtilSpec => []PipelineInv
<1>1. UtilInit => PipelineInv
  BY PipelineInit DEF UtilInit
<1>2. PipelineInv /\ [UtilNext]_utilVars => PipelineInv'
  BY PipelineStep
<1> QED
  BY <1>1, <1>2, PTL DEF UtilSpec

\* find is called for no free entry, and args is overrun only by a line with too many words.
EntryInv   == visit # 0 => Kind[visit] # "skip"
OverrunInv == overrun => \E l \in 1 .. Len(Commands) : argc - 1 + Len(Commands[l]) >= MAXARG
LimitInv   == argc \in Nat /\ EntryInv /\ OverrunInv

\* The words that are in args are some of those of the line.
LEMMA LineOverruns ==
  ASSUME PipelineInv, argc \in Nat, FX!XargsOverruns
  PROVE  \E l \in 1 .. Len(Commands) : argc - 1 + Len(Commands[l]) >= MAXARG
<1>0. PipeType /\ StackInv
  BY DEF PipelineInv
<1>1. PICK c, d : /\ FX!Sees(c) /\ d \in {1, 2}
                  /\ ~(argc - 1 + Len(FX!Last(xargs).args) + d <= MAXARG)
  BY Zenon DEF FX!XargsOverruns, FX!Fits
<1>2. xargs # <<>>
  BY <1>1 DEF FX!Sees, FX!Running
<1>3. FX!Last(xargs) = Top /\ Len(xargs) \in Nat \ {0}
  BY <1>0, <1>2, TopFacts
<1>4. PICK p, e : On(Top, p, e)
  <2>1. Len(xargs) \in 1 .. Len(xargs)
    BY <1>3
  <2> QED
    BY <1>0, <2>1 DEF StackInv, Top
<1>5. p \in Place /\ Top.args = SubSeq(Commands[p[1]], 1, p[2] - 1)
  BY <1>0, <1>1, <1>2, <1>4, SeesFacts
<1>6. p[1] \in 1 .. Len(Commands) /\ p[2] \in 1 .. Len(Commands[p[1]])
  BY <1>5, PlaceFacts
<1>7. Commands[p[1]] \in Seq(Seq(Letter)) /\ Len(Commands[p[1]]) \in Nat
  <2>1. \A S : \A s \in Seq(S) : Len(s) \in Nat
    OBVIOUS
  <2> QED
    BY <1>6, <2>1, CommandsType
<1>8. Len(Top.args) = p[2] - 1
  <2>1. \A S : \A s \in Seq(S) : \A n \in 0 .. Len(s) : Len(SubSeq(s, 1, n)) = n
    OBVIOUS
  <2>2. p[2] - 1 \in 0 .. Len(Commands[p[1]])
    BY <1>6, <1>7
  <2> QED
    BY <1>5, <1>7, <2>1, <2>2
<1>9. ~(argc - 1 + (p[2] - 1) + d <= MAXARG)
  BY <1>1, <1>3, <1>8
<1>10. argc - 1 + Len(Commands[p[1]]) >= MAXARG
  <2> DEFINE i == p[2]
             n == Len(Commands[p[1]])
  <2>1. MAXARG \in Nat /\ n \in Nat /\ i \in 1 .. n /\ d \in {1, 2}
    BY <1>1, <1>6, <1>7, UtilAssumption
  <2>2. ~(argc - 1 + (i - 1) + d <= MAXARG)
    BY <1>9
  <2> HIDE DEF i, n
  <2>3. argc - 1 + n >= MAXARG
    BY <2>1, <2>2
  <2> QED
    BY <2>3 DEF n
<1> QED
  BY <1>6, <1>10

\* A step of find or of xargs.
LEMMA LimitStep == PipelineInv /\ LimitInv /\ [UtilNext]_utilVars => LimitInv'
<1> SUFFICES ASSUME PipelineInv, LimitInv, [UtilNext]_utilVars
             PROVE  LimitInv'
  OBVIOUS
<1>1. argc' = argc
  BY DEF UtilNext, utilVars
<1>2. (FX!Find \/ FX!Xargs) \/ UNCHANGED fxVars
  BY DEF UtilNext, utilVars, FX!Next
<1>3. EntryInv'
  <2>1. UNCHANGED visit \/ visit' = 0 \/ FX!FindEntry
    BY <1>2 DEF fxVars, FX!Find, FX!FindCannotOpen, FX!FindFile, FX!FindTooLong, FX!FindDir,
                FX!FindClose, FX!FindWrite, FX!FindExit, FX!Xargs, FX!XargsRead, FX!XargsExit,
                FX!XargsRun, FX!XargsForkFails, FX!XargsExecFails, FX!XargsBlank, FX!XargsChar,
                FX!XargsOverruns, FX!Takes, FX!find
  <2>2. CASE FX!FindEntry
    BY <2>2 DEF FX!FindEntry, EntryInv
  <2> QED
    BY <2>1, <2>2 DEF LimitInv, EntryInv
<1>4. OverrunInv'
  <2>1. UNCHANGED overrun \/ FX!XargsOverruns
    BY <1>2 DEF fxVars, FX!Find, FX!FindCannotOpen, FX!FindFile, FX!FindTooLong, FX!FindDir,
                FX!FindEntry, FX!FindClose, FX!FindWrite, FX!FindExit, FX!Xargs, FX!XargsRead,
                FX!XargsExit, FX!XargsRun, FX!XargsForkFails, FX!XargsExecFails, FX!XargsBlank,
                FX!XargsChar, FX!Takes, FX!reader
  <2>2. CASE UNCHANGED overrun
    BY <1>1, <2>2 DEF LimitInv, OverrunInv, Commands
  <2>3. CASE FX!XargsOverruns
    BY <1>1, <2>3, LineOverruns DEF LimitInv, OverrunInv, Commands
  <2> QED
    BY <2>1, <2>2, <2>3
<1> QED
  BY <1>1, <1>3, <1>4 DEF LimitInv

\* find visits what it may visit, and xargs overruns args only as it must.
LEMMA LimitsKept == UtilSpec => []LimitInv
<1>1. UtilInit => LimitInv
  <2> SUFFICES ASSUME UtilInit PROVE LimitInv
    OBVIOUS
  <2>1. argc \in Nat /\ visit = 1 /\ overrun = FALSE
    BY DEF UtilInit, FX!Init
  <2> QED
    BY <2>1, UtilAssumption DEF LimitInv, EntryInv, OverrunInv
<1> QED
  BY <1>1, LimitStep, PipelineCorrect, PTL DEF UtilSpec

\* What has been run, and what fork() or exec() failed for, are lines of find.
LEMMA LinesFollow == PipelineInv /\ LimitInv => FX!LinesRun
<1> SUFFICES ASSUME PipelineInv, LimitInv
             PROVE  FX!LinesRun
  OBVIOUS
<1>0. PipeType /\ RanInv /\ StreamInv
  BY DEF PipelineInv
<1>1. PICK said, cut : WalkInv(said, cut) /\ (Reading(said) \/ AllRead)
  BY <1>0 DEF StreamInv
<1>2. Commands \in Seq(ArgLists) /\ Len(Commands) \in Nat
  BY CommandsType
<1>3. ran \in Seq(ArgLists) /\ failed \in Seq(ArgLists)
  BY <1>0 DEF PipeType
<1>4. ASSUME failed = <<>>
      PROVE  FX!IsPrefix(ran, Commands)
  <2>1. CASE Reading(said)
    <3>1. PICK p : p \in Place \cup {EndOfText} /\ ran = Stretch(0, p[1] - 1)
      BY <1>4, <2>1 DEF Reading, On
    <3>2. p[1] \in 1 .. Len(Commands) + 1
      <4>1. CASE p \in Place
        BY <1>2, <4>1, PlaceFacts
      <4>2. CASE p = EndOfText
        BY <1>2, <4>2 DEF EndOfText, Begin
      <4> QED
        BY <3>1, <4>1, <4>2
    <3> DEFINE m == p[1] - 1
    <3>3. m \in 0 .. Len(Commands) /\ 0 \in 0 .. Len(Commands) /\ 0 <= m /\ ran = Stretch(0, m)
      BY <1>2, <3>1, <3>2
    <3> HIDE DEF m
    <3>4. Len(ran) = m
      <4>1. Len(Stretch(0, m)) = m - 0
        BY <3>3, StretchFacts
      <4> QED
        BY <3>3, <4>1
    <3>5. SubSeq(ran, 1, m) = SubSeq(Commands, 1, m)
      <4>1. SubSeq(ran, 1, Len(ran)) = ran
        BY <1>3, PrefixFacts
      <4> QED
        BY <3>3, <3>4, <4>1 DEF Stretch
    <3> QED
      BY <3>3, <3>4, <3>5 DEF FX!IsPrefix
  <2>2. CASE AllRead
    <3>1. ran = Commands
      BY <1>4, <2>2 DEF AllRead
    <3> QED
      BY <1>2, <3>1 DEF FX!IsPrefix
  <2> QED
    BY <1>1, <2>1, <2>2
<1>5. ASSUME FX!Done
      PROVE  Settled(Len(Commands)) /\ (failed = <<>> => ran = Commands)
  <2>1. xargs = <<>>
    BY <1>5 DEF FX!Done
  <2> QED
    BY <1>1, <2>1 DEF Reading, AllRead
<1>6. /\ FX!Range(ran) = {ran[k] : k \in 1 .. Len(ran)}
      /\ FX!Range(failed) = {failed[k] : k \in 1 .. Len(failed)}
      /\ FX!Range(Commands) = {Commands[k] : k \in 1 .. Len(Commands)}
  <2>1. \A S : \A s \in Seq(S) : DOMAIN s = 1 .. Len(s)
    OBVIOUS
  <2>2. /\ DOMAIN ran = 1 .. Len(ran) /\ DOMAIN failed = 1 .. Len(failed)
        /\ DOMAIN Commands = 1 .. Len(Commands)
    BY <1>2, <1>3, <2>1
  <2> QED
    BY <2>2 DEF FX!Range
<1>7. FX!Range(ran) \subseteq FX!Range(Commands)
  BY <1>0, <1>6 DEF RanInv
<1>8. FX!Done => FX!Range(Commands) \subseteq FX!Range(ran) \cup FX!Range(failed)
  <2> SUFFICES ASSUME FX!Done, NEW l \in 1 .. Len(Commands)
               PROVE  Commands[l] \in FX!Range(ran) \cup FX!Range(failed)
    BY <1>6
  <2>1. \/ \E k \in 1 .. Len(ran) : ran[k] = Commands[l]
        \/ \E k \in 1 .. Len(failed) : failed[k] = Commands[l]
    BY <1>5 DEF Settled
  <2> QED
    BY <1>6, <2>1
<1>9. overrun => \E words \in FX!Range(Commands) : argc - 1 + Len(words) >= MAXARG
  BY <1>6 DEF LimitInv, OverrunInv
<1> QED
  BY <1>4, <1>5, <1>7, <1>8, <1>9 DEF FX!LinesRun, Commands

\* Wherever read() cuts the stream, each line find prints becomes the arguments of one command,
\* once and in order; where fork() or exec() fails, no command is made up and none is lost but
\* those it failed for.  xargs stores beyond args only if there is a line whose words, with its
\* own arguments and the null pointer, are more than MAXARG (find.c:53-65; xargs.c:10, 23-46).
THEOREM LinesRunCorrect == UtilSpec => []LinesRun
<1>1. PipelineInv /\ LimitInv => LinesRun
  BY LinesFollow DEF LinesRun
<1> QED
  BY <1>1, PipelineCorrect, LimitsKept, PTL

-----------------------------------------------------------------------------
(* pingpong, and primes as the shell runs it.                              *)

\* A second line after the first.
LEMMA SecondLine ==
  ASSUME NEW x, NEW y
  PROVE  Append(<<x>>, y) = <<x, y>>
<1> DEFINE S == {x, y}
<1>1. x \in S /\ y \in S
  OBVIOUS
<1> HIDE DEF S
<1>2. <<x>> \in Seq(S) /\ <<x, y>> \in Seq(S) /\ Len(<<x>>) = 1 /\ Len(<<x, y>>) = 2
  BY <1>1
<1> DEFINE a == Append(<<x>>, y)
<1>3. a \in Seq(S) /\ Len(a) = 2 /\ a[1] = x /\ a[2] = y
  BY <1>1, <1>2
<1> HIDE DEF a
<1>4. \A i \in 1 .. 2 : a[i] = <<x, y>>[i]
  <2>1. \A i \in 1 .. 2 : i = 1 \/ i = 2
    OBVIOUS
  <2> QED
    BY <1>3, <2>1
<1>5. a = <<x, y>>
  BY <1>2, <1>3, <1>4, SeqEqual
<1> QED
  BY <1>5 DEF a

\* The parent of pingpong without a child, before fork() or because it failed: no byte comes to
\* stay in a pipe, and it prints its line all the same.
Alone ==
  /\ ppc["parent"] \in {"pipe", "fork"} => ppc["child"] = "none"
  /\ ppc["child"] = "none" =>
       /\ pfiles["child"] = {} /\ ~ppipe["parent_2_child"] /\ ~ppipe["child_2_parent"]
       /\ ppc["parent"] \notin {"close3", "close4", "exit", "exited"} => pprinted = <<>>
       /\ ppc["parent"] \in {"close3", "close4", "exit"} => pprinted = <<"pong">>
       /\ ppc["parent"] = "exited" => pprinted \in {<<>>, <<"pong">>}

\* The two of them: the lines they have printed, and the bytes.
Together ==
  /\ ppc["child"] \in {"close1", "close2", "read", "print"} => pprinted = <<>>
  /\ ppc["child"] \in {"write", "close3", "close4", "exit", "exited"} =>
       pprinted = IF ppc["parent"] \in {"close3", "close4", "exit", "exited"}
                  THEN <<"ping", "pong">> ELSE <<"ping">>
  /\ ppc["child"] \notin {"none", "exited"} =>
       ppc["parent"] \in {"close1", "close2", "write", "wait"}
  /\ ppc["parent"] \in {"close1", "close2", "write"} =>
       /\ ppc["child"] \in {"none", "close1", "close2", "read"}
       /\ ~ppipe["parent_2_child"]
  /\ ppc["parent"] = "wait" /\ ppc["child"] \in {"close1", "close2", "read"} =>
       ppipe["parent_2_child"]
  /\ ppc["child"] \in {"close3", "close4", "exit", "exited"} /\ ppc["parent"] \in {"wait", "read"} =>
       ppipe["child_2_parent"]

\* The ends of the pipes that decide what becomes of a byte.
EndsOpen ==
  /\ ppc["parent"] \in {"close1", "close2", "write"} => <<"parent_2_child", "w">> \in pfiles["parent"]
  /\ ppc["parent"] \in {"close1", "close2", "write", "wait", "read"} =>
       <<"child_2_parent", "r">> \in pfiles["parent"]
  /\ ppc["parent"] \in {"close2", "write"} => <<"parent_2_child", "r">> \notin pfiles["parent"]
  /\ ppc["parent"] \in {"write", "wait", "read"} => <<"child_2_parent", "w">> \notin pfiles["parent"]
  /\ ppc["child"] \in {"close1", "close2", "read"} => <<"parent_2_child", "r">> \in pfiles["child"]

\* pingpong: who is where, what has been printed, and where the bytes and the ends of the pipes are.
PingpongInv ==
  /\ ppc \in [PP!Process -> {"none", "pipe", "fork", "close1", "close2", "write", "wait", "read",
                             "print", "close3", "close4", "exit", "exited"}]
  /\ pfiles \in [PP!Process -> SUBSET (PP!Pipe \X {"r", "w"})]
  /\ ppipe \in [PP!Pipe -> BOOLEAN]
  /\ ppc["parent"] # "none" /\ ppc["child"] # "wait"
  /\ ppc["parent"] = "fork" => pfiles["parent"] = PP!Pipe \X {"r", "w"}
  /\ Alone /\ Together /\ EndsOpen

\* The processes, and the next system call of one of them.
LEMMA GotoFacts ==
  ASSUME PingpongInv, NEW p \in PP!Process, NEW from, NEW to, PP!Goto(p, from, to)
  PROVE  /\ ppc[p] = from /\ ppc'[p] = to
         /\ \A q \in PP!Process : q # p => ppc'[q] = ppc[q]
         /\ "parent" \in PP!Process /\ "child" \in PP!Process
         /\ "parent_2_child" \in PP!Pipe /\ "child_2_parent" \in PP!Pipe
BY DEF PingpongInv, PP!Goto, PP!Process, PP!Pipe

\* A step of pingpong.
LEMMA PingpongStep == PingpongInv /\ PP!Next => PingpongInv'
<1> SUFFICES ASSUME PingpongInv, PP!Next
             PROVE  PingpongInv'
  OBVIOUS
<1>0. /\ "parent" \in PP!Process /\ "child" \in PP!Process
      /\ "parent_2_child" \in PP!Pipe /\ "child_2_parent" \in PP!Pipe
  BY DEF PP!Process, PP!Pipe
<1>1. CASE PP!CreatePipes
  <2>1. ppc["parent"] = "pipe" /\ ppc'["parent"] = "fork" /\ ppc'["child"] = ppc["child"]
    BY <1>0, <1>1, GotoFacts DEF PP!CreatePipes
  <2> QED
    BY <1>0, <1>1, <2>1 DEF PP!CreatePipes, PP!Goto, PingpongInv, Alone, Together, EndsOpen
<1>2. CASE PP!CreateFails
  <2>1. ppc["parent"] = "pipe" /\ ppc'["parent"] = "exited" /\ ppc'["child"] = ppc["child"]
    BY <1>0, <1>2, GotoFacts DEF PP!CreateFails
  <2> QED
    BY <1>0, <1>2, <2>1 DEF PP!CreateFails, PP!Goto, PingpongInv, Alone, Together, EndsOpen
<1>3. CASE PP!Fork
  <2>1. ppc["parent"] = "fork" /\ ppc["child"] = "none" /\ pfiles["parent"] = PP!Pipe \X {"r", "w"}
    BY <1>3 DEF PP!Fork, PingpongInv, Alone
  <2>2. /\ \A p \in PP!Process : ppc'[p] = "close1" /\ pfiles'[p] = PP!Pipe \X {"r", "w"}
        /\ UNCHANGED <<ppipe, pprinted>> /\ pprinted = <<>>
        /\ ~ppipe["parent_2_child"] /\ ~ppipe["child_2_parent"]
    BY <1>0, <1>3, <2>1 DEF PP!Fork, PP!Process, PingpongInv, Alone
  <2> QED
    BY <1>0, <1>3, <2>2 DEF PP!Fork, PingpongInv, Alone, Together, EndsOpen
<1>21. CASE PP!ForkFails
  <2>1. ppc["parent"] = "fork" /\ ppc'["parent"] = "close1" /\ ppc'["child"] = ppc["child"]
    BY <1>0, <1>21, GotoFacts DEF PP!ForkFails
  <2> QED
    BY <1>0, <1>21, <2>1 DEF PP!ForkFails, PP!Goto, PingpongInv, Alone, Together, EndsOpen
<1>4. CASE PP!Close("parent", "close1", "close2", "parent_2_child", "r")
  <2>1. ppc["parent"] = "close1" /\ ppc'["parent"] = "close2" /\ ppc'["child"] = ppc["child"]
    BY <1>0, <1>4, GotoFacts DEF PP!Close
  <2> QED
    BY <1>0, <1>4, <2>1 DEF PP!Close, PP!Goto, PingpongInv, Alone, Together, EndsOpen
<1>5. CASE PP!Close("parent", "close2", "write", "child_2_parent", "w")
  <2>1. ppc["parent"] = "close2" /\ ppc'["parent"] = "write" /\ ppc'["child"] = ppc["child"]
    BY <1>0, <1>5, GotoFacts DEF PP!Close
  <2> QED
    BY <1>0, <1>5, <2>1 DEF PP!Close, PP!Goto, PingpongInv, Alone, Together, EndsOpen
<1>6. CASE PP!Write("parent", "wait", "parent_2_child")
  <2>1. ppc["parent"] = "write" /\ ppc'["parent"] = "wait" /\ ppc'["child"] = ppc["child"]
    BY <1>0, <1>6, GotoFacts DEF PP!Write
  <2>2. /\ ppipe'["parent_2_child"] = (ppc["child"] # "none")
        /\ ppipe'["child_2_parent"] = ppipe["child_2_parent"]
    <3>1. /\ ppipe'["parent_2_child"] = PP!Open("parent_2_child", "r")
          /\ ppipe'["child_2_parent"] = ppipe["child_2_parent"]
      BY <1>0, <1>6 DEF PP!Write, PingpongInv
    <3>2. PP!Open("parent_2_child", "r") <=> <<"parent_2_child", "r">> \in pfiles["child"]
      BY <1>0, <2>1 DEF PP!Open, PP!Process, PingpongInv, EndsOpen
    <3>3. <<"parent_2_child", "r">> \in pfiles["child"] <=> ppc["child"] # "none"
      BY <2>1 DEF PingpongInv, Alone, Together, EndsOpen
    <3> QED
      BY <3>1, <3>2, <3>3 DEF PP!Open
  <2> QED
    BY <1>0, <1>6, <2>1, <2>2 DEF PP!Write, PP!Goto, PingpongInv, Alone, Together, EndsOpen
<1>7. CASE PP!Wait
  <2>1. ppc["parent"] = "wait" /\ ppc'["parent"] = "read" /\ ppc'["child"] = ppc["child"]
    BY <1>0, <1>7, GotoFacts DEF PP!Wait
  <2> QED
    BY <1>0, <1>7, <2>1 DEF PP!Wait, PP!Goto, PingpongInv, Alone, Together, EndsOpen
<1>8. CASE PP!Read("parent", "child_2_parent")
  <2>1. ppc["parent"] = "read" /\ ppc'["parent"] = "print" /\ ppc'["child"] = ppc["child"]
    BY <1>0, <1>8, GotoFacts DEF PP!Read
  <2> QED
    BY <1>0, <1>8, <2>1 DEF PP!Read, PP!Goto, PingpongInv, Alone, Together, EndsOpen
<1>9. CASE PP!Fprintf("parent", "close3", "pong")
  <2>1. ppc["parent"] = "print" /\ ppc'["parent"] = "close3" /\ ppc'["child"] = ppc["child"]
    BY <1>0, <1>9, GotoFacts DEF PP!Fprintf
  <2>2. \/ ppc["child"] = "exited" /\ pprinted = <<"ping">>
        \/ ppc["child"] = "none" /\ pprinted = <<>>
    BY <1>0, <2>1 DEF PingpongInv, Alone, Together
  <2>3. pprinted' = IF ppc["child"] = "none" THEN <<"pong">> ELSE <<"ping", "pong">>
    <3>1. pprinted' = Append(pprinted, "pong")
      BY <1>9 DEF PP!Fprintf
    <3>2. Append(<<>>, "pong") = <<"pong">>
      OBVIOUS
    <3> QED
      BY <2>2, <3>1, <3>2, SecondLine
  <2> QED
    BY <1>0, <1>9, <2>1, <2>2, <2>3 DEF PP!Fprintf, PP!Goto, PingpongInv, Alone, Together, EndsOpen
<1>10. CASE PP!Close("parent", "close3", "close4", "parent_2_child", "w")
  <2>1. ppc["parent"] = "close3" /\ ppc'["parent"] = "close4" /\ ppc'["child"] = ppc["child"]
    BY <1>0, <1>10, GotoFacts DEF PP!Close
  <2> QED
    BY <1>0, <1>10, <2>1 DEF PP!Close, PP!Goto, PingpongInv, Alone, Together, EndsOpen
<1>11. CASE PP!Close("parent", "close4", "exit", "child_2_parent", "r")
  <2>1. ppc["parent"] = "close4" /\ ppc'["parent"] = "exit" /\ ppc'["child"] = ppc["child"]
    BY <1>0, <1>11, GotoFacts DEF PP!Close
  <2> QED
    BY <1>0, <1>11, <2>1 DEF PP!Close, PP!Goto, PingpongInv, Alone, Together, EndsOpen
<1>12. CASE PP!Exit("parent")
  <2>1. ppc["parent"] = "exit" /\ ppc'["parent"] = "exited" /\ ppc'["child"] = ppc["child"]
    BY <1>0, <1>12, GotoFacts DEF PP!Exit
  <2> QED
    BY <1>0, <1>12, <2>1 DEF PP!Exit, PP!Goto, PingpongInv, Alone, Together, EndsOpen
<1>13. CASE PP!Close("child", "close1", "close2", "parent_2_child", "w")
  <2>1. ppc["child"] = "close1" /\ ppc'["child"] = "close2" /\ ppc'["parent"] = ppc["parent"]
    BY <1>0, <1>13, GotoFacts DEF PP!Close
  <2> QED
    BY <1>0, <1>13, <2>1 DEF PP!Close, PP!Goto, PingpongInv, Alone, Together, EndsOpen
<1>14. CASE PP!Close("child", "close2", "read", "child_2_parent", "r")
  <2>1. ppc["child"] = "close2" /\ ppc'["child"] = "read" /\ ppc'["parent"] = ppc["parent"]
    BY <1>0, <1>14, GotoFacts DEF PP!Close
  <2> QED
    BY <1>0, <1>14, <2>1 DEF PP!Close, PP!Goto, PingpongInv, Alone, Together, EndsOpen
<1>15. CASE PP!Read("child", "parent_2_child")
  <2>1. ppc["child"] = "read" /\ ppc'["child"] = "print" /\ ppc'["parent"] = ppc["parent"]
    BY <1>0, <1>15, GotoFacts DEF PP!Read
  <2>2. ppc["parent"] = "wait"
    <3>1. ppipe["parent_2_child"] \/ ~PP!Open("parent_2_child", "w")
      BY <1>15 DEF PP!Read
    <3>2. ppc["parent"] \in {"close1", "close2", "write", "wait"}
      BY <2>1 DEF PingpongInv, Together
    <3>3. ppc["parent"] # "wait" => ~ppipe["parent_2_child"] /\ PP!Open("parent_2_child", "w")
      BY <1>0, <3>2 DEF PP!Open, PingpongInv, Together, EndsOpen
    <3> QED
      BY <3>1, <3>3
  <2> QED
    BY <1>0, <1>15, <2>1, <2>2 DEF PP!Read, PP!Goto, PingpongInv, Alone, Together, EndsOpen
<1>16. CASE PP!Fprintf("child", "write", "ping")
  <2>1. ppc["child"] = "print" /\ ppc'["child"] = "write" /\ ppc'["parent"] = ppc["parent"]
    BY <1>0, <1>16, GotoFacts DEF PP!Fprintf
  <2> QED
    BY <1>0, <1>16, <2>1 DEF PP!Fprintf, PP!Goto, PingpongInv, Alone, Together, EndsOpen
<1>17. CASE PP!Write("child", "close3", "child_2_parent")
  <2>1. ppc["child"] = "write" /\ ppc'["child"] = "close3" /\ ppc'["parent"] = ppc["parent"]
    BY <1>0, <1>17, GotoFacts DEF PP!Write
  <2>2. ppipe'["child_2_parent"] /\ ppipe'["parent_2_child"] = ppipe["parent_2_child"]
    <3>1. <<"child_2_parent", "r">> \in pfiles["parent"]
      BY <2>1 DEF PingpongInv, Together, EndsOpen
    <3> QED
      BY <1>0, <1>17, <3>1 DEF PP!Write, PP!Open, PingpongInv
  <2> QED
    BY <1>0, <1>17, <2>1, <2>2 DEF PP!Write, PP!Goto, PingpongInv, Alone, Together, EndsOpen
<1>18. CASE PP!Close("child", "close3", "close4", "parent_2_child", "r")
  <2>1. ppc["child"] = "close3" /\ ppc'["child"] = "close4" /\ ppc'["parent"] = ppc["parent"]
    BY <1>0, <1>18, GotoFacts DEF PP!Close
  <2> QED
    BY <1>0, <1>18, <2>1 DEF PP!Close, PP!Goto, PingpongInv, Alone, Together, EndsOpen
<1>19. CASE PP!Close("child", "close4", "exit", "child_2_parent", "w")
  <2>1. ppc["child"] = "close4" /\ ppc'["child"] = "exit" /\ ppc'["parent"] = ppc["parent"]
    BY <1>0, <1>19, GotoFacts DEF PP!Close
  <2> QED
    BY <1>0, <1>19, <2>1 DEF PP!Close, PP!Goto, PingpongInv, Alone, Together, EndsOpen
<1>20. CASE PP!Exit("child")
  <2>1. ppc["child"] = "exit" /\ ppc'["child"] = "exited" /\ ppc'["parent"] = ppc["parent"]
    BY <1>0, <1>20, GotoFacts DEF PP!Exit
  <2> QED
    BY <1>0, <1>20, <2>1 DEF PP!Exit, PP!Goto, PingpongInv, Alone, Together, EndsOpen
<1> QED
  BY <1>1, <1>2, <1>3, <1>4, <1>5, <1>6, <1>7, <1>8, <1>9, <1>10, <1>11, <1>12,
     <1>13, <1>14, <1>15, <1>16, <1>17, <1>18, <1>19, <1>20, <1>21 DEF PP!Next, PP!Parent, PP!Child

\* pingpong begins with nothing done.
LEMMA PingpongInit == PP!Init => PingpongInv
<1> SUFFICES ASSUME PP!Init
             PROVE  PingpongInv
  OBVIOUS
<1>1. /\ "parent" \in PP!Process /\ "child" \in PP!Process
      /\ "parent_2_child" \in PP!Pipe /\ "child_2_parent" \in PP!Pipe
  BY DEF PP!Process, PP!Pipe
<1>2. ppc["parent"] = "pipe" /\ ppc["child"] = "none"
  BY <1>1 DEF PP!Init
<1> QED
  BY <1>1, <1>2 DEF PP!Init, PingpongInv, Alone, Together, EndsOpen

\* Every step of the shell's command line keeps the invariant of pingpong.
LEMMA PingpongKept == PingpongInv /\ [UtilNext]_utilVars => PingpongInv'
<1> SUFFICES ASSUME PingpongInv, [UtilNext]_utilVars
             PROVE  PingpongInv'
  OBVIOUS
<1>1. PP!Next \/ UNCHANGED ppVars
  BY DEF UtilNext, utilVars
<1>2. CASE UNCHANGED ppVars
  BY <1>2 DEF ppVars, PingpongInv, Alone, Together, EndsOpen
<1> QED
  BY <1>1, <1>2, PingpongStep

\* pingpong: the child reads before it answers, and the parent reads only when the child has
\* exited, which has left its byte in the pipe; without a child nothing comes to stay in a pipe
\* (pingpong.c:16-48).
THEOREM PingpongCorrect == UtilSpec => []PingpongInv
<1>1. UtilInit => PingpongInv
  BY PingpongInit DEF UtilInit
<1> QED
  BY <1>1, PingpongKept, PTL DEF UtilSpec

\* When the parent of pingpong exits with a child, "ping" and "pong" have been printed, in this
\* order.  Without one, because pipe() or fork() failed, it has printed nothing, or a "pong" that
\* nobody sent (pingpong.c:11, 17, 24, 43).
THEOREM PingpongDone == UtilSpec => [](ppc["parent"] = "exited" => PP!Done)
<1>1. PingpongInv => (ppc["parent"] = "exited" => PP!Done)
  <2> SUFFICES ASSUME PingpongInv, ppc["parent"] = "exited"
               PROVE  PP!Done
    OBVIOUS
  <2>1. /\ ppc["child"] \in {"none", "exited"}
        /\ ppc["child"] = "exited" => pprinted = <<"ping", "pong">>
        /\ ppc["child"] = "none" => pprinted \in {<<>>, <<"pong">>}
    BY DEF PingpongInv, Alone, Together, PP!Process
  <2> QED
    BY <2>1 DEF PP!Done
<1> QED
  BY <1>1, PingpongCorrect, PTL

\* A read() of pingpong that returns has the other process's byte, if there is another process.
BytesArrive ==
  /\ PP!Read("child", "parent_2_child")  => ppipe["parent_2_child"]
  /\ PP!Read("parent", "child_2_parent") => (ppipe["child_2_parent"] <=> ppc["child"] # "none")

\* If fork() has made the child, no read() of pingpong is at the end of its pipe, although its
\* result is not looked at and both processes still hold ends that they inherited; if it has
\* failed, the parent's read() returns too, with nothing (pingpong.c:17, 22, 41).
THEOREM BytesArriveCorrect == UtilSpec => [][BytesArrive]_ppVars
<1>1. PingpongInv => BytesArrive
  <2> SUFFICES ASSUME PingpongInv
               PROVE  BytesArrive
    OBVIOUS
  <2>1. /\ "parent" \in PP!Process /\ "child" \in PP!Process
        /\ "parent_2_child" \in PP!Pipe /\ "child_2_parent" \in PP!Pipe
    BY DEF PP!Process, PP!Pipe
  <2>2. ASSUME PP!Read("child", "parent_2_child") PROVE ppipe["parent_2_child"]
    <3>1. ppc["child"] = "read" /\ ppc["parent"] \in {"close1", "close2", "write", "wait"}
      BY <2>1, <2>2 DEF PP!Read, PP!Goto, PingpongInv, Together
    <3>2. CASE ppc["parent"] = "wait"
      BY <3>1, <3>2 DEF PingpongInv, Together
    <3>3. CASE ppc["parent"] # "wait"
      <4>1. <<"parent_2_child", "w">> \in pfiles["parent"]
        BY <3>1, <3>3 DEF PingpongInv, EndsOpen
      <4> QED
        BY <2>1, <2>2, <4>1 DEF PP!Read, PP!Open
    <3> QED
      BY <3>2, <3>3
  <2>3. ASSUME PP!Read("parent", "child_2_parent")
        PROVE  ppipe["child_2_parent"] <=> ppc["child"] # "none"
    <3>1. ppc["parent"] = "read"
      BY <2>3 DEF PP!Read, PP!Goto
    <3>2. ppc["child"] \in {"none", "exited"}
      BY <2>1, <3>1 DEF PingpongInv, Together
    <3> QED
      BY <3>1, <3>2 DEF PingpongInv, Alone, Together
  <2> QED
    BY <2>2, <2>3 DEF BytesArrive
<1>2. PingpongInv /\ [UtilNext]_utilVars => [BytesArrive]_ppVars
  BY <1>1
<1> QED
  BY <1>2, PingpongCorrect, PTL DEF UtilSpec

\* primes, as the shell runs it, is the program of the module Primes.
LEMMA ShellRunsPrimes == UtilSpec => Spec
<1>1. UtilInit => Init
  BY DEF UtilInit
<1>2. [UtilNext]_utilVars => [Next]_vars
  BY DEF UtilNext, utilVars
<1> QED
  BY <1>1, <1>2, PTL DEF UtilSpec, Spec

\* With primes as the command or not, what the shell's primes prints is the sequence of the
\* primes; when main() exits it is whole, or ends with the prime of the stage whose fork() has
\* failed (primes.c:20, 25-39).
THEOREM ShellPrimesCorrect == UtilSpec => []PrintsThePrimes
  BY ShellRunsPrimes, PrintsThePrimesCorrect, PTL

\* The pipe() calls of the shell's primes do not fail if a process may have five files
\* more than there are primes to print (primes.c:23, 52).
THEOREM ShellFilesCorrect ==
  ASSUME Cardinality(PrimeNumbers) + 5 <= NOFILE
  PROVE  UtilSpec => []FilesSuffice
  BY ShellRunsPrimes, FilesSufficeCorrect, PTL

-----------------------------------------------------------------------------
(* Nobody waits for ever: until a command line has ended, some process of it *)
(* can go on.                                                                *)

\* Stage k can make its next system call, or the one it is in returns; fork() has a stage left
\* for its child, so that MaxStage lets no call of fork() fail.
StageGoesOn(k) ==
  \/ pc[k] \in {"closeWrite", "closeRead", "print", "closeIn", "closeOut"}
  \/ pc[k] = "pipe" /\ 3 + Cardinality(files[k]) + 2 <= NOFILE
  \/ pc[k] = "fork" /\ k + 1 \in Stage
  \/ pc[k] \in {"first", "read"} /\ (pipe[k - 1] # <<>> \/ ~Open(k - 1, "w"))
  \/ pc[k] = "write" /\ (Open(k, "r") => Len(pipe[k]) < PipeSize)
  \/ pc[k] = "wait" /\ (HasChild(k) => pc[k + 1] = "exited")

SieveGoesOn == pc[0] # "exited" => \E k \in Stage : StageGoesOn(k)

\* No more is printed than there are primes, so the last process has not yet been made when a
\* stage forks.
LEMMA ForkHasRoom ==
  ASSUME IInv, TipInv, FlowInv, Cardinality(PrimeNumbers) < MaxStage, NEW k \in Stage, pc[k] = "fork"
  PROVE  k + 1 \in Stage
<1>1. IsFiniteSet(PrimeNumbers) /\ Cardinality(PrimeNumbers) \in Nat
  <2>1. IsFiniteSet(2 .. Last)
    BY FS_Interval, PrimesAssumption
  <2> QED
    BY <2>1, FS_Subset, FS_CardinalityType DEF PrimeNumbers
<1>2. Len(printed) = k /\ k \in Nat
  BY StageFacts DEF IInv, PrintInv
<1>3. \A i \in 1 .. k : i \in Stage /\ prime[i] # 0 /\ prime[i] \in PrimeNumbers
  BY <1>2, PrintedPrimes DEF IInv
<1>4. \A i, j \in 1 .. k : prime[i] = prime[j] => i = j
  <2>1. ASSUME NEW i \in 1 .. k, NEW j \in 1 .. k, i < j PROVE prime[i] # prime[j]
    <3>1. i \in 1 .. j - 1
      BY <1>2, <2>1
    <3> QED
      BY <1>3, <3>1, StagePrimes DEF IInv
  <2> QED
    BY <1>2, <2>1
<1> DEFINE F == [i \in 1 .. k |-> prime[i]]
<1>5. F \in Injection(1 .. k, PrimeNumbers)
  <2>1. F \in [1 .. k -> PrimeNumbers]
    BY <1>3
  <2>2. \A i, j \in 1 .. k : F[i] = F[j] => i = j
    BY <1>4
  <2> QED
    BY <2>1, <2>2, Fun_IsInj
<1>6. Cardinality(1 .. k) <= Cardinality(PrimeNumbers)
  BY <1>1, <1>5, FS_Injection
<1>7. Cardinality(1 .. k) = k
  BY <1>2, FS_Interval
<1> QED
  BY <1>1, <1>2, <1>6, <1>7, PrimesAssumption DEF Stage

\* Among some of the stages one is the last.
LEMMA LastStage ==
  ASSUME NEW S \in SUBSET Stage, S # {}
  PROVE  \E k \in S : \A i \in S : i <= k
<1> DEFINE T == {MaxStage - i : i \in S}
<1>1. T \in SUBSET Nat /\ T # {}
  <2>1. \A i \in S : MaxStage - i \in Nat
    BY PrimesAssumption DEF Stage
  <2>2. PICK i \in S : TRUE
    OBVIOUS
  <2>3. MaxStage - i \in T
    OBVIOUS
  <2> QED
    BY <2>1, <2>3
<1>2. PICK n \in T : \A m \in T : n <= m
  BY <1>1, LeastNatural
<1>3. PICK k \in S : n = MaxStage - k
  BY <1>2
<1>4. ASSUME NEW i \in S PROVE i <= k
  <2>1. MaxStage - k <= MaxStage - i
    BY <1>2, <1>3
  <2> QED
    BY <2>1, PrimesAssumption DEF Stage
<1> QED
  BY <1>4

\* The first stage that waits for a number would wait for one that waits for nothing; the last
\* that waits to write has a reader after it, and a stage that waits for its child has a child
\* that waits; without a child it does not wait.
LEMMA StagesGoOn ==
  ASSUME IInv, TipInv, FileInv, FlowInv,
         Cardinality(PrimeNumbers) + 5 <= NOFILE, Cardinality(PrimeNumbers) < MaxStage
  PROVE  SieveGoesOn
<1> SUFFICES ASSUME pc[0] # "exited", \A k \in Stage : ~StageGoesOn(k)
             PROVE  FALSE
  BY DEF SieveGoesOn
<1>1. \A k \in Stage : pc[k] \in {"none", "first", "read", "write", "wait", "exited"}
  <2> SUFFICES ASSUME NEW k \in Stage
               PROVE  pc[k] \in {"none", "first", "read", "write", "wait", "exited"}
    OBVIOUS
  <2>1. pc[k] # "pipe"
    <3> SUFFICES ASSUME pc[k] = "pipe" PROVE FALSE
      OBVIOUS
    <3>1. /\ Cardinality(PrimeNumbers) \in Nat /\ Cardinality(files[k]) \in Nat
          /\ Cardinality(files[k]) <= Cardinality(PrimeNumbers)
      BY DescriptorsArePrimes DEF IInv
    <3>2. 3 + Cardinality(files[k]) + 2 <= NOFILE
      BY <3>1, PrimesAssumption
    <3> QED
      BY <3>2 DEF StageGoesOn
  <2>2. pc[k] # "fork"
    BY ForkHasRoom DEF StageGoesOn
  <2> QED
    BY <2>1, <2>2 DEF IInv, TypeOK, StageGoesOn
<1>2. \A k \in Stage : pc[k] \notin {"first", "read"}
  <2> DEFINE S == {k \in Stage : pc[k] \in {"first", "read"}}
  <2> SUFFICES ASSUME S # {} PROVE FALSE
    OBVIOUS
  <2>1. S \in SUBSET Nat
    BY PrimesAssumption DEF Stage
  <2>2. PICK k \in S : \A i \in S : k <= i
    BY <2>1, LeastNatural
  <2>3. k \in Stage /\ pc[k] \in {"first", "read"} /\ k # 0
    BY DEF IInv, ControlInv
  <2>4. pipe[k - 1] = <<>> /\ Open(k - 1, "w")
    BY <2>3 DEF StageGoesOn
  <2>5. k - 1 \in Stage /\ k \in Int /\ ~(k <= k - 1)
    BY <2>3, StageFacts
  <2>6. PICK i \in Stage : Writes(i, k - 1)
    BY <2>4, <2>5 DEF Open, FileInv
  <2>7. CASE i = k
    BY <2>3, <2>5, <2>7, <2>6 DEF Writes
  <2>8. CASE i # k
    <3>1. i = k - 1 /\ pc[k - 1] \in {"fork", "closeRead", "read", "write", "closeIn", "closeOut"}
      BY <2>3, <2>6, <2>8, PredecessorFacts DEF Writes
    <3>2. pc[k - 1] = "read" \/ pc[k - 1] = "write"
      BY <1>1, <2>5, <3>1
    <3>3. pc[k - 1] # "read"
      BY <2>2, <2>5
    <3>4. Len(pipe[k - 1]) < PipeSize
      BY <2>4, PrimesAssumption
    <3> QED
      BY <2>5, <3>2, <3>3, <3>4 DEF StageGoesOn
  <2> QED
    BY <2>7, <2>8
<1>3. \A k \in Stage : pc[k] \notin {"write", "wait"}
  <2> DEFINE S == {k \in Stage : pc[k] \in {"write", "wait"}}
  <2> SUFFICES ASSUME S # {} PROVE FALSE
    OBVIOUS
  <2>1. PICK k \in S : \A i \in S : i <= k
    BY LastStage
  <2>2. k \in Stage /\ pc[k] \in {"write", "wait"} /\ k \in Int
    BY StageFacts
  <2>3. CASE pc[k] = "write"
    <3>1. PICK i \in Stage : Reads(i, k)
      BY <2>2, <2>3 DEF StageGoesOn, Open, FileInv
    <3>2. i \in Int /\ ~(i <= k) /\ pc[i] \notin {"none", "exited"}
      BY <2>2, <2>3, <3>1, StageFacts DEF Reads
    <3>3. i \in S
      BY <1>1, <1>2, <3>2
    <3> QED
      BY <2>1, <3>2, <3>3
  <2>4. CASE pc[k] = "wait"
    <3>1. k + 1 \in Stage /\ pc[k + 1] # "none"
      BY <2>2, <2>4 DEF StageGoesOn, HasChild
    <3>2. pc[k + 1] # "exited"
      BY <2>2, <2>4 DEF StageGoesOn
    <3>3. k + 1 \in S /\ ~(k + 1 <= k)
      BY <1>1, <1>2, <2>2, <3>1, <3>2
    <3> QED
      BY <2>1, <3>3
  <2> QED
    BY <2>2, <2>3, <2>4
<1>4. 0 \in Stage /\ pc[0] # "none"
  BY StageFacts DEF IInv, ControlInv
<1> QED
  BY <1>1, <1>2, <1>3, <1>4

\* As long as main() has not exited some stage can go on, whatever the pipes hold and whatever
\* calls of fork() have failed, if a process may have five files more than there are primes
\* (primes.c:8-79).
THEOREM SieveNeverStuck ==
  ASSUME Cardinality(PrimeNumbers) + 5 <= NOFILE, Cardinality(PrimeNumbers) < MaxStage
  PROVE  UtilSpec => []SieveGoesOn
<1>1. IInv /\ TipInv /\ FileInv /\ FlowInv => SieveGoesOn
  BY StagesGoOn
<1> QED
  BY <1>1, SieveCorrect, ShellRunsPrimes, PTL

\* A process of pingpong can make its next system call, or the one it is in returns.
PlayerGoesOn(p) ==
  \/ ppc[p] \notin {"none", "exited", "wait", "read"}
  \/ p = "parent" /\ ppc[p] = "wait" /\ ppc["child"] \in {"none", "exited"}
  \/ /\ ppc[p] = "read"
     /\ LET b == IF p = "child" THEN "parent_2_child" ELSE "child_2_parent"
        IN ppipe[b] \/ ~PP!Open(b, "w")

PingpongGoesOn == ppc["parent"] # "exited" => \E p \in PP!Process : PlayerGoesOn(p)

\* Parent and child never wait for each other: each byte is on its way before anybody waits for
\* it, or the one that is to write it can go on; alone the parent waits for nothing
\* (pingpong.c:20-64).
THEOREM PingpongNeverStuck == UtilSpec => []PingpongGoesOn
<1>1. PingpongInv => PingpongGoesOn
  <2> SUFFICES ASSUME PingpongInv, ppc["parent"] # "exited", \A p \in PP!Process : ~PlayerGoesOn(p)
               PROVE  FALSE
    BY DEF PingpongGoesOn
  <2>1. "parent" \in PP!Process /\ "child" \in PP!Process
    BY DEF PP!Process
  <2>2. /\ ppc["parent"] \in {"none", "wait", "read"}
        /\ ppc["child"] \in {"none", "exited", "wait", "read"}
    BY <2>1 DEF PlayerGoesOn
  <2>3. ppc["parent"] = "wait" => ppc["child"] \notin {"none", "exited"}
    BY <2>1 DEF PlayerGoesOn
  <2>4. ppc["child"] = "read" => ~ppipe["parent_2_child"]
    BY <2>1 DEF PlayerGoesOn
  <2>5. ppc["parent"] = "read" => ~ppipe["child_2_parent"] /\ PP!Open("child_2_parent", "w")
    BY <2>1 DEF PlayerGoesOn
  <2>6. CASE ppc["child"] = "none"
    <3>1. ppc["parent"] = "read" /\ pfiles["child"] = {}
      BY <2>2, <2>3, <2>6 DEF PingpongInv, Alone
    <3>2. \A p \in PP!Process : <<"child_2_parent", "w">> \notin pfiles[p]
      BY <3>1 DEF PP!Process, PingpongInv, EndsOpen
    <3> QED
      BY <2>5, <3>1, <3>2 DEF PP!Open
  <2>7. CASE ppc["child"] # "none"
    BY <2>2, <2>3, <2>4, <2>5, <2>7 DEF PingpongInv, Together
  <2> QED
    BY <2>6, <2>7
<1> QED
  BY <1>1, PingpongCorrect, PTL

\* find can go on unless it waits in printf() for room in the pipe or has exited; the running
\* process of xargs, unless it waits in read().
FindGoesOn ==
  \/ visit # 0 /\ Kind[visit] # "skip"
  \/ out # <<>> /\ Len(fpipe) < XargsBuf + 2
  \/ out = <<>> /\ visit = 0 /\ (open # <<>> \/ ~found)
XargsGoesOn == FX!Running /\ (Top.buf # <<>> \/ fpipe # <<>> \/ found)

PipelineGoesOn == FX!Done \/ overrun \/ FindGoesOn \/ XargsGoesOn

\* find does not wait for room in the pipe while xargs waits for something in it, for any size of
\* the pipe and of the buffer, and xargs does not exit before find; only an overrun of args can
\* keep them (find.c:53-65; xargs.c:23-49).
THEOREM PipelineNeverStuck == UtilSpec => []PipelineGoesOn
<1>1. PipelineInv /\ LimitInv => PipelineGoesOn
  <2> SUFFICES ASSUME PipelineInv, LimitInv, ~FX!Done, ~overrun, ~FindGoesOn PROVE XargsGoesOn
    BY DEF PipelineGoesOn
  <2>1. CASE found
    BY <2>1 DEF FX!Done, XargsGoesOn, FX!Running
  <2>2. CASE ~found
    <3>1. visit = 0 /\ out # <<>> /\ ~(Len(fpipe) < XargsBuf + 2)
      BY <2>2 DEF FindGoesOn, LimitInv, EntryInv
    <3>2. xargs # <<>>
      BY <2>2 DEF PipelineInv, StreamInv, Reading, AllRead
    <3>3. fpipe # <<>>
      BY <3>1, UtilAssumption
    <3> QED
      BY <3>2, <3>3 DEF XargsGoesOn, FX!Running
  <2> QED
    BY <2>1, <2>2
<1> QED
  BY <1>1, PipelineCorrect, LimitsKept, PTL
=============================================================================
