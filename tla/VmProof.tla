------------------------------ MODULE VmProof ------------------------------
(* Theorems about Vm, for any number of processes and any memory size.     *)
EXTENDS Vm, FiniteSetTheorems, WellFoundedInduction, TLAPS

\* Process p is making the image of process q.
Forks(p, q) == p # q /\ pc[p] # "idle" /\ ref[p] = <<q, "image">>

Image(q)    == table[<<q, "image">>]
NewImage(q) == table[<<q, "exec">>]

\* What the proof needs of TypeOK.
ShapeInv ==
  /\ state \in [Proc -> {"UNUSED", "USED", "live", "ZOMBIE"}]
  /\ trapframe \in [Proc -> BOOLEAN]
  /\ table = [s \in Ref |-> table[s]]
  /\ sz = [p \in Proc |-> sz[p]]
  /\ pc \in [Proc -> Label]
  /\ ref \in [Proc -> Ref]

\* Only a live process is in the kernel, and the table it works on is its own image in
\* sbrk(), its new image in exec(), and the image of a USED slot in fork().
KernelInv ==
  \A p \in Proc :
    /\ pc[p] # "idle" => state[p] = "live"
    /\ pc[p] \in {"idle", "sbrk"} => ref[p] = <<p, "image">>
    /\ pc[p] \in ExecLabel => ref[p] = <<p, "exec">>
    /\ pc[p] \in {"create", "fixed", "usyscall", "copy", "panic"} =>
         IF Forking(p) THEN state[Child(p)] = "USED" ELSE ref[p] = <<p, "exec">>
    /\ pc[p] = "copy" => Forking(p)

\* An unused slot holds no memory, and there is no new image outside exec().
HoldInv ==
  \A q \in Proc :
    /\ state[q] = "UNUSED" => ~trapframe[q] /\ Image(q) = Null
    /\ state[q] \in {"UNUSED", "USED"} => sz[q] = 0
    /\ ref[q] # <<q, "exec">> => NewImage(q) = Null

\* One fork() makes a USED slot.
ForkInv ==
  /\ \A q \in Proc : state[q] = "USED" => \E p \in Proc : Forks(p, q)
  /\ \A q, p, o \in Proc : Forks(p, q) /\ Forks(o, q) => p = o

IInv == ShapeInv /\ KernelInv /\ HoldInv /\ ForkInv

\* A reference is of one process and of one kind.
LEMMA RefFacts ==
  /\ \A p \in Proc : <<p, "image">> \in Ref /\ <<p, "exec">> \in Ref
  /\ \A s \in Ref : /\ s[1] \in Proc
                    /\ s = <<s[1], "image">> \/ s = <<s[1], "exec">>
                    /\ s[2] = "image" <=> s = <<s[1], "image">>
  /\ \A p, q \in Proc : /\ <<p, "image">> # <<q, "exec">>
                        /\ <<p, "image">> = <<q, "image">> => p = q
                        /\ <<p, "exec">> = <<q, "exec">> => p = q
  BY DEF Ref

\* The invariant holds when userinit() is over.
LEMMA VmInit == Init => IInv
<1> SUFFICES ASSUME Init PROVE IInv
  OBVIOUS
<1> USE VmAssumption, RefFacts DEF Init
<1>1. ShapeInv
  BY DEF ShapeInv, Label
<1>2. KernelInv
  BY DEF KernelInv, ExecLabel, Forking, Child
<1>3. HoldInv /\ ForkInv
  BY DEF HoldInv, ForkInv, Forks, Image, NewImage
<1> QED
  BY <1>1, <1>2, <1>3 DEF IInv

\* The process and the kind of the table that is worked on.
LEMMA RefParts ==
  ASSUME ShapeInv, NEW p \in Proc
  PROVE  /\ ref[p] \in Ref /\ Child(p) \in Proc
         /\ Forking(p) <=> ref[p] = <<Child(p), "image">>
         /\ ~Forking(p) <=> ref[p] = <<Child(p), "exec">>
  BY DEF ShapeInv, Ref, Forking, Child

\* fork() works on a USED slot, and not for exec().
LEMMA ForksUsed ==
  ASSUME KernelInv, ShapeInv, NEW p \in Proc, NEW q \in Proc, Forks(p, q)
  PROVE  state[q] = "USED" /\ ref[p] # <<p, "exec">>
<1>1. ref[p][1] = q /\ ref[p][2] = "image" /\ ref[p] # <<p, "exec">> /\ ref[p] # <<p, "image">>
  BY RefFacts DEF Forks
<1>2. pc[p] \in {"create", "fixed", "usyscall", "copy", "panic"}
  BY <1>1 DEF Forks, KernelInv, ShapeInv, Label, GrowLabel, ExecLabel
<1> QED
  BY <1>1, <1>2 DEF KernelInv, Forking, Child

-----------------------------------------------------------------------------
(* What a step of process p does to the slots.                             *)

\* p's step leaves the other processes where they are.
Others(p) ==
  \A q \in Proc \ {p} : pc'[q] = pc[q] /\ ref'[q] = ref[q] /\ NewImage(q)' = NewImage(q)

\* p is in the kernel afterwards, and nobody's memory begins or ends.
Goes(p) ==
  /\ Others(p) /\ UNCHANGED <<state, trapframe, sz>>
  /\ \A q \in Proc : Forks(p, q)' <=> Forks(p, q)
  /\ \A q \in Proc : state[q] = "UNUSED" => Image(q)' = Image(q)
  /\ ref'[p] # <<p, "exec">> => ref[p] # <<p, "exec">> /\ NewImage(p)' = NewImage(p)

\* p returns from a call other than fork().
Leaves(p) ==
  /\ Others(p) /\ UNCHANGED <<state, trapframe>>
  /\ state[p] = "live"
  /\ \A q \in Proc : ~Forks(p, q) /\ ~Forks(p, q)'
  /\ \A q \in Proc \ {p} : Image(q)' = Image(q) /\ sz'[q] = sz[q]
  /\ NewImage(p)' = Null

\* fork() of p takes slot c.
Begins(p, c) ==
  /\ Others(p) /\ UNCHANGED <<table, sz>>
  /\ state[c] = "UNUSED" /\ state' = [state EXCEPT ![c] = "USED"]
  /\ \A q \in Proc \ {c} : trapframe'[q] = trapframe[q]
  /\ \A q \in Proc : ~Forks(p, q) /\ (Forks(p, q)' <=> q = c)
  /\ ref[p] # <<p, "exec">>

\* fork() of p returns, with or without the child in slot c.
Ends(p, c) ==
  /\ Others(p)
  /\ state[c] = "USED" /\ state' = [state EXCEPT ![c] = state'[c]]
  /\ \A q \in Proc \ {c} : trapframe'[q] = trapframe[q] /\ sz'[q] = sz[q] /\ Image(q)' = Image(q)
  /\ \A q \in Proc : ~Forks(p, q)' /\ (Forks(p, q) <=> q = c)
  /\ ref[p] # <<p, "exec">> /\ NewImage(p)' = NewImage(p)
  /\ \/ state'[c] = "live"
     \/ state'[c] = "UNUSED" /\ ~trapframe'[c] /\ Image(c)' = Null /\ sz'[c] = 0

\* exit() of p, or the end of zombie p.
Dies(p) ==
  /\ UNCHANGED <<pc, ref>>
  /\ \A q \in Proc \ {p} : /\ state'[q] = state[q] /\ trapframe'[q] = trapframe[q]
                           /\ sz'[q] = sz[q] /\ Image(q)' = Image(q)
  /\ \A q \in Proc : NewImage(q)' = NewImage(q)
  /\ state[p] # "USED"
  /\ \/ state'[p] = "ZOMBIE"
     \/ state'[p] = "UNUSED" /\ ~trapframe'[p] /\ Image(p)' = Null /\ sz'[p] = 0

\* A step changes one table.
LEMMA TableAt ==
  ASSUME ShapeInv, NEW s \in Ref, NEW v, table' = [table EXCEPT ![s] = v]
  PROVE  table'[s] = v /\ \A x \in Ref \ {s} : table'[x] = table[x]
  BY DEF ShapeInv

\* The table a process works on is its own or its child's.
LEMMA WorkFacts ==
  ASSUME ShapeInv, KernelInv, HoldInv, NEW p \in Proc, pc[p] # "idle"
  PROVE  /\ state[p] = "live" /\ ref[p] \in Ref
         /\ ref[p] = <<p, "exec">> \/ ref[p] = <<p, "image">> \/ \E c \in Proc : Forks(p, c)
         /\ \A q \in Proc : state[q] = "UNUSED" => ref[p] # <<q, "image">>
         /\ \A q \in Proc \ {p} : ref[p] # <<q, "exec">>
<1>1. state[p] = "live" /\ ref[p] \in Ref
  BY DEF KernelInv, ShapeInv
<1>2. CASE pc[p] = "sbrk"
  BY <1>1, <1>2, RefFacts DEF KernelInv
<1>3. CASE pc[p] \in ExecLabel
  BY <1>1, <1>3, RefFacts DEF KernelInv
<1>4. CASE pc[p] \in {"create", "fixed", "usyscall", "copy", "panic"}
  <2>1. CASE Forking(p)
    <3>1. ref[p] = <<Child(p), "image">> /\ Child(p) \in Proc /\ state[Child(p)] = "USED"
      BY <1>1, <1>4, <2>1, RefParts DEF KernelInv
    <3>2. p # Child(p)
      BY <1>1, <3>1
    <3>3. Forks(p, Child(p))
      BY <3>1, <3>2 DEF Forks
    <3> QED
      BY <1>1, <3>1, <3>3, RefFacts
  <2>2. CASE ~Forking(p)
    BY <1>1, <1>4, <2>2, RefFacts DEF KernelInv
  <2> QED
    BY <2>1, <2>2
<1> QED
  BY <1>2, <1>3, <1>4 DEF ShapeInv, Label, GrowLabel, ExecLabel

\* A step inside a call touches the one table.
LEMMA EffectGoes ==
  ASSUME ShapeInv, KernelInv, HoldInv, NEW p \in Proc, pc[p] # "idle", pc'[p] # "idle",
         ref' = ref, UNCHANGED <<state, trapframe, sz>>,
         \A q \in Proc \ {p} : pc'[q] = pc[q],
         \A x \in Ref \ {ref[p]} : table'[x] = table[x]
  PROVE  Goes(p)
<1>1. \A q \in Proc : Forks(p, q)' <=> Forks(p, q)
  BY DEF Forks
<1>2. \A q \in Proc : state[q] = "UNUSED" => Image(q)' = Image(q)
  BY ZenonT(60), WorkFacts, RefFacts DEF Image
<1>3. \A q \in Proc : ref[p] # <<q, "exec">> => NewImage(q)' = NewImage(q)
  BY RefFacts DEF NewImage
<1>4. \A q \in Proc \ {p} : NewImage(q)' = NewImage(q)
  BY <1>3, WorkFacts
<1> QED
  BY <1>1, <1>2, <1>3, <1>4 DEF Goes, Others

\* A failed allocproc() gives up the slot, or the table exec() was to have.
LEMMA EffectReturnsZero ==
  ASSUME ShapeInv, KernelInv, HoldInv, NEW p \in Proc, NEW n, ReturnsZero(p, n),
         pc[p] \in {"create", "fixed", "copy"}
  PROVE  Leaves(p) \/ \E c \in Proc : Ends(p, c)
<1>1. /\ \A q \in Proc \ {p} : pc'[q] = pc[q] /\ ref'[q] = ref[q]
      /\ pc'[p] = "idle" /\ ref'[p] = <<p, "image">> /\ sz' = sz
  BY DEF ReturnsZero, Leave, Enter, ShapeInv
<1>2. state[p] = "live" /\ ref[p] \in Ref
  BY DEF KernelInv, ShapeInv
<1>3. table'[ref[p]] = Null /\ \A x \in Ref \ {ref[p]} : table'[x] = table[x]
  BY <1>2, TableAt DEF ReturnsZero
<1>4. \A q \in Proc : ~Forks(p, q)'
  BY <1>1 DEF Forks
<1>5. CASE Forking(p)
  <2>1. PICK c \in Proc : c = Child(p)
    BY RefParts
  <2>2. ref[p] = <<c, "image">> /\ state[c] = "USED"
    BY <1>2, <1>5, <2>1, RefParts DEF KernelInv
  <2>3. state' = [state EXCEPT ![c] = "UNUSED"] /\ trapframe' = [trapframe EXCEPT ![c] = FALSE]
    BY <1>5, <2>1 DEF ReturnsZero
  <2>4. \A q \in Proc : Forks(p, q) <=> q = c
    BY <1>2, <2>2, RefFacts DEF Forks
  <2>5. /\ \A q \in Proc : NewImage(q)' = NewImage(q)
        /\ \A q \in Proc \ {c} : Image(q)' = Image(q)
        /\ Image(c)' = Null
    <3>1. \A q \in Proc : <<q, "exec">> \in Ref \ {ref[p]}
      BY <2>2 DEF Ref
    <3>2. \A q \in Proc \ {c} : <<q, "image">> \in Ref \ {ref[p]}
      BY <2>2 DEF Ref
    <3>3. \A q \in Proc : table'[<<q, "exec">>] = table[<<q, "exec">>]
      BY <1>3, <3>1
    <3>4. \A q \in Proc \ {c} : table'[<<q, "image">>] = table[<<q, "image">>]
      BY <1>3, <3>2
    <3>5. table'[<<c, "image">>] = Null
      BY <1>3, <2>2
    <3> QED
      BY <3>3, <3>4, <3>5 DEF Image, NewImage
  <2>6. sz[c] = 0 /\ ref[p] # <<p, "exec">>
    BY <2>2, RefFacts DEF HoldInv
  <2>7. /\ \A q \in Proc \ {c} : trapframe'[q] = trapframe[q]
        /\ ~trapframe'[c]
        /\ state'[c] = "UNUSED" /\ state' = [state EXCEPT ![c] = state'[c]]
    BY <2>3 DEF ShapeInv
  <2>8. Ends(p, c)
    BY <1>1, <1>4, <2>2, <2>4, <2>5, <2>6, <2>7 DEF Ends, Others
  <2> QED
    BY <2>8
<1>6. CASE ~Forking(p)
  <2>1. ref[p] = <<p, "exec">>
    BY <1>6 DEF KernelInv
  <2>2. UNCHANGED <<state, trapframe>>
    BY <1>6 DEF ReturnsZero
  <2>3. /\ \A q \in Proc : Image(q)' = Image(q)
        /\ \A q \in Proc \ {p} : NewImage(q)' = NewImage(q)
        /\ NewImage(p)' = Null
    <3>1. \A q \in Proc : <<q, "image">> \in Ref \ {ref[p]}
      BY <2>1, RefFacts
    <3>2. \A q \in Proc \ {p} : <<q, "exec">> \in Ref \ {ref[p]}
      BY <2>1 DEF Ref
    <3>3. \A q \in Proc : table'[<<q, "image">>] = table[<<q, "image">>]
      BY <1>3, <3>1
    <3>4. \A q \in Proc \ {p} : table'[<<q, "exec">>] = table[<<q, "exec">>]
      BY <1>3, <3>2
    <3>5. table'[<<p, "exec">>] = Null
      BY <1>3, <2>1
    <3> QED
      BY <3>3, <3>4, <3>5 DEF Image, NewImage
  <2>4. \A q \in Proc : ~Forks(p, q)
    BY <2>1, RefFacts DEF Forks
  <2> QED
    BY <1>1, <1>2, <1>4, <2>2, <2>3, <2>4 DEF Leaves, Others
<1> QED
  BY <1>5, <1>6

\* A call that was not fork() and worked on table s, p's own, returns.
LEMMA EffectLeaves ==
  ASSUME ShapeInv, KernelInv, HoldInv, NEW p \in Proc, NEW s \in {<<p, "image">>, <<p, "exec">>},
         state[p] = "live", ref[p] = s, pc'[p] = "idle", ref'[p] = <<p, "image">>,
         \A q \in Proc \ {p} : pc'[q] = pc[q] /\ ref'[q] = ref[q] /\ sz'[q] = sz[q],
         UNCHANGED <<state, trapframe>>,
         \A x \in Ref \ {<<p, "image">>, <<p, "exec">>} : table'[x] = table[x],
         IF s = <<p, "exec">> THEN NewImage(p)' = Null ELSE NewImage(p)' = NewImage(p)
  PROVE  Leaves(p)
<1>1. \A q \in Proc : ~Forks(p, q) /\ ~Forks(p, q)'
  BY RefFacts DEF Forks
<1>2. \A q \in Proc \ {p} : Image(q)' = Image(q) /\ NewImage(q)' = NewImage(q)
  BY RefFacts DEF Image, NewImage
<1>3. NewImage(p)' = Null
  BY RefFacts DEF HoldInv
<1> QED
  BY <1>1, <1>2, <1>3 DEF Leaves, Others

\* The steps as far as they matter for who holds what.
LEMMA Effects ==
  ASSUME IInv, Next
  PROVE  \E p \in Proc : \/ Goes(p) \/ Leaves(p) \/ Dies(p)
                        \/ \E c \in Proc : Begins(p, c) \/ Ends(p, c)
<1> DEFINE Effect == \E p \in Proc : \/ Goes(p) \/ Leaves(p) \/ Dies(p)
                                     \/ \E c \in Proc : Begins(p, c) \/ Ends(p, c)
<1> USE DEF IInv
<1>1. ASSUME NEW p \in Proc, NEW n \in SbrkArgs, SbrkGrow(p, n) PROVE Effect
  BY <1>1, RefFacts DEF SbrkGrow, Uvmalloc, Enter, Goes, proc, locals, Others, Image, NewImage,
     Forks, ShapeInv, KernelInv
<1>2. ASSUME NEW p \in Proc, NEW n \in SbrkArgs, SbrkShrink(p, n) PROVE Effect
  <2>1. <<p, "image">> \in Ref /\ ref[p] = <<p, "image">>
    BY <1>2, RefFacts DEF SbrkShrink, KernelInv
  <2>2. /\ pc'[p] = "idle" /\ ref'[p] = <<p, "image">> /\ state[p] = "live"
        /\ UNCHANGED <<state, trapframe>>
        /\ \A q \in Proc \ {p} : pc'[q] = pc[q] /\ ref'[q] = ref[q] /\ sz'[q] = sz[q]
    BY <1>2 DEF SbrkShrink, locals, Leave, Enter, proc, ShapeInv, KernelInv, ExecLabel
  <2>3. \A x \in Ref \ {<<p, "image">>} : table'[x] = table[x]
    BY <1>2 DEF SbrkShrink, ShapeInv
  <2>4. NewImage(p)' = NewImage(p)
    BY <2>3, RefFacts DEF NewImage
  <2> QED
    BY <2>1, <2>2, <2>3, <2>4, EffectLeaves
<1>3. ASSUME NEW p \in Proc, NEW np \in Proc, Fork(p, np) PROVE Effect
  <2>1. /\ state[np] = "UNUSED" /\ state' = [state EXCEPT ![np] = "USED"]
        /\ ref[p] = <<p, "image">> /\ ref'[p] = <<np, "image">> /\ pc'[p] # "idle"
        /\ state[p] = "live" /\ pc[p] = "idle" /\ UNCHANGED <<table, sz>>
        /\ \A q \in Proc \ {p} : pc'[q] = pc[q] /\ ref'[q] = ref[q]
        /\ \A q \in Proc \ {np} : trapframe'[q] = trapframe[q]
    BY <1>3 DEF Fork, Enter, ShapeInv, KernelInv
  <2>2. \A q \in Proc : ~Forks(p, q) /\ (Forks(p, q)' <=> q = np)
    BY <2>1, RefFacts DEF Forks
  <2>3. Begins(p, np)
    BY <2>1, <2>2, RefFacts DEF Begins, Others, NewImage
  <2> QED
    BY <2>3
<1>4. ASSUME NEW p \in Proc, Exec(p) PROVE Effect
  BY SMTT(60), <1>4, RefFacts DEF Exec, Enter, Goes, proc, locals, Others, Image, NewImage, Forks,
     ShapeInv, KernelInv
<1>5. ASSUME NEW p \in Proc, Exit(p) PROVE Effect
  <2>1. Dies(p)
    BY <1>5 DEF Exit, Dies, ShapeInv, locals, Image, NewImage
  <2> QED
    BY <2>1
<1>6. ASSUME NEW p \in Proc, UvmallocPage(p) PROVE Effect
  <2>1. /\ pc[p] # "idle" /\ pc'[p] # "idle" /\ ref' = ref /\ UNCHANGED <<state, trapframe, sz>>
        /\ \A q \in Proc \ {p} : pc'[q] = pc[q]
    BY <1>6 DEF UvmallocPage, proc, locals, ShapeInv, GrowLabel
  <2>2. \A x \in Ref \ {ref[p]} : table'[x] = table[x]
    BY <1>6 DEF UvmallocPage, ShapeInv
  <2> QED
    BY <2>1, <2>2, EffectGoes
<1>7. ASSUME NEW p \in Proc, UvmallocFails(p) PROVE Effect
  <2>1. /\ pc[p] \in GrowLabel /\ ref[p] \in Ref
        /\ \A x \in Ref \ {ref[p]} : table'[x] = table[x]
    BY <1>7 DEF UvmallocFails, ShapeInv, Work
  <2>2. CASE pc[p] = "sbrk"
    <3>1. ref[p] = <<p, "image">> /\ state[p] = "live"
      BY <2>2 DEF KernelInv
    <3>2. /\ pc'[p] = "idle" /\ ref'[p] = <<p, "image">>
          /\ UNCHANGED <<state, trapframe>>
          /\ \A q \in Proc \ {p} : pc'[q] = pc[q] /\ ref'[q] = ref[q] /\ sz'[q] = sz[q]
      BY <1>7, <2>2 DEF UvmallocFails, Leave, Enter, proc, ShapeInv
    <3>3. NewImage(p)' = NewImage(p)
      BY <2>1, <3>1, RefFacts DEF NewImage
    <3> QED
      BY <2>1, <3>1, <3>2, <3>3, EffectLeaves
  <2>3. CASE pc[p] # "sbrk"
    <3>1. /\ pc[p] # "idle" /\ pc'[p] # "idle" /\ ref' = ref /\ UNCHANGED <<state, trapframe, sz>>
          /\ \A q \in Proc \ {p} : pc'[q] = pc[q]
      BY <1>7, <2>3 DEF UvmallocFails, Enter, proc, locals, ShapeInv, GrowLabel
    <3> QED
      BY <2>1, <3>1, EffectGoes
  <2> QED
    BY <2>2, <2>3
<1>8. ASSUME NEW p \in Proc, SbrkGrown(p) PROVE Effect
  <2>1. ref[p] = <<p, "image">>
    BY <1>8 DEF SbrkGrown, KernelInv
  <2>2. /\ pc'[p] = "idle" /\ ref'[p] = <<p, "image">> /\ state[p] = "live"
        /\ UNCHANGED <<state, trapframe>>
        /\ \A q \in Proc \ {p} : pc'[q] = pc[q] /\ ref'[q] = ref[q] /\ sz'[q] = sz[q]
    BY <1>8 DEF SbrkGrown, Leave, Enter, proc, ShapeInv, KernelInv, ExecLabel
  <2>3. UNCHANGED table
    BY <1>8 DEF SbrkGrown
  <2>4. NewImage(p)' = NewImage(p)
    BY <2>3 DEF NewImage
  <2> QED
    BY <2>1, <2>2, <2>3, <2>4, EffectLeaves
<1>9. ASSUME NEW p \in Proc, Uvmcreate(p) PROVE Effect
  <2>1. CASE \E m \in Nat : ReturnsZero(p, m)
    BY <1>9, <2>1, EffectReturnsZero DEF Uvmcreate
  <2>2. CASE ~\E m \in Nat : ReturnsZero(p, m)
    <3>1. /\ pc[p] # "idle" /\ pc'[p] # "idle" /\ ref' = ref /\ UNCHANGED <<state, trapframe, sz>>
          /\ \A q \in Proc \ {p} : pc'[q] = pc[q]
      BY <1>9, <2>2 DEF Uvmcreate, Enter, proc, locals, ShapeInv
    <3>2. \A x \in Ref \ {ref[p]} : table'[x] = table[x]
      BY <1>9, <2>2 DEF Uvmcreate, ShapeInv
    <3> QED
      BY <3>1, <3>2, EffectGoes
  <2> QED
    BY <2>1, <2>2
<1>10. ASSUME NEW p \in Proc, MapFixed(p) PROVE Effect
  <2>1. CASE \E m \in Nat : ReturnsZero(p, m)
    BY <1>10, <2>1, EffectReturnsZero DEF MapFixed
  <2>2. CASE ~\E m \in Nat : ReturnsZero(p, m)
    <3>1. /\ pc[p] # "idle" /\ pc'[p] # "idle" /\ ref' = ref /\ UNCHANGED <<state, trapframe, sz>>
          /\ \A q \in Proc \ {p} : pc'[q] = pc[q]
      BY <1>10, <2>2 DEF MapFixed, Enter, proc, locals, ShapeInv
    <3>2. \A x \in Ref \ {ref[p]} : table'[x] = table[x]
      BY <1>10, <2>2 DEF MapFixed, ShapeInv
    <3> QED
      BY <3>1, <3>2, EffectGoes
  <2> QED
    BY <2>1, <2>2
<1>11. ASSUME NEW p \in Proc, MapUsyscall(p) PROVE Effect
  <2>1. /\ pc[p] # "idle" /\ pc'[p] # "idle" /\ ref' = ref /\ UNCHANGED <<state, trapframe, sz>>
        /\ \A q \in Proc \ {p} : pc'[q] = pc[q]
    BY <1>11 DEF MapUsyscall, Enter, proc, locals, ShapeInv, GrowLabel
  <2>2. \A x \in Ref \ {ref[p]} : table'[x] = table[x]
    BY <1>11 DEF MapUsyscall, ShapeInv
  <2> QED
    BY <2>1, <2>2, EffectGoes
<1>12. ASSUME NEW p \in Proc, UsyscallNoMem(p) PROVE Effect
  <2>1. /\ pc[p] # "idle" /\ pc'[p] # "idle" /\ ref' = ref /\ UNCHANGED <<state, trapframe, sz>>
        /\ \A q \in Proc \ {p} : pc'[q] = pc[q]
    BY <1>12 DEF UsyscallNoMem, Enter, proc, locals, ShapeInv, GrowLabel
  <2>2. \A x \in Ref \ {ref[p]} : table'[x] = table[x]
    BY <1>12 DEF UsyscallNoMem, ShapeInv
  <2> QED
    BY <2>1, <2>2, EffectGoes
<1>13. ASSUME NEW p \in Proc, CopyPage(p) PROVE Effect
  <2>1. /\ pc[p] # "idle" /\ pc'[p] # "idle" /\ ref' = ref /\ UNCHANGED <<state, trapframe, sz>>
        /\ \A q \in Proc \ {p} : pc'[q] = pc[q]
    BY <1>13 DEF CopyPage, proc, locals, ShapeInv, GrowLabel
  <2>2. \A x \in Ref \ {ref[p]} : table'[x] = table[x]
    BY <1>13 DEF CopyPage, ShapeInv
  <2> QED
    BY <2>1, <2>2, EffectGoes
<1>14. ASSUME NEW p \in Proc, CopyFails(p) PROVE Effect
  BY <1>14, EffectReturnsZero DEF CopyFails
<1>15. ASSUME NEW p \in Proc, ForkDone(p) PROVE Effect
  <2>1. PICK c \in Proc : c = Child(p)
    BY RefParts
  <2>2. ref[p] = <<c, "image">> /\ state[c] = "USED" /\ state[p] = "live"
    BY <1>15, <2>1, RefParts DEF ForkDone, KernelInv
  <2>3. /\ pc[p] # "idle" /\ pc'[p] = "idle" /\ ref'[p] = <<p, "image">> /\ UNCHANGED <<trapframe, table>>
        /\ \A q \in Proc \ {p} : pc'[q] = pc[q] /\ ref'[q] = ref[q]
    BY <1>15 DEF ForkDone, Leave, Enter, ShapeInv
  <2>4. state'[c] = "live" /\ state' = [state EXCEPT ![c] = state'[c]]
    BY <1>15, <2>1 DEF ForkDone, ShapeInv
  <2>5. \A q \in Proc \ {c} : sz'[q] = sz[q]
    BY <1>15, <2>1 DEF ForkDone, ShapeInv
  <2>6. \A q \in Proc : ~Forks(p, q)' /\ (Forks(p, q) <=> q = c)
    BY <2>2, <2>3, RefFacts DEF Forks
  <2>7. ref[p] # <<p, "exec">>
    BY <2>2, RefFacts
  <2>8. Ends(p, c)
    BY <2>2, <2>3, <2>4, <2>5, <2>6, <2>7 DEF Ends, Others, Image, NewImage
  <2> QED
    BY <2>8
<1>16. ASSUME NEW p \in Proc, NEW s \in SegEnds, ExecSegment(p, s) PROVE Effect
  BY ZenonT(60), <1>16, RefFacts DEF ExecSegment, Uvmalloc, Enter, Goes, proc, locals, Others, Image,
     NewImage, Forks, ShapeInv, KernelInv
<1>17. ASSUME NEW p \in Proc, ExecSegmentDone(p) PROVE Effect
  BY <1>17, RefFacts DEF ExecSegmentDone, Enter, Goes, proc, locals, Others, Image, NewImage,
     Forks, ShapeInv, KernelInv
<1>18. ASSUME NEW p \in Proc, ExecStack(p) PROVE Effect
  BY ZenonT(60), <1>18, RefFacts DEF ExecStack, Uvmalloc, Enter, Goes, proc, locals, Others, Image,
     NewImage, Forks, ShapeInv, KernelInv
<1>19. ASSUME NEW p \in Proc, ExecStackDone(p) PROVE Effect
  <2>1. /\ pc[p] # "idle" /\ pc'[p] # "idle" /\ ref' = ref /\ UNCHANGED <<state, trapframe, sz>>
        /\ \A q \in Proc \ {p} : pc'[q] = pc[q]
    BY <1>19 DEF ExecStackDone, Enter, proc, locals, ShapeInv, GrowLabel
  <2>2. \A x \in Ref \ {ref[p]} : table'[x] = table[x]
    BY <1>19 DEF ExecStackDone, ShapeInv
  <2> QED
    BY <2>1, <2>2, EffectGoes
<1>20. ASSUME NEW p \in Proc, ExecBad(p) PROVE Effect
  <2>1. ref[p] = <<p, "exec">> /\ ref[p] \in Ref
    BY <1>20, RefParts DEF ExecBad, KernelInv, ExecLabel
  <2>2. /\ pc'[p] = "idle" /\ ref'[p] = <<p, "image">> /\ state[p] = "live"
        /\ UNCHANGED <<state, trapframe>>
        /\ \A q \in Proc \ {p} : pc'[q] = pc[q] /\ ref'[q] = ref[q] /\ sz'[q] = sz[q]
    BY <1>20 DEF ExecBad, Leave, Enter, proc, ShapeInv, KernelInv, ExecLabel
  <2>3. table'[ref[p]] = Null /\ \A x \in Ref \ {ref[p]} : table'[x] = table[x]
    BY <1>20, <2>1, TableAt DEF ExecBad
  <2>4. NewImage(p)' = Null
    BY <2>1, <2>3 DEF NewImage
  <2> QED
    BY <2>1, <2>2, <2>3, <2>4, EffectLeaves
<1>21. ASSUME NEW p \in Proc, ExecCommit(p) PROVE Effect
  <2>1. ref[p] = <<p, "exec">> /\ ref[p] \in Ref
    BY <1>21, RefParts DEF ExecCommit, KernelInv, ExecLabel
  <2>2. /\ pc'[p] = "idle" /\ ref'[p] = <<p, "image">> /\ state[p] = "live"
        /\ UNCHANGED <<state, trapframe>>
        /\ \A q \in Proc \ {p} : pc'[q] = pc[q] /\ ref'[q] = ref[q] /\ sz'[q] = sz[q]
    BY <1>21 DEF ExecCommit, Leave, Enter, proc, ShapeInv, KernelInv, ExecLabel
  <2>3. /\ table'[<<p, "exec">>] = Null
        /\ \A x \in Ref \ {<<p, "image">>, <<p, "exec">>} : table'[x] = table[x]
    BY <1>21, <2>1 DEF ExecCommit, ShapeInv
  <2>4. NewImage(p)' = Null
    BY <2>3 DEF NewImage
  <2> QED
    BY <2>1, <2>2, <2>3, <2>4, EffectLeaves
<1>22. ASSUME NEW p \in Proc, freeproc(p) PROVE Effect
  <2>1. /\ UNCHANGED <<pc, ref>> /\ state[p] = "ZOMBIE"
        /\ state'[p] = "UNUSED" /\ ~trapframe'[p] /\ sz'[p] = 0
        /\ \A q \in Proc \ {p} : /\ state'[q] = state[q] /\ trapframe'[q] = trapframe[q]
                                 /\ sz'[q] = sz[q]
    BY <1>22 DEF freeproc, locals, ShapeInv
  <2>2. /\ table'[<<p, "image">>] = Null
        /\ \A x \in Ref \ {<<p, "image">>} : table'[x] = table[x]
    BY <1>22, TableAt, RefFacts DEF freeproc
  <2>3. /\ Image(p)' = Null /\ \A q \in Proc \ {p} : Image(q)' = Image(q)
        /\ \A q \in Proc : NewImage(q)' = NewImage(q)
    BY <2>2, RefFacts DEF Image, NewImage
  <2>4. Dies(p)
    BY <2>1, <2>3 DEF Dies
  <2> QED
    BY <2>4
<1> QED
  BY <1>1, <1>2, <1>3, <1>4, <1>5, <1>6, <1>7, <1>8, <1>9, <1>10, <1>11, <1>12, <1>13, <1>14,
     <1>15, <1>16, <1>17, <1>18, <1>19, <1>20, <1>21, <1>22 DEF Next, Call, KernelStep

\* Every step keeps unused slots empty.
LEMMA HoldStep == IInv /\ [Next]_vars => HoldInv'
<1> SUFFICES ASSUME IInv, [Next]_vars PROVE HoldInv'
  OBVIOUS
<1> USE DEF IInv, HoldInv
<1>1. CASE UNCHANGED vars
  BY <1>1 DEF vars, proc, locals, Image, NewImage
<1>2. ASSUME NEW p \in Proc, Goes(p) PROVE HoldInv'
  BY <1>2 DEF Goes, Others
<1>3. ASSUME NEW p \in Proc, Leaves(p) PROVE HoldInv'
  BY <1>3 DEF Leaves, Others
<1>4. ASSUME NEW p \in Proc, Dies(p) PROVE HoldInv'
  BY <1>4 DEF Dies
<1>5. ASSUME NEW p \in Proc, NEW c \in Proc, Begins(p, c) PROVE HoldInv'
  BY ZenonT(60), <1>5 DEF Begins, Others, ShapeInv, Image, NewImage
<1>6. ASSUME NEW p \in Proc, NEW c \in Proc, Ends(p, c) PROVE HoldInv'
  BY <1>6 DEF Ends, Others, ShapeInv
<1> QED
  BY <1>1, <1>2, <1>3, <1>4, <1>5, <1>6, Effects

\* Every step keeps a USED slot with one fork().
LEMMA ForkStep == IInv /\ [Next]_vars => ForkInv'
<1> SUFFICES ASSUME IInv, [Next]_vars PROVE ForkInv'
  OBVIOUS
<1> USE DEF IInv, ForkInv
<1>0. ASSUME NEW p \in Proc, NEW o \in Proc, NEW q \in Proc, pc'[o] = pc[o], ref'[o] = ref[o]
      PROVE  Forks(o, q)' <=> Forks(o, q)
  BY <1>0 DEF Forks
<1>1. CASE UNCHANGED vars
  BY <1>1 DEF vars, proc, locals, Forks
<1>2. ASSUME NEW p \in Proc, Goes(p) PROVE ForkInv'
  BY <1>0, <1>2 DEF Goes, Others
<1>3. ASSUME NEW p \in Proc, Leaves(p) PROVE ForkInv'
  BY <1>0, <1>3 DEF Leaves, Others
<1>4. ASSUME NEW p \in Proc, Dies(p) PROVE ForkInv'
  BY <1>0, <1>4 DEF Dies
<1>5. ASSUME NEW p \in Proc, NEW c \in Proc, Begins(p, c) PROVE ForkInv'
  <2>1. \A o \in Proc : ~Forks(o, c)
    BY <1>5, ForksUsed DEF Begins
  <2> QED
    BY <1>0, <1>5, <2>1 DEF Begins, Others, ShapeInv
<1>6. ASSUME NEW p \in Proc, NEW c \in Proc, Ends(p, c) PROVE ForkInv'
  <2>1. \A o \in Proc \ {p}, q \in Proc : Forks(o, q)' <=> Forks(o, q)
    BY <1>0, <1>6 DEF Ends, Others
  <2>2. \A q \in Proc : ~Forks(p, q)' /\ (Forks(p, q) <=> q = c)
    BY <1>6 DEF Ends
  <2>3. \A q \in Proc : state'[q] = "USED" => q # c /\ state[q] = "USED"
    BY <1>6 DEF Ends, ShapeInv
  <2>4. \A q \in Proc : state'[q] = "USED" => \E o \in Proc : Forks(o, q)'
    BY <2>1, <2>2, <2>3
  <2>5. \A q, o, x \in Proc : Forks(o, q)' /\ Forks(x, q)' => o = x
    BY <2>1, <2>2
  <2> QED
    BY <2>4, <2>5
<1> QED
  BY <1>1, <1>2, <1>3, <1>4, <1>5, <1>6, Effects

\* The failures of allocproc() keep the types.
LEMMA ReturnsShape ==
  ASSUME ShapeInv, NEW p \in Proc, NEW n, ReturnsZero(p, n)
  PROVE  ShapeInv'
<1>1. table' = [s \in Ref |-> table'[s]]
  BY DEF ReturnsZero, ShapeInv
<1>2. pc' \in [Proc -> Label] /\ ref' \in [Proc -> Ref] /\ sz' = sz
  BY RefFacts DEF ReturnsZero, Leave, Enter, ShapeInv, Label
<1>3. /\ state' \in [Proc -> {"UNUSED", "USED", "live", "ZOMBIE"}]
      /\ trapframe' \in [Proc -> BOOLEAN]
  BY DEF ReturnsZero, ShapeInv
<1> QED
  BY <1>1, <1>2, <1>3 DEF ShapeInv

\* Every step keeps the types.
LEMMA ShapeStep == IInv /\ [Next]_vars => ShapeInv'
<1> SUFFICES ASSUME IInv, [Next]_vars PROVE ShapeInv'
  OBVIOUS
<1> USE RefFacts DEF IInv, ShapeInv
<1>1. CASE UNCHANGED vars
  BY <1>1 DEF vars, proc, locals
<1>2. ASSUME NEW p \in Proc, NEW n \in SbrkArgs, SbrkGrow(p, n) PROVE ShapeInv'
  BY <1>2 DEF SbrkGrow, Uvmalloc, Enter, proc, locals, Label, GrowLabel, ExecLabel
<1>3. ASSUME NEW p \in Proc, NEW n \in SbrkArgs, SbrkShrink(p, n) PROVE ShapeInv'
  BY <1>3 DEF SbrkShrink, proc, locals, Label, GrowLabel, ExecLabel
<1>4. ASSUME NEW p \in Proc, NEW np \in Proc, Fork(p, np) PROVE ShapeInv'
  BY <1>4 DEF Fork, Enter, proc, locals, Label, GrowLabel, ExecLabel
<1>5. ASSUME NEW p \in Proc, Exec(p) PROVE ShapeInv'
  BY <1>5 DEF Exec, Enter, proc, locals, Label, GrowLabel, ExecLabel
<1>6. ASSUME NEW p \in Proc, Exit(p) PROVE ShapeInv'
  BY <1>6 DEF Exit, proc, locals, Label, GrowLabel, ExecLabel
<1>7. ASSUME NEW p \in Proc, UvmallocPage(p) PROVE ShapeInv'
  BY <1>7 DEF UvmallocPage, proc, locals, Label, GrowLabel, ExecLabel
<1>8. ASSUME NEW p \in Proc, UvmallocFails(p) PROVE ShapeInv'
  <2>1. table' = [s \in Ref |-> table'[s]]
    BY <1>8 DEF UvmallocFails
  <2>2. pc' \in [Proc -> Label] /\ ref' \in [Proc -> Ref]
    <3>1. CASE pc[p] = "sbrk"
      BY ZenonT(60), <1>8, <3>1 DEF UvmallocFails, Leave, Enter, Label
    <3>2. CASE pc[p] # "sbrk"
      <4>1. Enter(p, "bad") /\ ref' = ref
        BY <1>8, <3>2 DEF UvmallocFails, locals
      <4> QED
        BY <4>1 DEF Enter, Label, ExecLabel
    <3> QED
      BY <3>1, <3>2
  <2>3. UNCHANGED <<state, trapframe, sz>>
    BY <1>8 DEF UvmallocFails, proc
  <2> QED
    BY <2>1, <2>2, <2>3
<1>9. ASSUME NEW p \in Proc, SbrkGrown(p) PROVE ShapeInv'
  BY <1>9 DEF SbrkGrown, Leave, Enter, proc, locals, Label, GrowLabel, ExecLabel
<1>10. ASSUME NEW p \in Proc, Uvmcreate(p) PROVE ShapeInv'
  <2>1. CASE \E m : ReturnsZero(p, m)
    BY <2>1, ReturnsShape
  <2>2. CASE ~\E m : ReturnsZero(p, m)
    BY <1>10, <2>2 DEF Uvmcreate, Enter, proc, locals, Label
  <2> QED
    BY <2>1, <2>2
<1>11. ASSUME NEW p \in Proc, MapFixed(p) PROVE ShapeInv'
  <2>1. CASE \E m : ReturnsZero(p, m)
    BY <2>1, ReturnsShape
  <2>2. CASE ~\E m : ReturnsZero(p, m)
    BY <1>11, <2>2 DEF MapFixed, Enter, proc, locals, Label
  <2> QED
    BY <2>1, <2>2
<1>12. ASSUME NEW p \in Proc, MapUsyscall(p) PROVE ShapeInv'
  BY <1>12 DEF MapUsyscall, Enter, proc, locals, Label, GrowLabel, ExecLabel
<1>13. ASSUME NEW p \in Proc, UsyscallNoMem(p) PROVE ShapeInv'
  BY <1>13 DEF UsyscallNoMem, Enter, proc, locals, Label, GrowLabel, ExecLabel
<1>14. ASSUME NEW p \in Proc, CopyPage(p) PROVE ShapeInv'
  BY <1>14 DEF CopyPage, proc, locals, Label, GrowLabel, ExecLabel
<1>15. ASSUME NEW p \in Proc, CopyFails(p) PROVE ShapeInv'
  BY ZenonT(60), <1>15 DEF CopyFails, ReturnsZero, Leave, Enter, proc, locals, Label, GrowLabel, ExecLabel
<1>16. ASSUME NEW p \in Proc, ForkDone(p) PROVE ShapeInv'
  BY <1>16 DEF ForkDone, Leave, Enter, proc, locals, Label, GrowLabel, ExecLabel
<1>17. ASSUME NEW p \in Proc, NEW s \in SegEnds, ExecSegment(p, s) PROVE ShapeInv'
  BY <1>17 DEF ExecSegment, Uvmalloc, Enter, proc, locals, Label, GrowLabel, ExecLabel
<1>18. ASSUME NEW p \in Proc, ExecSegmentDone(p) PROVE ShapeInv'
  BY <1>18 DEF ExecSegmentDone, Enter, proc, locals, Label, GrowLabel, ExecLabel
<1>19. ASSUME NEW p \in Proc, ExecStack(p) PROVE ShapeInv'
  BY <1>19 DEF ExecStack, Uvmalloc, Enter, proc, locals, Label, GrowLabel, ExecLabel
<1>20. ASSUME NEW p \in Proc, ExecStackDone(p) PROVE ShapeInv'
  BY <1>20 DEF ExecStackDone, Enter, proc, locals, Label, GrowLabel, ExecLabel
<1>21. ASSUME NEW p \in Proc, ExecBad(p) PROVE ShapeInv'
  BY <1>21 DEF ExecBad, Leave, Enter, proc, locals, Label, GrowLabel, ExecLabel
<1>22. ASSUME NEW p \in Proc, ExecCommit(p) PROVE ShapeInv'
  BY <1>22 DEF ExecCommit, Leave, Enter, proc, locals, Label, GrowLabel, ExecLabel
<1>23. ASSUME NEW p \in Proc, freeproc(p) PROVE ShapeInv'
  BY <1>23 DEF freeproc, proc, locals, Label, GrowLabel, ExecLabel
<1> QED
  BY <1>1, <1>2, <1>3, <1>4, <1>5, <1>6, <1>7, <1>8,
     <1>9, <1>10, <1>11, <1>12, <1>13, <1>14, <1>15, <1>16,
     <1>17, <1>18, <1>19, <1>20, <1>21, <1>22, <1>23
     DEF Next, Call, KernelStep

\* fork() is over: no other process refers to the child.
LEMMA ChildLeaves ==
  ASSUME ShapeInv, KernelInv, ForkInv, NEW p \in Proc, NEW c \in Proc, Forks(p, c),
         state[p] = "live", NEW s \in {"live", "UNUSED"},
         state' = [state EXCEPT ![c] = s], pc' = [pc EXCEPT ![p] = "idle"],
         ref' = [ref EXCEPT ![p] = <<p, "image">>]
  PROVE  KernelInv'
<1>1. state[c] = "USED" /\ p # c
  BY ForksUsed DEF Forks
<1>2. pc'[p] = "idle" /\ ref'[p] = <<p, "image">>
  BY DEF ShapeInv
<1>3. ASSUME NEW o \in Proc \ {p}, pc[o] # "idle", Forking(o) PROVE Child(o) # c
  <2>1. CASE Child(o) = c
    <3>1. ref[o] = <<c, "image">> /\ o # c
      BY <1>1, <1>3, <2>1, RefParts DEF KernelInv
    <3>2. Forks(o, c)
      BY <1>3, <3>1 DEF Forks
    <3> QED
      BY <3>2 DEF ForkInv
  <2> QED
    BY <2>1
<1>4. \A o \in Proc \ {p} : /\ pc'[o] = pc[o] /\ ref'[o] = ref[o]
                            /\ Forking(o)' = Forking(o) /\ Child(o)' = Child(o)
  BY DEF ShapeInv, Forking, Child
<1>5. \A o \in Proc \ {c} : state'[o] = state[o]
  BY DEF ShapeInv
<1>6. pc[c] = "idle"
  BY <1>1 DEF KernelInv
<1>7. \A o \in Proc : Child(o) \in Proc
  BY RefParts
<1> SUFFICES ASSUME NEW o \in Proc
             PROVE  (/\ pc[o] # "idle" => state[o] = "live"
                     /\ pc[o] \in {"idle", "sbrk"} => ref[o] = <<o, "image">>
                     /\ pc[o] \in ExecLabel => ref[o] = <<o, "exec">>
                     /\ pc[o] \in {"create", "fixed", "usyscall", "copy", "panic"} =>
                          IF Forking(o) THEN state[Child(o)] = "USED" ELSE ref[o] = <<o, "exec">>
                     /\ pc[o] = "copy" => Forking(o))'
  BY DEF KernelInv
<1>8. CASE o = p
  BY <1>2, <1>8 DEF ExecLabel
<1>9. CASE o # p
  <2>1. pc[o] # "idle" => o # c
    BY <1>6
  <2> QED
    BY <1>3, <1>4, <1>5, <1>7, <1>9, <2>1 DEF KernelInv
<1> QED
  BY <1>8, <1>9

\* The failures of allocproc() leave the kernel in order.
LEMMA ReturnsKernel ==
  ASSUME ShapeInv, KernelInv, ForkInv, NEW p \in Proc, NEW n, ReturnsZero(p, n),
         pc[p] \in {"create", "fixed", "copy"}
  PROVE  KernelInv'
<1>1. pc' = [pc EXCEPT ![p] = "idle"] /\ ref' = [ref EXCEPT ![p] = <<p, "image">>]
  BY DEF ReturnsZero, Leave, Enter
<1>2. state[p] = "live"
  BY DEF KernelInv
<1>3. CASE Forking(p)
  <2>1. PICK c \in Proc : c = Child(p)
    BY RefParts
  <2>2. ref[p] = <<c, "image">> /\ state[c] = "USED" /\ state' = [state EXCEPT ![c] = "UNUSED"]
    BY <1>3, <2>1, RefParts DEF KernelInv, ReturnsZero
  <2>3. Forks(p, c)
    BY <1>2, <2>2 DEF Forks
  <2> QED
    BY <1>1, <1>2, <2>2, <2>3, ChildLeaves
<1>4. CASE ~Forking(p)
  <2>1. state' = state
    BY <1>4 DEF ReturnsZero
  <2> QED
    BY <1>1, <1>2, <2>1 DEF KernelInv, ShapeInv, Forking, Child, ExecLabel
<1> QED
  BY <1>3, <1>4

\* Every step keeps the table that is worked on the right one.
LEMMA KernelStays == IInv /\ [Next]_vars => KernelInv'
<1> SUFFICES ASSUME IInv, [Next]_vars PROVE KernelInv'
  OBVIOUS
<1> USE RefFacts DEF IInv, ShapeInv, KernelInv
<1>1. CASE UNCHANGED vars
  BY <1>1 DEF vars, proc, locals, Forking, Child
<1>2. ASSUME NEW p \in Proc, NEW n \in SbrkArgs, SbrkGrow(p, n) PROVE KernelInv'
  BY <1>2 DEF SbrkGrow, Uvmalloc, Enter, proc, locals, Forks, Forking, Child, Label, GrowLabel,
     ExecLabel
<1>3. ASSUME NEW p \in Proc, NEW n \in SbrkArgs, SbrkShrink(p, n) PROVE KernelInv'
  BY <1>3 DEF SbrkShrink, proc, locals, Forks, Forking, Child, Label, GrowLabel, ExecLabel
<1>4. ASSUME NEW p \in Proc, NEW np \in Proc, Fork(p, np) PROVE KernelInv'
  BY <1>4 DEF Fork, Enter, proc, locals, Forks, Forking, Child, Label, GrowLabel, ExecLabel
<1>5. ASSUME NEW p \in Proc, Exec(p) PROVE KernelInv'
  BY <1>5 DEF Exec, Enter, proc, locals, Forks, Forking, Child, Label, GrowLabel, ExecLabel
<1>6. ASSUME NEW p \in Proc, Exit(p) PROVE KernelInv'
  BY <1>6 DEF Exit, proc, locals, Forks, Forking, Child, Label, GrowLabel, ExecLabel
<1>7. ASSUME NEW p \in Proc, UvmallocPage(p) PROVE KernelInv'
  BY <1>7 DEF UvmallocPage, proc, locals, Forks, Forking, Child, Label, GrowLabel, ExecLabel
<1>8. ASSUME NEW p \in Proc, UvmallocFails(p) PROVE KernelInv'
  BY <1>8 DEF UvmallocFails, Leave, Enter, Work, proc, locals, Forks, Forking, Child, Label,
     GrowLabel, ExecLabel
<1>9. ASSUME NEW p \in Proc, SbrkGrown(p) PROVE KernelInv'
  BY <1>9 DEF SbrkGrown, Leave, Enter, proc, locals, Forks, Forking, Child, Label, GrowLabel,
     ExecLabel
<1>10. ASSUME NEW p \in Proc, Uvmcreate(p) PROVE KernelInv'
  <2>1. CASE \E m : ReturnsZero(p, m)
    BY <1>10, <2>1, ReturnsKernel DEF Uvmcreate
  <2>2. CASE ~\E m : ReturnsZero(p, m)
    BY <1>10, <2>2 DEF Uvmcreate, Enter, proc, locals, Forking, Child, ExecLabel
  <2> QED
    BY <2>1, <2>2
<1>11. ASSUME NEW p \in Proc, MapFixed(p) PROVE KernelInv'
  <2>1. CASE \E m : ReturnsZero(p, m)
    BY <1>11, <2>1, ReturnsKernel DEF MapFixed
  <2>2. CASE ~\E m : ReturnsZero(p, m)
    BY <1>11, <2>2 DEF MapFixed, Enter, proc, locals, Forking, Child, ExecLabel
  <2> QED
    BY <2>1, <2>2
<1>12. ASSUME NEW p \in Proc, MapUsyscall(p) PROVE KernelInv'
  BY <1>12 DEF MapUsyscall, Enter, proc, locals, Forks, Forking, Child, Label, GrowLabel, ExecLabel
<1>13. ASSUME NEW p \in Proc, UsyscallNoMem(p) PROVE KernelInv'
  BY <1>13 DEF UsyscallNoMem, Enter, proc, locals, Forks, Forking, Child, Label, GrowLabel,
     ExecLabel
<1>14. ASSUME NEW p \in Proc, CopyPage(p) PROVE KernelInv'
  BY <1>14 DEF CopyPage, proc, locals, Forks, Forking, Child, Label, GrowLabel, ExecLabel
<1>15. ASSUME NEW p \in Proc, CopyFails(p) PROVE KernelInv'
  BY <1>15, ReturnsKernel DEF CopyFails
<1>16. ASSUME NEW p \in Proc, ForkDone(p) PROVE KernelInv'
  <2>1. PICK c \in Proc : c = Child(p)
    BY RefParts
  <2>2. /\ Forks(p, c) /\ state' = [state EXCEPT ![c] = "live"] /\ state[p] = "live"
        /\ pc' = [pc EXCEPT ![p] = "idle"] /\ ref' = [ref EXCEPT ![p] = <<p, "image">>]
    <3>1. ref[p] = <<c, "image">> /\ state[c] = "USED" /\ state[p] = "live"
      BY <1>16, <2>1, RefParts DEF ForkDone
    <3>2. Forks(p, c)
      BY <1>16, <3>1 DEF ForkDone, Forks
    <3> QED
      BY <1>16, <2>1, <3>1, <3>2 DEF ForkDone, Leave, Enter
  <2> QED
    BY <2>2, ChildLeaves
<1>17. ASSUME NEW p \in Proc, NEW s \in SegEnds, ExecSegment(p, s) PROVE KernelInv'
  BY <1>17 DEF ExecSegment, Uvmalloc, Enter, proc, locals, Forks, Forking, Child, Label,
     GrowLabel, ExecLabel
<1>18. ASSUME NEW p \in Proc, ExecSegmentDone(p) PROVE KernelInv'
  BY <1>18 DEF ExecSegmentDone, Enter, proc, locals, Forks, Forking, Child, Label, GrowLabel,
     ExecLabel
<1>19. ASSUME NEW p \in Proc, ExecStack(p) PROVE KernelInv'
  BY <1>19 DEF ExecStack, Uvmalloc, Enter, proc, locals, Forks, Forking, Child, Label,
     GrowLabel, ExecLabel
<1>20. ASSUME NEW p \in Proc, ExecStackDone(p) PROVE KernelInv'
  BY <1>20 DEF ExecStackDone, Enter, proc, locals, Forks, Forking, Child, Label, GrowLabel,
     ExecLabel
<1>21. ASSUME NEW p \in Proc, ExecBad(p) PROVE KernelInv'
  BY <1>21 DEF ExecBad, Leave, Enter, proc, locals, Forks, Forking, Child, Label, GrowLabel,
     ExecLabel
<1>22. ASSUME NEW p \in Proc, ExecCommit(p) PROVE KernelInv'
  BY <1>22 DEF ExecCommit, Leave, Enter, proc, locals, Forks, Forking, Child, Label, GrowLabel,
     ExecLabel
<1>23. ASSUME NEW p \in Proc, freeproc(p) PROVE KernelInv'
  BY <1>23 DEF freeproc, proc, locals, Forks, Forking, Child, Label, GrowLabel, ExecLabel
<1> QED
  BY <1>1, <1>2, <1>3, <1>4, <1>5, <1>6, <1>7, <1>8,
     <1>9, <1>10, <1>11, <1>12, <1>13, <1>14, <1>15, <1>16,
     <1>17, <1>18, <1>19, <1>20, <1>21, <1>22, <1>23
     DEF Next, Call, KernelStep

\* Who holds what, between any two steps.
THEOREM VmCorrect == Spec => []IInv
<1>1. IInv /\ [Next]_vars => IInv'
  BY ShapeStep, KernelStays, HoldStep, ForkStep DEF IInv
<1> QED
  BY VmInit, <1>1, PTL DEF Spec

\* An UNUSED slot holds no memory, a USED one belongs to the fork() of one process, and the
\* table exec() builds is gone when exec() returns.
THEOREM NothingLeftCorrect == Spec => []NothingLeft
<1>1. IInv => NothingLeft
  <2> SUFFICES ASSUME IInv, NEW q \in Proc, state[q] = "USED"
               PROVE  Cardinality({p \in Proc \ {q} : pc[p] # "idle" /\ ref[p] = <<q, "image">>}) = 1
    <3>1. IInv => \A q \in Proc : pc[q] = "idle" => ref[q] # <<q, "exec">>
      BY RefFacts DEF IInv, KernelInv
    <3> QED
      BY <3>1 DEF IInv, HoldInv, NothingLeft, Image, NewImage
  <2>1. PICK p \in Proc : Forks(p, q)
    BY DEF IInv, ForkInv
  <2>2. \A o \in Proc : Forks(o, q) => o = p
    BY <2>1 DEF IInv, ForkInv
  <2>3. {o \in Proc \ {q} : pc[o] # "idle" /\ ref[o] = <<q, "image">>} = {p}
    BY <2>1, <2>2 DEF Forks
  <2> QED
    BY <2>3, FS_Singleton
<1> QED
  BY <1>1, VmCorrect, PTL

-----------------------------------------------------------------------------
(* What the page tables map, and what the processes hold.                  *)

\* A table that maps the fixed pages and user pages 0 .. n - 1.
Maps(t, n) == t \in Table /\ t.leaf = Fixed \cup 0 .. n - 1

\* The memory of slot q: an image as long as its size, unless sbrk() or fork() is at work.
ImageInv(q) ==
  /\ trapframe[q] <=> state[q] # "UNUSED"
  /\ state[q] \in {"live", "ZOMBIE"} =>
       Image(q) \in Table /\ (pc[q] # "sbrk" => CanFree(Image(q), sz[q]))

\* The table that process p is building, as far as p has come.
WorkInv(p) ==
  /\ pc[p] \in {"idle", "create", "fixed", "usyscall"} => i[p] = 0 /\ newsz[p] = 0
  /\ pc[p] = "create" => Work(p) = Null
  /\ pc[p] = "fixed" => Work(p) = [dir |-> {Root}, leaf |-> {}, guard |-> {}]
  /\ pc[p] = "usyscall" => /\ Work(p) \in Table /\ Work(p).leaf = {TRAMPOLINE, TRAPFRAME}
                           /\ Path(USYSCALL) \subseteq Work(p).dir
  /\ pc[p] = "copy" => Maps(Work(p), i[p]) /\ i[p] <= Pages(sz[p])
  /\ pc[p] \in {"segment", "args", "bad"} => Maps(Work(p), Pages(newsz[p]))
  /\ pc[p] \in GrowLabel =>
       /\ Maps(Work(p), i[p])
       /\ base[p] = Pages(IF pc[p] = "sbrk" THEN sz[p] ELSE newsz[p])
       /\ base[p] <= i[p] /\ i[p] <= Pages(goal[p])
  /\ pc[p] = "stackpages" => newsz[p] = base[p] * PGSIZE /\ goal[p] = (base[p] + 2) * PGSIZE

TableInv == \A p \in Proc : ImageInv(p) /\ WorkInv(p)

-----------------------------------------------------------------------------
(* Arithmetic of pages and of page-table paths.                            *)

\* Division rounds down.
LEMMA Quotient ==
  ASSUME NEW b \in Nat \ {0}, NEW q \in Int, NEW r \in Nat, r < b
  PROVE  (b * q + r) \div b = q
  OBVIOUS

\* What \div means.
LEMMA Divides ==
  ASSUME NEW a \in Int, NEW b \in Nat \ {0}
  PROVE  /\ a \div b \in Int /\ b * (a \div b) <= a /\ a < b * (a \div b) + b
         /\ a \in Nat => a \div b \in Nat
  OBVIOUS

\* A size of s bytes needs Pages(s) pages: no fewer and no more.
LEMMA PagesBound ==
  ASSUME NEW s \in Nat, NEW k \in Nat
  PROVE  Pages(s) \in Nat /\ (k * PGSIZE < s <=> k < Pages(s))
  BY UserMemAssumption DEF Pages

\* A whole number of pages.
LEMMA PagesWhole ==
  ASSUME NEW k \in Nat
  PROVE  Pages(k * PGSIZE) = k /\ PageOf(k * PGSIZE) = k
  BY UserMemAssumption DEF Pages, PageOf

\* A larger size needs no fewer pages.
LEMMA PagesMonotone ==
  ASSUME NEW s \in Nat, NEW t \in Nat, s <= t
  PROVE  Pages(s) <= Pages(t)
  BY UserMemAssumption DEF Pages

\* The three fixed pages are reached through the same page-table pages.
LEMMA FixedPath ==
  /\ Path(TRAPFRAME) = Path(TRAMPOLINE) /\ Path(USYSCALL) = Path(TRAMPOLINE)
  /\ Fixed \subseteq Vpn /\ USYSCALL \in Nat /\ USYSCALL = Fan * Fan * Fan - 3
  /\ TRAMPOLINE = USYSCALL + 2 /\ TRAPFRAME = USYSCALL + 1
  /\ Path(TRAMPOLINE) = {<<1, Fan - 1>>, <<0, Fan * Fan - 1>>}
<1> DEFINE f == Fan
<1>1. f \in Nat /\ f >= 3
  BY UserMemAssumption
<1>2. f * f \in Nat \ {0} /\ f * f >= 3 * f /\ f * f * f \in Nat /\ f * f * f >= 3 * (f * f)
  BY <1>1
<1>3. \A k \in {1, 2, 3} : (f * f * f - k) \div (f * f) = f - 1
  <2> SUFFICES ASSUME NEW k \in {1, 2, 3} PROVE (f * f * f - k) \div (f * f) = f - 1
    OBVIOUS
  <2>1. f * f - k \in Nat /\ f * f - k < f * f /\ f - 1 \in Int
    BY <1>1, <1>2
  <2>2. f * f * f - k = (f * f) * (f - 1) + (f * f - k)
    BY <1>1
  <2> QED
    BY <1>2, <2>1, <2>2, Quotient
<1>4. \A k \in {1, 2, 3} : (f * f * f - k) \div f = f * f - 1
  <2> SUFFICES ASSUME NEW k \in {1, 2, 3} PROVE (f * f * f - k) \div f = f * f - 1
    OBVIOUS
  <2>1. f - k \in Nat /\ f - k < f /\ f * f - 1 \in Int /\ f \in Nat \ {0}
    BY <1>1, <1>2
  <2>2. f * f * f - k = f * (f * f - 1) + (f - k)
    BY <1>1
  <2> QED
    BY <2>1, <2>2, Quotient
<1>5. /\ TRAMPOLINE = f * f * f - 1 /\ TRAPFRAME = f * f * f - 2 /\ USYSCALL = f * f * f - 3
  BY <1>2 DEF TRAMPOLINE, TRAPFRAME, USYSCALL
<1>6. f * f * f >= 27
  BY <1>1, <1>2
<1> QED
  BY <1>2, <1>3, <1>4, <1>5, <1>6 DEF Path, Fixed, Vpn

\* The pages below the fixed ones.
LEMMA BelowFixed ==
  ASSUME NEW n \in Nat, n <= USYSCALL
  PROVE  n \in Vpn
<1>1. Fan * Fan * Fan \in Int
  BY UserMemAssumption
<1> QED
  BY <1>1, FixedPath DEF Vpn

\* There are finitely many page-table pages and virtual pages.
LEMMA FiniteTables ==
  /\ IsFiniteSet(Vpn) /\ IsFiniteSet(Node)
  /\ \A v \in Vpn : Path(v) \subseteq Node /\ IsFiniteSet(Path(v))
<1>1. IsFiniteSet(Vpn)
  BY FS_Interval, UserMemAssumption DEF Vpn
<1>2. \A v \in Vpn : Path(v) \subseteq Node
  BY DEF Node
<1>3. \A v : IsFiniteSet(Path(v))
  <2>1. \A v : Path(v) = {<<1, v \div (Fan * Fan)>>} \cup {<<0, v \div Fan>>}
    BY DEF Path
  <2> QED
    BY <2>1, FS_Singleton, FS_Union
<1>4. \A v \in Vpn : v \div (Fan * Fan) \in Vpn /\ v \div Fan \in Vpn
  <2> SUFFICES ASSUME NEW v \in Vpn, NEW b \in Nat \ {0} PROVE v \div b \in Vpn
    <3>1. Fan \in Nat \ {0} /\ Fan * Fan \in Nat \ {0}
      BY UserMemAssumption
    <3> QED
      BY <3>1
  <2>1. v \in Nat /\ v <= Fan * Fan * Fan - 1 /\ Fan * Fan * Fan - 1 \in Int
    BY UserMemAssumption DEF Vpn
  <2>2. v \div b \in Nat /\ b * (v \div b) <= v
    BY <2>1, Divides
  <2>3. v \div b <= v
    BY <2>1, <2>2
  <2> QED
    BY <2>1, <2>2, <2>3 DEF Vpn
<1>5. 0 \in Vpn /\ 1 \in Vpn /\ 2 \in Vpn
  BY FixedPath, UserMemAssumption DEF Vpn, USYSCALL, TRAPFRAME, TRAMPOLINE
<1>6. Node \in SUBSET (Vpn \X Vpn)
  BY <1>4, <1>5 DEF Node, Root, Path
<1>7. IsFiniteSet(Vpn \X Vpn)
  BY <1>1, FS_Product
<1>8. IsFiniteSet(Node)
  BY <1>6, <1>7, FS_Subset
<1> QED
  BY <1>1, <1>2, <1>3, <1>8

-----------------------------------------------------------------------------
(* Counting the pages that are held.                                       *)

\* How many pages table t, and process p, account for.
Owned(t) ==
  IF t = Null THEN 0
  ELSE Cardinality(t.dir) + Cardinality(t.leaf \ {TRAMPOLINE, TRAPFRAME})

OwnedBy(p) == (IF trapframe[p] THEN 1 ELSE 0) + Owned(Image(p)) + Owned(NewImage(p))

\* What counting needs of TypeOK.
TableType == table \in [Ref -> Table \cup {Null}] /\ trapframe \in [Proc -> BOOLEAN]

\* What is free and what is held are all pages.
CountInv == free \in Nat /\ IsFiniteSet(Held) /\ free + Cardinality(Held) = NPages

\* Tagging the elements of a set does not change their number.
LEMMA Tagged ==
  ASSUME NEW x, NEW S, IsFiniteSet(S)
  PROVE  /\ IsFiniteSet({x} \X S) /\ Cardinality({x} \X S) = Cardinality(S)
         /\ Cardinality(S) \in Nat
<1>1. IsFiniteSet({x}) /\ Cardinality({x}) = 1
  BY FS_Singleton
<1>2. Cardinality(S) \in Nat
  BY FS_CardinalityType
<1>3. /\ IsFiniteSet({x} \X S)
      /\ Cardinality({x} \X S) = Cardinality({x}) * Cardinality(S)
  BY <1>1, FS_Product
<1> QED
  BY <1>1, <1>2, <1>3

\* Two sets without a common element.
LEMMA Disjoint ==
  ASSUME NEW S, NEW T, IsFiniteSet(S), IsFiniteSet(T), S \cap T = {}
  PROVE  /\ IsFiniteSet(S \cup T) /\ Cardinality(S \cup T) = Cardinality(S) + Cardinality(T)
         /\ Cardinality(S) \in Nat /\ Cardinality(T) \in Nat
<1>1. Cardinality(S) \in Nat /\ Cardinality(T) \in Nat
  BY FS_CardinalityType
<1>2. Cardinality(S \cap T) = 0
  BY FS_EmptySet
<1>3. /\ IsFiniteSet(S \cup T)
      /\ Cardinality(S \cup T) = Cardinality(S) + Cardinality(T) - Cardinality(S \cap T)
  BY FS_Union
<1> QED
  BY <1>1, <1>2, <1>3

\* A set with one element more.
LEMMA OneMore ==
  ASSUME NEW S, NEW x, IsFiniteSet(S), x \notin S
  PROVE  IsFiniteSet(S \cup {x}) /\ Cardinality(S \cup {x}) = Cardinality(S) + 1
  BY FS_AddElement

\* The pages from b to below n.
LEMMA IntervalSize ==
  ASSUME NEW b \in Nat, NEW n \in Nat, b <= n
  PROVE  IsFiniteSet(b .. n - 1) /\ Cardinality(b .. n - 1) = n - b
<1>1. b \in Int /\ n - 1 \in Int
  OBVIOUS
<1>2. /\ IsFiniteSet(b .. n - 1)
      /\ Cardinality(b .. n - 1) = IF b > n - 1 THEN 0 ELSE (n - 1) - b + 1
  BY <1>1, FS_Interval
<1> QED
  BY <1>2

\* The parts of a page table are finite.
LEMMA TableParts ==
  ASSUME NEW t \in Table
  PROVE  /\ IsFiniteSet(t.dir) /\ IsFiniteSet(t.leaf) /\ t # Null
         /\ IsFiniteSet(t.leaf \ {TRAMPOLINE, TRAPFRAME})
  BY FiniteTables, FS_Subset, FS_Difference, NullAssumption DEF Table

\* The number of pages of a table.
LEMMA OwnedPages ==
  ASSUME NEW t \in Table \cup {Null}
  PROVE  IsFiniteSet(PagesOf(t)) /\ Cardinality(PagesOf(t)) = Owned(t) /\ Owned(t) \in Nat
<1>1. CASE t = Null
  BY <1>1, FS_EmptySet DEF PagesOf, Owned
<1>2. CASE t # Null
  <2> DEFINE D == {"dir"} \X t.dir
             L == {"leaf"} \X (t.leaf \ {TRAMPOLINE, TRAPFRAME})
  <2>1. /\ IsFiniteSet(D) /\ Cardinality(D) = Cardinality(t.dir)
        /\ IsFiniteSet(L) /\ Cardinality(L) = Cardinality(t.leaf \ {TRAMPOLINE, TRAPFRAME})
    BY <1>2, TableParts, Tagged
  <2>2. D \cap L = {}
    OBVIOUS
  <2>3. PagesOf(t) = D \cup L /\ Owned(t) = Cardinality(t.dir) + Cardinality(t.leaf \ {TRAMPOLINE, TRAPFRAME})
    BY <1>2 DEF PagesOf, Owned
  <2> HIDE DEF D, L
  <2>4. /\ IsFiniteSet(D \cup L) /\ Cardinality(D \cup L) = Cardinality(D) + Cardinality(L)
        /\ Cardinality(D) \in Nat /\ Cardinality(L) \in Nat
    BY <2>1, <2>2, Disjoint
  <2> QED
    BY <2>1, <2>3, <2>4
<1> QED
  BY <1>1, <1>2

\* The number of pages of a process.
LEMMA OwnedByPages ==
  ASSUME TableType, NEW p \in Proc
  PROVE  /\ IsFiniteSet(HeldBy(p)) /\ Cardinality(HeldBy(p)) = OwnedBy(p) /\ OwnedBy(p) \in Nat
<1> DEFINE A == IF trapframe[p] THEN {<<"trapframe", "page">>} ELSE {}
           I == {"image"} \X PagesOf(Image(p))
           E == {"exec"} \X PagesOf(NewImage(p))
<1>1. IsFiniteSet(A) /\ Cardinality(A) = IF trapframe[p] THEN 1 ELSE 0
  BY FS_Singleton, FS_EmptySet
<1>2. Image(p) \in Table \cup {Null} /\ NewImage(p) \in Table \cup {Null}
  BY RefFacts DEF TableType, Image, NewImage
<1>3. /\ IsFiniteSet(I) /\ Cardinality(I) = Owned(Image(p))
      /\ IsFiniteSet(E) /\ Cardinality(E) = Owned(NewImage(p))
      /\ Owned(Image(p)) \in Nat /\ Owned(NewImage(p)) \in Nat
  BY <1>2, OwnedPages, Tagged
<1>4. A \cap I = {} /\ (A \cup I) \cap E = {}
  OBVIOUS
<1>5. HeldBy(p) = (A \cup I) \cup E
  BY DEF HeldBy, Image, NewImage
<1> HIDE DEF A, I, E
<1>6. IsFiniteSet(A \cup I) /\ Cardinality(A \cup I) = Cardinality(A) + Cardinality(I)
  BY <1>1, <1>3, <1>4, Disjoint
<1>7. IsFiniteSet(HeldBy(p)) /\ Cardinality(HeldBy(p)) = Cardinality(A \cup I) + Cardinality(E)
  BY <1>3, <1>4, <1>5, <1>6, Disjoint
<1> QED
  BY <1>1, <1>3, <1>6, <1>7 DEF OwnedBy

\* The same as a formula, to be primed.
LEMMA OwnedByAll ==
  TableType => \A p \in Proc : /\ IsFiniteSet(HeldBy(p)) /\ Cardinality(HeldBy(p)) = OwnedBy(p)
                              /\ OwnedBy(p) \in Nat
  BY OwnedByPages

\* When one process holds more or fewer pages by what the allocator gave or got, all are
\* still there.
LEMMA CountStep ==
  ASSUME TableType, TableType', CountInv, NEW q \in Proc,
         \A p \in Proc \ {q} : HeldBy(p)' = HeldBy(p),
         free' \in Nat, free' + OwnedBy(q)' = free + OwnedBy(q)
  PROVE  CountInv'
<1> DEFINE Own   == {q} \X HeldBy(q)
           Rest  == UNION {{p} \X HeldBy(p) : p \in Proc \ {q}}
<1>1. Held = Rest \cup Own /\ Rest \cap Own = {}
  BY DEF Held
<1>2. Held' = Rest \cup Own' /\ Rest \cap Own' = {}
  <2>1. Rest' = Rest
    OBVIOUS
  <2>2. Held' = Rest' \cup Own' /\ Rest' \cap Own' = {}
    BY DEF Held
  <2> QED
    BY <2>1, <2>2
<1>3. IsFiniteSet(Own) /\ Cardinality(Own) = OwnedBy(q) /\ OwnedBy(q) \in Nat
  BY OwnedByPages, Tagged
<1>4. IsFiniteSet(Own') /\ Cardinality(Own') = OwnedBy(q)' /\ OwnedBy(q)' \in Nat
  <2>1. (TableType => \A p \in Proc : /\ IsFiniteSet(HeldBy(p)) /\ Cardinality(HeldBy(p)) = OwnedBy(p)
                                     /\ OwnedBy(p) \in Nat)'
    BY OwnedByAll, PTL
  <2> QED
    BY <2>1, Tagged
<1> HIDE DEF Own, Rest
<1>5. IsFiniteSet(Held)
  BY DEF CountInv
<1>6. Rest \in SUBSET Held
  BY <1>1
<1>7. IsFiniteSet(Rest)
  BY <1>5, <1>6, FS_Subset
<1>8. Cardinality(Held) = Cardinality(Rest) + OwnedBy(q) /\ Cardinality(Rest) \in Nat
  BY <1>1, <1>3, <1>7, Disjoint
<1>9. IsFiniteSet(Held') /\ Cardinality(Held') = Cardinality(Rest) + OwnedBy(q)'
  BY <1>2, <1>4, <1>7, Disjoint
<1> QED
  BY <1>3, <1>4, <1>8, <1>9 DEF CountInv

\* A process holds no more than there is.
LEMMA OwnedAtMost ==
  ASSUME TableType, CountInv, NEW p \in Proc
  PROVE  OwnedBy(p) + free <= NPages
<1>1. IsFiniteSet(HeldBy(p)) /\ Cardinality(HeldBy(p)) = OwnedBy(p)
  BY OwnedByPages
<1>2. IsFiniteSet({p} \X HeldBy(p)) /\ Cardinality({p} \X HeldBy(p)) = OwnedBy(p)
  BY <1>1, Tagged
<1>3. ({p} \X HeldBy(p)) \in SUBSET Held
  BY DEF Held
<1>4. Cardinality({p} \X HeldBy(p)) <= Cardinality(Held) /\ Cardinality(Held) \in Nat
  BY <1>3, FS_Subset, FS_CardinalityType DEF CountInv
<1>5. NPages \in Nat
  BY VmAssumption
<1>6. OwnedBy(p) \in Nat
  BY OwnedByPages
<1> QED
  BY <1>2, <1>4, <1>5, <1>6 DEF CountInv

\* The pages that a table of n user pages maps beside the trampoline and the trapframe.
LEMMA CountLeaf ==
  ASSUME NEW t \in Table, NEW n \in Nat, n <= USYSCALL, t.leaf = Fixed \cup 0 .. n - 1
  PROVE  Owned(t) = Cardinality(t.dir) + n + 1
<1> DEFINE L == t.leaf \ {TRAMPOLINE, TRAPFRAME}
<1>1. L = 0 .. n - 1 \cup {USYSCALL}
  BY FixedPath DEF Fixed
<1>2. IsFiniteSet(0 .. n - 1) /\ Cardinality(0 .. n - 1) = n
  <2>1. 0 \in Nat /\ 0 <= n /\ n - 0 = n
    OBVIOUS
  <2>2. IsFiniteSet(0 .. n - 1) /\ Cardinality(0 .. n - 1) = n - 0
    BY ONLY <2>1, n \in Nat, IntervalSize
  <2> QED
    BY <2>1, <2>2
<1>3. USYSCALL \notin 0 .. n - 1
  BY FixedPath
<1>4. Cardinality(0 .. n - 1 \cup {USYSCALL}) = n + 1
  BY <1>2, <1>3, FS_AddElement
<1>5. t # Null /\ Cardinality(t.dir) \in Nat
  BY TableParts, FS_CardinalityType
<1>6. Owned(t) = Cardinality(t.dir) + Cardinality(L)
  BY <1>5 DEF Owned
<1> HIDE DEF L
<1>7. Cardinality(L) = n + 1
  BY <1>1, <1>4
<1> QED
  BY <1>5, <1>6, <1>7

\* Memory runs out before user memory reaches the fixed pages.
LEMMA Room ==
  ASSUME TableType, CountInv, NEW r \in Ref, NEW n \in Nat, Maps(table[r], n)
  PROVE  n < USYSCALL /\ Owned(table[r]) = Cardinality(table[r].dir) + n + 1
<1> DEFINE t == table[r]
           L == t.leaf \ {TRAMPOLINE, TRAPFRAME}
<1>1. t \in Table /\ t # Null /\ IsFiniteSet(L) /\ Cardinality(t.dir) \in Nat
  BY TableParts, FS_CardinalityType DEF Maps
<1>2. Owned(t) <= NPages
  <2>1. PICK p \in Proc : t = Image(p) \/ t = NewImage(p)
    BY RefFacts DEF Image, NewImage
  <2>2. OwnedBy(p) <= NPages
    BY OwnedAtMost, OwnedByPages, VmAssumption DEF CountInv
  <2>3. Owned(Image(p)) \in Nat /\ Owned(NewImage(p)) \in Nat
    BY OwnedPages, RefFacts DEF TableType, Image, NewImage
  <2>4. NPages \in Nat
    BY VmAssumption
  <2> QED
    BY <2>1, <2>2, <2>3, <2>4 DEF OwnedBy
<1>3. ASSUME n >= USYSCALL PROVE FALSE
  <2>1. (0 .. USYSCALL) \in SUBSET L
    BY <1>3, FixedPath DEF Maps, Fixed
  <2>2. Cardinality(0 .. USYSCALL) = USYSCALL + 1
    BY FixedPath, FS_Interval
  <2>4. Owned(t) = Cardinality(t.dir) + Cardinality(L)
    BY <1>1 DEF Owned
  <2>5. NPages \in Nat /\ NPages <= USYSCALL
    BY VmAssumption, FixedPath, UserMemAssumption
  <2> HIDE DEF L, t
  <2>6. Cardinality(0 .. USYSCALL) <= Cardinality(L)
    BY <1>1, <2>1, FS_Subset
  <2>3. USYSCALL + 1 <= Cardinality(L) /\ Cardinality(L) \in Nat
    BY <1>1, <2>2, <2>6, FS_CardinalityType
  <2> QED
    BY <1>1, <1>2, <2>3, <2>4, <2>5, FixedPath
<1>4. n < USYSCALL
  BY <1>3, FixedPath
<1> QED
  BY <1>1, <1>4, CountLeaf, FixedPath DEF Maps

\* Mapping a page takes the page-table pages that were missing.
LEMMA MapPage ==
  ASSUME NEW t \in Table, NEW v \in Vpn
  PROVE  /\ Mapped(t, v) \in Table
         /\ Mapped(t, v).leaf = t.leaf \cup {v} /\ Mapped(t, v).dir = t.dir \cup Path(v)
         /\ Mapped(t, v).guard = t.guard
         /\ Cardinality(Missing(t, v)) \in Nat /\ Cardinality(t.dir) \in Nat
         /\ Cardinality(Mapped(t, v).dir) = Cardinality(t.dir) + Cardinality(Missing(t, v))
<1>1. /\ Mapped(t, v).leaf = t.leaf \cup {v} /\ Mapped(t, v).dir = t.dir \cup Path(v)
      /\ Mapped(t, v).guard = t.guard /\ Mapped(t, v) \in Table
  BY FiniteTables DEF Mapped, Table
<1>2. IsFiniteSet(t.dir) /\ IsFiniteSet(Missing(t, v))
  BY TableParts, FiniteTables, FS_Difference DEF Missing
<1>3. t.dir \cap Missing(t, v) = {} /\ t.dir \cup Path(v) = t.dir \cup Missing(t, v)
  BY DEF Missing
<1>4. /\ Cardinality(t.dir \cup Missing(t, v)) = Cardinality(t.dir) + Cardinality(Missing(t, v))
      /\ Cardinality(Missing(t, v)) \in Nat /\ Cardinality(t.dir) \in Nat
  BY <1>2, <1>3, Disjoint
<1>5. Mapped(t, v).dir = t.dir \cup Missing(t, v)
  BY <1>1, <1>3
<1> QED
  BY <1>1, <1>4, <1>5

\* proc_freepagetable() gives back what the table accounts for.
LEMMA FreesOwned ==
  ASSUME TableType, CountInv, NEW r \in Ref, NEW s \in Nat, table[r] \in Table, CanFree(table[r], s)
  PROVE  FreedBy(table[r], s) = Owned(table[r]) /\ Pages(s) < USYSCALL /\ Pages(s) \in Nat
<1>1. Pages(s) \in Nat
  BY PagesBound
<1>2. Maps(table[r], Pages(s))
  BY DEF Maps, CanFree
<1>3. Cardinality(table[r].dir) \in Nat
  BY TableParts, FS_CardinalityType
<1> QED
  BY <1>1, <1>2, <1>3, Room DEF FreedBy

-----------------------------------------------------------------------------
(* One step.                                                               *)

\* TypeOK, but for the bound on free, which follows from CountInv.
MemType ==
  /\ free \in Nat
  /\ state \in [Proc -> {"UNUSED", "USED", "live", "ZOMBIE"}]
  /\ trapframe \in [Proc -> BOOLEAN]
  /\ table \in [Ref -> Table \cup {Null}]
  /\ sz \in [Proc -> Nat]
  /\ pc \in [Proc -> Label]
  /\ ref \in [Proc -> Ref]
  /\ base \in [Proc -> Nat] /\ i \in [Proc -> Nat]
  /\ goal \in [Proc -> Nat] /\ newsz \in [Proc -> Nat]

Good   == MemType /\ TableInv /\ CountInv
MemInv == IInv /\ Good

\* The table of another process in the kernel is not one that p may touch.
LEMMA Apart ==
  ASSUME IInv, NEW p \in Proc, NEW q \in Proc \ {p}, pc[q] # "idle"
  PROVE  /\ ref[q] \in Ref /\ ref[q] # <<p, "exec">> /\ state[q] = "live"
         /\ state[p] # "USED" => ref[q] # <<p, "image">>
         /\ pc[p] # "idle" => ref[q] # ref[p]
<1> USE DEF IInv
<1>1. /\ ref[q] \in Ref /\ state[q] = "live"
      /\ ref[q] = <<q, "exec">> \/ ref[q] = <<q, "image">> \/ \E c \in Proc : Forks(q, c)
  BY WorkFacts
<1>2. \A c \in Proc : Forks(q, c) => state[c] = "USED" /\ ref[q] = <<c, "image">>
  BY ForksUsed DEF Forks
<1>3. ref[q] # <<p, "exec">> /\ (state[p] # "USED" => ref[q] # <<p, "image">>)
  BY <1>1, <1>2, RefFacts
<1>4. ASSUME pc[p] # "idle", ref[q] = ref[p] PROVE FALSE
  <2>1. /\ state[p] = "live"
        /\ ref[p] = <<p, "exec">> \/ ref[p] = <<p, "image">> \/ \E c \in Proc : Forks(p, c)
    BY <1>4, WorkFacts
  <2>2. PICK c \in Proc : Forks(p, c)
    BY <1>3, <1>4, <2>1
  <2>3. ref[p] = <<c, "image">> /\ state[c] = "USED"
    BY <2>2, ForksUsed DEF Forks
  <2>4. Forks(q, c)
    BY <1>1, <1>4, <2>3 DEF Forks
  <2> QED
    BY <2>2, <2>4 DEF ForkInv
<1> QED
  BY <1>1, <1>3, <1>4

\* The locals of q stay.
Still(q) ==
  /\ pc'[q] = pc[q] /\ ref'[q] = ref[q] /\ i'[q] = i[q]
  /\ base'[q] = base[q] /\ goal'[q] = goal[q] /\ newsz'[q] = newsz[q]

\* A process whose locals, size and table stay is as far as it was.
LEMMA WorkStill ==
  ASSUME NEW q \in Proc, WorkInv(q), Still(q),
         pc[q] # "idle" => sz'[q] = sz[q] /\ table'[ref[q]] = table[ref[q]]
  PROVE  WorkInv(q)'
<1>1. CASE pc[q] = "idle"
  BY <1>1 DEF WorkInv, Still, GrowLabel
<1>2. CASE pc[q] # "idle"
  <2>1. Work(q)' = Work(q) /\ sz'[q] = sz[q]
    BY <1>2 DEF Work, Still
  <2> QED
    BY <2>1 DEF WorkInv, Still, Maps, Pages
<1> QED
  BY <1>1, <1>2

\* A slot whose image stays.
LEMMA ImageStill ==
  ASSUME NEW q \in Proc, ImageInv(q), state'[q] = state[q], trapframe'[q] = trapframe[q],
         state[q] \in {"live", "ZOMBIE"} => /\ sz'[q] = sz[q] /\ Image(q)' = Image(q)
                                            /\ (pc'[q] # "sbrk" => pc[q] # "sbrk")
  PROVE  ImageInv(q)'
  BY DEF ImageInv, CanFree, Pages

\* What a process holds where nothing happens.
LEMMA HeldStill ==
  ASSUME NEW q \in Proc, trapframe'[q] = trapframe[q], Image(q)' = Image(q), NewImage(q)' = NewImage(q)
  PROVE  HeldBy(q)' = HeldBy(q)
  BY DEF HeldBy, Image, NewImage, PagesOf

\* A step of p inside a call, which makes t of the table it works on.
LEMMA WorkStep ==
  ASSUME MemInv, NEW p \in Proc, NEW t \in Table \cup {Null}, pc[p] # "idle",
         MemType', ref' = ref, UNCHANGED proc,
         table' = [table EXCEPT ![ref[p]] = t],
         \A q \in Proc \ {p} : Still(q),
         WorkInv(p)', pc'[p] # "sbrk" => pc[p] # "sbrk", pc[p] = "sbrk" => t # Null,
         free' + Owned(t) = free + Owned(Work(p))
  PROVE  Good'
<1> USE DEF MemInv, Good, IInv
<1>1. TableType /\ TableType' /\ free' \in Nat
  BY DEF MemType, TableType
<1>2. ref[p] \in Ref /\ state[p] = "live"
  BY DEF MemType, KernelInv
<1>3. table'[ref[p]] = t /\ \A r \in Ref \ {ref[p]} : table'[r] = table[r]
  BY <1>2, TableAt
<1>4. \A q \in Proc \ {p} : WorkInv(q)'
  <2> SUFFICES ASSUME NEW q \in Proc \ {p} PROVE WorkInv(q)'
    OBVIOUS
  <2>1. pc[q] # "idle" => table'[ref[q]] = table[ref[q]]
    BY <1>3, Apart
  <2> QED
    BY <2>1, WorkStill DEF TableInv, proc
<1>5. \A q \in Proc : ImageInv(q)'
  <2> SUFFICES ASSUME NEW q \in Proc PROVE ImageInv(q)'
    OBVIOUS
  <2>1. CASE ref[p] # <<q, "image">>
    <3>1. Image(q)' = Image(q)
      BY <1>3, <2>1, RefFacts DEF Image
    <3> QED
      BY <3>1, ImageStill DEF TableInv, proc, Still
  <2>2. CASE ref[p] = <<q, "image">> /\ q # p
    <3>1. state[q] = "USED"
      BY <2>2, ForksUsed DEF Forks
    <3> QED
      BY <3>1 DEF TableInv, ImageInv, proc
  <2>3. CASE ref[p] = <<q, "image">> /\ q = p
    <3>1. pc[p] = "sbrk"
      BY <1>2, <2>3, RefFacts, RefParts
      DEF KernelInv, MemType, Label, GrowLabel, ExecLabel, Forking, Child
    <3> QED
      BY <1>2, <1>3, <2>3, <3>1 DEF TableInv, ImageInv, proc, Image
  <2> QED
    BY <2>1, <2>2, <2>3
<1>6. CountInv'
  <2>1. PICK o \in Proc : o = ref[p][1]
    BY <1>2, RefFacts
  <2>2. ref[p] = <<o, "image">> \/ ref[p] = <<o, "exec">>
    BY <1>2, <2>1, RefFacts
  <2>3. \A q \in Proc \ {o} : HeldBy(q)' = HeldBy(q)
    <3> SUFFICES ASSUME NEW q \in Proc \ {o} PROVE HeldBy(q)' = HeldBy(q)
      OBVIOUS
    <3>1. Image(q)' = Image(q) /\ NewImage(q)' = NewImage(q)
      BY <1>3, <2>2, RefFacts DEF Image, NewImage
    <3> QED
      BY <3>1, HeldStill DEF proc
  <2>4. free' + OwnedBy(o)' = free + OwnedBy(o)
    <3>1. /\ Owned(Image(o)) \in Nat /\ Owned(NewImage(o)) \in Nat /\ Owned(t) \in Nat
          /\ free \in Nat
      BY OwnedPages, RefFacts DEF MemType, Image, NewImage
    <3>2. trapframe' = trapframe
      BY DEF proc
    <3>3. CASE ref[p] = <<o, "image">>
      <4>1. Image(o) = Work(p) /\ Image(o)' = t /\ NewImage(o)' = NewImage(o)
        BY <1>3, <3>3, RefFacts DEF Image, NewImage, Work
      <4>2. OwnedBy(o)' = (IF trapframe[o] THEN 1 ELSE 0) + Owned(t) + Owned(NewImage(o))
        BY <3>2, <4>1 DEF OwnedBy, Owned
      <4> QED
        BY <1>1, <3>1, <4>1, <4>2 DEF OwnedBy
    <3>4. CASE ref[p] = <<o, "exec">>
      <4>1. NewImage(o) = Work(p) /\ NewImage(o)' = t /\ Image(o)' = Image(o)
        BY <1>3, <3>4, RefFacts DEF Image, NewImage, Work
      <4>2. OwnedBy(o)' = (IF trapframe[o] THEN 1 ELSE 0) + Owned(Image(o)) + Owned(t)
        BY <3>2, <4>1 DEF OwnedBy, Owned
      <4> QED
        BY <1>1, <3>1, <4>1, <4>2 DEF OwnedBy
    <3> QED
      BY <2>2, <3>3, <3>4
  <2> QED
    BY <1>1, <2>3, <2>4, CountStep
<1> QED
  BY <1>4, <1>5, <1>6 DEF TableInv

\* p returns to user mode with its image and without a table of exec().
LEMMA LeaveStep ==
  ASSUME MemInv, NEW p \in Proc, MemType', Leave(p), UNCHANGED <<state, trapframe>>,
         state[p] = "live", \A q \in Proc \ {p} : sz'[q] = sz[q],
         \A r \in Ref \ {<<p, "image">>, <<p, "exec">>} : table'[r] = table[r],
         Image(p)' \in Table, CanFree(Image(p), sz[p])', NewImage(p)' = Null,
         free' + Owned(Image(p))' = free + Owned(Image(p)) + Owned(NewImage(p))
  PROVE  Good'
<1> USE DEF MemInv, Good, IInv
<1>1. TableType /\ TableType' /\ free' \in Nat
  BY DEF MemType, TableType
<1>2. /\ \A q \in Proc \ {p} : Still(q)
      /\ pc'[p] = "idle" /\ i'[p] = 0 /\ newsz'[p] = 0
  BY DEF Leave, Enter, Still, MemType
<1>3. \A q \in Proc \ {p} : WorkInv(q)'
  <2> SUFFICES ASSUME NEW q \in Proc \ {p} PROVE WorkInv(q)'
    OBVIOUS
  <2>1. pc[q] # "idle" => table'[ref[q]] = table[ref[q]]
    BY Apart
  <2> QED
    BY <1>2, <2>1, WorkStill DEF TableInv
<1>4. WorkInv(p)'
  BY <1>2 DEF WorkInv, GrowLabel
<1>5. \A q \in Proc \ {p} : Image(q)' = Image(q) /\ NewImage(q)' = NewImage(q)
  BY RefFacts DEF Image, NewImage
<1>6. \A q \in Proc \ {p} : ImageInv(q)'
  <2> SUFFICES ASSUME NEW q \in Proc \ {p} PROVE ImageInv(q)'
    OBVIOUS
  <2> QED
    BY <1>2, <1>5, ImageStill DEF TableInv, Still
<1>7. ImageInv(p)'
  BY DEF TableInv, ImageInv
<1>8. CountInv'
  <2>1. \A q \in Proc \ {p} : HeldBy(q)' = HeldBy(q)
    BY <1>5, HeldStill
  <2>2. /\ Owned(Image(p)) \in Nat /\ Owned(NewImage(p)) \in Nat /\ Owned(Image(p)') \in Nat
        /\ free \in Nat
    BY OwnedPages, RefFacts DEF MemType, Image, NewImage
  <2>3. OwnedBy(p)' = (IF trapframe[p] THEN 1 ELSE 0) + Owned(Image(p)')
    BY <2>2 DEF OwnedBy, Owned
  <2>4. Owned(Image(p))' = Owned(Image(p)')
    BY DEF Owned
  <2>5. free' + OwnedBy(p)' = free + OwnedBy(p)
    BY <1>1, <2>2, <2>3, <2>4 DEF OwnedBy
  <2> QED
    BY <1>1, <2>1, <2>5, CountStep
<1> QED
  BY <1>3, <1>4, <1>6, <1>7, <1>8 DEF TableInv

\* A step that changes the memory of slot c only, where nobody works on an image of c
\* afterwards but, perhaps, p.
LEMMA SlotStep ==
  ASSUME MemInv, NEW p \in Proc, NEW c \in Proc, MemType',
         \A q \in Proc \ {p} : Still(q), WorkInv(p)',
         \A q \in Proc \ {c} : /\ state'[q] = state[q] /\ trapframe'[q] = trapframe[q]
                               /\ sz'[q] = sz[q] /\ (pc'[q] # "sbrk" => pc[q] # "sbrk"),
         ImageInv(c)', pc[c] = "idle",
         \A q \in Proc \ {p} : ref[q] # <<c, "image">> \/ pc[q] = "idle" \/ Image(c)' = Image(c),
         \A r \in Ref \ {<<c, "image">>} : table'[r] = table[r],
         free' + (IF trapframe'[c] THEN 1 ELSE 0) + Owned(Image(c))'
           = free + (IF trapframe[c] THEN 1 ELSE 0) + Owned(Image(c))
  PROVE  Good'
<1> USE DEF MemInv, Good, IInv
<1>1. TableType /\ TableType' /\ free' \in Nat
  BY DEF MemType, TableType
<1>2. \A q \in Proc \ {p} : WorkInv(q)'
  <2> SUFFICES ASSUME NEW q \in Proc \ {p} PROVE WorkInv(q)'
    OBVIOUS
  <2>1. pc[q] # "idle" => table'[ref[q]] = table[ref[q]] /\ sz'[q] = sz[q]
    BY Apart DEF Image
  <2> QED
    BY <2>1, WorkStill DEF TableInv
<1>3. \A q \in Proc \ {c} : Image(q)' = Image(q) /\ NewImage(q)' = NewImage(q)
  BY RefFacts DEF Image, NewImage
<1>4. \A q \in Proc \ {c} : ImageInv(q)'
  <2> SUFFICES ASSUME NEW q \in Proc \ {c} PROVE ImageInv(q)'
    OBVIOUS
  <2> QED
    BY <1>3, ImageStill DEF TableInv
<1>5. CountInv'
  <2>1. \A q \in Proc \ {c} : HeldBy(q)' = HeldBy(q)
    BY <1>3, HeldStill
  <2>2. /\ Owned(Image(c)) \in Nat /\ Owned(NewImage(c)) \in Nat /\ Owned(Image(c)') \in Nat
        /\ free \in Nat
    BY OwnedPages, RefFacts DEF MemType, Image, NewImage
  <2>3. NewImage(c)' = NewImage(c)
    BY RefFacts DEF NewImage
  <2>4. OwnedBy(c)' = (IF trapframe'[c] THEN 1 ELSE 0) + Owned(Image(c)') + Owned(NewImage(c))
    BY <2>3 DEF OwnedBy, Owned
  <2>5. Owned(Image(c))' = Owned(Image(c)')
    BY DEF Owned
  <2>6. free' + OwnedBy(c)' = free + OwnedBy(c)
    BY <1>1, <2>2, <2>4, <2>5 DEF OwnedBy
  <2> QED
    BY <1>1, <2>1, <2>6, CountStep
<1> QED
  BY <1>2, <1>4, <1>5 DEF TableInv

-----------------------------------------------------------------------------
(* The steps of uvmalloc() and uvmcopy().                                  *)

\* The next user page, n, is mapped.
LEMMA MapsNext ==
  ASSUME MemInv, NEW r \in Ref, NEW n \in Nat, Maps(table[r], n), CanMap(table[r], n),
         NEW t \in Table, t.dir = Mapped(table[r], n).dir, t.leaf = Mapped(table[r], n).leaf
  PROVE  /\ Maps(t, n + 1) /\ n \in Vpn
         /\ free - 1 - Cardinality(Missing(table[r], n)) \in Nat
         /\ Owned(t) = Owned(table[r]) + 1 + Cardinality(Missing(table[r], n))
         /\ Cardinality(Missing(table[r], n)) \in Nat /\ Owned(table[r]) \in Nat
<1> USE DEF MemInv, Good
<1>1. TableType /\ free \in Nat
  BY DEF TableType, MemType
<1>2. n < USYSCALL /\ Owned(table[r]) = Cardinality(table[r].dir) + n + 1 /\ USYSCALL \in Nat
  BY <1>1, Room, FixedPath
<1>3. n \in Vpn
  BY <1>2, BelowFixed
<1>4. table[r] \in Table /\ table[r].leaf = Fixed \cup 0 .. n - 1
  BY DEF Maps
<1>5. /\ t.leaf = table[r].leaf \cup {n}
      /\ Cardinality(t.dir) = Cardinality(table[r].dir) + Cardinality(Missing(table[r], n))
      /\ Cardinality(Missing(table[r], n)) \in Nat /\ Cardinality(table[r].dir) \in Nat
  BY <1>3, <1>4, MapPage
<1>6. t.leaf = Fixed \cup 0 .. (n + 1) - 1
  BY <1>4, <1>5
<1>7. Owned(t) = Cardinality(t.dir) + (n + 1) + 1
  BY <1>2, <1>6, CountLeaf
<1>8. 1 + Cardinality(Missing(table[r], n)) <= free
  BY DEF CanMap
<1> QED
  BY <1>1, <1>2, <1>3, <1>5, <1>6, <1>7, <1>8 DEF Maps

\* uvmalloc() maps one more page.
LEMMA UvmallocPageGood ==
  ASSUME MemInv, NEW p \in Proc, UvmallocPage(p)
  PROVE  Good'
<1> USE DEF MemInv, Good
<1> DEFINE t == Mapped(Work(p), i[p])
<1>1. /\ pc[p] \in GrowLabel /\ i[p] * PGSIZE < goal[p] /\ ref[p] \in Ref /\ i[p] \in Nat
      /\ goal[p] \in Nat /\ CanMap(Work(p), i[p])
      /\ UNCHANGED <<proc, pc, ref, base, goal, newsz>>
      /\ i' = [i EXCEPT ![p] = i[p] + 1]
      /\ table' = [table EXCEPT ![ref[p]] = t]
      /\ free' = free - 1 - Cardinality(Missing(Work(p), i[p]))
  BY DEF UvmallocPage, MemType, Work
<1>2. /\ Maps(Work(p), i[p]) /\ base[p] = Pages(IF pc[p] = "sbrk" THEN sz[p] ELSE newsz[p])
      /\ base[p] <= i[p] /\ i[p] <= Pages(goal[p]) /\ base[p] \in Nat
      /\ pc[p] = "stackpages" => newsz[p] = base[p] * PGSIZE /\ goal[p] = (base[p] + 2) * PGSIZE
  BY <1>1 DEF TableInv, WorkInv, MemType
<1>3. i[p] \in Vpn
  <2>1. i[p] < USYSCALL
    BY <1>1, <1>2, Room DEF Work, TableType, MemType
  <2> QED
    BY <1>1, <2>1, BelowFixed, FixedPath
<1>4. t \in Table
  BY <1>2, <1>3, MapPage DEF Maps
<1>5. /\ Maps(t, i[p] + 1) /\ free' \in Nat
      /\ free' + Owned(t) = free + Owned(Work(p))
  <2> HIDE DEF MemInv, Good
  <2>1. /\ Maps(t, i[p] + 1)
        /\ free - 1 - Cardinality(Missing(Work(p), i[p])) \in Nat
        /\ Owned(t) = Owned(Work(p)) + 1 + Cardinality(Missing(Work(p), i[p]))
        /\ Cardinality(Missing(Work(p), i[p])) \in Nat /\ Owned(Work(p)) \in Nat
    BY <1>1, <1>2, <1>4, MapsNext DEF Work
  <2>2. free \in Nat
    BY DEF MemInv, Good, MemType
  <2> HIDE DEF t
  <2> QED
    BY <1>1, <2>1, <2>2
<1>6. i[p] + 1 <= Pages(goal[p])
  BY <1>1, PagesBound
<1> HIDE DEF t
<1>7. MemType'
  BY <1>1, <1>4, <1>5 DEF MemType, proc
<1>8. /\ Work(p)' = t /\ i'[p] = i[p] + 1
      /\ pc'[p] = pc[p] /\ base'[p] = base[p] /\ goal'[p] = goal[p] /\ newsz'[p] = newsz[p]
      /\ sz'[p] = sz[p]
  BY <1>1 DEF Work, MemType, proc
<1>9. WorkInv(p)'
  <2>1. Maps(t, i'[p])
    BY <1>5, <1>8
  <2>2. Maps(Work(p), i[p])'
    BY <1>8, <2>1 DEF Maps
  <2> QED
    BY <1>1, <1>2, <1>6, <1>8, <2>2 DEF WorkInv, GrowLabel, Pages
<1>10. \A q \in Proc \ {p} : Still(q)
  BY <1>1 DEF Still, MemType
<1>11. t # Null /\ pc[p] # "idle" /\ ref' = ref
  BY <1>1, <1>4, TableParts DEF GrowLabel
<1> HIDE DEF MemInv, Good
<1> QED
  BY <1>1, <1>4, <1>5, <1>7, <1>8, <1>9, <1>10, <1>11, WorkStep

\* walk() that ran dry has added what it could pay for, and uvmalloc() unmaps its pages.
LEMMA Unmapped ==
  ASSUME MemInv, NEW r \in Ref, NEW n \in Nat, NEW b \in Nat, b <= n, Maps(table[r], n),
         NEW t \in Table,
         t.dir = table[r].dir \cup WalkedTo(table[r], n), t.leaf = table[r].leaf \ (b .. n - 1)
  PROVE  /\ Maps(t, b) /\ free - Cardinality(WalkedTo(table[r], n)) \in Nat
         /\ Owned(t) + (n - b) = Owned(table[r]) + Cardinality(WalkedTo(table[r], n))
         /\ Cardinality(WalkedTo(table[r], n)) \in Nat /\ Owned(table[r]) \in Nat
         /\ Owned(t) \in Nat /\ Cardinality(b .. n - 1) = n - b
<1> DEFINE W == WalkedTo(table[r], n)
<1>1. TableType /\ free \in Nat
  BY DEF TableType, MemType, MemInv, Good
<1>2. n < USYSCALL /\ Owned(table[r]) = Cardinality(table[r].dir) + n + 1 /\ USYSCALL \in Nat
  BY <1>1, Room, FixedPath DEF MemInv, Good
<1>3. table[r] \in Table /\ table[r].leaf = Fixed \cup 0 .. n - 1
  BY DEF Maps
<1>4. t.leaf = Fixed \cup 0 .. b - 1
  BY <1>2, <1>3, FixedPath DEF Fixed
<1>5. Owned(t) = Cardinality(t.dir) + b + 1
  <2>1. b <= USYSCALL
    BY <1>2
  <2> QED
    BY <1>4, <2>1, CountLeaf
<1>6. IsFiniteSet(W) /\ Cardinality(W) \in Nat /\ Cardinality(W) <= free
  <2>1. W \subseteq {<<1, n \div (Fan * Fan)>>}
    BY DEF WalkedTo, Missing, Path
  <2>2. W = {} \/ (free >= 2 /\ W = {<<1, n \div (Fan * Fan)>>})
    BY <2>1 DEF WalkedTo
  <2> HIDE DEF W
  <2>3. CASE W = {}
    BY <1>1, <2>3, FS_EmptySet
  <2>4. CASE free >= 2 /\ W = {<<1, n \div (Fan * Fan)>>}
    <3>1. IsFiniteSet(W) /\ Cardinality(W) = 1
      BY <2>4, FS_Singleton
    <3> QED
      BY <1>1, <2>4, <3>1
  <2> QED
    BY <2>2, <2>3, <2>4
<1>7. W \cap table[r].dir = {}
  BY DEF WalkedTo, Missing
<1>8. IsFiniteSet(table[r].dir)
  BY <1>3, TableParts
<1> HIDE DEF W
<1>9. Cardinality(t.dir) = Cardinality(table[r].dir) + Cardinality(W) /\ Cardinality(table[r].dir) \in Nat
  <2>1. t.dir = table[r].dir \cup W
    BY DEF W
  <2> QED
    BY <1>6, <1>7, <1>8, <2>1, Disjoint
<1>10. Cardinality(b .. n - 1) = n - b
  BY IntervalSize
<1>11. /\ Maps(t, b) /\ free - Cardinality(W) \in Nat
       /\ Owned(t) + (n - b) = Owned(table[r]) + Cardinality(W)
       /\ Owned(table[r]) \in Nat /\ Owned(t) \in Nat
  BY <1>1, <1>2, <1>4, <1>5, <1>6, <1>9 DEF Maps
<1> QED
  BY <1>6, <1>10, <1>11 DEF W

\* uvmalloc() runs out of memory: sbrk() leaves the image as it was, exec() gives up.
LEMMA UvmallocFailsGood ==
  ASSUME MemInv, NEW p \in Proc, UvmallocFails(p)
  PROVE  Good'
<1> USE DEF MemInv, Good
<1> DEFINE t0 == Work(p)
           W == WalkedTo(t0, i[p])
           new == base[p] .. i[p] - 1
           t == [t0 EXCEPT !.dir = @ \cup W, !.leaf = @ \ new]
<1>1. /\ pc[p] \in GrowLabel /\ ref[p] \in Ref /\ i[p] \in Nat /\ base[p] \in Nat
      /\ UNCHANGED proc
      /\ table' = [table EXCEPT ![ref[p]] = t]
      /\ free' = free - Cardinality(W) + Cardinality(new)
      /\ IF pc[p] = "sbrk" THEN Leave(p) ELSE Enter(p, "bad") /\ UNCHANGED locals
  BY DEF UvmallocFails, MemType, Work
<1>2. /\ Maps(t0, i[p]) /\ base[p] = Pages(IF pc[p] = "sbrk" THEN sz[p] ELSE newsz[p])
      /\ base[p] <= i[p]
  BY <1>1 DEF TableInv, WorkInv
<1>3. /\ t0 \in Table /\ t \in Table /\ t.dir = t0.dir \cup W /\ t.leaf = t0.leaf \ new
  <2>1. t0 \in Table
    BY <1>2 DEF Maps
  <2>2. i[p] < USYSCALL
    BY <1>1, <1>2, Room DEF Work, TableType, MemType
  <2>3. i[p] \in Vpn
    BY <1>1, <2>2, BelowFixed, FixedPath
  <2>4. W \subseteq Node
    BY <2>3, FiniteTables DEF WalkedTo, Missing
  <2> HIDE DEF W, new
  <2> QED
    BY <2>1, <2>4 DEF Table
<1>4. /\ Maps(t, base[p]) /\ free' \in Nat /\ free' + Owned(t) = free + Owned(t0)
      /\ Owned(t) \in Nat /\ Owned(t0) \in Nat
  <2> HIDE DEF t
  <2>1. free \in Nat
    BY DEF MemType
  <2> HIDE DEF MemInv, Good
  <2>3. t0 = table[ref[p]]
    BY DEF Work
  <2>2. /\ Maps(t, base[p]) /\ free - Cardinality(W) \in Nat
        /\ Owned(t) + (i[p] - base[p]) = Owned(t0) + Cardinality(W)
        /\ Cardinality(W) \in Nat /\ Owned(t0) \in Nat
        /\ Owned(t) \in Nat /\ Cardinality(new) = i[p] - base[p]
    <3> HIDE DEF t0
    <3>1. /\ ref[p] \in Ref /\ i[p] \in Nat /\ base[p] \in Nat /\ base[p] <= i[p]
          /\ Maps(table[ref[p]], i[p])
      BY <1>1, <1>2, <2>3
    <3>2. /\ t \in Table /\ t.dir = table[ref[p]].dir \cup WalkedTo(table[ref[p]], i[p])
          /\ t.leaf = table[ref[p]].leaf \ (base[p] .. i[p] - 1)
      BY <1>3, <2>3
    <3> HIDE DEF W, new
    <3>3. /\ Maps(t, base[p]) /\ free - Cardinality(WalkedTo(table[ref[p]], i[p])) \in Nat
          /\ Owned(t) + (i[p] - base[p])
               = Owned(table[ref[p]]) + Cardinality(WalkedTo(table[ref[p]], i[p]))
          /\ Cardinality(WalkedTo(table[ref[p]], i[p])) \in Nat /\ Owned(table[ref[p]]) \in Nat
          /\ Owned(t) \in Nat /\ Cardinality(base[p] .. i[p] - 1) = i[p] - base[p]
      BY SMTT(60), <3>1, <3>2, Unmapped
    <3> QED
      BY <2>3, <3>3 DEF W, new
  <2> HIDE DEF W, new
  <2> QED
    BY <1>1, <1>2, <2>1, <2>2
<1> HIDE DEF t, W, new
<1>5. MemType'
  <2>1. table' \in [Ref -> Table \cup {Null}]
    BY <1>1, <1>3 DEF MemType
  <2>2. CASE pc[p] = "sbrk"
    <3>1. <<p, "image">> \in Ref
      BY RefFacts
    <3> QED
      BY <1>1, <1>4, <2>1, <2>2, <3>1 DEF MemType, proc, Leave, Enter, Label
  <2>3. CASE pc[p] # "sbrk"
    BY <1>1, <1>4, <2>1, <2>3 DEF MemType, proc, Enter, locals, Label, ExecLabel
  <2> QED
    BY <2>2, <2>3
<1>6. CASE pc[p] = "sbrk"
  <2>1. ref[p] = <<p, "image">> /\ state[p] = "live"
    BY <1>6 DEF IInv, KernelInv
  <2>2. /\ t0 = Image(p) /\ Image(p)' = t
        /\ \A r \in Ref \ {<<p, "image">>} : table'[r] = table[r]
    BY <1>1, <2>1 DEF Work, Image, MemType
  <2>3. NewImage(p)' = Null /\ NewImage(p) = Null /\ Owned(Null) = 0
    BY <2>1, <2>2, RefFacts DEF IInv, HoldInv, NewImage, Owned
  <2>4. CanFree(Image(p), sz[p])'
    <3>1. CanFree(t, sz[p])
      BY <1>2, <1>4, <1>6 DEF CanFree, Maps
    <3> QED
      BY <1>1, <2>2, <3>1 DEF CanFree, Pages, proc
  <2>5. Owned(Image(p))' = Owned(t)
    BY <2>2 DEF Owned
  <2>6. free' + Owned(Image(p))' = free + Owned(Image(p)) + Owned(NewImage(p))
    BY <1>4, <2>2, <2>3, <2>5 DEF MemType
  <2>7. Leave(p) /\ UNCHANGED <<state, trapframe>> /\ \A q \in Proc \ {p} : sz'[q] = sz[q]
    BY <1>1, <1>6 DEF proc
  <2> HIDE DEF MemInv, Good
  <2> QED
    BY <1>3, <1>5, <2>1, <2>2, <2>3, <2>4, <2>6, <2>7, LeaveStep
<1>7. CASE pc[p] # "sbrk"
  <2>1. /\ pc' = [pc EXCEPT ![p] = "bad"] /\ UNCHANGED <<ref, base, i, goal, newsz>>
    BY <1>1, <1>7 DEF Enter, locals
  <2>2. WorkInv(p)'
    <3>1. pc'[p] = "bad" /\ Work(p)' = t /\ newsz'[p] = newsz[p]
      BY <1>1, <2>1 DEF MemType, Work
    <3>2. Maps(t, Pages(newsz[p]))
      BY <1>2, <1>4, <1>7
    <3>3. Maps(Work(p), Pages(newsz[p]))'
      BY <3>1, <3>2 DEF Maps, Pages
    <3> QED
      BY <3>1, <3>3 DEF WorkInv, GrowLabel
  <2>3. \A q \in Proc \ {p} : Still(q)
    BY <2>1 DEF Still, MemType
  <2> HIDE DEF MemInv, Good
  <2> QED
    BY <1>1, <1>3, <1>4, <1>5, <1>7, <2>1, <2>2, <2>3, WorkStep DEF GrowLabel
<1> QED
  BY <1>6, <1>7

-----------------------------------------------------------------------------
(* Steps that touch no table.                                              *)

\* A step of p that changes its locals only.
LEMMA LocalStep ==
  ASSUME MemInv, NEW p \in Proc, MemType', UNCHANGED <<free, proc, table>>,
         \A q \in Proc \ {p} : Still(q),
         WorkInv(p)', pc'[p] # "sbrk" => pc[p] # "sbrk"
  PROVE  Good'
<1> USE DEF MemInv, Good
<1>1. \A q \in Proc \ {p} : WorkInv(q)'
  <2> SUFFICES ASSUME NEW q \in Proc \ {p} PROVE WorkInv(q)'
    OBVIOUS
  <2> QED
    BY WorkStill DEF TableInv, proc
<1>2. \A q \in Proc : ImageInv(q)'
  <2> SUFFICES ASSUME NEW q \in Proc PROVE ImageInv(q)'
    OBVIOUS
  <2>1. Image(q)' = Image(q)
    BY DEF Image
  <2> QED
    BY <2>1, ImageStill DEF TableInv, proc, Still
<1>3. Held' = Held
  BY DEF Held, HeldBy, PagesOf, proc
<1> QED
  BY <1>1, <1>2, <1>3 DEF TableInv, CountInv

\* A table of the length that its size says, seen as a number of pages.
LEMMA FreeMaps ==
  ASSUME NEW t \in Table, NEW s \in Nat
  PROVE  CanFree(t, s) <=> Maps(t, Pages(s))
  BY DEF CanFree, Maps

\* sbrk() begins to grow the image.
LEMMA SbrkGrowGood ==
  ASSUME MemInv, NEW p \in Proc, NEW n \in SbrkArgs, SbrkGrow(p, n)
  PROVE  Good'
<1> USE DEF MemInv, Good
<1> DEFINE s == (sz[p] + n) % UintMod
<1>1. /\ pc[p] = "idle" /\ state[p] = "live" /\ n > 0 /\ sz[p] + n <= MaxSz /\ n \in Int
      /\ pc' = [pc EXCEPT ![p] = "sbrk"] /\ base' = [base EXCEPT ![p] = Pages(sz[p])]
      /\ i' = [i EXCEPT ![p] = Pages(sz[p])] /\ goal' = [goal EXCEPT ![p] = s]
      /\ UNCHANGED <<free, proc, table, ref, newsz>>
  BY VmAssumption DEF SbrkGrow, Uvmalloc, Enter
<1>2. sz[p] \in Nat /\ s = sz[p] + n /\ s \in Nat
  <2>1. sz[p] \in Nat /\ UintMod \in Nat /\ MaxSz \in Nat /\ MaxSz < UintMod
    BY VmAssumption DEF MemType
  <2>2. \A x \in Nat, m \in Nat : x < m => x % m = x
    OBVIOUS
  <2>3. sz[p] + n \in Nat /\ sz[p] + n < UintMod
    BY <1>1, <2>1
  <2>4. s = sz[p] + n
    BY <2>1, <2>2, <2>3
  <2> QED
    BY <2>1, <2>3, <2>4
<1> HIDE DEF s
<1>3. Pages(sz[p]) \in Nat /\ Pages(sz[p]) <= Pages(s)
  BY <1>1, <1>2, PagesBound, PagesMonotone
<1>4. MemType'
  BY <1>1, <1>2, <1>3 DEF MemType, proc, Label, GrowLabel
<1>5. ref[p] = <<p, "image">> /\ Work(p) = Image(p) /\ Maps(Image(p), Pages(sz[p]))
  <2>1. ref[p] = <<p, "image">>
    BY <1>1 DEF IInv, KernelInv
  <2>2. Image(p) \in Table /\ CanFree(Image(p), sz[p])
    BY <1>1 DEF TableInv, ImageInv
  <2> QED
    BY <1>2, <2>1, <2>2, FreeMaps DEF Work, Image
<1>6. WorkInv(p)'
  <2>1. /\ Work(p)' = Work(p) /\ pc'[p] = "sbrk" /\ base'[p] = Pages(sz[p]) /\ i'[p] = Pages(sz[p])
        /\ goal'[p] = s /\ sz'[p] = sz[p]
    BY <1>1 DEF Work, MemType, proc
  <2>2. Maps(Work(p), i[p])'
    BY <1>5, <2>1 DEF Maps
  <2> QED
    BY <1>3, <2>1, <2>2 DEF WorkInv, Pages
<1>7. \A q \in Proc \ {p} : Still(q)
  BY <1>1 DEF Still, MemType
<1> HIDE DEF MemInv, Good
<1> QED
  BY <1>1, <1>4, <1>6, <1>7, LocalStep

\* exec() begins.
LEMMA ExecGood ==
  ASSUME MemInv, NEW p \in Proc, Exec(p)
  PROVE  Good'
<1> USE DEF MemInv, Good
<1>1. /\ pc[p] = "idle" /\ state[p] = "live"
      /\ pc' = [pc EXCEPT ![p] = "create"] /\ ref' = [ref EXCEPT ![p] = <<p, "exec">>]
      /\ UNCHANGED <<free, proc, table, base, i, goal, newsz>>
  BY DEF Exec, Enter
<1>2. MemType'
  BY <1>1, RefFacts DEF MemType, proc, Label
<1>3. WorkInv(p)'
  <2>1. ref[p] = <<p, "image">> /\ i[p] = 0 /\ newsz[p] = 0
    BY <1>1 DEF IInv, KernelInv, TableInv, WorkInv
  <2>2. NewImage(p) = Null
    BY <2>1, RefFacts DEF IInv, HoldInv
  <2>3. Work(p)' = Null /\ pc'[p] = "create" /\ i'[p] = 0 /\ newsz'[p] = 0
    BY <1>1, <2>1, <2>2 DEF Work, NewImage, MemType
  <2> QED
    BY <2>3 DEF WorkInv, GrowLabel
<1>4. \A q \in Proc \ {p} : Still(q)
  BY <1>1 DEF Still, MemType
<1> HIDE DEF MemInv, Good
<1> QED
  BY <1>1, <1>2, <1>3, <1>4, LocalStep

\* exec() begins to grow the new image for a segment.
LEMMA ExecSegmentGood ==
  ASSUME MemInv, NEW p \in Proc, NEW s \in SegEnds, ExecSegment(p, s)
  PROVE  Good'
<1> USE DEF MemInv, Good
<1>1. /\ pc[p] = "segment" /\ s >= newsz[p] /\ s \in Nat
      /\ pc' = [pc EXCEPT ![p] = "segpages"] /\ base' = [base EXCEPT ![p] = Pages(newsz[p])]
      /\ i' = [i EXCEPT ![p] = Pages(newsz[p])] /\ goal' = [goal EXCEPT ![p] = s]
      /\ UNCHANGED <<free, proc, table, ref, newsz>>
  BY VmAssumption DEF ExecSegment, Uvmalloc, Enter
<1>2. newsz[p] \in Nat /\ Pages(newsz[p]) \in Nat /\ Pages(newsz[p]) <= Pages(s)
  BY <1>1, PagesBound, PagesMonotone DEF MemType
<1>3. MemType'
  BY <1>1, <1>2 DEF MemType, proc, Label, GrowLabel
<1>4. WorkInv(p)'
  <2>1. Maps(Work(p), Pages(newsz[p]))
    BY <1>1 DEF TableInv, WorkInv
  <2>2. /\ Work(p)' = Work(p) /\ pc'[p] = "segpages" /\ base'[p] = Pages(newsz[p])
        /\ i'[p] = Pages(newsz[p]) /\ goal'[p] = s /\ newsz'[p] = newsz[p]
    BY <1>1 DEF Work, MemType
  <2>3. Maps(Work(p), i[p])'
    BY <2>1, <2>2 DEF Maps
  <2> QED
    BY <1>2, <2>2, <2>3 DEF WorkInv, Pages
<1>5. \A q \in Proc \ {p} : Still(q)
  BY <1>1 DEF Still, MemType
<1> HIDE DEF MemInv, Good
<1> QED
  BY <1>1, <1>3, <1>4, <1>5, LocalStep

\* The segment has its memory.
LEMMA ExecSegmentDoneGood ==
  ASSUME MemInv, NEW p \in Proc, ExecSegmentDone(p)
  PROVE  Good'
<1> USE DEF MemInv, Good
<1>1. /\ pc[p] = "segpages" /\ i[p] * PGSIZE >= goal[p]
      /\ pc' = [pc EXCEPT ![p] = "segment"] /\ newsz' = [newsz EXCEPT ![p] = goal[p]]
      /\ UNCHANGED <<free, proc, table, ref, base, i, goal>>
  BY DEF ExecSegmentDone, Enter
<1>2. goal[p] \in Nat /\ i[p] \in Nat
  BY DEF MemType
<1>3. MemType'
  BY <1>1, <1>2 DEF MemType, proc, Label, GrowLabel, ExecLabel
<1>4. WorkInv(p)'
  <2>1. Maps(Work(p), i[p]) /\ i[p] <= Pages(goal[p])
    BY <1>1 DEF TableInv, WorkInv, GrowLabel
  <2>2. i[p] = Pages(goal[p])
    <3>1. PGSIZE \in Nat /\ i[p] * PGSIZE \in Nat
      BY <1>2, UserMemAssumption
    <3>2. Pages(goal[p]) \in Nat /\ ~(i[p] < Pages(goal[p]))
      BY <1>1, <1>2, <3>1, PagesBound
    <3> QED
      BY <1>2, <2>1, <3>2
  <2>3. Work(p)' = Work(p) /\ pc'[p] = "segment" /\ newsz'[p] = goal[p]
    BY <1>1 DEF Work, MemType
  <2>4. Maps(Work(p), Pages(newsz[p]))'
    BY <2>1, <2>2, <2>3 DEF Maps, Pages
  <2> QED
    BY <2>3, <2>4 DEF WorkInv, GrowLabel
<1>5. \A q \in Proc \ {p} : Still(q)
  BY <1>1 DEF Still, MemType
<1> HIDE DEF MemInv, Good
<1> QED
  BY <1>1, <1>3, <1>4, <1>5, LocalStep

\* exec() begins to grow the new image for the stack.
LEMMA ExecStackGood ==
  ASSUME MemInv, NEW p \in Proc, ExecStack(p)
  PROVE  Good'
<1> USE DEF MemInv, Good
<1> DEFINE k == Pages(newsz[p])
           s == k * PGSIZE
<1>1. /\ pc[p] = "segment"
      /\ pc' = [pc EXCEPT ![p] = "stackpages"] /\ base' = [base EXCEPT ![p] = Pages(s)]
      /\ i' = [i EXCEPT ![p] = Pages(s)] /\ goal' = [goal EXCEPT ![p] = s + 2 * PGSIZE]
      /\ newsz' = [newsz EXCEPT ![p] = s]
      /\ UNCHANGED <<free, proc, table, ref>>
  BY DEF ExecStack, Uvmalloc, Enter
<1>2. /\ k \in Nat /\ s \in Nat /\ Pages(s) = k
      /\ s + 2 * PGSIZE = (k + 2) * PGSIZE /\ Pages(s + 2 * PGSIZE) = k + 2
      /\ s + 2 * PGSIZE \in Nat
  <2>1. k \in Nat /\ PGSIZE \in Nat
    BY PagesBound, UserMemAssumption DEF MemType
  <2> HIDE DEF k
  <2>2. s \in Nat /\ s + 2 * PGSIZE = (k + 2) * PGSIZE /\ s + 2 * PGSIZE \in Nat
    BY <2>1
  <2>3. k + 2 \in Nat
    BY <2>1
  <2> QED
    BY <2>1, <2>2, <2>3, PagesWhole
<1>3. Maps(Work(p), k)
  BY <1>1 DEF TableInv, WorkInv
<1> HIDE DEF k, s
<1>4. MemType'
  BY <1>1, <1>2 DEF MemType, proc, Label, GrowLabel
<1>5. WorkInv(p)'
  <2>1. /\ Work(p)' = Work(p) /\ pc'[p] = "stackpages" /\ base'[p] = k
        /\ i'[p] = k /\ goal'[p] = s + 2 * PGSIZE /\ newsz'[p] = s
    BY <1>1, <1>2 DEF Work, MemType
  <2>2. Maps(Work(p), i[p])'
    BY <1>3, <2>1 DEF Maps
  <2>3. Pages(newsz'[p]) = k /\ Pages(goal'[p]) = k + 2
    BY <1>2, <2>1
  <2>4. newsz'[p] = base'[p] * PGSIZE /\ goal'[p] = (base'[p] + 2) * PGSIZE
    BY <1>2, <2>1 DEF s
  <2> QED
    BY <1>2, <2>1, <2>2, <2>3, <2>4 DEF WorkInv, Pages
<1>6. \A q \in Proc \ {p} : Still(q)
  BY <1>1 DEF Still, MemType
<1> HIDE DEF MemInv, Good
<1> QED
  BY <1>1, <1>4, <1>5, <1>6, LocalStep

-----------------------------------------------------------------------------
(* The steps of proc_pagetable() and uvmcopy() that succeed.               *)

\* The root of a page table.
LEMMA UvmcreateGood ==
  ASSUME MemInv, NEW p \in Proc, Uvmcreate(p), ~ReturnsZero(p, 0)
  PROVE  Good'
<1> USE DEF MemInv, Good
<1> DEFINE t == [dir |-> {Root}, leaf |-> {}, guard |-> {}]
<1>1. /\ pc[p] = "create" /\ free > 0 /\ free' = free - 1 /\ table' = [table EXCEPT ![ref[p]] = t]
      /\ pc' = [pc EXCEPT ![p] = "fixed"] /\ UNCHANGED <<proc, ref, base, i, goal, newsz>>
  BY DEF Uvmcreate, Enter, locals
<1>2. ref[p] \in Ref /\ Work(p) = Null /\ i[p] = 0 /\ newsz[p] = 0
  BY <1>1 DEF TableInv, WorkInv, MemType
<1>3. t \in Table /\ t # Null /\ Owned(t) = 1
  <2>1. t \in Table
    BY DEF Table, Node
  <2>2. Cardinality({Root}) = 1 /\ Cardinality({}) = 0
    BY FS_Singleton, FS_EmptySet
  <2>3. {} \ {TRAMPOLINE, TRAPFRAME} = {}
    OBVIOUS
  <2>4. Owned(t) = Cardinality({Root}) + Cardinality({})
    BY <2>1, <2>3, NullAssumption DEF Owned
  <2> QED
    BY <2>1, <2>2, <2>4, NullAssumption
<1>4. MemType' /\ free' + Owned(t) = free + Owned(Work(p))
  <2> HIDE DEF t
  <2>1. free' \in Nat /\ Owned(Work(p)) = 0 /\ free \in Nat
    BY <1>1, <1>2 DEF MemType, Owned
  <2> QED
    BY <1>1, <1>3, <2>1 DEF MemType, proc, Label
<1>5. WorkInv(p)'
  <2>1. Work(p)' = t /\ pc'[p] = "fixed" /\ i'[p] = 0 /\ newsz'[p] = 0
    BY <1>1, <1>2 DEF Work, MemType
  <2> QED
    BY <2>1 DEF WorkInv, GrowLabel
<1>6. \A q \in Proc \ {p} : Still(q)
  BY <1>1 DEF Still, MemType
<1> HIDE DEF MemInv, Good, t
<1> QED
  BY <1>1, <1>3, <1>4, <1>5, <1>6, WorkStep

\* The trampoline and the trapframe.
LEMMA MapFixedGood ==
  ASSUME MemInv, NEW p \in Proc, MapFixed(p), ~ReturnsZero(p, 1)
  PROVE  Good'
<1> USE DEF MemInv, Good
<1> DEFINE t0 == [dir |-> {Root}, leaf |-> {}, guard |-> {}]
           t1 == Mapped(t0, TRAMPOLINE)
           t  == Mapped(t1, TRAPFRAME)
           need == Cardinality(Missing(t0, TRAMPOLINE))
<1>1. pc[p] = "fixed" /\ Work(p) = t0 /\ i[p] = 0 /\ newsz[p] = 0 /\ ref[p] \in Ref
  BY DEF MapFixed, TableInv, WorkInv, MemType
<1>2. /\ free >= need /\ free' = free - need /\ table' = [table EXCEPT ![ref[p]] = t]
      /\ pc' = [pc EXCEPT ![p] = "usyscall"] /\ UNCHANGED <<proc, ref, base, i, goal, newsz>>
  BY <1>1 DEF MapFixed, Enter, locals, Work
<1>3. t0 \in Table /\ TRAMPOLINE \in Vpn /\ TRAPFRAME \in Vpn
  BY FixedPath DEF Table, Node, Fixed
<1>4. /\ t1 \in Table /\ t1.dir = {Root} \cup Path(TRAMPOLINE) /\ t1.leaf = {TRAMPOLINE}
      /\ need \in Nat /\ Cardinality(t1.dir) = Cardinality({Root}) + need
  <2>1. t0.dir = {Root} /\ t0.leaf = {}
    OBVIOUS
  <2> HIDE DEF t0
  <2>2. /\ t1 \in Table /\ t1.dir = t0.dir \cup Path(TRAMPOLINE)
        /\ t1.leaf = t0.leaf \cup {TRAMPOLINE}
        /\ need \in Nat /\ Cardinality(t1.dir) = Cardinality(t0.dir) + need
    BY <1>3, MapPage
  <2> HIDE DEF t1, need
  <2> QED
    BY <2>1, <2>2
<1> HIDE DEF t0, t1, need
<1>5. /\ t \in Table /\ t.dir = t1.dir /\ t.leaf = {TRAMPOLINE, TRAPFRAME}
  <2>1. t \in Table /\ t.dir = t1.dir \cup Path(TRAPFRAME) /\ t.leaf = t1.leaf \cup {TRAPFRAME}
    BY <1>3, <1>4, MapPage
  <2> QED
    BY <1>4, <2>1, FixedPath
<1> HIDE DEF t
<1>6. t # Null /\ Owned(t) = 1 + need /\ Owned(t0) = 1
  <2>1. Cardinality({Root}) = 1 /\ Cardinality({}) = 0
    BY FS_Singleton, FS_EmptySet
  <2>2. t # Null /\ t0 # Null
    BY <1>3, <1>5, NullAssumption
  <2>3. t.leaf \ {TRAMPOLINE, TRAPFRAME} = {}
    BY <1>5
  <2>4. Owned(t) = Cardinality(t1.dir) + Cardinality({})
    BY <1>5, <2>2, <2>3 DEF Owned
  <2>5. Owned(t0) = Cardinality({Root}) + Cardinality({})
    <3>1. t0.dir = {Root} /\ t0.leaf \ {TRAMPOLINE, TRAPFRAME} = {}
      BY DEF t0
    <3> QED
      BY <2>2, <3>1 DEF Owned
  <2> QED
    BY <1>4, <2>1, <2>2, <2>4, <2>5
<1>7. MemType' /\ free' + Owned(t) = free + Owned(Work(p))
  <2>1. free' \in Nat /\ free \in Nat
    BY <1>2, <1>4 DEF MemType
  <2>2. table' \in [Ref -> Table \cup {Null}]
    BY <1>1, <1>2, <1>5 DEF MemType
  <2> QED
    BY <1>1, <1>2, <1>4, <1>6, <2>1, <2>2 DEF MemType, proc, Label
<1>8. WorkInv(p)'
  <2>1. Work(p)' = t /\ pc'[p] = "usyscall" /\ i'[p] = 0 /\ newsz'[p] = 0
    BY <1>1, <1>2 DEF Work, MemType
  <2>2. Path(USYSCALL) \subseteq t.dir
    BY <1>4, <1>5, FixedPath
  <2> QED
    BY <1>5, <2>1, <2>2 DEF WorkInv, GrowLabel
<1>9. \A q \in Proc \ {p} : Still(q)
  BY <1>2 DEF Still, MemType
<1> HIDE DEF MemInv, Good
<1> QED
  BY <1>1, <1>2, <1>5, <1>7, <1>8, <1>9, WorkStep

\* The USYSCALL page needs no page-table page of its own.
LEMMA MapUsyscallGood ==
  ASSUME MemInv, NEW p \in Proc, MapUsyscall(p)
  PROVE  Good'
<1> USE DEF MemInv, Good
<1> DEFINE t0 == Work(p)
           t == Mapped(t0, USYSCALL)
           l == IF Forking(p) THEN "copy" ELSE "segment"
<1>1. /\ pc[p] = "usyscall" /\ free > 0 /\ free' = free - 1
      /\ table' = [table EXCEPT ![ref[p]] = t]
      /\ pc' = [pc EXCEPT ![p] = l] /\ UNCHANGED <<proc, ref, base, i, goal, newsz>>
  BY DEF MapUsyscall, Enter, locals, Work
<1>2. /\ t0 \in Table /\ t0.leaf = {TRAMPOLINE, TRAPFRAME} /\ Path(USYSCALL) \subseteq t0.dir
      /\ i[p] = 0 /\ newsz[p] = 0 /\ ref[p] \in Ref
  BY <1>1 DEF TableInv, WorkInv, MemType
<1>3. t \in Table /\ t.dir = t0.dir /\ t.leaf = Fixed
  <2>1. USYSCALL \in Vpn
    BY FixedPath DEF Fixed
  <2>2. t \in Table /\ t.dir = t0.dir \cup Path(USYSCALL) /\ t.leaf = t0.leaf \cup {USYSCALL}
    BY <1>2, <2>1, MapPage
  <2> QED
    BY <1>2, <2>2 DEF Fixed
<1>4. /\ Owned(t0) \in Nat /\ Owned(t) = Owned(t0) + 1
  <2>1. t0 # Null /\ Cardinality(t0.dir) \in Nat
    BY <1>2, TableParts, FS_CardinalityType
  <2>2. t0.leaf \ {TRAMPOLINE, TRAPFRAME} = {} /\ Cardinality({}) = 0
    BY <1>2, FS_EmptySet
  <2>3. Owned(t0) = Cardinality(t0.dir) + Cardinality({})
    BY <2>1, <2>2 DEF Owned
  <2>4. Owned(t) = Cardinality(t0.dir) + 0 + 1
    <3>1. t.leaf = Fixed \cup 0 .. 0 - 1
      BY <1>3
    <3> HIDE DEF t, t0
    <3>2. Owned(t) = Cardinality(t.dir) + 0 + 1
      BY <1>3, <3>1, CountLeaf, FixedPath
    <3> QED
      BY <1>3, <3>2
  <2> QED
    BY <2>1, <2>2, <2>3, <2>4
<1> HIDE DEF t
<1>5. MemType' /\ free' + Owned(t) = free + Owned(t0)
  <2>1. free' \in Nat /\ free \in Nat
    BY <1>1 DEF MemType
  <2>2. table' \in [Ref -> Table \cup {Null}]
    BY <1>1, <1>2, <1>3 DEF MemType
  <2> HIDE DEF t0
  <2> QED
    BY <1>1, <1>4, <2>1, <2>2 DEF MemType, proc, Label, ExecLabel
<1>6. WorkInv(p)'
  <2>1. Work(p)' = t /\ pc'[p] = l /\ i'[p] = 0 /\ newsz'[p] = 0 /\ sz'[p] = sz[p]
    BY <1>1, <1>2 DEF Work, MemType, proc
  <2>2. Pages(0) = 0 /\ Pages(sz[p]) \in Nat
    <3>1. 0 * PGSIZE = 0
      BY UserMemAssumption
    <3> QED
      BY <3>1, PagesWhole, PagesBound DEF MemType
  <2>3. Maps(t, 0)
    BY <1>3 DEF Maps
  <2>4. Maps(Work(p), i[p])' /\ Maps(Work(p), Pages(newsz[p]))'
    BY <2>1, <2>2, <2>3 DEF Maps, Pages
  <2>5. i'[p] <= Pages(sz'[p])
    BY <2>1, <2>2
  <2> QED
    BY <2>1, <2>4, <2>5 DEF WorkInv, GrowLabel, Pages
<1>7. \A q \in Proc \ {p} : Still(q)
  BY <1>1 DEF Still, MemType
<1> HIDE DEF MemInv, Good
<1> QED
  BY <1>1, <1>2, <1>3, <1>5, <1>6, <1>7, WorkStep

\* uvmcopy() copies one more page.
LEMMA CopyPageGood ==
  ASSUME MemInv, NEW p \in Proc, CopyPage(p)
  PROVE  Good'
<1> USE DEF MemInv, Good
<1> DEFINE t == [Mapped(Work(p), i[p]) EXCEPT
                   !.guard = @ \cup (table[<<p, "image">>].guard \cap {i[p]})]
<1>1. /\ pc[p] = "copy" /\ i[p] * PGSIZE < sz[p] /\ ref[p] \in Ref /\ i[p] \in Nat
      /\ sz[p] \in Nat /\ CanMap(Work(p), i[p])
      /\ UNCHANGED <<proc, pc, ref, base, goal, newsz>>
      /\ i' = [i EXCEPT ![p] = i[p] + 1]
      /\ table' = [table EXCEPT ![ref[p]] = t]
      /\ free' = free - 1 - Cardinality(Missing(Work(p), i[p]))
  <2>1. table' = [table EXCEPT ![ref[p]] = t]
    BY DEF CopyPage, Work
  <2> HIDE DEF t
  <2> QED
    BY <2>1 DEF CopyPage, MemType
<1>2. Maps(Work(p), i[p]) /\ i[p] <= Pages(sz[p])
  BY <1>1 DEF TableInv, WorkInv
<1>3. i[p] \in Vpn
  <2>1. i[p] < USYSCALL
    BY <1>1, <1>2, Room DEF Work, TableType, MemType
  <2> QED
    BY <1>1, <2>1, BelowFixed, FixedPath
<1>4. t \in Table /\ t.dir = Mapped(Work(p), i[p]).dir /\ t.leaf = Mapped(Work(p), i[p]).leaf
  <2>1. Mapped(Work(p), i[p]) \in Table
    BY <1>2, <1>3, MapPage DEF Maps
  <2> QED
    BY <1>3, <2>1 DEF Table
<1> HIDE DEF t
<1>5. /\ Maps(t, i[p] + 1) /\ free' \in Nat
      /\ free' + Owned(t) = free + Owned(Work(p))
  <2> HIDE DEF MemInv, Good
  <2>1. /\ Maps(t, i[p] + 1)
        /\ free - 1 - Cardinality(Missing(Work(p), i[p])) \in Nat
        /\ Owned(t) = Owned(Work(p)) + 1 + Cardinality(Missing(Work(p), i[p]))
        /\ Cardinality(Missing(Work(p), i[p])) \in Nat /\ Owned(Work(p)) \in Nat
    BY <1>1, <1>2, <1>4, MapsNext DEF Work
  <2>2. free \in Nat
    BY DEF MemInv, Good, MemType
  <2> QED
    BY <1>1, <2>1, <2>2
<1>6. i[p] + 1 <= Pages(sz[p])
  BY <1>1, PagesBound
<1>7. MemType'
  BY <1>1, <1>4, <1>5 DEF MemType, proc
<1>8. WorkInv(p)'
  <2>1. Work(p)' = t /\ i'[p] = i[p] + 1 /\ pc'[p] = "copy" /\ sz'[p] = sz[p]
    BY <1>1 DEF Work, MemType, proc
  <2>2. Maps(Work(p), i[p])'
    BY <1>5, <2>1 DEF Maps
  <2> QED
    BY <1>6, <2>1, <2>2 DEF WorkInv, GrowLabel, Pages
<1>9. \A q \in Proc \ {p} : Still(q)
  BY <1>1 DEF Still, MemType
<1>10. pc'[p] # "sbrk" /\ pc[p] # "sbrk" /\ pc[p] # "idle" /\ ref' = ref /\ UNCHANGED proc
  BY <1>1
<1> HIDE DEF MemInv, Good
<1> QED
  BY <1>1, <1>4, <1>5, <1>7, <1>8, <1>9, <1>10, WorkStep

\* No page for USYSCALL: the table is freed.
LEMMA UsyscallNoMemGood ==
  ASSUME MemInv, NEW p \in Proc, UsyscallNoMem(p)
  PROVE  Good'
<1> USE DEF MemInv, Good
<1>1. /\ pc[p] = "usyscall" /\ free' = free + Cardinality(Work(p).dir)
      /\ table' = [table EXCEPT ![ref[p]] = Null]
      /\ pc' = [pc EXCEPT ![p] = "panic"] /\ UNCHANGED <<proc, ref, base, i, goal, newsz>>
  BY DEF UsyscallNoMem, Enter, locals
<1>2. Work(p) \in Table /\ Work(p).leaf = {TRAMPOLINE, TRAPFRAME} /\ ref[p] \in Ref
  BY <1>1 DEF TableInv, WorkInv, MemType
<1>3. free' \in Nat /\ free' + Owned(Null) = free + Owned(Work(p))
  <2>1. Work(p) # Null /\ Cardinality(Work(p).dir) \in Nat
    BY <1>2, TableParts, FS_CardinalityType
  <2>2. Work(p).leaf \ {TRAMPOLINE, TRAPFRAME} = {} /\ Cardinality({}) = 0
    BY <1>2, FS_EmptySet
  <2>3. Owned(Work(p)) = Cardinality(Work(p).dir) + Cardinality({}) /\ Owned(Null) = 0
    BY <2>1, <2>2 DEF Owned
  <2>4. free \in Nat
    BY DEF MemType
  <2> QED
    BY <1>1, <2>1, <2>2, <2>3, <2>4
<1>4. MemType'
  BY <1>1, <1>2, <1>3 DEF MemType, proc, Label
<1>5. WorkInv(p)'
  <2>1. pc'[p] = "panic"
    BY <1>1 DEF MemType
  <2> QED
    BY <2>1 DEF WorkInv, GrowLabel
<1>6. \A q \in Proc \ {p} : Still(q)
  BY <1>1 DEF Still, MemType
<1> HIDE DEF MemInv, Good
<1> QED
  BY <1>1, <1>3, <1>4, <1>5, <1>6, WorkStep

\* The stack has its guard page.
LEMMA ExecStackDoneGood ==
  ASSUME MemInv, NEW p \in Proc, ExecStackDone(p)
  PROVE  Good'
<1> USE DEF MemInv, Good
<1> DEFINE t0 == Work(p)
           t == [t0 EXCEPT !.guard = {PageOf(goal[p]) - 2}]
<1>1. /\ pc[p] = "stackpages" /\ i[p] * PGSIZE >= goal[p]
      /\ pc' = [pc EXCEPT ![p] = "args"] /\ newsz' = [newsz EXCEPT ![p] = goal[p]]
      /\ table' = [table EXCEPT ![ref[p]] = t]
      /\ UNCHANGED <<free, proc, ref, base, i, goal>>
  BY DEF ExecStackDone, Enter, Work
<1>2. /\ Maps(t0, i[p]) /\ base[p] <= i[p] /\ i[p] <= Pages(goal[p])
      /\ goal[p] = (base[p] + 2) * PGSIZE
      /\ ref[p] \in Ref /\ i[p] \in Nat /\ base[p] \in Nat /\ goal[p] \in Nat
  BY <1>1 DEF TableInv, WorkInv, MemType, GrowLabel
<1>3. i[p] = Pages(goal[p]) /\ PageOf(goal[p]) - 2 = base[p]
  <2>1. base[p] + 2 \in Nat /\ PGSIZE \in Nat
    BY <1>2, UserMemAssumption
  <2>2. Pages(goal[p]) = base[p] + 2 /\ PageOf(goal[p]) = base[p] + 2
    BY <1>2, <2>1, PagesWhole
  <2>3. i[p] * PGSIZE \in Nat /\ ~(i[p] * PGSIZE < goal[p])
    BY <1>1, <1>2, <2>1
  <2>4. ~(i[p] < Pages(goal[p])) /\ Pages(goal[p]) \in Nat
    BY <1>2, <2>3, PagesBound
  <2> QED
    BY <1>2, <2>2, <2>4
<1>4. base[p] \in Vpn
  <2>1. i[p] < USYSCALL
    BY <1>2, Room DEF Work, TableType, MemType
  <2> QED
    BY <1>2, <2>1, BelowFixed, FixedPath
<1>5. t \in Table /\ t.dir = t0.dir /\ t.leaf = t0.leaf
  BY <1>2, <1>3, <1>4 DEF Maps, Table
<1>6. Owned(t) = Owned(t0)
  <2>1. t0 \in Table
    BY <1>2 DEF Maps
  <2> HIDE DEF t, t0
  <2> QED
    BY <1>5, <2>1, NullAssumption DEF Owned
<1> HIDE DEF t, t0
<1>7. MemType'
  BY <1>1, <1>2, <1>5 DEF MemType, proc, Label, ExecLabel
<1>8. WorkInv(p)'
  <2>1. Work(p)' = t /\ pc'[p] = "args" /\ newsz'[p] = goal[p]
    BY <1>1, <1>2 DEF Work, MemType
  <2>2. Maps(t, Pages(goal[p]))
    BY <1>2, <1>3, <1>5 DEF Maps
  <2>3. Maps(Work(p), Pages(newsz[p]))'
    BY <2>1, <2>2 DEF Maps, Pages
  <2> QED
    BY <2>1, <2>3 DEF WorkInv, GrowLabel
<1>9. \A q \in Proc \ {p} : Still(q)
  BY <1>1 DEF Still, MemType
<1>10. free' + Owned(t) = free + Owned(Work(p))
  BY <1>1, <1>6 DEF t0
<1> HIDE DEF MemInv, Good
<1> QED
  BY <1>1, <1>2, <1>5, <1>7, <1>8, <1>9, <1>10, WorkStep

-----------------------------------------------------------------------------
(* Calls that return.                                                      *)

\* sbrk() has grown the image.
LEMMA SbrkGrownGood ==
  ASSUME MemInv, NEW p \in Proc, SbrkGrown(p)
  PROVE  Good'
<1> USE DEF MemInv, Good
<1>1. /\ pc[p] = "sbrk" /\ i[p] * PGSIZE >= goal[p] /\ sz' = [sz EXCEPT ![p] = goal[p]]
      /\ Leave(p) /\ UNCHANGED <<free, state, trapframe, table>>
  BY DEF SbrkGrown
<1>2. /\ ref[p] = <<p, "image">> /\ state[p] = "live" /\ i[p] \in Nat /\ goal[p] \in Nat
      /\ Maps(Work(p), i[p]) /\ i[p] <= Pages(goal[p])
  BY <1>1 DEF IInv, KernelInv, TableInv, WorkInv, MemType, GrowLabel
<1>3. i[p] = Pages(goal[p])
  <2>1. PGSIZE \in Nat
    BY UserMemAssumption
  <2>2. i[p] * PGSIZE \in Nat /\ ~(i[p] * PGSIZE < goal[p])
    BY <1>1, <1>2, <2>1
  <2>3. ~(i[p] < Pages(goal[p])) /\ Pages(goal[p]) \in Nat
    BY <1>2, <2>2, PagesBound
  <2> QED
    BY <1>2, <2>3
<1>4. MemType'
  <2>1. <<p, "image">> \in Ref
    BY RefFacts
  <2> QED
    BY <1>1, <1>2, <2>1 DEF MemType, Leave, Enter, Label
<1>5. Image(p) \in Table /\ Image(p)' = Image(p) /\ NewImage(p)' = NewImage(p) /\ NewImage(p) = Null
  BY <1>1, <1>2, RefFacts DEF Maps, Work, Image, NewImage, IInv, HoldInv
<1>6. CanFree(Image(p), sz[p])'
  <2>1. CanFree(Image(p), goal[p])
    BY <1>2, <1>3 DEF Maps, CanFree, Work, Image
  <2>2. sz'[p] = goal[p]
    BY <1>1 DEF MemType
  <2> QED
    BY <1>5, <2>1, <2>2 DEF CanFree, Pages
<1>7. free' + Owned(Image(p))' = free + Owned(Image(p)) + Owned(NewImage(p))
  <2>1. Owned(Image(p)) \in Nat /\ Owned(Null) = 0 /\ free \in Nat
    BY <1>5, OwnedPages DEF Owned, MemType
  <2>2. Owned(Image(p))' = Owned(Image(p)) /\ free' = free
    BY <1>1, <1>5 DEF Owned
  <2> QED
    BY <1>5, <2>1, <2>2
<1>8. \A q \in Proc \ {p} : sz'[q] = sz[q]
  BY <1>1 DEF MemType
<1> HIDE DEF MemInv, Good
<1> QED
  BY <1>1, <1>2, <1>4, <1>5, <1>6, <1>7, <1>8, LeaveStep

\* exec() fails: the new image is freed.
LEMMA ExecBadGood ==
  ASSUME MemInv, NEW p \in Proc, ExecBad(p)
  PROVE  Good'
<1> USE DEF MemInv, Good
<1>1. /\ pc[p] \in {"segment", "bad", "args"}
      /\ free' = free + FreedBy(Work(p), newsz[p])
      /\ table' = [table EXCEPT ![ref[p]] = Null]
      /\ Leave(p) /\ UNCHANGED proc
  BY DEF ExecBad
<1>2. /\ ref[p] = <<p, "exec">> /\ ref[p] \in Ref /\ state[p] = "live" /\ newsz[p] \in Nat
      /\ Maps(Work(p), Pages(newsz[p]))
  BY <1>1 DEF IInv, KernelInv, TableInv, WorkInv, MemType, ExecLabel
<1>3. Work(p) = NewImage(p) /\ Work(p) \in Table /\ CanFree(Work(p), newsz[p])
  BY <1>2 DEF Work, NewImage, Maps, CanFree
<1>4. FreedBy(Work(p), newsz[p]) = Owned(NewImage(p))
  BY <1>2, <1>3, FreesOwned DEF Work, TableType, MemType
<1>5. Owned(NewImage(p)) \in Nat /\ free \in Nat
  BY <1>3, OwnedPages DEF MemType
<1>6. MemType'
  <2>1. <<p, "image">> \in Ref
    BY RefFacts
  <2>2. free' \in Nat
    BY <1>1, <1>4, <1>5
  <2> QED
    BY <1>1, <2>1, <2>2 DEF MemType, Leave, Enter, Label, proc
<1>7. /\ NewImage(p)' = Null /\ Image(p)' = Image(p)
      /\ \A r \in Ref \ {<<p, "image">>, <<p, "exec">>} : table'[r] = table[r]
  BY <1>1, <1>2, RefFacts DEF MemType, Image, NewImage
<1>8. pc[p] # "sbrk" /\ Image(p) \in Table /\ CanFree(Image(p), sz[p])
  BY <1>1, <1>2 DEF TableInv, ImageInv
<1>9. CanFree(Image(p), sz[p])' /\ \A q \in Proc \ {p} : sz'[q] = sz[q]
  BY <1>1, <1>7, <1>8 DEF CanFree, Pages, proc
<1>10. free' + Owned(Image(p))' = free + Owned(Image(p)) + Owned(NewImage(p))
  <2>1. Owned(Image(p)) \in Nat /\ Owned(Image(p))' = Owned(Image(p))
    BY <1>7, <1>8, OwnedPages DEF Owned
  <2> QED
    BY <1>1, <1>4, <1>5, <2>1
<1>11. Leave(p) /\ UNCHANGED <<state, trapframe>>
  BY <1>1 DEF proc
<1> HIDE DEF MemInv, Good
<1> QED
  BY <1>2, <1>6, <1>7, <1>8, <1>9, <1>10, <1>11, LeaveStep

\* exec() succeeds: the new image replaces the old one.
LEMMA ExecCommitGood ==
  ASSUME MemInv, NEW p \in Proc, ExecCommit(p)
  PROVE  Good'
<1> USE DEF MemInv, Good
<1>1. /\ pc[p] = "args"
      /\ free' = free + FreedBy(table[<<p, "image">>], sz[p])
      /\ table' = [table EXCEPT ![<<p, "image">>] = Work(p), ![<<p, "exec">>] = Null]
      /\ sz' = [sz EXCEPT ![p] = newsz[p]]
      /\ Leave(p) /\ UNCHANGED <<state, trapframe>>
  BY DEF ExecCommit
<1>2. /\ ref[p] = <<p, "exec">> /\ state[p] = "live" /\ newsz[p] \in Nat /\ sz[p] \in Nat
      /\ Maps(Work(p), Pages(newsz[p]))
  BY <1>1 DEF IInv, KernelInv, TableInv, WorkInv, MemType, ExecLabel
<1>3. Work(p) = NewImage(p) /\ Work(p) \in Table /\ CanFree(Work(p), newsz[p])
  BY <1>2 DEF Work, NewImage, Maps, CanFree
<1>4. Image(p) \in Table /\ CanFree(Image(p), sz[p])
  BY <1>1, <1>2 DEF TableInv, ImageInv
<1>5. FreedBy(table[<<p, "image">>], sz[p]) = Owned(Image(p))
  BY <1>2, <1>4, FreesOwned, RefFacts DEF Image, TableType, MemType
<1>6. Owned(NewImage(p)) \in Nat /\ Owned(Image(p)) \in Nat /\ free \in Nat
  BY <1>3, <1>4, OwnedPages DEF MemType
<1>7. /\ Image(p)' = NewImage(p) /\ NewImage(p)' = Null
      /\ \A r \in Ref \ {<<p, "image">>, <<p, "exec">>} : table'[r] = table[r]
      /\ table' \in [Ref -> Table \cup {Null}]
  BY <1>1, <1>3, RefFacts DEF MemType, Image, NewImage
<1>8. MemType'
  <2>1. <<p, "image">> \in Ref
    BY RefFacts
  <2>2. free' \in Nat
    BY <1>1, <1>5, <1>6
  <2> QED
    BY <1>1, <1>2, <1>7, <2>1, <2>2 DEF MemType, Leave, Enter, Label
<1>9. CanFree(Image(p), sz[p])' /\ \A q \in Proc \ {p} : sz'[q] = sz[q]
  <2>1. sz'[p] = newsz[p] /\ \A q \in Proc \ {p} : sz'[q] = sz[q]
    BY <1>1 DEF MemType
  <2> QED
    BY <1>3, <1>7, <2>1 DEF CanFree, Pages
<1>10. free' + Owned(Image(p))' = free + Owned(Image(p)) + Owned(NewImage(p))
  <2>1. Owned(Image(p))' = Owned(NewImage(p))
    BY <1>7 DEF Owned
  <2> QED
    BY <1>1, <1>5, <1>6, <2>1
<1>11. Image(p)' \in Table
  BY <1>3, <1>7
<1> HIDE DEF MemInv, Good
<1> QED
  BY <1>1, <1>2, <1>7, <1>8, <1>9, <1>10, <1>11, LeaveStep

-----------------------------------------------------------------------------
(* Slots that are taken and given up.                                      *)

\* A call of proc_pagetable(), or uvmcopy(), gives back all that the table accounts for.
LEMMA ReturnsZeroGood ==
  ASSUME MemInv, NEW p \in Proc, NEW n \in Nat, pc[p] \in {"create", "fixed", "copy"},
         n = Owned(Work(p)), ReturnsZero(p, n)
  PROVE  Good'
<1> USE DEF MemInv, Good
<1>1. /\ table' = [table EXCEPT ![ref[p]] = Null] /\ Leave(p) /\ sz' = sz
      /\ ref[p] \in Ref /\ state[p] = "live" /\ free \in Nat
  BY DEF ReturnsZero, MemType, IInv, KernelInv
<1>2. table'[ref[p]] = Null /\ \A r \in Ref \ {ref[p]} : table'[r] = table[r]
  BY <1>1, TableAt DEF IInv
<1>3. table' \in [Ref -> Table \cup {Null}]
  BY <1>1 DEF MemType
<1>4. ASSUME free' \in Nat, state' \in [Proc -> {"UNUSED", "USED", "live", "ZOMBIE"}],
             trapframe' \in [Proc -> BOOLEAN]
      PROVE  MemType'
  <2>1. <<p, "image">> \in Ref
    BY RefFacts
  <2> QED
    BY <1>1, <1>3, <1>4, <2>1 DEF MemType, Leave, Enter, Label
<1>5. /\ \A q \in Proc \ {p} : Still(q)
      /\ WorkInv(p)' /\ pc'[p] = "idle"
  BY <1>1 DEF Leave, Enter, Still, MemType, WorkInv, GrowLabel
<1>6. CASE Forking(p)
  <2>1. PICK c \in Proc : c = Child(p)
    BY RefParts DEF IInv
  <2>2. ref[p] = <<c, "image">> /\ state[c] = "USED" /\ Forks(p, c)
    <3>1. ref[p] = <<c, "image">> /\ state[c] = "USED"
      BY <1>6, <2>1, RefParts DEF IInv, KernelInv
    <3>2. p # c
      BY <1>1, <3>1
    <3> QED
      BY <3>1, <3>2 DEF Forks
  <2>3. /\ free' = free + n + 1 /\ state' = [state EXCEPT ![c] = "UNUSED"]
        /\ trapframe' = [trapframe EXCEPT ![c] = FALSE]
    BY <1>6, <2>1 DEF ReturnsZero
  <2>4. MemType' /\ pc[c] = "idle" /\ trapframe[c] = TRUE
    <3>1. free' \in Nat
      BY <1>1, <2>3
    <3>2. /\ state' \in [Proc -> {"UNUSED", "USED", "live", "ZOMBIE"}]
          /\ trapframe' \in [Proc -> BOOLEAN]
      BY <2>3 DEF MemType
    <3>3. pc[c] = "idle" /\ trapframe[c] = TRUE
      BY <2>2 DEF IInv, KernelInv, TableInv, ImageInv, MemType
    <3> QED
      BY <1>4, <3>1, <3>2, <3>3
  <2>5. ImageInv(c)'
    BY <2>3 DEF ImageInv, MemType
  <2>6. \A q \in Proc \ {p} : ref[q] # <<c, "image">> \/ pc[q] = "idle"
    BY <1>1, <2>2, Apart
  <2>7. /\ Image(c)' = Null /\ Owned(Image(c))' = 0 /\ Image(c) = Work(p)
        /\ trapframe'[c] = FALSE
    BY <1>2, <2>2, <2>3 DEF Image, Owned, Work, MemType
  <2>8. \A q \in Proc \ {c} : /\ state'[q] = state[q] /\ trapframe'[q] = trapframe[q]
                              /\ sz'[q] = sz[q] /\ (pc'[q] # "sbrk" => pc[q] # "sbrk")
    BY <1>1, <1>5, <2>3 DEF MemType, Still
  <2>9. free' + (IF trapframe'[c] THEN 1 ELSE 0) + Owned(Image(c))'
          = free + (IF trapframe[c] THEN 1 ELSE 0) + Owned(Image(c))
    BY <1>1, <2>3, <2>4, <2>7
  <2> HIDE DEF MemInv, Good
  <2> QED
    BY <1>2, <1>5, <2>2, <2>4, <2>5, <2>6, <2>8, <2>9, SlotStep
<1>7. CASE ~Forking(p)
  <2>1. ref[p] = <<p, "exec">> /\ pc[p] # "sbrk"
    BY <1>7 DEF IInv, KernelInv
  <2>2. free' = free + n /\ UNCHANGED <<state, trapframe>>
    BY <1>7 DEF ReturnsZero
  <2>3. MemType'
    <3>1. free' \in Nat
      BY <1>1, <2>2
    <3> QED
      BY <1>4, <2>2, <3>1 DEF MemType
  <2>4. NewImage(p)' = Null /\ Image(p)' = Image(p) /\ NewImage(p) = Work(p)
    BY <1>2, <2>1, RefFacts DEF Image, NewImage, Work
  <2>5. Image(p) \in Table /\ CanFree(Image(p), sz[p])
    BY <1>1, <2>1 DEF TableInv, ImageInv
  <2>6. CanFree(Image(p), sz[p])'
    BY <1>1, <2>4, <2>5 DEF CanFree, Pages
  <2>7. free' + Owned(Image(p))' = free + Owned(Image(p)) + Owned(NewImage(p))
    <3>1. Owned(Image(p)) \in Nat /\ Owned(Image(p))' = Owned(Image(p))
      BY <2>4, <2>5, OwnedPages DEF Owned
    <3> QED
      BY <1>1, <2>2, <2>4, <3>1
  <2> HIDE DEF MemInv, Good
  <2> QED
    BY <1>1, <1>2, <2>1, <2>2, <2>3, <2>4, <2>5, <2>6, <2>7, LeaveStep
<1> QED
  BY <1>6, <1>7

\* No page for the root.
LEMMA UvmcreateNone ==
  ASSUME MemInv, NEW p \in Proc, Uvmcreate(p), ReturnsZero(p, 0)
  PROVE  Good'
<1>1. pc[p] = "create" /\ Work(p) = Null
  BY DEF Uvmcreate, MemInv, Good, TableInv, WorkInv
<1>2. Owned(Work(p)) = 0
  BY <1>1 DEF Owned
<1> QED
  BY <1>1, <1>2, ReturnsZeroGood

\* No page on the way to the trampoline.
LEMMA MapFixedNone ==
  ASSUME MemInv, NEW p \in Proc, MapFixed(p), ReturnsZero(p, 1)
  PROVE  Good'
<1> DEFINE t0 == [dir |-> {Root}, leaf |-> {}, guard |-> {}]
<1>1. pc[p] = "fixed" /\ Work(p) = t0
  BY DEF MapFixed, MemInv, Good, TableInv, WorkInv
<1>2. Owned(t0) = 1
  <2>1. t0 \in Table
    BY DEF Table, Node
  <2>2. Cardinality({Root}) = 1 /\ Cardinality({}) = 0
    BY FS_Singleton, FS_EmptySet
  <2>3. {} \ {TRAMPOLINE, TRAPFRAME} = {}
    OBVIOUS
  <2>4. Owned(t0) = Cardinality({Root}) + Cardinality({})
    BY <2>1, <2>3, NullAssumption DEF Owned
  <2> QED
    BY <2>2, <2>4
<1> HIDE DEF t0
<1> QED
  BY <1>1, <1>2, ReturnsZeroGood

\* No page for a copy: the pages copied, the fixed ones and the table are given back.
LEMMA CopyFailsGood ==
  ASSUME MemInv, NEW p \in Proc, CopyFails(p)
  PROVE  Good'
<1>1. pc[p] = "copy" /\ ReturnsZero(p, i[p] + FreedBy(Work(p), 0))
  BY DEF CopyFails
<1>2. Maps(Work(p), i[p]) /\ ref[p] \in Ref /\ i[p] \in Nat
  BY <1>1 DEF MemInv, Good, TableInv, WorkInv, MemType
<1>3. TableType /\ CountInv
  BY DEF MemInv, Good, MemType, TableType
<1>4. Owned(Work(p)) = Cardinality(Work(p).dir) + i[p] + 1
  BY <1>2, <1>3, Room DEF Work
<1>5. Cardinality(Work(p).dir) \in Nat
  BY <1>2, TableParts, FS_CardinalityType DEF Maps
<1>6. FreedBy(Work(p), 0) = 1 + Cardinality(Work(p).dir)
  <2>1. 0 * PGSIZE = 0
    BY UserMemAssumption
  <2>2. Pages(0) = 0
    BY <2>1, PagesWhole
  <2> QED
    BY <1>5, <2>2 DEF FreedBy
<1>7. i[p] + FreedBy(Work(p), 0) = Owned(Work(p)) /\ i[p] + FreedBy(Work(p), 0) \in Nat
  BY <1>2, <1>4, <1>5, <1>6
<1> QED
  BY <1>1, <1>7, ReturnsZeroGood

\* fork() takes a slot and a trapframe.
LEMMA ForkGood ==
  ASSUME MemInv, NEW p \in Proc, NEW c \in Proc, Fork(p, c)
  PROVE  Good'
<1> USE DEF MemInv, Good
<1>1. /\ pc[p] = "idle" /\ state[p] = "live" /\ state[c] = "UNUSED" /\ free > 0 /\ free' = free - 1
      /\ state' = [state EXCEPT ![c] = "USED"] /\ trapframe' = [trapframe EXCEPT ![c] = TRUE]
      /\ pc' = [pc EXCEPT ![p] = "create"] /\ ref' = [ref EXCEPT ![p] = <<c, "image">>]
      /\ UNCHANGED <<sz, table, base, i, goal, newsz>>
  BY DEF Fork, Enter
<1>2. /\ pc[c] = "idle" /\ trapframe[c] = FALSE /\ Image(c) = Null /\ c # p
      /\ i[p] = 0 /\ newsz[p] = 0 /\ free \in Nat
  BY <1>1 DEF IInv, KernelInv, HoldInv, TableInv, WorkInv, MemType
<1>3. MemType'
  <2>1. <<c, "image">> \in Ref
    BY RefFacts
  <2> QED
    BY <1>1, <1>2, <2>1 DEF MemType, Label
<1>4. \A q \in Proc \ {p} : Still(q)
  BY <1>1 DEF Still, MemType
<1>5. WorkInv(p)'
  <2>1. Work(p)' = Null /\ pc'[p] = "create" /\ i'[p] = 0 /\ newsz'[p] = 0
    BY <1>1, <1>2 DEF Work, MemType, Image
  <2> QED
    BY <2>1 DEF WorkInv, GrowLabel
<1>6. ImageInv(c)' /\ trapframe'[c] = TRUE
  BY <1>1 DEF ImageInv, MemType
<1>7. \A q \in Proc \ {c} : /\ state'[q] = state[q] /\ trapframe'[q] = trapframe[q]
                            /\ sz'[q] = sz[q] /\ (pc'[q] # "sbrk" => pc[q] # "sbrk")
  BY <1>1 DEF MemType
<1>8. Image(c)' = Image(c) /\ Owned(Image(c))' = 0 /\ Owned(Image(c)) = 0
  BY <1>1, <1>2 DEF Image, Owned
<1>9. free' + (IF trapframe'[c] THEN 1 ELSE 0) + Owned(Image(c))'
        = free + (IF trapframe[c] THEN 1 ELSE 0) + Owned(Image(c))
  BY <1>1, <1>2, <1>6, <1>8
<1> HIDE DEF MemInv, Good
<1> QED
  BY <1>1, <1>2, <1>3, <1>4, <1>5, <1>6, <1>7, <1>8, <1>9, SlotStep

\* fork() is done: the child has a copy of p's memory.
LEMMA ForkDoneGood ==
  ASSUME MemInv, NEW p \in Proc, ForkDone(p)
  PROVE  Good'
<1> USE DEF MemInv, Good
<1>1. PICK c \in Proc : c = Child(p)
  BY RefParts DEF IInv
<1>2. /\ pc[p] = "copy" /\ i[p] * PGSIZE >= sz[p]
      /\ sz' = [sz EXCEPT ![c] = sz[p]] /\ state' = [state EXCEPT ![c] = "live"]
      /\ Leave(p) /\ UNCHANGED <<free, trapframe, table>>
  BY <1>1 DEF ForkDone
<1>3. /\ ref[p] = <<c, "image">> /\ state[c] = "USED" /\ state[p] = "live" /\ pc[c] = "idle"
      /\ trapframe[c] = TRUE
  <2>1. Forking(p)
    BY <1>2 DEF IInv, KernelInv
  <2>2. ref[p] = <<c, "image">> /\ state[c] = "USED" /\ state[p] = "live"
    BY <1>1, <1>2, <2>1, RefParts DEF IInv, KernelInv
  <2> QED
    BY <2>2 DEF IInv, KernelInv, TableInv, ImageInv, MemType
<1>4. Maps(Work(p), i[p]) /\ i[p] <= Pages(sz[p]) /\ i[p] \in Nat /\ sz[p] \in Nat
  BY <1>2 DEF TableInv, WorkInv, MemType
<1>5. i[p] = Pages(sz[p])
  <2>1. PGSIZE \in Nat
    BY UserMemAssumption
  <2>2. i[p] * PGSIZE \in Nat /\ ~(i[p] * PGSIZE < sz[p])
    BY <1>2, <1>4, <2>1
  <2>3. ~(i[p] < Pages(sz[p])) /\ Pages(sz[p]) \in Nat
    BY <1>4, <2>2, PagesBound
  <2> QED
    BY <1>4, <2>3
<1>6. MemType'
  <2>1. <<p, "image">> \in Ref
    BY RefFacts
  <2> QED
    BY <1>2, <1>4, <2>1 DEF MemType, Leave, Enter, Label
<1>7. /\ \A q \in Proc \ {p} : Still(q)
      /\ WorkInv(p)' /\ pc'[p] = "idle"
  BY <1>2 DEF Leave, Enter, Still, MemType, WorkInv, GrowLabel
<1>8. Image(c)' = Image(c) /\ Image(c) = Work(p) /\ Owned(Image(c))' = Owned(Image(c))
  BY <1>2, <1>3 DEF Image, Work, Owned
<1>9. ImageInv(c)'
  <2>1. Image(c) \in Table /\ CanFree(Image(c), sz[p])
    BY <1>4, <1>5, <1>8 DEF Maps, CanFree
  <2>2. sz'[c] = sz[p] /\ state'[c] = "live" /\ trapframe'[c] = TRUE
    BY <1>2, <1>3 DEF MemType
  <2> QED
    BY <1>8, <2>1, <2>2 DEF ImageInv, CanFree, Pages
<1>10. \A q \in Proc \ {c} : /\ state'[q] = state[q] /\ trapframe'[q] = trapframe[q]
                             /\ sz'[q] = sz[q] /\ (pc'[q] # "sbrk" => pc[q] # "sbrk")
  BY <1>2, <1>7 DEF MemType, Still
<1>11. free' + (IF trapframe'[c] THEN 1 ELSE 0) + Owned(Image(c))'
         = free + (IF trapframe[c] THEN 1 ELSE 0) + Owned(Image(c))
  BY <1>2, <1>8
<1>12. \A r \in Ref \ {<<c, "image">>} : table'[r] = table[r]
  BY <1>2
<1> HIDE DEF MemInv, Good
<1> QED
  BY <1>3, <1>6, <1>7, <1>8, <1>9, <1>10, <1>11, <1>12, SlotStep

\* exit() keeps the memory for the parent's wait().
LEMMA ExitGood ==
  ASSUME MemInv, NEW p \in Proc, Exit(p)
  PROVE  Good'
<1> USE DEF MemInv, Good
<1>1. /\ pc[p] = "idle" /\ state[p] = "live" /\ state' = [state EXCEPT ![p] = "ZOMBIE"]
      /\ UNCHANGED <<free, trapframe, sz, table, pc, ref, base, i, goal, newsz>>
  BY DEF Exit, locals
<1>2. MemType'
  BY <1>1 DEF MemType
<1>3. \A q \in Proc : Still(q)
  BY <1>1 DEF Still
<1>4. Image(p)' = Image(p) /\ Owned(Image(p))' = Owned(Image(p))
  BY <1>1 DEF Image, Owned
<1>5. WorkInv(p)'
  BY <1>1, <1>3, WorkStill DEF TableInv
<1>6. ImageInv(p)'
  <2>1. Image(p) \in Table /\ CanFree(Image(p), sz[p]) /\ trapframe[p] = TRUE
    BY <1>1 DEF TableInv, ImageInv, MemType
  <2> QED
    BY <1>1, <1>4, <2>1 DEF ImageInv, CanFree, Pages, MemType
<1>7. \A q \in Proc \ {p} : /\ state'[q] = state[q] /\ trapframe'[q] = trapframe[q]
                            /\ sz'[q] = sz[q] /\ (pc'[q] # "sbrk" => pc[q] # "sbrk")
  BY <1>1 DEF MemType
<1>8. free' + (IF trapframe'[p] THEN 1 ELSE 0) + Owned(Image(p))'
        = free + (IF trapframe[p] THEN 1 ELSE 0) + Owned(Image(p))
  BY <1>1, <1>4
<1>9. \A r \in Ref : table'[r] = table[r]
  BY <1>1
<1> HIDE DEF MemInv, Good
<1> QED
  BY <1>1, <1>2, <1>3, <1>4, <1>5, <1>6, <1>7, <1>8, <1>9, SlotStep

\* freeproc() frees what the zombie held.
LEMMA FreeprocGood ==
  ASSUME MemInv, NEW p \in Proc, freeproc(p)
  PROVE  Good'
<1> USE DEF MemInv, Good
<1>1. /\ state[p] = "ZOMBIE" /\ free' = free + 1 + FreedBy(Image(p), sz[p])
      /\ state' = [state EXCEPT ![p] = "UNUSED"] /\ trapframe' = [trapframe EXCEPT ![p] = FALSE]
      /\ table' = [table EXCEPT ![<<p, "image">>] = Null] /\ sz' = [sz EXCEPT ![p] = 0]
      /\ UNCHANGED <<pc, ref, base, i, goal, newsz>>
  BY DEF freeproc, locals, Image
<1>2. pc[p] = "idle"
  BY <1>1 DEF IInv, KernelInv
<1>3. /\ Image(p) \in Table /\ CanFree(Image(p), sz[p]) /\ trapframe[p] = TRUE /\ sz[p] \in Nat
      /\ free \in Nat
  BY <1>1, <1>2 DEF TableInv, ImageInv, MemType
<1>4. FreedBy(Image(p), sz[p]) = Owned(Image(p)) /\ Owned(Image(p)) \in Nat
  <2>1. FreedBy(Image(p), sz[p]) = Owned(Image(p))
    BY <1>3, FreesOwned, RefFacts DEF Image, TableType, MemType
  <2> QED
    BY <1>3, <2>1, OwnedPages
<1>5. /\ table' \in [Ref -> Table \cup {Null}]
      /\ Image(p)' = Null /\ \A r \in Ref \ {<<p, "image">>} : table'[r] = table[r]
  BY <1>1, RefFacts DEF MemType, Image
<1>6. MemType'
  <2>1. free' \in Nat
    BY <1>1, <1>3, <1>4
  <2> QED
    BY <1>1, <1>5, <2>1 DEF MemType
<1>7. \A q \in Proc : Still(q)
  BY <1>1 DEF Still
<1>8. WorkInv(p)'
  BY <1>2, <1>7, WorkStill DEF TableInv
<1>9. ImageInv(p)' /\ trapframe'[p] = FALSE
  BY <1>1 DEF ImageInv, MemType
<1>10. \A q \in Proc \ {p} : /\ state'[q] = state[q] /\ trapframe'[q] = trapframe[q]
                             /\ sz'[q] = sz[q] /\ (pc'[q] # "sbrk" => pc[q] # "sbrk")
  BY <1>1 DEF MemType
<1>11. free' + (IF trapframe'[p] THEN 1 ELSE 0) + Owned(Image(p))'
         = free + (IF trapframe[p] THEN 1 ELSE 0) + Owned(Image(p))
  <2>1. Owned(Image(p))' = 0
    BY <1>5 DEF Owned
  <2> QED
    BY <1>1, <1>3, <1>4, <1>9, <2>1
<1>12. \A q \in Proc \ {p} : ref[q] # <<p, "image">> \/ pc[q] = "idle"
  BY <1>1, Apart
<1> HIDE DEF MemInv, Good
<1> QED
  BY <1>2, <1>5, <1>6, <1>7, <1>8, <1>9, <1>10, <1>11, <1>12, SlotStep

\* sbrk() shrinks the image.
LEMMA SbrkShrinkGood ==
  ASSUME MemInv, NEW p \in Proc, NEW n \in SbrkArgs, SbrkShrink(p, n)
  PROVE  Good'
<1> USE DEF MemInv, Good
<1> DEFINE s    == (sz[p] + n) % UintMod
           gone == Pages(s) .. Pages(sz[p]) - 1
           t    == [Image(p) EXCEPT !.leaf = @ \ gone, !.guard = @ \ gone]
<1>1. /\ pc[p] = "idle" /\ state[p] = "live" /\ s < sz[p]
      /\ table' = [table EXCEPT ![<<p, "image">>] = t]
      /\ free' = free + Cardinality(gone)
      /\ sz' = [sz EXCEPT ![p] = s]
      /\ UNCHANGED <<state, trapframe, pc, ref, base, i, goal, newsz>>
  BY DEF SbrkShrink, locals, Image
<1>2. /\ Image(p) \in Table /\ CanFree(Image(p), sz[p]) /\ trapframe[p] = TRUE /\ sz[p] \in Nat
      /\ free \in Nat
  BY <1>1 DEF TableInv, ImageInv, MemType
<1>3. s \in Nat
  <2>1. n \in Int /\ UintMod \in Nat /\ MaxSz \in Nat /\ MaxSz < UintMod
    BY VmAssumption
  <2>2. \A x \in Int, m \in Nat \ {0} : x % m \in Nat
    OBVIOUS
  <2>3. sz[p] + n \in Int /\ UintMod \in Nat \ {0}
    BY <1>2, <2>1
  <2> QED
    BY <2>2, <2>3
<1> HIDE DEF s
<1>4. Pages(s) \in Nat /\ Pages(sz[p]) \in Nat /\ Pages(s) <= Pages(sz[p])
  BY <1>1, <1>2, <1>3, PagesBound, PagesMonotone
<1>5. Pages(sz[p]) < USYSCALL /\ Owned(Image(p)) = Cardinality(Image(p).dir) + Pages(sz[p]) + 1
  <2>1. Maps(Image(p), Pages(sz[p]))
    BY <1>2, FreeMaps
  <2> QED
    BY <1>4, <2>1, Room, RefFacts DEF Image, TableType, MemType
<1>6. /\ t \in Table /\ t.dir = Image(p).dir /\ t.leaf = Image(p).leaf \ gone
  <2> HIDE DEF gone
  <2> QED
    BY <1>2 DEF Table
<1>7. t.leaf = Fixed \cup 0 .. Pages(s) - 1
  <2>1. Image(p).leaf = Fixed \cup 0 .. Pages(sz[p]) - 1
    BY <1>2 DEF CanFree
  <2> HIDE DEF t
  <2> QED
    BY <1>4, <1>5, <1>6, <2>1, FixedPath DEF Fixed
<1>8. Cardinality(gone) = Pages(sz[p]) - Pages(s)
  BY <1>4, IntervalSize
<1> HIDE DEF t, gone
<1>9. Owned(t) = Cardinality(t.dir) + Pages(s) + 1 /\ Cardinality(t.dir) \in Nat
  <2>1. Pages(s) <= USYSCALL
    BY <1>4, <1>5, FixedPath
  <2> QED
    BY <1>4, <1>6, <1>7, <2>1, CountLeaf, TableParts, FS_CardinalityType
<1>10. /\ table' \in [Ref -> Table \cup {Null}]
       /\ Image(p)' = t /\ \A r \in Ref \ {<<p, "image">>} : table'[r] = table[r]
  BY <1>1, <1>6, RefFacts DEF MemType, Image
<1>11. MemType'
  <2>1. free' \in Nat
    BY <1>1, <1>2, <1>4, <1>8
  <2> QED
    BY <1>1, <1>3, <1>10, <2>1 DEF MemType
<1>12. \A q \in Proc : Still(q)
  BY <1>1 DEF Still
<1>13. WorkInv(p)'
  BY <1>1, <1>12, WorkStill DEF TableInv
<1>14. ImageInv(p)'
  <2>1. sz'[p] = s
    BY <1>1 DEF MemType
  <2> QED
    BY <1>1, <1>2, <1>6, <1>7, <1>10, <2>1 DEF ImageInv, CanFree, Pages
<1>15. \A q \in Proc \ {p} : /\ state'[q] = state[q] /\ trapframe'[q] = trapframe[q]
                             /\ sz'[q] = sz[q] /\ (pc'[q] # "sbrk" => pc[q] # "sbrk")
  BY <1>1 DEF MemType
<1>16. free' + (IF trapframe'[p] THEN 1 ELSE 0) + Owned(Image(p))'
         = free + (IF trapframe[p] THEN 1 ELSE 0) + Owned(Image(p))
  <2>1. Owned(Image(p))' = Owned(t)
    BY <1>10 DEF Owned
  <2>2. t.dir = Image(p).dir
    BY <1>6
  <2> QED
    BY <1>1, <1>2, <1>4, <1>5, <1>8, <1>9, <2>1, <2>2
<1>17. \A q \in Proc \ {p} : ref[q] # <<p, "image">> \/ pc[q] = "idle"
  BY <1>1, Apart
<1> HIDE DEF MemInv, Good
<1> QED
  BY <1>1, <1>10, <1>11, <1>12, <1>13, <1>14, <1>15, <1>16, <1>17, SlotStep

-----------------------------------------------------------------------------
(* All pages are accounted for, and sizes match tables.                    *)

\* userinit() starts with eight pages, all held by the first process.
LEMMA GoodInit == Init => Good
<1> SUFFICES ASSUME Init PROVE Good
  OBVIOUS
<1> DEFINE t == [dir |-> {Root} \cup Path(0) \cup Path(TRAMPOLINE), leaf |-> {0} \cup Fixed,
                 guard |-> {}]
<1>1. /\ free = NPages - 8 /\ NPages - 8 \in Nat /\ initproc \in Proc
      /\ state = [p \in Proc |-> IF p = initproc THEN "live" ELSE "UNUSED"]
      /\ trapframe = [p \in Proc |-> p = initproc]
      /\ table = [r \in Ref |-> IF r = <<initproc, "image">> THEN t ELSE Null]
      /\ sz = [p \in Proc |-> IF p = initproc THEN PGSIZE ELSE 0]
      /\ pc = [p \in Proc |-> "idle"]
      /\ ref = [p \in Proc |-> <<p, "image">>]
      /\ base = [p \in Proc |-> 0] /\ i = [p \in Proc |-> 0]
      /\ goal = [p \in Proc |-> 0] /\ newsz = [p \in Proc |-> 0]
  BY VmAssumption DEF Init
<1>2. 0 \in Vpn /\ TRAMPOLINE \in Vpn /\ Fixed \subseteq Vpn
  BY BelowFixed, FixedPath DEF Fixed
<1>3. t \in Table
  <2>1. Path(0) \subseteq Node /\ Path(TRAMPOLINE) \subseteq Node /\ Root \in Node
    BY <1>2, FiniteTables DEF Node
  <2> QED
    BY <1>2, <2>1 DEF Table
<1>4. Cardinality(t.dir) = 5
  <2> DEFINE a == <<1, 0>>
             b == <<0, 0>>
             c == <<1, Fan - 1>>
             d == <<0, Fan * Fan - 1>>
  <2>1. Fan \in Nat /\ Fan >= 3 /\ Fan * Fan \in Nat /\ Fan * Fan >= 9
    BY UserMemAssumption
  <2>2. Path(0) = {a, b}
    <3>1. Fan * Fan \in Nat \ {0} /\ Fan \in Nat \ {0}
      BY <2>1
    <3>2. 0 \div (Fan * Fan) = 0 /\ 0 \div Fan = 0
      <4>1. (Fan * Fan) * 0 + 0 = 0 /\ Fan * 0 + 0 = 0
        BY <3>1
      <4>2. 0 < Fan * Fan /\ 0 < Fan
        BY <3>1
      <4> QED
        BY <3>1, <4>1, <4>2, Quotient
    <3> QED
      BY <3>2 DEF Path
  <2>3. Path(TRAMPOLINE) = {c, d}
    BY FixedPath
  <2> DEFINE A == {Root} \cup {a}
             B == A \cup {b}
             C == B \cup {c}
  <2>4. t.dir = C \cup {d}
    BY <2>2, <2>3
  <2>5. a \notin {Root} /\ b \notin A /\ c \notin B /\ d \notin C
    BY <2>1 DEF Root
  <2> HIDE DEF a, b, c, d, t
  <2>6. IsFiniteSet({Root}) /\ Cardinality({Root}) = 1
    BY FS_Singleton
  <2>7. IsFiniteSet(A) /\ Cardinality(A) = Cardinality({Root}) + 1
    BY <2>5, <2>6, OneMore
  <2> HIDE DEF A
  <2>8. IsFiniteSet(B) /\ Cardinality(B) = Cardinality(A) + 1
    BY <2>5, <2>7, OneMore
  <2> HIDE DEF B
  <2>9. IsFiniteSet(C) /\ Cardinality(C) = Cardinality(B) + 1
    BY <2>5, <2>8, OneMore
  <2> HIDE DEF C
  <2>10. Cardinality(C \cup {d}) = Cardinality(C) + 1
    BY <2>5, <2>9, OneMore
  <2> QED
    BY <2>4, <2>6, <2>7, <2>8, <2>9, <2>10
<1>5. t.leaf = Fixed \cup 0 .. 1 - 1
  OBVIOUS
<1> HIDE DEF t
<1>6. Owned(t) = 7 /\ Owned(Null) = 0
  <2>1. 1 <= USYSCALL
    BY FixedPath, UserMemAssumption DEF Fixed, TRAMPOLINE, TRAPFRAME, USYSCALL
  <2>2. Owned(t) = Cardinality(t.dir) + 1 + 1
    BY <1>3, <1>5, <2>1, CountLeaf
  <2> QED
    BY <1>4, <2>2 DEF Owned
<1>7. MemType
  <2>1. PGSIZE \in Nat /\ \A p \in Proc : <<p, "image">> \in Ref
    BY UserMemAssumption, RefFacts
  <2> QED
    BY <1>1, <1>3, <2>1 DEF MemType, Label
<1>8. TableInv
  <2>1. Pages(PGSIZE) = 1
    <3>1. 1 * PGSIZE = PGSIZE
      BY UserMemAssumption
    <3> QED
      BY <3>1, PagesWhole
  <2>2. Image(initproc) = t
    BY <1>1, RefFacts DEF Image
  <2>3. CanFree(t, PGSIZE)
    BY <1>5, <2>1 DEF CanFree
  <2>4. \A p \in Proc : ImageInv(p)
    BY <1>1, <1>3, <2>2, <2>3 DEF ImageInv
  <2>5. \A p \in Proc : WorkInv(p)
    BY <1>1 DEF WorkInv, GrowLabel
  <2> QED
    BY <2>4, <2>5 DEF TableInv
<1>9. CountInv
  <2>1. TableType
    BY <1>7 DEF MemType, TableType
  <2>2. \A p \in Proc \ {initproc} : HeldBy(p) = {}
    BY <1>1, RefFacts DEF HeldBy, PagesOf
  <2>3. Held = {initproc} \X HeldBy(initproc)
    BY <1>1, <2>2 DEF Held
  <2>4. OwnedBy(initproc) = 8
    <3>1. Image(initproc) = t /\ NewImage(initproc) = Null /\ trapframe[initproc] = TRUE
      BY <1>1, RefFacts DEF Image, NewImage
    <3> QED
      BY <1>6, <3>1 DEF OwnedBy
  <2>5. IsFiniteSet(HeldBy(initproc)) /\ Cardinality(HeldBy(initproc)) = 8
    BY <1>1, <2>1, <2>4, OwnedByPages
  <2>6. IsFiniteSet(Held) /\ Cardinality(Held) = 8
    BY <2>3, <2>5, Tagged
  <2>7. NPages \in Nat
    BY VmAssumption
  <2> QED
    BY <1>1, <2>6, <2>7 DEF CountInv
<1> QED
  BY <1>7, <1>8, <1>9 DEF Good

\* Every step keeps it.
LEMMA GoodStep == MemInv /\ [Next]_vars => Good'
<1> SUFFICES ASSUME MemInv, [Next]_vars PROVE Good'
  OBVIOUS
<1>1. ASSUME NEW p \in Proc, Call(p) PROVE Good'
  BY <1>1, SbrkGrowGood, SbrkShrinkGood, ForkGood, ExecGood, ExitGood DEF Call
<1>2. ASSUME NEW p \in Proc, KernelStep(p) PROVE Good'
  <2>1. CASE UvmallocPage(p) \/ UvmallocFails(p) \/ SbrkGrown(p)
    BY <2>1, UvmallocPageGood, UvmallocFailsGood, SbrkGrownGood
  <2>2. CASE Uvmcreate(p) \/ MapFixed(p)
    BY <2>2, UvmcreateGood, UvmcreateNone, MapFixedGood, MapFixedNone
  <2>3. CASE MapUsyscall(p) \/ UsyscallNoMem(p) \/ CopyPage(p) \/ CopyFails(p) \/ ForkDone(p)
    BY <2>3, MapUsyscallGood, UsyscallNoMemGood, CopyPageGood, CopyFailsGood, ForkDoneGood
  <2>4. CASE (\E s \in SegEnds : ExecSegment(p, s)) \/ ExecSegmentDone(p) \/ ExecStack(p)
    BY <2>4, ExecSegmentGood, ExecSegmentDoneGood, ExecStackGood
  <2>5. CASE ExecStackDone(p) \/ ExecBad(p) \/ ExecCommit(p)
    BY <2>5, ExecStackDoneGood, ExecBadGood, ExecCommitGood
  <2> QED
    BY <1>2, <2>1, <2>2, <2>3, <2>4, <2>5 DEF KernelStep
<1>3. ASSUME NEW p \in Proc, freeproc(p) PROVE Good'
  BY <1>3, FreeprocGood
<1>4. CASE UNCHANGED vars
  <2>1. UNCHANGED <<free, state, trapframe, sz, table, pc, ref, base, i, goal, newsz>>
    BY <1>4 DEF vars, proc, locals
  <2>2. MemType'
    BY <2>1 DEF MemInv, Good, MemType
  <2>3. CountInv'
    BY <2>1 DEF MemInv, Good, CountInv, Held, HeldBy, PagesOf
  <2>4. ASSUME NEW p \in Proc PROVE ImageInv(p)' /\ WorkInv(p)'
    BY <2>1, ImageStill, WorkStill DEF MemInv, Good, TableInv, Still, Image
  <2> QED
    BY <2>2, <2>3, <2>4 DEF Good, TableInv
<1> QED
  BY <1>1, <1>2, <1>3, <1>4 DEF Next

\* The whole invariant of the memory of processes.
THEOREM MemCorrect == Spec => []MemInv
<1>1. Init => MemInv
  BY VmInit, GoodInit DEF MemInv
<1>2. MemInv /\ [Next]_vars => MemInv'
  <2>1. IInv /\ [Next]_vars => IInv'
    BY ShapeStep, KernelStays, HoldStep, ForkStep DEF IInv
  <2> QED
    BY <2>1, GoodStep DEF MemInv
<1> QED
  BY <1>1, <1>2, PTL DEF Spec

\* No page is lost, freed twice, or taken when there is none, in the middle of any call.
THEOREM PagesConservedCorrect == Spec => []PagesConserved
<1>1. MemInv => PagesConserved
  <2> SUFFICES ASSUME MemInv PROVE PagesConserved
    OBVIOUS
  <2>1. free \in 0 .. NPages /\ free + Cardinality(Held) = NPages
    <3>1. IsFiniteSet(Held) /\ free \in Nat /\ free + Cardinality(Held) = NPages
      BY DEF MemInv, Good, CountInv
    <3>2. Cardinality(Held) \in Nat
      BY <3>1, FS_CardinalityType
    <3> QED
      BY <3>1, <3>2
  <2> QED
    BY <2>1 DEF MemInv, Good, MemType, PagesConserved, TypeOK
<1> QED
  BY <1>1, MemCorrect, PTL

\* Every table maps exactly the pages that the size kept for it says, whenever it may be
\* unmapped, copied or freed.
THEOREM SizesMatchTablesCorrect == Spec => []SizesMatchTables
<1>1. MemInv => SizesMatchTables
  <2> SUFFICES ASSUME MemInv, NEW p \in Proc
               PROVE  /\ state[p] \in {"live", "ZOMBIE"} /\ pc[p] # "sbrk"
                           => CanFree(table[<<p, "image">>], sz[p])
                      /\ pc[p] \in {"segment", "args", "bad"} => CanFree(Work(p), newsz[p])
                      /\ pc[p] \in GrowLabel \cup {"copy"} => Work(p).leaf = Fixed \cup 0 .. i[p] - 1
    BY DEF SizesMatchTables
  <2>1. ImageInv(p) /\ WorkInv(p)
    BY DEF MemInv, Good, TableInv
  <2> QED
    BY <2>1 DEF ImageInv, WorkInv, Image, Maps, CanFree
<1> QED
  BY <1>1, MemCorrect, PTL

-----------------------------------------------------------------------------
(* What the kernel copies to and from user memory.                         *)

\* Among some of the numbers up to m one is the least.
LEMMA LeastNumber ==
  ASSUME NEW m \in Nat, NEW S \in SUBSET (0 .. m), S # {}
  PROVE  \E n \in S : \A k \in S : n <= k
<1> DEFINE R == StrictSubsetOrdering(0 .. m)
           T == {0 .. n : n \in S}
<1>1. IsFiniteSet(0 .. m)
  BY FS_Interval
<1>2. IsWellFoundedOn(R, SUBSET (0 .. m))
  BY <1>1, FS_StrictSubsetOrderingWellFounded, FS_FiniteSubsetsOfFinite
<1>3. T \subseteq SUBSET (0 .. m) /\ T # {}
  <2>1. ASSUME NEW n \in S PROVE 0 .. n \subseteq 0 .. m
    OBVIOUS
  <2> QED
    BY <2>1
<1> HIDE DEF R
<1>4. PICK A \in T : \A B \in T : ~(<<B, A>> \in R)
  BY <1>2, <1>3, WFMin
<1>5. PICK n \in S : A = 0 .. n
  OBVIOUS
<1>6. ASSUME NEW k \in S, ~(n <= k) PROVE FALSE
  <2>1. 0 .. k \in T /\ 0 .. k \subseteq A /\ 0 .. k # A
    <3>1. k \in Nat /\ n \in Nat /\ k < n
      BY <1>6
    <3>2. n \in 0 .. n /\ n \notin 0 .. k
      BY <3>1
    <3>3. 0 .. k \subseteq 0 .. n
      BY <3>1
    <3> QED
      BY <1>5, <3>2, <3>3
  <2>2. <<0 .. k, A>> \in R
    BY <1>3, <2>1 DEF R, StrictSubsetOrdering
  <2> QED
    BY <1>4, <2>1, <2>2
<1> QED
  BY <1>5, <1>6

\* Any number of naturals have a least one.
LEMMA LeastNatural ==
  ASSUME NEW S \in SUBSET Nat, S # {}
  PROVE  \E n \in S : \A k \in S : n <= k
<1>1. PICK m \in S : TRUE
  OBVIOUS
<1>2. S \cap (0 .. m) \in SUBSET (0 .. m) /\ S \cap (0 .. m) # {} /\ m \in Nat
  BY <1>1
<1>3. PICK n \in S \cap (0 .. m) : \A k \in S \cap (0 .. m) : n <= k
  BY <1>2, LeastNumber
<1> QED
  BY <1>2, <1>3

\* A page table maps pages of the address space.
InSpace(t) == t.leaf \subseteq Vpn

\* Which page an address is in, and which addresses a chunk has.
LEMMA ChunkFacts ==
  ASSUME NEW va \in Nat, NEW left \in Nat \ {0}
  PROVE  /\ Chunk(va, left) \in 1 .. left
         /\ NextPage(va) \in Nat
         /\ \A j \in 0 .. Chunk(va, left) - 1 : PageOf(va + j) = PageOf(va)
         /\ Chunk(va, left) # left => NextPage(va) = va + Chunk(va, left)
<1> DEFINE q == PageOf(va)
<1>0. PGSIZE \in Nat \ {0}
  BY UserMemAssumption
<1>1. q \in Nat /\ PGSIZE * q <= va /\ va < PGSIZE * q + PGSIZE /\ PGSIZE * q \in Nat
  BY <1>0, Divides DEF PageOf
<1>2. q * PGSIZE = PGSIZE * q /\ (q + 1) * PGSIZE = PGSIZE * q + PGSIZE
  BY <1>0, <1>1
<1> HIDE DEF q
<1>3. PICK b \in Nat : b = PGSIZE * q
  BY <1>1
<1>4. /\ Chunk(va, left) = IF PGSIZE - (va - b) > left THEN left ELSE PGSIZE - (va - b)
      /\ NextPage(va) = b + PGSIZE
  BY <1>2, <1>3 DEF Chunk, NextPage, q
<1>5. b <= va /\ va < b + PGSIZE
  BY <1>1, <1>3
<1>6. ASSUME NEW j \in 0 .. Chunk(va, left) - 1 PROVE PageOf(va + j) = q
  <2>1. va + j - b \in Nat /\ va + j - b < PGSIZE /\ va + j = PGSIZE * q + (va + j - b)
    BY <1>0, <1>3, <1>4, <1>5
  <2> QED
    BY <1>0, <1>1, <2>1, Quotient DEF PageOf
<1> QED
  BY <1>0, <1>4, <1>5, <1>6 DEF q

\* The addresses that the user may use are those of the user's pages.
LEMMA UserFacts ==
  ASSUME NEW t, InSpace(t), NEW va \in Nat
  PROVE  /\ walkaddr(t, va) <=> va \in UserBytes(t)
         /\ va \in UserBytes(t) <=> PageOf(va) \in t.leaf \ (t.guard \cup {TRAMPOLINE, TRAPFRAME})
<1>0. PGSIZE \in Nat \ {0} /\ Fan \in Nat /\ Fan * Fan * Fan \in Nat
  <2>1. PGSIZE \in Nat \ {0} /\ Fan \in Nat
    BY UserMemAssumption
  <2> QED
    BY <2>1
<1>1. MAXVA \in Nat
  BY <1>0 DEF MAXVA
<1>2. PageOf(va) \in Vpn => va < MAXVA
  <2> DEFINE q == PageOf(va)
  <2>1. q \in Nat /\ va < PGSIZE * q + PGSIZE
    BY <1>0, Divides DEF PageOf
  <2>2. SUFFICES ASSUME q \in Vpn PROVE va < MAXVA
    OBVIOUS
  <2> HIDE DEF q
  <2>3. PICK k \in Nat : Fan * Fan * Fan = q + 1 + k
    <3>1. Fan * Fan * Fan - (q + 1) \in Nat
      BY <1>0, <2>1, <2>2 DEF Vpn
    <3> QED
      BY <1>0, <2>1, <3>1
  <2>4. MAXVA = (q + 1 + k) * PGSIZE
    BY <2>3 DEF MAXVA
  <2>5. (q + 1 + k) * PGSIZE = PGSIZE * q + PGSIZE + k * PGSIZE /\ k * PGSIZE \in Nat
    BY <1>0, <2>1
  <2> QED
    BY <1>0, <2>1, <2>4, <2>5
<1> QED
  BY <1>1, <1>2 DEF InSpace, walkaddr, UserBytes

\* What copyout() must come to, left bytes from va on, and s in the buffer: the bytes up to the
\* first that the user may not use.
AllUser(t, va, left) == \A j \in 0 .. left - 1 : va + j \in UserBytes(t)
Reach(t, va, left)   == {j \in 0 .. left - 1 : \A k \in 0 .. j : va + k \in UserBytes(t)}
Copied(t, va, left, s) == {<<va + j, s + j>> : j \in Reach(t, va, left)}

\* The first chunk is the user's, and the rest has the addresses after it.
LEMMA ReachShift ==
  ASSUME NEW t, InSpace(t), NEW va \in Nat, NEW left \in Nat \ {0}, va \in UserBytes(t),
         NEW n, n = Chunk(va, left)
  PROVE  /\ \A j \in 0 .. n - 1 : j \in Reach(t, va, left)
         /\ \A j \in Reach(t, va, left) :
              j \in 0 .. n - 1 \/ (j - n \in Reach(t, NextPage(va), left - n)
                                     /\ NextPage(va) + (j - n) = va + j)
         /\ \A j \in Reach(t, NextPage(va), left - n) :
              j + n \in Reach(t, va, left) /\ NextPage(va) + j = va + (j + n)
<1> DEFINE w == NextPage(va)
<1>1. /\ n \in 1 .. left /\ w \in Nat
      /\ \A j \in 0 .. n - 1 : PageOf(va + j) = PageOf(va)
      /\ n # left => w = va + n
  BY ChunkFacts
<1>2. ASSUME NEW j \in 0 .. n - 1 PROVE va + j \in UserBytes(t)
  <2>1. PageOf(va + j) = PageOf(va) /\ va + j \in Nat
    BY <1>1
  <2> QED
    BY <2>1, UserFacts
<1> HIDE DEF w
<1>3. ASSUME NEW j \in 0 .. n - 1 PROVE j \in Reach(t, va, left)
  <2>1. j \in 0 .. left - 1 /\ \A k \in 0 .. j : k \in 0 .. n - 1
    BY <1>1
  <2> QED
    BY <1>2, <2>1 DEF Reach
<1>4. ASSUME NEW j \in Reach(t, va, left), j \notin 0 .. n - 1
      PROVE  j - n \in Reach(t, w, left - n) /\ w + (j - n) = va + j
  <2>1. j \in 0 .. left - 1 /\ \A k \in 0 .. j : va + k \in UserBytes(t)
    BY DEF Reach
  <2>2. n # left /\ w = va + n /\ j - n \in 0 .. (left - n) - 1 /\ w + (j - n) = va + j
    BY <1>1, <1>4, <2>1
  <2>3. ASSUME NEW k \in 0 .. j - n PROVE w + k \in UserBytes(t)
    <3>1. k + n \in 0 .. j /\ va + (k + n) = w + k
      BY <1>1, <2>1, <2>2
    <3> QED
      BY <2>1, <3>1
  <2> QED
    BY <2>2, <2>3 DEF Reach
<1>5. ASSUME NEW j \in Reach(t, w, left - n) PROVE j + n \in Reach(t, va, left) /\ w + j = va + (j + n)
  <2>1. j \in 0 .. (left - n) - 1 /\ \A k \in 0 .. j : w + k \in UserBytes(t)
    BY DEF Reach
  <2>2. w = va + n /\ j + n \in 0 .. left - 1 /\ w + j = va + (j + n)
    BY <1>1, <2>1
  <2>3. ASSUME NEW k \in 0 .. j + n PROVE va + k \in UserBytes(t)
    <3>1. k \in 0 .. n - 1 \/ (k - n \in 0 .. j /\ va + k = w + (k - n))
      BY <1>1, <2>1, <2>2
    <3> QED
      BY <1>2, <2>1, <3>1
  <2> QED
    BY <2>2, <2>3 DEF Reach
<1> QED
  BY <1>3, <1>4, <1>5 DEF w

\* The first chunk, of n bytes, is the user's: the rest decides.
RestDecides(t, va, left, s, n) ==
  /\ AllUser(t, va, left) <=> AllUser(t, NextPage(va), left - n)
  /\ Copied(t, va, left, s) = Copied(t, NextPage(va), left - n, s + n) \cup Pairs(va, s, n)

\* So it is where copyout() goes on.
LEMMA ReachFacts ==
  ASSUME NEW t, InSpace(t), NEW va \in Nat, NEW left \in Nat \ {0}, NEW s \in Nat,
         va \in UserBytes(t), NEW n, n = Chunk(va, left)
  PROVE  RestDecides(t, va, left, s, n)
<1> DEFINE w == NextPage(va)
           R == Reach(t, va, left)
           Q == Reach(t, w, left - n)
<1>1. n \in 1 .. left /\ w \in Nat /\ (n # left => w = va + n)
  BY ChunkFacts
<1>2. /\ \A j \in 0 .. n - 1 : j \in R
      /\ \A j \in R : j \in 0 .. n - 1 \/ (j - n \in Q /\ w + (j - n) = va + j)
      /\ \A j \in Q : j + n \in R /\ w + j = va + (j + n)
  BY ReachShift
<1>3. R \subseteq 0 .. left - 1 /\ Q \subseteq 0 .. (left - n) - 1
  BY DEF Reach
<1>4. \A j \in R : va + j \in UserBytes(t)
  BY DEF Reach
<1>5. Copied(t, va, left, s) = {<<va + j, s + j>> : j \in R}
  BY DEF Copied
<1>6. Copied(t, w, left - n, s + n) = {<<w + j, (s + n) + j>> : j \in Q}
  BY DEF Copied
<1> HIDE DEF w, R, Q
<1>7. AllUser(t, va, left) <=> AllUser(t, w, left - n)
  <2>1. ASSUME AllUser(t, va, left), NEW j \in 0 .. (left - n) - 1 PROVE w + j \in UserBytes(t)
    <3>1. w = va + n /\ j + n \in 0 .. left - 1 /\ w + j = va + (j + n)
      BY <1>1
    <3> QED
      BY <2>1, <3>1 DEF AllUser
  <2>2. ASSUME AllUser(t, w, left - n), NEW j \in 0 .. left - 1 PROVE va + j \in UserBytes(t)
    <3>1. CASE j \in 0 .. n - 1
      BY <1>2, <1>4, <3>1
    <3>2. CASE j \notin 0 .. n - 1
      <4>1. j - n \in 0 .. (left - n) - 1 /\ w + (j - n) = va + j
        BY <1>1, <3>2
      <4> QED
        BY <2>2, <4>1 DEF AllUser
    <3> QED
      BY <3>1, <3>2
  <2> QED
    BY <2>1, <2>2 DEF AllUser
<1>8. ASSUME NEW x \in Copied(t, va, left, s)
       PROVE  x \in Copied(t, w, left - n, s + n) \cup Pairs(va, s, n)
  <2>1. PICK j \in R : x = <<va + j, s + j>>
    BY <1>5
  <2>2. CASE j \in 0 .. n - 1
    BY <2>1, <2>2 DEF Pairs
  <2>3. CASE j \notin 0 .. n - 1
    <3>1. j - n \in Q /\ w + (j - n) = va + j /\ (s + n) + (j - n) = s + j
      BY <1>1, <1>2, <1>3, <2>3
    <3> QED
      BY <1>6, <2>1, <3>1
  <2> QED
    BY <2>2, <2>3
<1>9. ASSUME NEW x \in Copied(t, w, left - n, s + n) PROVE x \in Copied(t, va, left, s)
  <2>1. PICK j \in Q : x = <<w + j, (s + n) + j>>
    BY <1>6
  <2>2. j + n \in R /\ w + j = va + (j + n) /\ (s + n) + j = s + (j + n)
    BY <1>1, <1>2, <1>3
  <2> QED
    BY <1>5, <2>1, <2>2
<1>10. ASSUME NEW x \in Pairs(va, s, n) PROVE x \in Copied(t, va, left, s)
  BY <1>2, <1>5 DEF Pairs
<1>11. Copied(t, va, left, s) = Copied(t, w, left - n, s + n) \cup Pairs(va, s, n)
  BY <1>8, <1>9, <1>10
<1> QED
  BY <1>7, <1>11 DEF w, RestDecides

\* Without a byte to copy, or with one that the user may not use, nothing is copied.
LEMMA ReachNothing ==
  ASSUME NEW t, NEW va \in Nat, NEW left \in Nat, NEW s
  PROVE  /\ left = 0 => AllUser(t, va, left) /\ Copied(t, va, left, s) = {}
         /\ left # 0 /\ va \notin UserBytes(t) =>
              ~AllUser(t, va, left) /\ Copied(t, va, left, s) = {}
<1>1. left = 0 => 0 .. left - 1 = {}
  OBVIOUS
<1>2. \A j \in 0 .. left - 1 : 0 \in 0 .. j
  OBVIOUS
<1>3. left # 0 => 0 \in 0 .. left - 1 /\ va + 0 = va
  OBVIOUS
<1>4. left = 0 \/ va \notin UserBytes(t) => Reach(t, va, left) = {}
  <2>1. va + 0 = va
    OBVIOUS
  <2> QED
    BY <1>1, <1>2, <2>1 DEF Reach
<1> QED
  BY <1>1, <1>3, <1>4 DEF AllUser, Copied

\* A page table and the closed form: what copyout()'s recursion must satisfy.
CopyForm(t) == [c \in Nat \X Nat \X Nat |-> Result(AllUser(t, c[1], c[2]), Copied(t, c[1], c[2], c[3]))]

CopyStep(t, g, c) ==
  LET va == c[1]  left == c[2]  s == c[3] IN
  IF left = 0 THEN Result(TRUE, {})
  ELSE IF ~walkaddr(t, va) THEN Result(FALSE, {})
  ELSE LET n    == Chunk(va, left)
           rest == g[<<NextPage(va), left - n, s + n>>]
       IN Result(rest.ok, rest.bytes \cup Pairs(va, s, n))

\* The step at an address that the user may use.
LEMMA CopyStepChunk ==
  ASSUME NEW t, InSpace(t), NEW va \in Nat, NEW left \in Nat \ {0}, NEW s \in Nat,
         va \in UserBytes(t)
  PROVE  CopyStep(t, CopyForm(t), <<va, left, s>>) = CopyForm(t)[<<va, left, s>>]
<1> DEFINE F == CopyForm(t)
           w == NextPage(va)
<1>0. PICK n : n = Chunk(va, left)
  OBVIOUS
<1>1. ASSUME NEW v \in Nat, NEW l \in Nat, NEW b \in Nat
      PROVE  F[<<v, l, b>>] = Result(AllUser(t, v, l), Copied(t, v, l, b))
  BY DEF CopyForm
<1>2. n \in 1 .. left /\ w \in Nat
  BY <1>0, ChunkFacts
<1>3. left - n \in Nat /\ s + n \in Nat
  BY <1>2
<1>4. RestDecides(t, va, left, s, n)
  BY <1>0, ReachFacts
<1>5. /\ AllUser(t, va, left) <=> AllUser(t, w, left - n)
      /\ Copied(t, va, left, s) = Copied(t, w, left - n, s + n) \cup Pairs(va, s, n)
  BY <1>4 DEF RestDecides
<1>6. CopyStep(t, F, <<va, left, s>>) =
        Result(F[<<w, left - n, s + n>>].ok, F[<<w, left - n, s + n>>].bytes \cup Pairs(va, s, n))
  BY <1>0, UserFacts DEF CopyStep
<1> HIDE DEF F, w
<1>7. F[<<w, left - n, s + n>>] = Result(AllUser(t, w, left - n), Copied(t, w, left - n, s + n))
  BY <1>1, <1>2, <1>3
<1>8. AllUser(t, va, left) = AllUser(t, w, left - n)
  BY <1>5 DEF AllUser
<1>9. /\ F[<<w, left - n, s + n>>].ok = AllUser(t, w, left - n)
      /\ F[<<w, left - n, s + n>>].bytes = Copied(t, w, left - n, s + n)
  BY <1>7 DEF Result
<1>10. CopyStep(t, F, <<va, left, s>>) = Result(AllUser(t, va, left), Copied(t, va, left, s))
  BY <1>5, <1>6, <1>8, <1>9
<1> QED
  BY <1>1, <1>10 DEF F

\* The step at the first address va: nothing is left, or nothing may be used, or a chunk is copied.
LEMMA CopyStepForm ==
  ASSUME NEW t, InSpace(t), NEW va \in Nat, NEW left \in Nat, NEW s \in Nat
  PROVE  CopyStep(t, CopyForm(t), <<va, left, s>>) = CopyForm(t)[<<va, left, s>>]
<1> DEFINE F == CopyForm(t)
<1>1. ASSUME NEW v \in Nat, NEW l \in Nat, NEW b \in Nat
      PROVE  F[<<v, l, b>>] = Result(AllUser(t, v, l), Copied(t, v, l, b))
  BY DEF CopyForm
<1>2. CASE left = 0
  <2>1. CopyStep(t, F, <<va, left, s>>) = Result(TRUE, {})
    BY <1>2 DEF CopyStep
  <2>2. AllUser(t, va, left) = TRUE /\ Copied(t, va, left, s) = {}
    BY <1>2, ReachNothing DEF AllUser
  <2>3. Result(TRUE, {}) = Result(AllUser(t, va, left), Copied(t, va, left, s))
    BY <2>2
  <2>4. F[<<va, left, s>>] = Result(AllUser(t, va, left), Copied(t, va, left, s))
    BY <1>1
  <2> HIDE DEF F
  <2>5. CopyStep(t, F, <<va, left, s>>) = F[<<va, left, s>>]
    BY <2>1, <2>3, <2>4
  <2> QED
    BY <2>5 DEF F
<1>3. CASE left # 0 /\ va \notin UserBytes(t)
  <2>1. CopyStep(t, F, <<va, left, s>>) = Result(FALSE, {})
    BY <1>3, UserFacts DEF CopyStep
  <2>2. AllUser(t, va, left) = FALSE /\ Copied(t, va, left, s) = {}
    BY <1>3, ReachNothing DEF AllUser
  <2>3. Result(FALSE, {}) = Result(AllUser(t, va, left), Copied(t, va, left, s))
    BY <2>2
  <2>4. F[<<va, left, s>>] = Result(AllUser(t, va, left), Copied(t, va, left, s))
    BY <1>1
  <2> HIDE DEF F
  <2>5. CopyStep(t, F, <<va, left, s>>) = F[<<va, left, s>>]
    BY <2>1, <2>3, <2>4
  <2> QED
    BY <2>5 DEF F
<1>4. CASE left # 0 /\ va \in UserBytes(t)
  BY <1>4, CopyStepChunk
<1> QED
  BY <1>2, <1>3, <1>4

\* What satisfies the equation of copyout() is the closed form: two solutions differ at no number
\* of bytes left, the least one included.
LEMMA CopyUnique ==
  ASSUME NEW t, InSpace(t), NEW g, g = [c \in Nat \X Nat \X Nat |-> CopyStep(t, g, c)]
  PROVE  \A va \in Nat, left \in Nat, s \in Nat :
           g[<<va, left, s>>] = Result(AllUser(t, va, left), Copied(t, va, left, s))
<1> DEFINE F == CopyForm(t)
           P(l) == \A va \in Nat, s \in Nat : g[<<va, l, s>>] = F[<<va, l, s>>]
           S == {l \in Nat : ~P(l)}
<1>1. SUFFICES ASSUME S # {} PROVE FALSE
  <2>1. ASSUME S = {}, NEW va \in Nat, NEW left \in Nat, NEW s \in Nat
        PROVE  g[<<va, left, s>>] = Result(AllUser(t, va, left), Copied(t, va, left, s))
    <3>0. P(left)
      BY <2>1
    <3>1. g[<<va, left, s>>] = F[<<va, left, s>>]
      BY <3>0
    <3> QED
      BY <3>1 DEF CopyForm
  <2> QED
    BY <2>1
<1>2. PICK l \in S : \A k \in S : l <= k
  BY <1>1, LeastNatural
<1>3. l \in Nat /\ ~P(l)
  BY <1>2
<1>4. PICK va \in Nat, s \in Nat : g[<<va, l, s>>] # F[<<va, l, s>>]
  BY <1>3
<1>5. ASSUME NEW k \in Nat, k < l PROVE P(k)
  <2>1. k \notin S
    BY <1>2, <1>3, <1>5
  <2> HIDE DEF P
  <2> QED
    BY <2>1
<1> HIDE DEF P, S
<1>6. g[<<va, l, s>>] = CopyStep(t, g, <<va, l, s>>)
  BY <1>3
<1>7. CopyStep(t, g, <<va, l, s>>) = CopyStep(t, F, <<va, l, s>>)
  <2>1. CASE l = 0 \/ ~walkaddr(t, va)
    BY <2>1 DEF CopyStep
  <2>2. CASE l # 0 /\ walkaddr(t, va)
    <3> DEFINE n == Chunk(va, l)
               w == NextPage(va)
    <3>1. va \in UserBytes(t)
      BY <2>2, UserFacts
    <3>0. n \in 1 .. l /\ w \in Nat
      BY <1>3, <2>2, <3>1, ChunkFacts
    <3> HIDE DEF n, w
    <3>2. n \in 1 .. l /\ w \in Nat /\ l - n \in Nat /\ s + n \in Nat
      BY <1>3, <3>0
    <3>3. l - n < l
      BY <1>3, <3>2
    <3>4. g[<<w, l - n, s + n>>] = F[<<w, l - n, s + n>>]
      BY <1>5, <3>2, <3>3 DEF P
    <3> HIDE DEF F
    <3> QED
      BY <3>4 DEF CopyStep, n, w
  <2> QED
    BY <2>1, <2>2
<1>8. CopyStep(t, F, <<va, l, s>>) = F[<<va, l, s>>]
  BY <1>3, CopyStepForm
<1> QED
  BY <1>4, <1>6, <1>7, <1>8

\* What copyout() comes to.
LEMMA CopyoutFacts ==
  ASSUME NEW t, InSpace(t), NEW va \in Nat, NEW n \in Nat
  PROVE  copyout(t, va, n) = Result(AllUser(t, va, n), Copied(t, va, n, 0))
<1> DEFINE E(g) == g = [c \in Nat \X Nat \X Nat |-> CopyStep(t, g, c)]
           h == CHOOSE g : E(g)
<1>1. E(CopyForm(t))
  <2>1. ASSUME NEW c \in Nat \X Nat \X Nat PROVE CopyForm(t)[c] = CopyStep(t, CopyForm(t), c)
    <3>1. PICK a \in Nat, l \in Nat, s \in Nat : c = <<a, l, s>>
      OBVIOUS
    <3> QED
      BY <3>1, CopyStepForm
  <2>2. CopyForm(t) = [c \in Nat \X Nat \X Nat |-> CopyForm(t)[c]]
    BY DEF CopyForm
  <2> QED
    BY <2>1, <2>2
<1>2. E(h)
  BY <1>1
<1>3. copyout(t, va, n) = h[<<va, n, 0>>]
  BY DEF copyout, CopyStep
<1> HIDE DEF h
<1>4. h[<<va, n, 0>>] = Result(AllUser(t, va, n), Copied(t, va, n, 0))
  BY <1>2, CopyUnique
<1> QED
  BY <1>3, <1>4

\* The pages of the user end somewhere: what can be reached is a prefix.
LEMMA ReachPrefix ==
  ASSUME NEW t, NEW va \in Nat, NEW n \in Nat
  PROVE  /\ AllUser(t, va, n) => Reach(t, va, n) = 0 .. n - 1
         /\ \E m \in 0 .. n : Reach(t, va, n) = 0 .. m - 1
<1>1. ASSUME AllUser(t, va, n) PROVE Reach(t, va, n) = 0 .. n - 1
  <2>1. \A j \in 0 .. n - 1 : \A k \in 0 .. j : k \in 0 .. n - 1
    OBVIOUS
  <2> QED
    BY <1>1, <2>1 DEF AllUser, Reach
<1>2. CASE AllUser(t, va, n)
  BY <1>1, <1>2
<1>3. CASE ~AllUser(t, va, n)
  <2> DEFINE S == {j \in 0 .. n - 1 : va + j \notin UserBytes(t)}
  <2>0. PICK l \in 0 .. n - 1 : va + l \notin UserBytes(t)
    BY <1>3 DEF AllUser
  <2>1. S # {} /\ S \in SUBSET Nat
    <3>1. l \in S
      BY <2>0
    <3>2. S \subseteq 0 .. n - 1 /\ 0 .. n - 1 \subseteq Nat
      OBVIOUS
    <3> HIDE DEF S
    <3> QED
      BY <3>1, <3>2
  <2>2. PICK m \in S : \A k \in S : m <= k
    BY <2>1, LeastNatural
  <2>3. m \in 0 .. n - 1 /\ va + m \notin UserBytes(t) /\ m \in 0 .. n
    BY <2>2
  <2>4. ASSUME NEW j \in 0 .. n - 1, j < m PROVE j \in Reach(t, va, n)
    <3>1. ASSUME NEW k \in 0 .. j PROVE va + k \in UserBytes(t)
      <4>1. k \in 0 .. n - 1 /\ k < m
        BY <2>3, <2>4
      <4> QED
        BY <2>2, <4>1
    <3> QED
      BY <3>1 DEF Reach
  <2>5. ASSUME NEW j \in Reach(t, va, n) PROVE j \in 0 .. n - 1 /\ j < m
    <3>1. j \in 0 .. n - 1 /\ \A k \in 0 .. j : va + k \in UserBytes(t)
      BY DEF Reach
    <3>2. m \notin 0 .. j
      BY <2>3, <3>1
    <3> QED
      BY <2>3, <3>1, <3>2
  <2>6. \A j : j \in 0 .. m - 1 <=> j \in 0 .. n - 1 /\ j < m
    BY <2>3
  <2>7. Reach(t, va, n) = 0 .. m - 1
    BY <2>4, <2>5, <2>6 DEF Reach
  <2> QED
    BY <1>3, <2>3, <2>7
<1> QED
  BY <1>2, <1>3

\* The bytes that a copy of the first n bytes copies.
LEMMA CopiedPrefix ==
  ASSUME NEW t, NEW va \in Nat, NEW n \in Nat, NEW m \in 0 .. n, Reach(t, va, n) = 0 .. m - 1
  PROVE  Copied(t, va, n, 0) = Bytes(va, m)
BY DEF Copied, Bytes, Pairs

\* copyout() and copyin() copy exactly the bytes asked for, and succeed exactly if the user may
\* touch them all; a copy that fails has done the first of them, in order (vm.c:346-391).
LEMMA CopyoutCorrect ==
  ASSUME NEW t, InSpace(t), NEW va \in Nat, NEW n \in Nat
  PROVE  CopyoutExact(t, va, n)
<1> DEFINE done == copyout(t, va, n)
<1>1. done = Result(AllUser(t, va, n), Copied(t, va, n, 0))
  BY CopyoutFacts
<1> HIDE DEF done
<1>2. (done.ok <=> AllUser(t, va, n)) /\ done.bytes = Copied(t, va, n, 0)
  BY <1>1 DEF Result
<1>3. AllUser(t, va, n) => done.bytes = Bytes(va, n)
  <2>1. SUFFICES ASSUME AllUser(t, va, n) PROVE done.bytes = Bytes(va, n)
    OBVIOUS
  <2>2. Reach(t, va, n) = 0 .. n - 1 /\ n \in 0 .. n
    BY <2>1, ReachPrefix
  <2> QED
    BY <1>2, <2>2, CopiedPrefix
<1>4. \E m \in 0 .. n : done.bytes = Bytes(va, m)
  <2>1. PICK m \in 0 .. n : Reach(t, va, n) = 0 .. m - 1
    BY ReachPrefix
  <2> QED
    BY <1>2, <2>1, CopiedPrefix
<1> QED
  BY <1>2, <1>3, <1>4 DEF CopyoutExact, AllUser, done

\* The bits of n pages are in the first BitmapBytes(n) bytes.
LEMMA BitmapHolds ==
  ASSUME NEW n \in Nat, NEW j \in 0 .. n - 1
  PROVE  BitmapBytes(n) \in Nat /\ j \div ByteBits \in 0 .. BitmapBytes(n) - 1
<1>1. ByteBits \in Nat \ {0}
  BY UserMemAssumption
<1> DEFINE b == ByteBits
           a == n \div ByteBits
           c == j \div ByteBits
<1>2. a \in Nat /\ c \in Nat /\ b * a <= n /\ n < b * a + b /\ b * c <= j
  BY <1>1, Divides
<1>3. n % b # 0 \/ n = b * a
  BY <1>1
<1>4. b * a \in Nat /\ b * c \in Nat /\ b * c < n
  BY <1>1, <1>2
<1>5. n % b = 0 => c < a
  <2>1. SUFFICES ASSUME n % b = 0, a <= c PROVE FALSE
    BY <1>2
  <2>2. b * a <= b * c
    BY <1>1, <1>2, <2>1
  <2> QED
    BY <1>3, <1>4, <2>1, <2>2
<1>6. c <= a
  <2>1. SUFFICES ASSUME a + 1 <= c PROVE FALSE
    BY <1>2
  <2>2. b * a + b <= b * c
    BY <1>1, <1>2, <2>1
  <2> QED
    BY <1>1, <1>2, <1>4, <2>2
<1>7. BitmapBytes(n) = a + (IF n % b # 0 THEN 1 ELSE 0)
  BY DEF BitmapBytes
<1> HIDE DEF a, b, c
<1> QED
  BY <1>2, <1>5, <1>6, <1>7 DEF b, c

\* sys_pgaccess() reports the accesses it looked at, unless the copy fails, and clears exactly
\* these; walk() panics exactly if it is given an address beyond MAXVA (sysproc.c:81-116).
LEMMA PgaccessCorrect ==
  ASSUME NEW t, InSpace(t), NEW A \in SUBSET Nat, NEW first \in Nat, NEW num \in Int,
         NEW bitmap \in Nat
  PROVE  PgaccessReports(t, A, first, num, bitmap)
<1>0. MAX_PAGES \in Nat
  BY UserMemAssumption
<1>1. PICK n \in Int : n = IF num > MAX_PAGES THEN MAX_PAGES ELSE num
  BY <1>0
<1> DEFINE set  == {j \in 0 .. n - 1 : first + j \in A}
           seen == {j \in 0 .. num - 1 : first + j \in A /\ j < MAX_PAGES}
           copy == copyout(t, bitmap, BitmapBytes(n))
           done == sys_pgaccess(t, A, first, num, bitmap)
<1>2. seen = set
  BY <1>0, <1>1
<1>3. /\ done.panic <=> n < 0 \/ \E j \in 0 .. n - 1 : first + j > TRAMPOLINE
      /\ done.ok = copy.ok
      /\ done.reported = {j \in set : \E b \in copy.bytes : b[2] = j \div ByteBits}
      /\ done.accessed = A \ (first .. first + n - 1)
  BY <1>1 DEF sys_pgaccess
<1>4. ASSUME n >= 0, copy.ok PROVE done.reported = set
  <2>1. ASSUME NEW j \in set PROVE \E b \in copy.bytes : b[2] = j \div ByteBits
    <3>1. BitmapBytes(n) \in Nat /\ j \div ByteBits \in 0 .. BitmapBytes(n) - 1
      BY <1>4, BitmapHolds
    <3>2. copy.bytes = Bytes(bitmap, BitmapBytes(n))
      BY <1>4, <3>1, CopyoutCorrect DEF CopyoutExact
    <3>3. <<bitmap + j \div ByteBits, 0 + j \div ByteBits>> \in copy.bytes
      BY <3>1, <3>2 DEF Bytes, Pairs
    <3>4. 0 + j \div ByteBits = j \div ByteBits
      BY <3>1
    <3> QED
      BY <3>3, <3>4
  <2> HIDE DEF copy, set
  <2> QED
    BY <1>3, <2>1
<1>5. done.accessed = A \ {first + j : j \in seen}
  <2>1. ASSUME NEW v \in A PROVE v \in first .. first + n - 1 <=> v \in {first + j : j \in set}
    <3>1. ASSUME v \in first .. first + n - 1 PROVE v \in {first + j : j \in set}
      <4>1. v - first \in 0 .. n - 1 /\ first + (v - first) = v
        BY <3>1
      <4> QED
        BY <4>1
    <3> QED
      BY <3>1
  <2> HIDE DEF set
  <2> QED
    BY <1>2, <1>3, <2>1
<1>6. done.panic <=> num < 0 \/ \E j \in 0 .. num - 1 : j < MAX_PAGES /\ first + j \notin Vpn
  <2>1. n < 0 <=> num < 0
    BY <1>0, <1>1
  <2>2. \A j \in Int : j \in 0 .. n - 1 <=> j \in 0 .. num - 1 /\ j < MAX_PAGES
    BY <1>0, <1>1
  <2>3. \A j \in Nat : first + j > TRAMPOLINE <=> first + j \notin Vpn
    <3>1. PICK last \in Int : last = Fan * Fan * Fan - 1
      BY UserMemAssumption
    <3> QED
      BY <3>1 DEF Vpn, TRAMPOLINE
  <2>4. (\E j \in 0 .. n - 1 : first + j > TRAMPOLINE) <=>
             \E j \in 0 .. num - 1 : j < MAX_PAGES /\ first + j \notin Vpn
    <3>1. \A j \in 0 .. n - 1 : j \in Nat /\ j \in Int
      OBVIOUS
    <3>2. \A j \in 0 .. num - 1 : j \in Nat /\ j \in Int
      OBVIOUS
    <3> QED
      BY <2>2, <2>3, <3>1, <3>2
  <2> HIDE DEF done
  <2> QED
    BY <1>3, <2>1, <2>4
<1> HIDE DEF copy, set, done
<1>7. ~done.panic => n >= 0
  <2>1. ~done.panic => ~(n < 0)
    BY Zenon, <1>3
  <2> QED
    BY <2>1
<1> QED
  BY <1>2, <1>3, <1>4, <1>5, <1>6, <1>7 DEF PgaccessReports, done, seen

\* The least of some numbers, and where the first '\0' is that copyinstr() can reach.
Least(S) == CHOOSE j \in S : \A k \in S : j <= k
Found(t, nul, va, left) == {j \in Reach(t, va, left) : va + j \in nul}

\* There is one least.
LEMMA LeastFacts ==
  ASSUME NEW S \in SUBSET Nat
  PROVE  /\ S # {} => Least(S) \in S /\ \A k \in S : Least(S) <= k
         /\ \A j \in S : (\A k \in S : j <= k) => Least(S) = j
<1>1. ASSUME NEW j \in S, \A k \in S : j <= k
      PROVE  Least(S) \in S /\ \A k \in S : Least(S) <= k
  BY <1>1 DEF Least
<1>2. S # {} => \E j \in S : \A k \in S : j <= k
  BY LeastNatural
<1>3. ASSUME NEW j \in S, \A k \in S : j <= k PROVE Least(S) = j
  <2>1. Least(S) \in S /\ Least(S) <= j /\ j <= Least(S)
    BY <1>1, <1>3
  <2>2. Least(S) \in Nat /\ j \in Nat
    BY <2>1
  <2> QED
    BY <2>1, <2>2
<1> QED
  BY <1>1, <1>2, <1>3

\* What copyinstr() comes to.
Instr(t, nul, va, left, s) ==
  IF Found(t, nul, va, left) = {} THEN Result(FALSE, Copied(t, va, left, s))
  ELSE Result(TRUE, Pairs(va, s, Least(Found(t, nul, va, left)) + 1))

InstrForm(t, nul) == [c \in Nat \X Nat \X Nat |-> Instr(t, nul, c[1], c[2], c[3])]

InstrStep(t, nul, g, c) ==
  LET va == c[1]  left == c[2]  s == c[3] IN
  IF left = 0 THEN Result(FALSE, {})
  ELSE IF ~walkaddr(t, va) THEN Result(FALSE, {})
  ELSE LET n    == Chunk(va, left)
           ends == {j \in 0 .. n - 1 : va + j \in nul}
           rest == g[<<NextPage(va), left - n, s + n>>]
       IN IF ends # {}
          THEN LET e == CHOOSE j \in ends : \A k \in ends : j <= k
               IN Result(TRUE, Pairs(va, s, e + 1))
          ELSE Result(rest.ok, rest.bytes \cup Pairs(va, s, n))

\* What is found is found at a natural number.
LEMMA FoundNat ==
  ASSUME NEW t, NEW nul, NEW va \in Nat, NEW left \in Nat
  PROVE  Found(t, nul, va, left) \in SUBSET Nat
BY DEF Found, Reach

\* S and T have the same least number.
SameLeast(S, T) == S # {} /\ Least(S) = Least(T)

\* A '\0' in the first chunk is the first one.
LEMMA FoundInChunk ==
  ASSUME NEW t, InSpace(t), NEW nul, NEW va \in Nat, NEW left \in Nat \ {0}, va \in UserBytes(t),
         NEW n, n = Chunk(va, left), NEW ends, ends = {j \in 0 .. n - 1 : va + j \in nul}, ends # {}
  PROVE  SameLeast(Found(t, nul, va, left), ends)
<1> DEFINE F == Found(t, nul, va, left)
<1>1. n \in 1 .. left
  BY ChunkFacts
<1>2. ends \in SUBSET Nat
  BY <1>1
<1>3. PICK e : e = Least(ends)
  OBVIOUS
<1>4. e \in ends /\ \A k \in ends : e <= k
  BY <1>2, <1>3, LeastFacts
<1>5. e \in 0 .. n - 1 /\ va + e \in nul
  BY <1>4
<1>6. e \in F
  BY <1>5, ReachShift DEF Found
<1>7. F \in SUBSET Nat
  BY FoundNat
<1>8. ASSUME NEW k \in F PROVE e <= k
  <2>1. k \in Nat /\ va + k \in nul
    BY <1>7 DEF Found
  <2>2. CASE k <= n - 1
    <3>1. k \in ends
      BY <1>1, <2>1, <2>2
    <3> QED
      BY <1>4, <3>1
  <2>3. CASE ~(k <= n - 1)
    BY <1>1, <1>5, <2>1, <2>3
  <2> QED
    BY <2>2, <2>3
<1> HIDE DEF F
<1>9. Least(F) = e
  BY <1>6, <1>7, <1>8, LeastFacts
<1> QED
  BY <1>3, <1>6, <1>9 DEF F, SameLeast

\* Without one, the first is the first in the rest.
LEMMA FoundInRest ==
  ASSUME NEW t, InSpace(t), NEW nul, NEW va \in Nat, NEW left \in Nat \ {0}, va \in UserBytes(t),
         NEW n, n = Chunk(va, left), \A j \in 0 .. n - 1 : va + j \notin nul
  PROVE  /\ Found(t, nul, va, left) = {} <=> Found(t, nul, NextPage(va), left - n) = {}
         /\ Found(t, nul, va, left) # {} =>
              /\ NextPage(va) = va + n
              /\ Least(Found(t, nul, va, left)) = Least(Found(t, nul, NextPage(va), left - n)) + n
              /\ Least(Found(t, nul, NextPage(va), left - n)) \in Nat
<1> DEFINE w == NextPage(va)
           F == Found(t, nul, va, left)
           G == Found(t, nul, w, left - n)
<1>1. n \in 1 .. left /\ w \in Nat
  BY ChunkFacts
<1>2. left - n \in Nat
  BY <1>1
<1>3. F \in SUBSET Nat /\ G \in SUBSET Nat
  BY <1>1, <1>2, FoundNat
<1>4. ASSUME NEW j \in F PROVE j - n \in G /\ w + (j - n) = va + j
  <2>1. j \in Reach(t, va, left) /\ va + j \in nul /\ j \notin 0 .. n - 1
    BY DEF Found
  <2>2. j - n \in Reach(t, w, left - n) /\ w + (j - n) = va + j
    BY <2>1, ReachShift
  <2> QED
    BY <2>1, <2>2 DEF Found
<1>5. ASSUME NEW j \in G PROVE j + n \in F /\ w + j = va + (j + n)
  <2>1. j \in Reach(t, w, left - n) /\ w + j \in nul
    BY DEF Found
  <2>2. j + n \in Reach(t, va, left) /\ w + j = va + (j + n)
    BY <2>1, ReachShift
  <2> QED
    BY <2>1, <2>2 DEF Found
<1>6. F = {} <=> G = {}
  <2>1. F # {} => G # {}
    BY <1>4
  <2>2. G # {} => F # {}
    BY <1>5
  <2> QED
    BY <2>1, <2>2
<1> HIDE DEF w, F, G
<1>7. ASSUME F # {} PROVE w = va + n /\ Least(F) = Least(G) + n /\ Least(G) \in Nat
  <2>1. PICK m : m = Least(G)
    OBVIOUS
  <2>2. m \in G /\ \A k \in G : m <= k
    BY <1>3, <1>6, <1>7, <2>1, LeastFacts
  <2>3. m \in Nat /\ m + n \in F /\ w + m = va + (m + n)
    BY <1>3, <1>5, <2>2
  <2>4. w = va + n
    BY <1>1, <2>3
  <2>5. ASSUME NEW k \in F PROVE m + n <= k
    <3>1. k - n \in G /\ k \in Nat
      BY <1>3, <1>4
    <3>2. m <= k - n
      BY <2>2, <3>1
    <3> QED
      BY <1>1, <2>3, <3>1, <3>2
  <2>6. Least(F) = m + n
    <3>1. PICK k \in F : k = m + n
      BY <2>3
    <3>2. \A l \in F : k <= l
      BY <2>5, <3>1
    <3> QED
      BY <1>3, <3>1, <3>2, LeastFacts
  <2> QED
    BY <2>1, <2>3, <2>4, <2>6
<1> QED
  BY <1>6, <1>7 DEF w, F, G

\* A chunk of n bytes and the m + 1 that follow it are one range.
Joins(va, s, n, m) ==
  Pairs(va + n, s + n, m + 1) \cup Pairs(va, s, n) = Pairs(va, s, m + n + 1)

\* They are.
LEMMA PairsJoin ==
  ASSUME NEW va \in Nat, NEW s \in Nat, NEW n \in Nat, NEW m \in Nat
  PROVE  Joins(va, s, n, m)
<1>1. ASSUME NEW x \in Pairs(va + n, s + n, m + 1) PROVE x \in Pairs(va, s, m + n + 1)
  <2>1. PICK j \in 0 .. m : x = <<(va + n) + j, (s + n) + j>>
    BY DEF Pairs
  <2>2. j + n \in 0 .. (m + n + 1) - 1 /\ (va + n) + j = va + (j + n) /\ (s + n) + j = s + (j + n)
    OBVIOUS
  <2> QED
    BY <2>1, <2>2 DEF Pairs
<1>2. ASSUME NEW x \in Pairs(va, s, n) PROVE x \in Pairs(va, s, m + n + 1)
  <2>1. \A j \in 0 .. n - 1 : j \in 0 .. (m + n + 1) - 1
    OBVIOUS
  <2> QED
    BY <2>1 DEF Pairs
<1>3. ASSUME NEW x \in Pairs(va, s, m + n + 1), x \notin Pairs(va, s, n)
      PROVE  x \in Pairs(va + n, s + n, m + 1)
  <2>1. PICK j \in 0 .. (m + n + 1) - 1 : x = <<va + j, s + j>>
    BY DEF Pairs
  <2>2. j \notin 0 .. n - 1
    BY <1>3, <2>1 DEF Pairs
  <2>3. j - n \in 0 .. (m + 1) - 1 /\ (va + n) + (j - n) = va + j /\ (s + n) + (j - n) = s + j
    BY <2>2
  <2> QED
    BY <2>1, <2>3 DEF Pairs
<1> QED
  BY <1>1, <1>2, <1>3 DEF Joins

\* The step of copyinstr() for a chunk: ends are the '\0's in it, rest is what comes after it.
ChunkStep(va, s, n, ends, rest) ==
  IF ends # {} THEN Result(TRUE, Pairs(va, s, Least(ends) + 1))
  ELSE Result(rest.ok, rest.bytes \cup Pairs(va, s, n))

\* That step, of any function that is to solve the equation.
LEMMA InstrAt ==
  ASSUME NEW t, NEW nul, NEW f, NEW va, NEW left, NEW s, left # 0, walkaddr(t, va),
         NEW n, n = Chunk(va, left), NEW ends, ends = {j \in 0 .. n - 1 : va + j \in nul},
         NEW rest, rest = f[<<NextPage(va), left - n, s + n>>]
  PROVE  InstrStep(t, nul, f, <<va, left, s>>) = ChunkStep(va, s, n, ends, rest)
<1> DEFINE c == <<va, left, s>>
<1>1. c[1] = va /\ c[2] = left /\ c[3] = s
  OBVIOUS
<1> HIDE DEF c
<1> QED
  BY <1>1 DEF InstrStep, ChunkStep, Least, c

\* The step of copyinstr() at an address that the user may use.
LEMMA InstrStepChunk ==
  ASSUME NEW t, InSpace(t), NEW nul, NEW va \in Nat, NEW left \in Nat \ {0}, NEW s \in Nat,
         va \in UserBytes(t)
  PROVE  InstrStep(t, nul, InstrForm(t, nul), <<va, left, s>>) = Instr(t, nul, va, left, s)
<1> DEFINE H == InstrForm(t, nul)
           w == NextPage(va)
<1>0. PICK n : n = Chunk(va, left)
  OBVIOUS
<1>1. PICK ends : ends = {j \in 0 .. n - 1 : va + j \in nul}
  OBVIOUS
<1>2. n \in 1 .. left /\ w \in Nat
  BY <1>0, ChunkFacts
<1>3. left - n \in Nat /\ s + n \in Nat
  BY <1>2
<1>4. PICK rest : rest = H[<<w, left - n, s + n>>]
  OBVIOUS
<1>5. rest = Instr(t, nul, w, left - n, s + n)
  <2>1. <<w, left - n, s + n>> \in Nat \X Nat \X Nat
    BY <1>2, <1>3
  <2> HIDE DEF w
  <2> QED
    BY <1>4, <2>1 DEF InstrForm
<1>6. InstrStep(t, nul, H, <<va, left, s>>) =
        IF ends # {} THEN Result(TRUE, Pairs(va, s, Least(ends) + 1))
        ELSE Result(rest.ok, rest.bytes \cup Pairs(va, s, n))
  <2>1. walkaddr(t, va)
    BY UserFacts
  <2> HIDE DEF H
  <2> QED
    BY <1>0, <1>1, <1>4, <2>1 DEF InstrStep, Least
<1>7. ends = {} => InstrStep(t, nul, H, <<va, left, s>>) = Result(rest.ok, rest.bytes \cup Pairs(va, s, n))
  <2> HIDE DEF H, w
  <2> QED
    BY <1>6
<1>8. CASE ends # {}
  <2>0. SameLeast(Found(t, nul, va, left), ends)
    BY <1>0, <1>1, <1>8, FoundInChunk
  <2>1. Found(t, nul, va, left) # {} /\ Least(Found(t, nul, va, left)) = Least(ends)
    BY <2>0 DEF SameLeast
  <2> QED
    BY <1>6, <1>8, <2>1 DEF Instr
<1>9. CASE ends = {}
  <2>0. \A j \in 0 .. n - 1 : va + j \notin nul
    BY <1>1, <1>9
  <2> HIDE DEF H, w
  <2>1. /\ Found(t, nul, va, left) = {} <=> Found(t, nul, w, left - n) = {}
        /\ Found(t, nul, va, left) # {} =>
              /\ w = va + n
              /\ Least(Found(t, nul, va, left)) = Least(Found(t, nul, w, left - n)) + n
              /\ Least(Found(t, nul, w, left - n)) \in Nat
    BY <1>0, <2>0, FoundInRest DEF w
  <2>2. CASE Found(t, nul, va, left) = {}
    <3>1. rest = Result(FALSE, Copied(t, w, left - n, s + n))
      BY <1>5, <2>1, <2>2 DEF Instr
    <3>2. RestDecides(t, va, left, s, n)
      BY <1>0, ReachFacts
    <3>3. Copied(t, va, left, s) = Copied(t, w, left - n, s + n) \cup Pairs(va, s, n)
      BY <3>2 DEF RestDecides, w
    <3>4. rest.ok = FALSE /\ rest.bytes = Copied(t, w, left - n, s + n)
      BY <3>1 DEF Result
    <3>5. Instr(t, nul, va, left, s) = Result(FALSE, Copied(t, va, left, s))
      BY <2>2 DEF Instr
    <3>6. Result(rest.ok, rest.bytes \cup Pairs(va, s, n)) = Result(FALSE, Copied(t, va, left, s))
      BY <3>3, <3>4
    <3> QED
      BY <1>9, <1>7, <3>5, <3>6 DEF H
  <2>3. CASE Found(t, nul, va, left) # {}
    <3>1. PICK m \in Nat : m = Least(Found(t, nul, w, left - n))
      BY <2>1, <2>3
    <3>2. rest = Result(TRUE, Pairs(va + n, s + n, m + 1))
      BY <1>5, <2>1, <2>3, <3>1 DEF Instr
    <3>3. Instr(t, nul, va, left, s) = Result(TRUE, Pairs(va, s, m + n + 1))
      BY <2>1, <2>3, <3>1 DEF Instr
    <3>4. rest.ok = TRUE /\ rest.bytes = Pairs(va + n, s + n, m + 1)
      BY <3>2 DEF Result
    <3>5. Pairs(va + n, s + n, m + 1) \cup Pairs(va, s, n) = Pairs(va, s, m + n + 1)
      <4>1. n \in Nat
        BY <1>2
      <4>2. Joins(va, s, n, m)
        BY <4>1, PairsJoin
      <4> QED
        BY <4>2 DEF Joins
    <3>6. Result(rest.ok, rest.bytes \cup Pairs(va, s, n)) = Result(TRUE, Pairs(va, s, m + n + 1))
      BY <3>4, <3>5
    <3> QED
      BY <1>9, <1>7, <3>3, <3>6 DEF H
  <2> QED
    BY <2>2, <2>3
<1> QED
  BY <1>8, <1>9

\* The step of copyinstr() anywhere.
LEMMA InstrStepForm ==
  ASSUME NEW t, InSpace(t), NEW nul, NEW va \in Nat, NEW left \in Nat, NEW s \in Nat
  PROVE  InstrStep(t, nul, InstrForm(t, nul), <<va, left, s>>) = Instr(t, nul, va, left, s)
<1>1. CASE left = 0 \/ va \notin UserBytes(t)
  <2>1. InstrStep(t, nul, InstrForm(t, nul), <<va, left, s>>) = Result(FALSE, {})
    BY <1>1, UserFacts DEF InstrStep
  <2>2. Copied(t, va, left, s) = {}
    BY <1>1, ReachNothing
  <2>3. Reach(t, va, left) = {}
    <3>1. ASSUME NEW j \in Reach(t, va, left) PROVE FALSE
      <4>1. <<va + j, s + j>> \in Copied(t, va, left, s)
        BY DEF Copied
      <4> QED
        BY <2>2, <4>1
    <3> QED
      BY <3>1
  <2>4. Found(t, nul, va, left) = {}
    BY <2>3 DEF Found
  <2> QED
    BY <2>1, <2>2, <2>4 DEF Instr
<1>2. CASE left # 0 /\ va \in UserBytes(t)
  BY <1>2, InstrStepChunk
<1> QED
  BY <1>1, <1>2

\* What satisfies the equation of copyinstr() is the closed form.
LEMMA InstrUnique ==
  ASSUME NEW t, InSpace(t), NEW nul, NEW g, g = [c \in Nat \X Nat \X Nat |-> InstrStep(t, nul, g, c)]
  PROVE  \A va \in Nat, left \in Nat, s \in Nat :
           g[<<va, left, s>>] = Instr(t, nul, va, left, s)
<1> DEFINE F == InstrForm(t, nul)
           P(l) == \A va \in Nat, s \in Nat : g[<<va, l, s>>] = Instr(t, nul, va, l, s)
           S == {l \in Nat : ~P(l)}
<1>1. SUFFICES ASSUME S # {} PROVE FALSE
  <2>1. ASSUME S = {}, NEW va \in Nat, NEW left \in Nat, NEW s \in Nat
        PROVE  g[<<va, left, s>>] = Instr(t, nul, va, left, s)
    <3>1. P(left)
      BY <2>1
    <3> QED
      BY <3>1
  <2> QED
    BY <2>1
<1>2. PICK l \in S : \A k \in S : l <= k
  BY <1>1, LeastNatural
<1>3. l \in Nat /\ ~P(l)
  BY <1>2
<1>4. PICK va \in Nat, s \in Nat : g[<<va, l, s>>] # Instr(t, nul, va, l, s)
  BY <1>3
<1>5. ASSUME NEW k \in Nat, k < l PROVE P(k)
  <2>1. k \notin S
    BY <1>2, <1>3, <1>5
  <2> HIDE DEF P
  <2> QED
    BY <2>1
<1> HIDE DEF P, S
<1>6. g[<<va, l, s>>] = InstrStep(t, nul, g, <<va, l, s>>)
  BY <1>3
<1>7. InstrStep(t, nul, g, <<va, l, s>>) = InstrStep(t, nul, F, <<va, l, s>>)
  <2>1. CASE l = 0 \/ ~walkaddr(t, va)
    BY <2>1 DEF InstrStep
  <2>2. CASE l # 0 /\ walkaddr(t, va)
    <3> DEFINE n == Chunk(va, l)
               w == NextPage(va)
    <3>1. n \in 1 .. l /\ w \in Nat
      BY <1>3, <2>2, ChunkFacts
    <3> HIDE DEF n, w
    <3>2. n \in 1 .. l /\ w \in Nat /\ l - n \in Nat /\ s + n \in Nat
      BY <1>3, <3>1
    <3>3. l - n < l
      BY <1>3, <3>2
    <3>4. g[<<w, l - n, s + n>>] = Instr(t, nul, w, l - n, s + n)
      BY <1>5, <3>2, <3>3 DEF P
    <3>5. F[<<w, l - n, s + n>>] = Instr(t, nul, w, l - n, s + n)
      BY <3>2 DEF InstrForm
    <3> HIDE DEF F
    <3>6. g[<<w, l - n, s + n>>] = F[<<w, l - n, s + n>>]
      BY <3>4, <3>5
    <3>7. PICK f : f = F
      OBVIOUS
    <3>8. PICK r : r = g[<<w, l - n, s + n>>] /\ r = f[<<w, l - n, s + n>>]
      BY <3>6, <3>7
    <3>9. PICK ends : ends = {j \in 0 .. n - 1 : va + j \in nul}
      OBVIOUS
    <3>10. l # 0 /\ walkaddr(t, va) /\ n = Chunk(va, l) /\ w = NextPage(va)
      BY <2>2 DEF n, w
    <3>11. /\ l # 0 /\ walkaddr(t, va) /\ n = Chunk(va, l)
           /\ r = g[<<NextPage(va), l - n, s + n>>]
           /\ r = f[<<NextPage(va), l - n, s + n>>]
      BY <3>8, <3>10
    <3>12. \A h : r = h[<<NextPage(va), l - n, s + n>>] =>
                   InstrStep(t, nul, h, <<va, l, s>>) = ChunkStep(va, s, n, ends, r)
      BY <3>9, <3>11, InstrAt
    <3>13. InstrStep(t, nul, g, <<va, l, s>>) = ChunkStep(va, s, n, ends, r)
      BY <3>11, <3>12
    <3>14. InstrStep(t, nul, f, <<va, l, s>>) = ChunkStep(va, s, n, ends, r)
      BY <3>11, <3>12
    <3> QED
      BY <3>7, <3>13, <3>14
  <2> QED
    BY <2>1, <2>2
<1>8. InstrStep(t, nul, F, <<va, l, s>>) = Instr(t, nul, va, l, s)
  BY <1>3, InstrStepForm
<1> QED
  BY <1>4, <1>6, <1>7, <1>8

\* copyinstr() copies up to the first '\0', and succeeds exactly if the user may touch what comes
\* before it (vm.c:396-434).
LEMMA CopyinstrCorrect ==
  ASSUME NEW t, InSpace(t), NEW nul, NEW va \in Nat, NEW n \in Nat
  PROVE  CopyinstrExact(t, nul, va, n)
<1> DEFINE E(g) == g = [c \in Nat \X Nat \X Nat |-> InstrStep(t, nul, g, c)]
           h == CHOOSE g : E(g)
           done == copyinstr(t, nul, va, n)
           F == Found(t, nul, va, n)
<1>1. E(InstrForm(t, nul))
  <2>1. ASSUME NEW c \in Nat \X Nat \X Nat
        PROVE  InstrForm(t, nul)[c] = InstrStep(t, nul, InstrForm(t, nul), c)
    <3>1. PICK a \in Nat, l \in Nat, s \in Nat : c = <<a, l, s>>
      OBVIOUS
    <3>2. InstrForm(t, nul)[c] = Instr(t, nul, a, l, s)
      BY <3>1 DEF InstrForm
    <3> QED
      BY <3>1, <3>2, InstrStepForm
  <2>2. InstrForm(t, nul) = [c \in Nat \X Nat \X Nat |-> InstrForm(t, nul)[c]]
    BY DEF InstrForm
  <2> QED
    BY <2>1, <2>2
<1>2. E(h)
  BY <1>1
<1>3. done = h[<<va, n, 0>>]
  BY DEF copyinstr, InstrStep
<1> HIDE DEF h
<1>4. done = Instr(t, nul, va, n, 0)
  BY <1>2, <1>3, InstrUnique
<1> HIDE DEF done
<1>5. F = {j \in 0 .. n - 1 : va + j \in nul /\ \A k \in 0 .. j : va + k \in UserBytes(t)}
  BY DEF Found, Reach
<1>6. F \in SUBSET Nat
  BY FoundNat
<1>7. (done.ok <=> F # {}) /\ (F # {} => done.bytes = Bytes(va, Least(F) + 1))
  BY <1>4 DEF Instr, Result, Bytes
<1>8. F # {} => Least(F) \in F /\ \A k \in F : Least(F) <= k
  BY <1>6, LeastFacts
<1> HIDE DEF F
<1>9. done.ok => \E e \in F : (\A k \in F : e <= k) /\ done.bytes = Bytes(va, e + 1)
  BY <1>7, <1>8
<1> QED
  BY <1>5, <1>7, <1>9 DEF CopyinstrExact, done

\* Pushing n bytes takes at least n.
LEMMA PushFacts ==
  ASSUME NEW sp \in Int, NEW n \in Nat
  PROVE  Push(sp, n) \in Int /\ Push(sp, n) <= sp - n
<1>1. Align \in Nat \ {0}
  BY UserMemAssumption
<1>2. PICK d \in Int : d = sp - n
  OBVIOUS
<1>3. d % Align \in Nat
  BY <1>1
<1> QED
  BY <1>2, <1>3 DEF Push

\* The stack pointers of exec(), one for each size.
PushStep(g, s, size, k) == IF k = 0 THEN s ELSE Push(g[k - 1], size[k])
Pushes(g, s, size, m)   == g = [k \in 0 .. m |-> PushStep(g, s, size, k)]

\* They exist: there is no first size that they fail for.
LEMMA PushesExist ==
  ASSUME NEW s \in Int, NEW size, NEW m \in Nat
  PROVE  \E g : Pushes(g, s, size, m)
<1> DEFINE P(l) == \E g : Pushes(g, s, size, l)
           S == {l \in Nat : ~P(l)}
<1>1. SUFFICES ASSUME S # {} PROVE FALSE
  OBVIOUS
<1>2. PICK l \in S : \A k \in S : l <= k
  BY <1>1, LeastNatural
<1>3. l \in Nat /\ ~P(l) /\ \A k \in Nat : k < l => P(k)
  BY <1>2
<1> HIDE DEF P, S
<1>4. CASE l = 0
  <2> DEFINE g == [k \in 0 .. 0 |-> s]
  <2>1. \A k \in 0 .. 0 : PushStep(g, s, size, k) = s
    BY DEF PushStep
  <2>2. g = [k \in 0 .. 0 |-> PushStep(g, s, size, k)]
    BY <2>1
  <2> HIDE DEF g
  <2> QED
    BY <1>3, <1>4, <2>2 DEF Pushes, P
<1>5. CASE l # 0
  <2>1. l - 1 \in Nat /\ l - 1 < l
    BY <1>3, <1>5
  <2>2. PICK g : Pushes(g, s, size, l - 1)
    BY <1>3, <2>1 DEF P
  <2> DEFINE h == [k \in 0 .. l |-> IF k = l THEN Push(g[l - 1], size[l]) ELSE g[k]]
  <2>3. \A k \in 0 .. l - 1 : g[k] = PushStep(g, s, size, k) /\ h[k] = g[k]
    BY <1>3, <2>1, <2>2 DEF Pushes
  <2>4. ASSUME NEW k \in 0 .. l PROVE h[k] = PushStep(h, s, size, k)
    <3>1. CASE k = l
      <4>1. h[k] = Push(g[l - 1], size[l]) /\ h[l - 1] = g[l - 1] /\ k # 0
        BY <1>3, <1>5, <2>1, <2>3, <3>1
      <4> HIDE DEF h
      <4> QED
        BY <3>1, <4>1 DEF PushStep
    <3>2. CASE k # l /\ k # 0
      <4>1. k \in 0 .. l - 1 /\ k - 1 \in 0 .. l - 1
        BY <1>3, <3>2
      <4>2. h[k] = g[k] /\ h[k - 1] = g[k - 1] /\ g[k] = PushStep(g, s, size, k)
        BY <2>3, <4>1
      <4> HIDE DEF h
      <4> QED
        BY <3>2, <4>2 DEF PushStep
    <3>3. CASE k # l /\ k = 0
      <4>1. k \in 0 .. l - 1
        BY <1>3, <3>3
      <4>2. h[k] = g[k] /\ g[k] = PushStep(g, s, size, k)
        BY <2>3, <4>1
      <4> HIDE DEF h
      <4> QED
        BY <3>3, <4>2 DEF PushStep
    <3> QED
      BY <3>1, <3>2, <3>3
  <2>5. h = [k \in 0 .. l |-> h[k]]
    OBVIOUS
  <2> HIDE DEF h
  <2>6. h = [k \in 0 .. l |-> PushStep(h, s, size, k)]
    BY <2>4, <2>5
  <2> QED
    BY <1>3, <2>6 DEF Pushes, P
<1> QED
  BY <1>4, <1>5

\* They go down.
LEMMA PushesDown ==
  ASSUME NEW s \in Int, NEW m \in Nat, NEW size, \A k \in 1 .. m : size[k] \in Nat,
         NEW g, Pushes(g, s, size, m)
  PROVE  /\ \A k \in 0 .. m : g[k] \in Int /\ g[k] <= s
         /\ \A k \in 1 .. m : g[k] + size[k] <= s
<1> DEFINE P(k) == g[k] \in Int /\ g[k] <= s
           S == {k \in 0 .. m : ~P(k)}
<1>1. \A k \in 0 .. m : g[k] = PushStep(g, s, size, k)
  BY DEF Pushes
<1>2. ASSUME NEW k \in 1 .. m, P(k - 1) PROVE P(k) /\ g[k] + size[k] <= s
  <2>1. g[k] = Push(g[k - 1], size[k]) /\ size[k] \in Nat
    BY <1>1 DEF PushStep
  <2>2. g[k] \in Int /\ g[k] <= g[k - 1] - size[k]
    BY <1>2, <2>1, PushFacts
  <2> QED
    BY <1>2, <2>1, <2>2
<1>3. P(0)
  BY <1>1 DEF PushStep
<1>4. S = {}
  <2>1. SUFFICES ASSUME S # {} PROVE FALSE
    OBVIOUS
  <2>2. S \in SUBSET Nat
    OBVIOUS
  <2>3. PICK l \in S : \A k \in S : l <= k
    BY <2>1, <2>2, LeastNatural
  <2>4. l \in 0 .. m /\ ~P(l) /\ \A k \in 0 .. m : k < l => P(k)
    BY <2>3
  <2> HIDE DEF P, S
  <2>5. l # 0
    BY <1>3, <2>4
  <2>6. l \in 1 .. m /\ l - 1 \in 0 .. m /\ l - 1 < l
    BY <2>4, <2>5
  <2> QED
    BY <1>2, <2>4, <2>6
<1>5. \A k \in 0 .. m : P(k)
  BY <1>4
<1>6. ASSUME NEW k \in 1 .. m PROVE k - 1 \in 0 .. m
  OBVIOUS
<1> HIDE DEF P, S
<1>7. \A k \in 1 .. m : g[k] + size[k] <= s
  BY <1>2, <1>5, <1>6
<1> QED
  BY <1>5, <1>7 DEF P

\* exec() writes its arguments to the page of the stack, and only where the user may; a stack
\* that ends below the fixed pages is not the USYSCALL page (exec.c:75-98).
LEMMA ArgsCorrect ==
  ASSUME NEW t, InSpace(t), NEW s \in Nat, PGSIZE <= s, Pages(s) < USYSCALL,
         NEW lens \in Seq(1 .. PGSIZE)
  PROVE  ArgsExact(t, s, lens)
<1> DEFINE size == Append(lens, (Len(lens) + 1) * PtrSize)
           m == Len(size)
           sp == CHOOSE g : Pushes(g, s, size, m)
           done(k) == copyout(t, sp[k], size[k])
           reached == {k \in 1 .. m : /\ \A j \in 1 .. k : sp[j] >= s - PGSIZE
                                      /\ \A j \in 1 .. k - 1 : done(j).ok}
           args == PushArgs(t, s, lens)
<1>1. m \in Nat /\ \A k \in 1 .. m : size[k] \in Nat
  <2>1. PtrSize \in Nat /\ PGSIZE \in Nat
    BY UserMemAssumption
  <2>2. Len(lens) \in Nat /\ (Len(lens) + 1) * PtrSize \in Nat /\ lens \in Seq(Nat)
    BY <2>1
  <2>3. size \in Seq(Nat)
    BY <2>2
  <2> QED
    BY <2>3
<1>2. args.addr = UNION {{b[1] : b \in done(k).bytes} : k \in reached}
  BY DEF PushArgs, Pushes, PushStep
<1>3. Pushes(sp, s, size, m)
  <2> HIDE DEF size, m
  <2>1. \E g : Pushes(g, s, size, m)
    <3>1. m \in Nat /\ s \in Int
      BY <1>1
    <3> QED
      BY <3>1, PushesExist, Zenon
  <2> QED
    BY <2>1, Zenon
<1> HIDE DEF size, m, sp, args
<1>4. /\ \A k \in 0 .. m : sp[k] \in Int /\ sp[k] <= s
      /\ \A k \in 1 .. m : sp[k] + size[k] <= s
  BY <1>1, <1>3, PushesDown
<1>5. ASSUME NEW va \in args.addr PROVE va \in s - PGSIZE .. s - 1 /\ va \in Writable(t)
  <2>1. PICK k \in reached : va \in {b[1] : b \in done(k).bytes}
    BY <1>2
  <2>2. PICK b \in copyout(t, sp[k], size[k]).bytes : va = b[1]
    BY <2>1
  <2>3. k \in 1 .. m /\ sp[k] >= s - PGSIZE
    <3>1. k \in 1 .. m /\ k \in 1 .. k
      BY <1>1
    <3> QED
      BY <3>1
  <2>4. PGSIZE \in Nat /\ sp[k] \in Nat /\ size[k] \in Nat /\ sp[k] + size[k] <= s
    <3>1. k \in 0 .. m
      BY <1>1, <2>3
    <3>2. PGSIZE \in Nat
      BY UserMemAssumption
    <3>3. sp[k] \in Int /\ size[k] \in Nat /\ sp[k] + size[k] <= s
      BY <1>1, <1>4, <2>3, <3>1
    <3> QED
      BY <2>3, <3>2, <3>3
  <2>5. copyout(t, sp[k], size[k]) = Result(AllUser(t, sp[k], size[k]), Copied(t, sp[k], size[k], 0))
    BY <2>4, CopyoutFacts
  <2>6. b \in Copied(t, sp[k], size[k], 0)
    BY <2>2, <2>5 DEF Result
  <2>7. PICK j \in Reach(t, sp[k], size[k]) : b = <<sp[k] + j, 0 + j>>
    BY <2>6 DEF Copied
  <2>8. va = sp[k] + j /\ j \in 0 .. size[k] - 1 /\ j \in 0 .. j /\ sp[k] + j \in UserBytes(t)
    BY <2>2, <2>7 DEF Reach
  <2>9. PICK x \in Int, y \in Nat : x = sp[k] /\ y = size[k]
    BY <2>4
  <2>10. va = x + j /\ j \in 0 .. y - 1 /\ x >= s - PGSIZE /\ x + y <= s
    BY <2>3, <2>4, <2>8, <2>9
  <2>11. PGSIZE \in Nat /\ j \in Nat /\ j < y
    BY <2>10, UserMemAssumption
  <2>12. va \in Int /\ s - PGSIZE <= va /\ va <= s - 1
    BY <2>10, <2>11
  <2>13. va \in s - PGSIZE .. s - 1
    BY <2>11, <2>12
  <2>14. va \in Nat /\ va < s
    BY <2>11, <2>12
  <2>15. PageOf(va) # USYSCALL
    <3>1. PGSIZE \in Nat \ {0}
      BY UserMemAssumption
    <3>2. PageOf(va) \in Nat /\ PGSIZE * PageOf(va) <= va
      BY <2>14, <3>1, Divides DEF PageOf
    <3>3. PageOf(va) * PGSIZE < s
      BY <2>14, <3>1, <3>2
    <3>4. PageOf(va) < Pages(s) /\ Pages(s) \in Nat
      BY <3>2, <3>3, PagesBound
    <3> QED
      BY <3>2, <3>4, FixedPath
  <2> QED
    BY <2>8, <2>13, <2>15 DEF Writable
<1> QED
  BY <1>5 DEF ArgsExact, args

-----------------------------------------------------------------------------
(* Through the tables that come to be.                                     *)

\* The stack that exec() pushes its arguments on is two pages above address 0 or more.
StackInv == \A p \in Proc : pc[p] = "args" => newsz[p] \in Nat /\ PGSIZE <= newsz[p]

\* It is there when exec() is done with growing the image, and stays.
LEMMA StackStep == MemInv /\ StackInv /\ [Next]_vars => StackInv'
<1> SUFFICES ASSUME MemInv, StackInv, [Next]_vars PROVE StackInv'
  OBVIOUS
<1> DEFINE Stays(q) == pc'[q] = "args" => pc[q] = "args" /\ newsz'[q] = newsz[q]
<1> USE DEF StackInv
<1>1. MemType
  BY DEF MemInv, Good
<1>2. ASSUME \A q \in Proc : Stays(q) PROVE StackInv'
  BY <1>2
<1>3. ASSUME NEW p \in Proc, Call(p) PROVE \A q \in Proc : Stays(q)
  BY <1>1, <1>3 DEF Call, SbrkGrow, SbrkShrink, Fork, Exec, Exit, Uvmalloc, Enter, proc, locals, MemType
<1>4. ASSUME NEW p \in Proc, freeproc(p) PROVE \A q \in Proc : Stays(q)
  BY <1>1, <1>4 DEF freeproc, proc, locals
<1>5. ASSUME NEW p \in Proc, UvmallocPage(p) \/ UvmallocFails(p) \/ SbrkGrown(p) \/ ForkDone(p)
      PROVE  \A q \in Proc : Stays(q)
  BY <1>1, <1>5 DEF UvmallocPage, UvmallocFails, SbrkGrown, ForkDone, Leave, Enter, proc, locals, MemType
<1>6. ASSUME NEW p \in Proc, Uvmcreate(p) \/ MapFixed(p) \/ MapUsyscall(p) \/ UsyscallNoMem(p)
      PROVE  \A q \in Proc : Stays(q)
  BY <1>1, <1>6 DEF Uvmcreate, MapFixed, MapUsyscall, UsyscallNoMem, ReturnsZero, Leave, Enter, proc,
     locals, MemType
<1>7. ASSUME NEW p \in Proc, CopyPage(p) \/ CopyFails(p) PROVE \A q \in Proc : Stays(q)
  BY <1>1, <1>7 DEF CopyPage, CopyFails, ReturnsZero, Leave, Enter, proc, locals, MemType
<1>8. ASSUME NEW p \in Proc, NEW s \in SegEnds, ExecSegment(p, s) PROVE \A q \in Proc : Stays(q)
  BY <1>1, <1>8 DEF ExecSegment, Uvmalloc, Enter, proc, locals, MemType
<1>9. ASSUME NEW p \in Proc, ExecSegmentDone(p) \/ ExecStack(p) PROVE \A q \in Proc : Stays(q)
  BY <1>1, <1>9 DEF ExecSegmentDone, ExecStack, Uvmalloc, Enter, proc, locals, MemType
<1>10. ASSUME NEW p \in Proc, ExecBad(p) \/ ExecCommit(p) PROVE \A q \in Proc : Stays(q)
  BY <1>1, <1>10 DEF ExecBad, ExecCommit, Leave, Enter, proc, locals, MemType
<1>11. ASSUME NEW p \in Proc, ExecStackDone(p) PROVE StackInv'
  <2>1. newsz'[p] = goal[p] /\ goal[p] = (base[p] + 2) * PGSIZE /\ base[p] \in Nat /\ goal[p] \in Nat
    BY <1>1, <1>11 DEF ExecStackDone, MemType, MemInv, Good, TableInv, WorkInv
  <2>2. \A q \in Proc \ {p} : Stays(q)
    BY <1>1, <1>11 DEF ExecStackDone, Enter, MemType
  <2>3. PGSIZE <= goal[p]
    <3>1. PGSIZE \in Nat
      BY UserMemAssumption
    <3>2. (base[p] + 2) * PGSIZE = base[p] * PGSIZE + 2 * PGSIZE /\ base[p] * PGSIZE \in Nat
      BY <2>1, <3>1
    <3> QED
      BY <2>1, <3>1, <3>2
  <2> QED
    BY <2>1, <2>2, <2>3
<1>12. CASE UNCHANGED vars
  BY <1>12 DEF vars, proc, locals
<1> HIDE DEF StackInv
<1>13. ASSUME NEW p \in Proc, KernelStep(p), ~ExecStackDone(p) PROVE \A q \in Proc : Stays(q)
  <2> HIDE DEF Stays
  <2> QED
    BY <1>5, <1>6, <1>7, <1>8, <1>9, <1>10, <1>13 DEF KernelStep
<1> QED
  BY <1>2, <1>3, <1>4, <1>11, <1>12, <1>13 DEF Next

\* So it always is.
LEMMA StackCorrect == Spec => []StackInv
<1>1. Init => StackInv
  BY DEF Init, StackInv
<1>2. MemInv /\ StackInv /\ [Next]_vars => StackInv'
  BY StackStep
<1> QED
  BY <1>1, <1>2, MemCorrect, PTL DEF Spec

\* A page table maps pages of the address space.
LEMMA TableMaps ==
  ASSUME NEW t \in Table
  PROVE  InSpace(t) /\ \A S : t.leaf \cap S \in SUBSET Nat
<1>1. t.leaf \subseteq Vpn
  BY DEF Table
<1>2. Vpn \subseteq Nat
  <2>1. Fan * Fan * Fan \in Int
    BY UserMemAssumption
  <2> QED
    BY <2>1 DEF Vpn
<1> QED
  BY <1>1, <1>2 DEF InSpace

\* The images of the user programs are page tables.
LEMMA ImagesAreTables ==
  ASSUME MemInv
  PROVE  Images \subseteq Table
BY DEF Images, MemInv, Good, TableInv, ImageInv, Image

\* With every table there comes to be, the kernel copies exactly the bytes asked for, and
\* succeeds exactly if they are all mapped for the user (PTE_U; copyout() does not ask for PTE_W,
\* so it writes the page for USYSCALL too, which is mapped read-only); exec() writes its arguments
\* to the stack page and nowhere else, and that page the user may write (vm.c:346-434;
\* exec.c:75-98).
THEOREM CopiesExactCorrect == Spec => []CopiesExact
<1>1. MemInv /\ StackInv => CopiesExact
  <2> SUFFICES ASSUME MemInv, StackInv PROVE CopiesExact
    OBVIOUS
  <2>1. ASSUME NEW t \in Images, NEW r \in Ranges
        PROVE  /\ CopyoutExact(t, r[1], r[2])
               /\ \A nul \in {r[1] + r[2] - 1, r[1] + r[2]} : CopyinstrExact(t, {nul}, r[1], r[2])
    <3>1. InSpace(t) /\ r[1] \in Nat /\ r[2] \in Nat
      BY ImagesAreTables, TableMaps, InputsAssumption
    <3>2. CopyoutExact(t, r[1], r[2])
      BY <3>1, CopyoutCorrect
    <3>3. \A nul : CopyinstrExact(t, {nul}, r[1], r[2])
      BY <3>1, CopyinstrCorrect
    <3> QED
      BY <3>2, <3>3
  <2>2. ASSUME NEW p \in Proc, NEW lens \in ArgSizes, pc[p] = "args"
        PROVE  ArgsExact(Work(p), newsz[p], lens)
    <3>1. Work(p) \in Table /\ Maps(Work(p), Pages(newsz[p]))
      BY <2>2 DEF MemInv, Good, TableInv, WorkInv, Maps
    <3>2. InSpace(Work(p)) /\ newsz[p] \in Nat /\ PGSIZE <= newsz[p] /\ lens \in Seq(1 .. PGSIZE)
      BY <2>2, <3>1, TableMaps, VmAssumption DEF StackInv
    <3>3. Pages(newsz[p]) < USYSCALL
      <4>1. ref[p] \in Ref /\ Work(p) = table[ref[p]] /\ TableType /\ CountInv
        BY DEF MemInv, Good, MemType, TableType, Work
      <4>2. Pages(newsz[p]) \in Nat
        BY <3>2, PagesBound
      <4> QED
        BY <3>1, <4>1, <4>2, Room
    <3> QED
      BY <3>2, <3>3, ArgsCorrect
  <2> QED
    BY <2>1, <2>2 DEF CopiesExact
<1> QED
  BY <1>1, MemCorrect, StackCorrect, PTL

\* Whatever program calls sys_pgaccess() and whatever was accessed: it is a panic exactly for a
\* negative number of pages and for pages beyond MAXVA, and otherwise it clears the bits of the
\* pages it looks at and reports these accesses, unless it fails (sysproc.c:93-121).
THEOREM PgaccessExactCorrect == Spec => []PgaccessExact
<1>1. MemInv => PgaccessExact
  <2> SUFFICES ASSUME MemInv, NEW t \in Images, NEW S \in Accessed, NEW r \in Ranges, NEW num \in Nums
               PROVE  PgaccessReports(t, t.leaf \cap S, PageOf(r[1]), num, r[1])
    BY DEF PgaccessExact
  <2>1. InSpace(t) /\ t.leaf \cap S \in SUBSET Nat /\ r[1] \in Nat /\ num \in Int
    BY ImagesAreTables, TableMaps, InputsAssumption
  <2>2. PageOf(r[1]) \in Nat
    <3>1. PGSIZE \in Nat \ {0}
      BY UserMemAssumption
    <3> QED
      BY <2>1, <3>1, Divides DEF PageOf
  <2> QED
    BY <2>1, <2>2, PgaccessCorrect
<1> QED
  BY <1>1, MemCorrect, PTL
=============================================================================
