--------------------------------- MODULE Vm ---------------------------------
(***************************************************************************)
(* The memory of processes (Lab_page_tables/proc.c, vm.c, exec.c): page    *)
(* tables built and taken apart by fork, exec, sbrk, exit and wait, over   *)
(* an allocator that may run dry at every call.                            *)
(*                                                                         *)
(* A page table is the set of its page-table pages (dir), the set of the   *)
(* virtual pages it maps (leaf), and which of the user's pages are without *)
(* PTE_U (guard).  Physical pages have no names: each                      *)
(* page-table page, each mapped user page, the USYSCALL page and the       *)
(* trapframe is one page taken from the free ones.                         *)
(*                                                                         *)
(* GRAIN.  kalloc() and kfree() are atomic (module Kalloc).  A page table  *)
(* is private to one thread, so a step may do everything up to the next    *)
(* point where a call of kalloc() depends on what other threads hold.      *)
(***************************************************************************)
EXTENDS UserMem, FiniteSets

CONSTANTS
  Proc,       \* slots of the process table
  initproc,   \* the first process, which never exits
  Null,       \* no page table
  NPages,     \* pages of physical memory beside the kernel
  UintMod,    \* 2^32, the modulus of growproc()'s uint sz
  MaxSz,      \* BOUND: user programs do not grow beyond it
  SbrkArgs,   \* the arguments of sbrk()
  SegEnds,    \* ph.vaddr + ph.memsz of the segments of programs
  ArgSizes,   \* the sizes of the arguments of exec()
  Ranges,     \* addresses and lengths that user programs give the kernel
  Accessed,   \* pages that user programs may have accessed
  Nums        \* numbers of pages asked for in pgaccess

Fixed == {TRAMPOLINE, TRAPFRAME, USYSCALL}

\* The three fixed pages share a last-level page, and memory runs out before user
\* memory reaches them.
ASSUME VmAssumption ==
  /\ initproc \in Proc
  /\ NPages \in 8 .. Fan * Fan * Fan - 3
  /\ MaxSz \in Nat
  /\ SbrkArgs \subseteq Int
  /\ SegEnds \subseteq Nat
  /\ \A lens \in ArgSizes : lens \in Seq(1 .. PGSIZE)
  /\ UintMod \in Nat /\ MaxSz < UintMod

Root    == <<2, 0>>
Path(v) == {<<1, v \div (Fan * Fan)>>, <<0, v \div Fan>>}   \* below the root, to v's entry
Node    == {Root} \cup UNION {Path(v) : v \in Vpn}
Table   == [dir : SUBSET Node, leaf : SUBSET Vpn, guard : SUBSET Vpn]

ASSUME NullAssumption == Null \notin Table

\* Addresses and lengths are uint64s; pgaccess() takes an int.
ASSUME InputsAssumption == Ranges \subseteq Nat \X Nat /\ Nums \subseteq Int

\* The page tables there may be: p->pagetable, and the one exec() is building.
Ref == Proc \X {"image", "exec"}

VARIABLES
  free,             \* how many pages the allocator has
  state, trapframe, table, sz,   \* the processes; trapframe: there is one
  pc, ref,          \* where each process is in the kernel; the table it works on
  base, i, goal,    \* uvmalloc(), uvmcopy(): first page, next page, size asked for
  newsz             \* exec()'s sz

proc   == <<state, trapframe, sz>>
locals == <<ref, base, i, goal, newsz>>
vars   == <<free, proc, table, pc, locals>>

GrowLabel == {"sbrk", "segpages", "stackpages"}   \* inside uvmalloc()
ExecLabel == {"segpages", "stackpages", "segment", "args", "bad"}
Label     == {"idle", "create", "fixed", "usyscall", "copy", "panic"} \cup GrowLabel \cup ExecLabel

TypeOK ==
  /\ free \in 0 .. NPages
  /\ state \in [Proc -> {"UNUSED", "USED", "live", "ZOMBIE"}]
  /\ trapframe \in [Proc -> BOOLEAN]
  /\ table \in [Ref -> Table \cup {Null}]
  /\ sz \in [Proc -> Nat]
  /\ pc \in [Proc -> Label]
  /\ ref \in [Proc -> Ref]
  /\ base \in [Proc -> Nat] /\ i \in [Proc -> Nat]
  /\ goal \in [Proc -> Nat] /\ newsz \in [Proc -> Nat]

\* userinit(): one process with one page.
Init ==
  LET initTable == [dir |-> {Root} \cup Path(0) \cup Path(TRAMPOLINE), leaf |-> {0} \cup Fixed,
                    guard |-> {}] IN
  /\ free = NPages - 8
  /\ state = [p \in Proc |-> IF p = initproc THEN "live" ELSE "UNUSED"]
  /\ trapframe = [p \in Proc |-> p = initproc]
  /\ table = [r \in Ref |-> IF r = <<initproc, "image">> THEN initTable ELSE Null]
  /\ sz = [p \in Proc |-> IF p = initproc THEN PGSIZE ELSE 0]
  /\ pc = [p \in Proc |-> "idle"]
  /\ ref = [p \in Proc |-> <<p, "image">>]
  /\ base = [p \in Proc |-> 0] /\ i = [p \in Proc |-> 0]
  /\ goal = [p \in Proc |-> 0] /\ newsz = [p \in Proc |-> 0]

-----------------------------------------------------------------------------
(* vm.c                                                                    *)

\* The page-table pages walk() has to allocate on the way to v.
Missing(t, v) == Path(v) \ t.dir

\* kalloc() of a page to map at v, and mappages(), succeed.
CanMap(t, v) == 1 + Cardinality(Missing(t, v)) <= free

\* What walk() has added when the allocator runs dry: the upper level, if that was
\* missing and there was still a page for it beside the one to be mapped.
WalkedTo(t, v) ==
  IF free >= 2 THEN {n \in Missing(t, v) : n[1] = 1} ELSE {}

Mapped(t, v) == [t EXCEPT !.dir = @ \cup Path(v), !.leaf = @ \cup {v}]

\* Pages freed by proc_freepagetable(t, s): user pages, USYSCALL, page-table pages.
\* The uvmunmap()s and the freewalk() in it panic unless the table maps just these.
FreedBy(t, s) == Pages(s) + 1 + Cardinality(t.dir)
CanFree(t, s) == t.leaf = Fixed \cup 0 .. Pages(s) - 1

Work(p) == table[ref[p]]      \* the page table p works on
Enter(p, l) == pc' = [pc EXCEPT ![p] = l]

\* Back to user mode, whatever was the result; the locals are dead.
Leave(p) ==
  /\ Enter(p, "idle")
  /\ ref' = [ref EXCEPT ![p] = <<p, "image">>]
  /\ base' = [base EXCEPT ![p] = 0]
  /\ i' = [i EXCEPT ![p] = 0]
  /\ goal' = [goal EXCEPT ![p] = 0]
  /\ newsz' = [newsz EXCEPT ![p] = 0]

\* uvmalloc() of table r from size old to size s begins.
Uvmalloc(p, l, old, s) ==
  /\ Enter(p, l)
  /\ base' = [base EXCEPT ![p] = Pages(old)]
  /\ i' = [i EXCEPT ![p] = Pages(old)]
  /\ goal' = [goal EXCEPT ![p] = s]

UvmallocPage(p) ==
  /\ pc[p] \in GrowLabel
  /\ i[p] * PGSIZE < goal[p]
  /\ CanMap(Work(p), i[p])
  /\ free' = free - 1 - Cardinality(Missing(Work(p), i[p]))
  /\ table' = [table EXCEPT ![ref[p]] = Mapped(@, i[p])]
  /\ i' = [i EXCEPT ![p] = @ + 1]
  /\ UNCHANGED <<proc, pc, ref, base, goal, newsz>>

\* Out of memory: unmap and free what was mapped since base.  sbrk() returns -1,
\* exec() gives up the new image.
UvmallocFailsKeeps(p) ==
  LET t == Work(p)  got == WalkedTo(t, i[p]) IN
  /\ pc[p] \in GrowLabel
  /\ i[p] * PGSIZE < goal[p]
  /\ ~CanMap(t, i[p])
  /\ free' = free - Cardinality(got)
  /\ table' = [table EXCEPT ![ref[p]].dir = @ \cup got]
  /\ IF pc[p] = "sbrk" THEN Leave(p) ELSE Enter(p, "bad") /\ UNCHANGED locals
  /\ UNCHANGED proc

UvmallocFails(p) ==
  LET t == Work(p)  got == WalkedTo(t, i[p])  new == base[p] .. i[p] - 1 IN
  /\ pc[p] \in GrowLabel
  /\ i[p] * PGSIZE < goal[p]
  /\ ~CanMap(t, i[p])
  /\ free' = free - Cardinality(got) + Cardinality(new)
  /\ table' = [table EXCEPT ![ref[p]].dir = @ \cup got, ![ref[p]].leaf = @ \ new]
  /\ IF pc[p] = "sbrk" THEN Leave(p) ELSE Enter(p, "bad") /\ UNCHANGED locals
  /\ UNCHANGED proc

-----------------------------------------------------------------------------
(* growproc()                                                              *)

SbrkGrow(p, n) ==
  /\ pc[p] = "idle" /\ state[p] = "live"
  /\ n > 0
  /\ sz[p] + n <= MaxSz
  /\ Uvmalloc(p, "sbrk", sz[p], (sz[p] + n) % UintMod)
  /\ UNCHANGED <<free, proc, table, ref, newsz>>

SbrkGrown(p) ==
  /\ pc[p] = "sbrk"
  /\ i[p] * PGSIZE >= goal[p]
  /\ sz' = [sz EXCEPT ![p] = goal[p]]
  /\ Leave(p)
  /\ UNCHANGED <<free, state, trapframe, table>>

\* A negative n larger than sz wraps around, and then uvmdealloc() does nothing.
SbrkShrink(p, n) ==
  LET s == (sz[p] + n) % UintMod
      gone == Pages(s) .. Pages(sz[p]) - 1 IN
  /\ pc[p] = "idle" /\ state[p] = "live"
  /\ n < 0
  /\ s < sz[p]
  /\ table' = [table EXCEPT ![<<p, "image">>].leaf = @ \ gone,
                                ![<<p, "image">>].guard = @ \ gone]
  /\ free' = free + Cardinality(gone)
  /\ sz' = [sz EXCEPT ![p] = s]
  /\ UNCHANGED <<state, trapframe, pc, locals>>

-----------------------------------------------------------------------------
(* allocproc() and proc_pagetable()                                        *)

\* fork() takes a free slot and a trapframe; without one it returns -1 and nothing
\* has changed.
Fork(p, np) ==
  /\ pc[p] = "idle" /\ state[p] = "live"
  /\ state[np] = "UNUSED"
  /\ free > 0
  /\ free' = free - 1
  /\ state' = [state EXCEPT ![np] = "USED"]
  /\ trapframe' = [trapframe EXCEPT ![np] = TRUE]
  /\ Enter(p, "create")
  /\ ref' = [ref EXCEPT ![p] = <<np, "image">>]
  /\ UNCHANGED <<sz, table, base, i, goal, newsz>>

Forking(p) == ref[p][2] = "image"
Child(p)   == ref[p][1]

\* proc_pagetable() returns 0 with n pages given back: fork() frees the child's slot
\* and its trapframe, exec() has nothing to free.
ReturnsZeroLeaks(p, n) ==
  /\ table' = [table EXCEPT ![ref[p]] = Null]
  /\ free' = free + n
  /\ IF Forking(p)
     THEN state' = [state EXCEPT ![Child(p)] = "UNUSED"]
     ELSE UNCHANGED state
  /\ Leave(p)
  /\ UNCHANGED <<sz, trapframe>>

ReturnsZero(p, n) ==
  /\ table' = [table EXCEPT ![ref[p]] = Null]
  /\ IF Forking(p)
     THEN /\ free' = free + n + 1
          /\ state' = [state EXCEPT ![Child(p)] = "UNUSED"]
          /\ trapframe' = [trapframe EXCEPT ![Child(p)] = FALSE]
     ELSE free' = free + n /\ UNCHANGED <<state, trapframe>>
  /\ Leave(p)
  /\ UNCHANGED sz

Uvmcreate(p) ==
  /\ pc[p] = "create"
  /\ \/ free = 0 /\ ReturnsZero(p, 0)
     \/ /\ free > 0
        /\ free' = free - 1
        /\ table' = [table EXCEPT ![ref[p]] = [dir |-> {Root}, leaf |-> {}, guard |-> {}]]
        /\ Enter(p, "fixed")
        /\ UNCHANGED <<proc, locals>>

\* The trampoline page needs two page-table pages, the trapframe then none; neither is
\* a page of the table's own.  On failure uvmfree() frees the root and what walk() got.
MapFixed(p) ==
  LET need == Cardinality(Missing(Work(p), TRAMPOLINE)) IN
  /\ pc[p] = "fixed"
  /\ \/ free < need /\ ReturnsZero(p, 1)
     \/ /\ free >= need
        /\ free' = free - need
        /\ table' = [table EXCEPT ![ref[p]] = Mapped(Mapped(@, TRAMPOLINE), TRAPFRAME)]
        /\ Enter(p, "usyscall")
        /\ UNCHANGED <<proc, locals>>

MapUsyscall(p) ==
  /\ pc[p] = "usyscall"
  /\ free > 0
  /\ free' = free - 1
  /\ table' = [table EXCEPT ![ref[p]] = Mapped(@, USYSCALL)]
  /\ Enter(p, IF Forking(p) THEN "copy" ELSE "segment")
  /\ UNCHANGED <<proc, locals>>

\* No page for USYSCALL: the table is freed, but proc_pagetable() goes on and clears
\* the page at address 0, which the kernel has not mapped: a panic in kerneltrap().
UsyscallNoMem(p) ==
  /\ pc[p] = "usyscall"
  /\ free = 0
  /\ free' = free + Cardinality(Work(p).dir)
  /\ table' = [table EXCEPT ![ref[p]] = Null]
  /\ Enter(p, "panic")
  /\ UNCHANGED <<proc, locals>>

-----------------------------------------------------------------------------
(* uvmcopy() and the rest of fork()                                        *)

\* A page is copied with its flags.
CopyPage(p) ==
  LET t == Mapped(Work(p), i[p])  guard == table[<<p, "image">>].guard \cap {i[p]} IN
  /\ pc[p] = "copy"
  /\ i[p] * PGSIZE < sz[p]
  /\ CanMap(Work(p), i[p])
  /\ free' = free - 1 - Cardinality(Missing(Work(p), i[p]))
  /\ table' = [table EXCEPT ![ref[p]] = [t EXCEPT !.guard = @ \cup guard]]
  /\ i' = [i EXCEPT ![p] = @ + 1]
  /\ UNCHANGED <<proc, pc, ref, base, goal, newsz>>

\* Out of memory: unmap the pages copied, then freeproc() with sz 0.
CopyFailsEarly(p) ==
  /\ pc[p] = "copy"
  /\ i[p] * PGSIZE < sz[p]
  /\ ~CanMap(Work(p), i[p])
  /\ ReturnsZero(p, FreedBy(Work(p), 0))

CopyFails(p) ==
  /\ pc[p] = "copy"
  /\ i[p] * PGSIZE < sz[p]
  /\ ~CanMap(Work(p), i[p])
  /\ ReturnsZero(p, i[p] + FreedBy(Work(p), 0))

ForkDone(p) ==
  /\ pc[p] = "copy"
  /\ i[p] * PGSIZE >= sz[p]
  /\ sz' = [sz EXCEPT ![Child(p)] = sz[p]]
  /\ state' = [state EXCEPT ![Child(p)] = "live"]
  /\ Leave(p)
  /\ UNCHANGED <<free, trapframe, table>>

-----------------------------------------------------------------------------
(* exec()                                                                  *)

Exec(p) ==
  /\ pc[p] = "idle" /\ state[p] = "live"
  /\ Enter(p, "create")
  /\ ref' = [ref EXCEPT ![p] = <<p, "exec">>]
  /\ UNCHANGED <<free, proc, table, base, i, goal, newsz>>

\* A segment that ends at s is given memory.  One that ends before newsz needs none.
ExecSegment(p, s) ==
  /\ pc[p] = "segment"
  /\ s >= newsz[p] /\ s > 0
  /\ Uvmalloc(p, "segpages", newsz[p], s)
  /\ UNCHANGED <<free, proc, table, ref, newsz>>

ExecSegmentDone(p) ==
  /\ pc[p] = "segpages"
  /\ i[p] * PGSIZE >= goal[p]
  /\ newsz' = [newsz EXCEPT ![p] = goal[p]]
  /\ Enter(p, "segment")
  /\ UNCHANGED <<free, proc, table, ref, base, i, goal>>

\* Two pages for the user stack, from the next page boundary.
ExecStack(p) ==
  LET s == Pages(newsz[p]) * PGSIZE IN
  /\ pc[p] = "segment"
  /\ newsz' = [newsz EXCEPT ![p] = s]
  /\ Uvmalloc(p, "stackpages", s, s + 2 * PGSIZE)
  /\ UNCHANGED <<free, proc, table, ref>>

\* uvmclear() makes the lower one the guard page.
ExecStackDone(p) ==
  /\ pc[p] = "stackpages"
  /\ i[p] * PGSIZE >= goal[p]
  /\ newsz' = [newsz EXCEPT ![p] = goal[p]]
  /\ table' = [table EXCEPT ![ref[p]].guard = {PageOf(goal[p]) - 2}]
  /\ Enter(p, "args")
  /\ UNCHANGED <<free, proc, ref, base, i, goal>>

ArgsFit(p, lens) == PushArgs(Work(p), newsz[p], lens).ok

\* bad: no memory, an unreadable or malformed file, arguments too long for the stack.
ExecBad(p) ==
  /\ \/ pc[p] \in {"segment", "bad"}
     \/ pc[p] = "args" /\ \E lens \in ArgSizes : ~ArgsFit(p, lens)
  /\ free' = free + FreedBy(Work(p), newsz[p])
  /\ table' = [table EXCEPT ![ref[p]] = Null]
  /\ Leave(p)
  /\ UNCHANGED proc

\* The new image replaces the old one, which is freed with the old size.
ExecCommit(p) ==
  /\ pc[p] = "args"
  /\ \E lens \in ArgSizes : ArgsFit(p, lens)
  /\ free' = free + FreedBy(table[<<p, "image">>], sz[p])
  /\ table' = [table EXCEPT ![<<p, "image">>] = Work(p), ![<<p, "exec">>] = Null]
  /\ sz' = [sz EXCEPT ![p] = newsz[p]]
  /\ Leave(p)
  /\ UNCHANGED <<state, trapframe>>

-----------------------------------------------------------------------------
(* exit(), and freeproc() in the parent's wait()                           *)

Exit(p) ==
  /\ p # initproc
  /\ pc[p] = "idle" /\ state[p] = "live"
  /\ state' = [state EXCEPT ![p] = "ZOMBIE"]
  /\ UNCHANGED <<free, trapframe, sz, table, pc, locals>>

freeproc(q) ==
  /\ state[q] = "ZOMBIE"
  /\ free' = free + 1 + FreedBy(table[<<q, "image">>], sz[q])
  /\ state' = [state EXCEPT ![q] = "UNUSED"]
  /\ trapframe' = [trapframe EXCEPT ![q] = FALSE]
  /\ table' = [table EXCEPT ![<<q, "image">>] = Null]
  /\ sz' = [sz EXCEPT ![q] = 0]
  /\ UNCHANGED <<pc, locals>>

-----------------------------------------------------------------------------
Call(p) ==
  \/ \E n \in SbrkArgs : SbrkGrow(p, n) \/ SbrkShrink(p, n)
  \/ \E np \in Proc : Fork(p, np)
  \/ Exec(p)
  \/ Exit(p)

KernelStep(p) ==
  \/ UvmallocPage(p)
  \/ UvmallocFails(p)
  \/ SbrkGrown(p)
  \/ Uvmcreate(p)
  \/ MapFixed(p)
  \/ MapUsyscall(p)
  \/ UsyscallNoMem(p)
  \/ CopyPage(p)
  \/ CopyFails(p)
  \/ ForkDone(p)
  \/ \E s \in SegEnds : ExecSegment(p, s)
  \/ ExecSegmentDone(p)
  \/ ExecStack(p)
  \/ ExecStackDone(p)
  \/ ExecBad(p)
  \/ ExecCommit(p)

Next == \E p \in Proc : Call(p) \/ KernelStep(p) \/ freeproc(p)

Spec == Init /\ [][Next]_vars

-----------------------------------------------------------------------------
\* Pages that table t accounts for: its page-table pages, and what it maps but for the
\* trampoline, which is kernel code, and the trapframe, which the process accounts for.
PagesOf(t) ==
  IF t = Null THEN {}
  ELSE ({"dir"} \X t.dir) \cup ({"leaf"} \X (t.leaf \ {TRAMPOLINE, TRAPFRAME}))

\* The physical pages that process p holds, each named by what it is.
HeldBy(p) ==
  (IF trapframe[p] THEN {<<"trapframe", "page">>} ELSE {})
    \cup {"image"} \X PagesOf(table[<<p, "image">>])
    \cup {"exec"} \X PagesOf(table[<<p, "exec">>])

Held == UNION {{p} \X HeldBy(p) : p \in Proc}

\* No page is lost, freed twice, or taken when there is none (TypeOK): what the processes hold
\* and what is free are all pages, also in the middle of every call (proc.c:125-135, 201-216,
\* 294; vm.c:231-241, 315-327; exec.c:123-125).
PagesConserved == TypeOK /\ free + Cardinality(Held) = NPages

\* No panic of vm.c can happen.  A table maps exactly the pages that the size kept for it
\* says, whenever it may be unmapped, copied or freed: no uvmunmap() of a hole, no
\* freewalk() over a leaf, no mappages() over a page (vm.c:152, 176-180, 278, 310-312;
\* exec.c:124, 146).
SizesMatchTables ==
  \A p \in Proc :
    /\ state[p] \in {"live", "ZOMBIE"} /\ pc[p] # "sbrk" => CanFree(table[<<p, "image">>], sz[p])
    /\ pc[p] \in {"segment", "args", "bad"} => CanFree(Work(p), newsz[p])
    /\ pc[p] \in GrowLabel \cup {"copy"} => Work(p).leaf = Fixed \cup 0 .. i[p] - 1

\* A slot that is UNUSED holds no memory, a USED one belongs to the fork() of one process,
\* and the table exec() builds is gone when exec() returns (proc.c:151-167; exec.c:111-130).
NothingLeft ==
  \A q \in Proc :
    /\ state[q] = "UNUSED" => ~trapframe[q] /\ table[<<q, "image">>] = Null /\ sz[q] = 0
    /\ state[q] = "USED" =>
         Cardinality({p \in Proc \ {q} : pc[p] # "idle" /\ ref[p] = <<q, "image">>}) = 1
    /\ pc[q] = "idle" => table[<<q, "exec">>] = Null

\* The page tables of the user programs, when no process is in the kernel.
Images ==
  IF \E p \in Proc : pc[p] # "idle" THEN {}
  ELSE {table[<<p, "image">>] : p \in {q \in Proc : state[q] = "live"}}

\* With every table there comes to be, the kernel copies exactly the bytes asked for, and
\* succeeds exactly if they are all mapped for the user (PTE_U; copyout() does not look at PTE_W,
\* so that the page for USYSCALL, mapped read-only, is among those it writes); exec() writes its
\* arguments to the stack page and nowhere else (vm.c:103-121, 346-434; exec.c:75-98).
CopiesExact ==
  /\ \A t \in Images, r \in Ranges :
       /\ CopyoutExact(t, r[1], r[2])
       /\ \A nul \in {r[1] + r[2] - 1, r[1] + r[2]} : CopyinstrExact(t, {nul}, r[1], r[2])
  /\ \A p \in Proc, lens \in ArgSizes : pc[p] = "args" => ArgsExact(Work(p), newsz[p], lens)

\* sys_pgaccess() reports each access once, unless its copyout() fails, and panics exactly if
\* it is to look beyond the address space (sysproc.c:99-116, vm.c:83-84).
PgaccessExact ==
  \A t \in Images, S \in Accessed, r \in Ranges, num \in Nums :
    PgaccessReports(t, t.leaf \cap S, PageOf(r[1]), num, r[1])

\* "If there are no free procs, or a memory allocation fails, return 0" (proc.c:103).
AllocFailureReturns == \A p \in Proc : pc[p] # "panic"
=============================================================================
