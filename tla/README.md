# TLA+ models of the xv6 labs

The repository holds one person's solutions of the MIT 6.S081 (2021) labs: the files of
the xv6-riscv kernel that the labs `syscall`, `pgtbl` and `traps` changed, the user programs
of the lab `util`, and course notes.  There is no kernel tree around them; `spinlock.c`,
`swtch.S`, `trampoline.S`, the file system, the pipes and the drivers are not here.  This
directory is a verification development for that code: TLA+ modules, the configurations that
check them with TLC, and theorems about them with proofs for TLAPS.

Status: the process table and scheduler, the alarm, the ticks, the page allocator, the memory of
processes with the system calls that touch it, the system calls `trace` and `sysinfo`, the kernel's
`printf`, `panic` and `backtrace`, and the user programs are modelled and checked.  Eight modules
hold proofs.  Section 7 says what is left.

## 1. The system

### Components, their state and their operations

| component | source | state | operations | model |
|---|---|---|---|---|
| process table and scheduler | `Lab_traps/proc.c`, `proc.h` | `proc[NPROC]` (state, chan, killed, pid, parent, context), `cpus[]`, `nextpid`, `p->lock`, `wait_lock` | `fork`, `exit`, `wait`, `kill`, `scheduler`, `sched`, `yield`, `sleep`, `wakeup` | `Proc` |
| traps | `Lab_traps/trap.c`, `syscall.c` | trapframe, interrupt enable | `usertrap`, `usertrapret`, `kerneltrap`, `clockintr`, `devintr`, `syscall` | in `Proc` and `Alarm` |
| alarm | `Lab_traps/sysproc.c`, `trap.c`, `proc.h` | `alarmticks`, `alarmremain`, `alarmhandler`, `original_trapframe` | `sys_sigalarm`, `sys_sigreturn`, timer branch of `usertrap` | `Alarm` |
| page allocator | `Lab_syscall/kalloc.c` | `kmem.freelist`, `kmem.lock`, the links in the free pages | `kalloc`, `kfree`, `freemem` | `Kalloc` |
| page tables, copies to and from user memory | `Lab_page_tables/vm.c` | three levels of page-table pages | `walk`, `mappages`, `uvmunmap`, `uvmalloc`, `uvmdealloc`, `uvmcopy`, `uvmclear`, `freewalk`; `walkaddr`, `copyin`, `copyout`, `copyinstr` | `Vm`, `UserMem` |
| process memory | `Lab_page_tables/proc.c`, `exec.c` | `p->pagetable`, `p->sz`, trapframe page, `USYSCALL` page | `proc_pagetable`, `proc_freepagetable`, `growproc`, memory part of `fork`, `exec` with its arguments, `freeproc` | `Vm`, `UserMem` |
| pgaccess | `Lab_page_tables/sysproc.c` | accessed bits of the page-table entries | `sys_pgaccess` | `UserMem`, `Vm` |
| ticks | `Lab_traps/sysproc.c`, `trap.c` | `ticks`, `tickslock` | `sys_sleep`, `sys_uptime`, `clockintr` | `Ticks` |
| trace, sysinfo | `Lab_syscall/sysproc.c`, `syscall.c`, `proc.c` | `trace_mask`, process states, free pages | `sys_trace`, `syscall`, `sys_sysinfo`, `nproc` (and `freemem`) | `Sysinfo` (`Kalloc`) |
| kernel printf, backtrace | `Lab_traps/printf.c` | `pr.lock`, `pr.locking`, `panicked`, the frames of a kernel stack | `printf`, `panic`, `backtrace` | `Console` |
| primes | `Lab_util/primes.c` | descriptors and pipes of thirteen processes | `main`, `sieve` | `Primes` |
| pingpong | `Lab_util/pingpong.c` | descriptors and pipes of two processes | `main` | `Pingpong` |
| find, xargs | `Lab_util/find.c`, `xargs.c` | open directories; buffer, line and arguments | `find`, `main` | `FindXargs` |

The three copies of `proc.c` are the same process table; each lab adds its own fields to it
(`Lab_traps` the alarm, `Lab_page_tables` the USYSCALL page, `Lab_syscall` the trace mask and
`nproc()`).  `Proc` models the one of `Lab_traps`, `Vm` and `Sysinfo` what the other two add to it.

### How they interact

* Every CPU runs `scheduler()` on a stack of its own.  It takes `p->lock` of a RUNNABLE slot
  and `swtch()`es to the process, which releases the lock.  To stop, the process takes its own
  `p->lock` and `swtch()`es back; the scheduler releases it.  Locks cross threads this way, and
  a thread may wake on another CPU than it slept on.
* `exit()` and `wait()` share `wait_lock`, `parent` and the sleep channel `p`; `reparent()`
  gives children to init and wakes it.
* `kill()` writes `killed` under `p->lock`; `wait()` and `usertrap()` read it without.
* The timer enters `usertrap()` or `kerneltrap()` at any instruction with interrupts on, and
  calls `yield()`; in user mode it also drives the alarm.
* Everything allocates from `kalloc()`, which may return 0 at any call.
* `nproc()` looks at the table slot by slot while others fork and exit; `freemem()` has been called
  before it.
* `printf()` serialises whole lines by `pr.lock`, unless a `panic()` on any CPU has cleared
  `pr.locking`; a panic that is over stops every other CPU's output.
* User programs meet in pipes: who still holds an end open decides whether a `read()` returns.

### What is hard here, and what makes each part correct

Concurrency of CPUs over the process table and the page list (no slot run twice, no lost
wakeup, no deadlock, no leaked slot or page); the timer's interleaving with user code (an
alarm that neither re-enters its handler nor loses registers); failure of an allocation at
every point (what was built must be given back); and numbers: the off-by-one of the alarm,
32-bit sizes and ticks, page boundaries in copies, bits in a bitmap, and the frame pointer that
ends a walk; and user programs that wait for each other through pipes.  `PROJECT.json` lists the
hazards line by line with the properties that cover them.  Nothing in this code persists, so
there is no crash recovery to speak of; `panic()` stops the machine and is modelled where the code can reach it.

## 2. The modules

| module | what it is |
|---|---|
| `ProcTree` | abstract specification of fork, exit and wait: an atomic process tree |
| `Proc` | the process table, the schedulers and the system calls on them; its properties |
| `MCProc` | `Proc` for TLC (the symmetry of the CPUs) |
| `ProcProof` | theorems about `Proc` |
| `Alarm`, `MCAlarm`, `AlarmProof` | sigalarm and sigreturn, their instances, their theorems |
| `PageAllocator` | abstract specification of kalloc and kfree: a set of free pages |
| `Kalloc`, `MCKalloc`, `KallocProof` | the free list under `kmem.lock`, its instance, its theorems |
| `UserMem` | copies between the kernel and user pages, `exec`'s arguments, `pgaccess`: as functions of a page table |
| `Vm`, `MCVm`, `VmProof` | page tables and memory of processes while memory runs out; extends `UserMem` |
| `Sysinfo`, `MCSysinfo`, `SysinfoProof` | trace masks and the two counts of sysinfo, against fork, exit, wait and sbrk |
| `Console`, `MCConsole`, `ConsoleProof` | printf, panic and backtrace |
| `Ticks`, `MCTicks`, `TicksProof` | sleep(), the clock interrupt and kill() |
| `Primes` | the sieve of `primes.c`: processes, pipes, descriptors |
| `Pingpong` | the two processes of `pingpong.c` |
| `FindXargs` | `find` writing into `xargs`, through a pipe |
| `Util`, `MCUtil`, `UtilProof` | the three commands as the shell runs them: extends `Primes`, instantiates the other two; their theorems |

A definition that follows another one under the same comment and is named after it
(`freeprocKeepsParent`, `freeproc`) is a mutant: the same code with a bug.  No specification
uses it.  `PROJECT.json` names, for every property, the mutant that breaks it.

### Proc

Grain.  A critical section on one `p->lock` is one step, because every field it touches is
only touched under that lock.  What other CPUs can see in between is separate: `wait_lock`
spans steps, a `p->lock` held across `swtch()` does too, and so do the loops over the table,
slot by slot.  The unlocked reads of `killed` are steps of their own.  A lock's value is the
CPU that holds it, as in `struct spinlock`.

State.  `pc[p]` is where the kernel thread of slot p is, `insched[p]` says that it is suspended
inside `sched()` (or has not reached `forkret()` yet), `scan[p]` and `arg[p]` are its loop variable
and its argument.  `spc[c]` says whether CPU c is in its scheduler's scan, in a process, or
back from one but with the lock not yet released; `sidx[c]` is the scan position.

Actions and code:

| code | actions |
|---|---|
| `scheduler()` | `ScanSlot` (one turn of the loop, up to `swtch`), `SchedBack` (after it) |
| `sched()`, the far side of `swtch`, `forkret()` | `sched`, `Resume` |
| `yield()` from `usertrap()`, `kerneltrap()` | `UserTick`, `KernelTick` |
| `fork()`, `allocproc()` | `AllocBusy`, `AllocFull`, `AllocFound`, `AllocNoMem`, `ForkSetParent`, `ForkSetRunnable` |
| `exit()`, `reparent()`, `wakeup()` | `ExitPanic`, `ExitLock`, `ReparentChild`, `ReparentWakeup`, `ReparentDone`, `ExitWakeup`, `ExitZombie` |
| `wait()`, `sleep()` | `WaitLock`, `WaitChildLives`, `WaitReap`, `WaitCopyoutFails`, `WaitGivesUp`, `WaitSleeps`, `Sleep` |
| `kill()` | `KillMiss`, `KillHit`, `KillNone` |
| `usertrap()`, `usertrapret()` | `SysFork`, `SysWait`, `SysExit`, `SysKill`, `UsertrapKilled`, `UsertrapFault`, `Usertrapret` |

`KernelTick` may happen wherever the CPU holds no spinlock, since `push_off()` turns
interrupts off with the first one.  Memory and files are abstract: an allocation fails or
not, freely.

`Proc` implements `ProcTree` (`TreeSpec`).  The refinement mapping lets `fork` happen when the
child gets its parent, `exit` when the dying process gets `wait_lock` (from then on nobody
who respects the lock sees it alive or owning children), and `wait` when it frees the slot.

### Alarm

One process, since the fields are only used by the process itself.  The trapframe is three
things: where the program is, the return-value register a0, and all the other registers.
`since`, `depth`, `rearmed` and `interrupted` are history variables: ticks since the count was
started, handlers not returned from, whether a handler called `sigalarm()` itself, and the
registers at the last alarm.  `UserTick` is the timer branch of `usertrap()`; ticks that hit the
kernel are not counted by the code and do not appear.

### Kalloc

Every access to the free list is a step, so that `kmem.lock` has something to protect.  Each
page has one word of content: the link if the page is free, or what its owner or a `memset()`
wrote.  `FreePages` follows the links.  `AllocatorSpec` says that the pages on the list and the
pages with the threads implement `PageAllocator`.  The callers are assumed to free only pages
they own, once; `Vm` shows that of the memory of processes.

### Vm

Grain.  `kalloc` and `kfree` are atomic here (that is what `Kalloc` establishes), and a page table
is private to one thread, so a step goes up to the next point where the result of `kalloc`
depends on what the others hold: one page of `uvmalloc` or `uvmcopy` with the page-table pages
`walk` needs for it, one stage of `proc_pagetable`, or a whole `uvmunmap`.  Either allocation may be
the one that fails: `UvmallocFails` and `CopyFails` cover a missing page (with what `walk` has added by
then, `WalkedTo`) and a missing page of the table alike.

State.  A page table is the set `dir` of its page-table pages and the set `leaf` of the virtual
pages it maps; `table` holds p->pagetable and the one `exec` is building.  Physical pages have no
names: `Held` names each page in use by what it is (the process, which of its tables, which page
of that table), and `PagesConserved` says that these and the count of `free` pages are always all
of memory, so a leak and a double free both show, in the step they happen.  `FreedBy` and `CanFree` are what `uvmfree` frees
and the condition under which none of the panics of `uvmunmap` and `freewalk` is met.  `guard` is the
set of the user's pages whose PTE_U `uvmclear` has taken away.

| code | actions |
|---|---|
| `growproc()`, `uvmalloc()`, `uvmdealloc()` | `SbrkGrow`, `UvmallocPage`, `UvmallocFails`, `SbrkGrown`, `SbrkShrink` |
| `allocproc()`, `proc_pagetable()` | `Fork`, `Uvmcreate`, `MapFixed`, `MapUsyscall`, `UsyscallNoMem`; `ReturnsZero` for their failures |
| `uvmcopy()` and `fork()` | `CopyPage`, `CopyFails`, `ForkDone` |
| `exec()` | `Exec`, `ExecSegment`, `ExecSegmentDone`, `ExecStack`, `ExecStackDone`, `ExecBad`, `ExecCommit` |
| `exit()`, `freeproc()` in `wait()` | `Exit`, `freeproc` |

### UserMem

What the kernel does with a page table once it has one is a function of the table: no other thread
changes it meanwhile.  `copyout`, `copyinstr` and `PushArgs` recurse over the pages as the loops of
the code do; their results are sets of pairs, virtual address and place in the buffer, so that a
byte copied to the wrong place or past a boundary shows.  `Vm` applies them to every table that
comes to be.  `CopiesExact` compares them with the bytes that are mapped for the user, which is what
`walkaddr` asks for: PTE_V and PTE_U, and not PTE_W.  Two sets tell these apart, `UserBytes` and `Writable`,
which leaves out the USYSCALL page: `ArgsExact` is about `Writable`, and that `copyout` writes
outside it, in the page that `proc_pagetable` maps "read-only", is what the code does: a system call
given an address there as its result (the status of `wait`, the bitmap of `pgaccess`) writes it and
reports success.  `PgaccessExact` compares `sys_pgaccess` with the pages
accessed; its result has a field `panic`, for the pages beyond MAXVA that it gives to `walk`, and for a
negative number of pages, which the loop compares as an unsigned one.  The accessed bits are not part of
`Vm`'s state, since nothing else reads them; every set in `Accessed` is tried.

### Sysinfo

`fork`, `exit` and `wait` at the grain at which `nproc()` can see them: every critical section of a
p->lock is a step, and `holder` is the thread that keeps the lock from `allocproc()` on.  Sleeping
and scheduling are those of `Proc`.  `always` and `ever` are history variables: the slots used all
through a call of sysinfo, and those with a process at some moment of it.  `asked` is the mask the
process, or the ancestor it has it from, has asked for.

### Console

Threads print lines, walk their stacks, and may panic at any point outside `printf()`.  A line is
`LineLen` characters.  A kernel stack is one page with any set of frames on it; the saved frame
pointer of each is the end of the next.  `took` is `printf()`'s local `locking`.

### Ticks

A process holds `tickslock` from its look at `ticks` to its sleep, and the clock interrupt holds it
while it wakes the sleepers slot by slot, all but the process it interrupted.  `kill()` comes at
any moment.  `ticks - ticks0 < n` is computed as the code does, modulo `TickMod`, with n made a
uint.  `elapsed` and `late` are history variables: the true number of ticks since `ticks0` was read,
and since the process was woken.

### Primes

The program as it is, with its own constants: numbers up to 35, thirteen processes (`main`, a
stage for each of the eleven primes, and one that finds its pipe at its end) and 16 descriptors
each.  `files[k]` is the set of pipe ends that stage k has open; only their number counts, with
the three standard descriptors, against `NOFILE`.  `main` and `sieve` differ in where their
numbers come from, and share the steps that make the next stage, close ends and wait.

`fork()` may fail at any stage (`ForkFails`).  Its result, -1, is not 0, so the stage goes on as a
parent without a child: it closes the read end of its own pipe, has no reader left, and what it
writes is lost.  `PrintsThePrimes` therefore promises all the primes only if no `fork()` has failed,
and those up to the prime of the stage where it did otherwise.  `pipe()`, whose result the program does not
look at either, has an action for success only: that it never fails for want of descriptors is
`FilesSuffice`, and that the kernel has a page and two files to give is assumed.

### Pingpong, FindXargs, Util

Each system call of `pingpong` is a step; no result of `read` or `write` is looked at, so an end of file
passes for a byte.  When `fork` fails the parent goes on alone: its byte is lost, `wait` returns at once, and
its `read`, at the end of the pipe that it has closed itself, lets it report a pong that nobody sent (`Done`).
In `FindXargs` `find` is its stack of open directories, and writes a character at a time, as
`printf` of the user library does; `xargs` reads what there is, up to its buffer, so that every cut
of the stream happens.  When `exec` fails, the child goes on with the parent's loop: `xargs` is a
stack of processes, the top one running.  Its array `args` has `MAXARG` places, and nothing in `xargs.c` counts
them: a word or null pointer too many is the action `XargsOverruns`, after which the model promises nothing
of `xargs` (the store overwrites the stack).  The array `token` is as long as the buffer in which `find` makes its
paths, and `find` goes into no directory whose paths could be longer (`Kind` "long"), so a line always fits and
that bound is not modelled.  `LinesRun` says what becomes of the lines that `find` prints: without
failures each is run once and in order; with failures none is invented, and none is lost but those
that failed, although some run twice; and `args` is overrun only if a line has too many words for it.
`Util` gives the shell one of the three command lines.

## 3. The runs

| run | question | instance |
|---|---|---|
| `proc_safety` | do the locking rules hold, is a wakeup, a slot or a parent ever lost, do the system calls look atomic? | 3 slots, 2 CPUs, one fork in flight besides init's child, kill(2) |
| `proc_liveness` | does every call and every runnable or killed process get on? | 2 slots, 2 CPUs |
| `proc_kill0` | is a new process unkilled? (no) | 2 slots, 1 CPU |
| `alarm` | is the handler entered at the right tick, once, again and again, and are the registers restored? | intervals -1, 0, 1, 3; three calls of sigalarm |
| `alarm_interval` | is the interval the one asked for? (no) | one call |
| `kalloc` | are pages kept apart, is the count exact, is the allocator atomic, does every call return? | 3 pages, 2 threads |
| `vm` | is a page lost or freed twice, can a panic of `vm.c` happen, does anything stay behind, wherever memory runs out? do copies and pgaccess do exactly what they are asked for, and when does pgaccess panic? | 3 processes, 24 pages |
| `vm_usyscall` | does `allocproc()` return 0 when memory runs out? (no) | the same |
| `ticks` | does `sleep(n)` end in time, not too early, and at all for a killed process? | 2 processes, ticks modulo 4, n of -1, 0, 1 |
| `sysinfo` | does sysinfo report a number of processes that can be true, are masks inherited and nothing else? | 3 slots, 5 pages, init calls sysinfo |
| `console` | do lines stay whole, is pr.lock released by who took it, is a backtrace complete, does a panic get its report out? | 2 threads, up to 3 frames |
| `util` | does the pipeline print the primes, do its descriptors suffice, does xargs run the lines of find, does every command end? | primes itself; 10 files; 2 failures in xargs, any in primes and pingpong; lines of up to 2 words and room for one or two |

Bounds, and why they are enough.

* `NPROC = 3` is the smallest table with a grandparent, a parent and a child: reparenting, a
  zombie inherited by init, an exit racing a wait, and a kill of a process in any of these
  states all happen.  Two CPUs give every pair of concurrent steps; a lock has two parties.
* `MaxPid` bounds the calls of `fork()`.  With 3, both slots beside init's get used, a failed
  allocation still spends a pid, and a slot freed by `wait()` is allocated again only in runs
  with a later fork: a fork whose allocation failed leaves one, and `kill(2)` hits a process,
  a zombie, or nobody.
* `KillArgs = {2}`: the first child.  `proc_kill0` uses 0, the pid of a free slot, which the other
  runs leave out so that processes are killed on purpose only.
* `MaxCalls = 3` calls of sigalarm let a handler re-arm the alarm, twice; `MaxLate = 2` lets the
  handler outlast two ticks beyond its interval.
* `NPages = 3` with two threads runs the list empty from both sides and lets each thread hold
  two pages; owners write `UserWord = {1}`, the address of a page, into theirs, which is the
  value that would corrupt the list most quietly.

* `Vm`: `Fan = 3` entries in a page-table page give all three levels with few pages; the fixed
  pages at the top share one, as they do with 512.  `NPages = 24` lets init and a child live
  with memory running out at every later point: in each stage of `proc_pagetable`, in the copy, in the
  segments and the stack of exec, with one or two page-table pages missing.  `PGSIZE = 4` has
  sizes that end inside a page, on its end and, by one byte, in the next page.
* `TickMod = 4`: ticks passes through 0 within every longer sleep, and n = -1 is the uint 3.
  `MaxLate = 1`: a process that was woken may miss one more tick before it runs.  Without a
  bound, one that misses all 2^32 would find the difference small again; the code does
  promise nothing then.
* `UserMem` in `vm`: with `PGSIZE = 4` ranges start and end inside a page, on its end, and across
  three, and into and out of the USYSCALL page; those at the guard page, the other fixed pages and MAXVA must
  fail.  `MAX_PAGES = 4` with 6 pages asked for is cut, -1 page is a panic, as is a range that begins on the last
  page and goes on, and bytes of 2 bits make bitmaps of part of a byte, one and two.
* `Sysinfo`: a third slot lets a process be made in front of the scan while another one goes behind
  it.  Five pages are enough for two processes of two pages and not for a third.  Only init calls
  sysinfo: callers do not act on one another.
* `Console`: two threads make every pair of printf, backtrace and panic; lines of two characters have
  a middle.  The stack's page has room for up to three frames, at every set of places.
* `FindXargs`: the tree has a directory in a directory, one too deep for its descriptors, a path too
  long and a name with a blank.  A buffer of 4 characters is shorter than most lines.  With two
  failures a second xargs has a third above it.  `MAXARG = 4` with `Argc = {2, 3}`, a command with or without an argument
  of its own, has room for the line of two words in one case and is one place short in the other.
* `PipeSize = 1` for `primes`: the fewer numbers a pipe holds, the more writers block.  A pipe of
  xv6 holds 128 of them, so 34 numbers never fill one; a blocked writer is the harder case.

The symmetry in `proc_safety` exchanges CPUs and that in `vm` the slots other than init's, which
nothing compares.  None is used where liveness is checked.

The runs of `Proc`, `Alarm`, `Kalloc`, `Ticks` and `Sysinfo` check for deadlock: no state is without a
successor.  (A panic in `exit()` of init stops the thread of init only; other CPUs go on, as in
the code.)  The others do not: in `vm` every process may have come to the panic that `vm_usyscall`
shows, in `console` a panic stops every CPU, and the programs of `util` end.

What the three violations show.  `kill(0)` matches the first free slot, whose pid is 0, and
sets `killed` there; nothing clears it, so the next process in that slot dies at its first
trap.  An alarm of n ticks comes at tick n+1, because the count is tested before it is
decremented, against the comments in `proc.h`.  When there is no page for USYSCALL,
`proc_pagetable` frees the table, does not return, and clears address 0: a panic, where the
comment of `allocproc` promises a return of 0.

What the passing runs show besides: `copyout` does not look at PTE_W and writes the read-only USYSCALL
page (`CopiesExact` counts it among the bytes it reaches); `sys_pgaccess` clears accessed bits before its `copyout`, so a
call that fails has lost them (`PgaccessReports` says so, and no property forbids it); and a line of `xargs` may be run twice
when `exec` fails, by the child that reads on in its parent's buffer.  A `kill()` between the look of `wait()` at
`killed` and its sleep leaves the process asleep until a child exits; `KilledExits` leaves out the processes in
`wait()` for that reason.

## 4. Fairness

* `CpuFair`: a CPU that can go on in its scheduler, switch into a process, or take a timer
  interrupt in user mode does so again and again.  This is the hardware, and the timer that
  `start.c` programs.
* `KernelFair`: the kernel code of a process is not held up for ever by a spinlock that becomes
  free again and again.  Spinlocks are not queue locks, so this is strong fairness and an
  assumption about the hardware's arbitration, as it is in xv6.
* `TimerFair`: the timer does not interrupt a kernel thread infinitely often without the thread
  ever doing something.  A thread that spins in `acquire()` has interrupts off, so a tick
  cannot take the CPU from it before it gets the lock; without this assumption the model
  would yield at the head of every `acquire()` for ever.
* Nothing is assumed of user programs: they may compute for ever, so no property needs them
  to make a system call.
* `Ticks`: the clock interrupt comes again and again, and a process in the kernel is run and gets
  `tickslock` (strong fairness, as for `KernelFair`).
* `Util`: some process that can go on does (weak fairness of the whole step).  That is less than
  the scheduler gives; it suffices because each program has finitely many steps to make.
* `Console`: every thread that is printing or panicking goes on, and gets `pr.lock` if it is free
  again and again.
* `Alarm`: the timer goes on.  `Kalloc`: a thread inside the allocator goes on and gets the lock
  if it is free again and again; nobody has to call it.

`Panicked` in the liveness properties: `exit()` of init calls `panic()`, after which the machine
promises nothing.

## 5. The proofs

All theorems hold for every value of the constants that the module's assumption admits: any number
of slots, CPUs, threads, pages, stages, any interval, any width of ticks.  The assumptions say that
there is something of each, and that `None` and `Null` are none of it.  A few say more:

* `LateAssumption` of `Ticks`: an argument of sleep() and the ticks missed on the way back together
  stay below 2^32.  Without it the unsigned difference comes round before it is looked at.
* `VmAssumption`: physical memory has fewer pages than the address space, so that user memory cannot
  grow into the fixed pages; and no user program grows to 2^32 bytes, the width of `growproc()`'s sz.
* `InputsAssumption` of `Vm`: the addresses and lengths that programs give are naturals, as uint64s
  are; the number of pages for `pgaccess` is any integer.
* `UtilAssumption`: the tree that `find` walks has names without blanks or newlines in the lines
  `find` prints, or with them the words that `xargs` splits such a line into (`Words`), and no line
  is without a word.  Where `find` starts is a file or a directory, not a free entry.  Nothing is said of the tree's
  shape: a directory may even contain itself, since the depth of the walk is bounded by the descriptors.  And `xargs`
  itself is given a command and no more arguments than `exec` lets through.
* `FilesSufficeCorrect`, `ShellFilesCorrect` and `SieveNeverStuck` have the hypothesis that NOFILE is
  at least the number of primes up to `Last` and 5.  For the program's 35 that is 11 + 5 = 16 = NOFILE: one prime more and the sieve would
  run out.

`ProcProof`:

* `TypeCorrect`: `TypeOK` is inductive by itself.
* `LockCorrect`: none of the locking properties is inductive, because each is about one moment
  of a protocol.  The strengthening `LockIInv` says, for each moment, who holds what: `CpuInv`
  ties a CPU's control point to the state of its process and to that process's lock; `SuspendInv`
  says a thread that is not RUNNING is inside a switch; `AloneInv` that no two CPUs have one
  process; `PLockInv` that between steps a p->lock is held for a switch only; `WaitLockInv` that
  `wait_lock` is held by the CPU of the one thread between its acquire and release; `ForkInv` that
  a fork and its USED slot belong together.  They need one another: `ScanSlot` keeps `AloneInv`
  only because a process being switched out is still locked.
* `StackExclusiveCorrect`, `SchedEntryCorrect`, `ReleaseHoldsCorrect`, `LockOrderCorrect` and
  `NoSlotLeakCorrect` follow from it without a further induction.
* `PidUniqueCorrect` adds that every pid in use is below `nextpid`.
* `FamilyCorrect` adds the family tree.  `ParentsLive` is not inductive: a fork gives a child to a
  thread that must not be past its own reparenting, an exit reparents slot by slot, and a slot is
  reused by a fork that has not set the parent yet.  `TreeInv` says where the threads of parents,
  of new slots and of empty ones can be; `ScanInv` that a scan of the table begins at its start.
* `NoDeadlockCorrect`: a chain of CPUs that spin for one another's locks has at most two links, and
  nobody acquires a lock that it holds.  The holder of a p->lock is inside a switch and needs no further
  lock; the holder of wait_lock needs one p->lock at most.  The locks that live inside one critical
  section, `kmem.lock` and `pid_lock`, are the innermost ones and not part of the model.
* The steps are sorted once (`StepKinds`): a step is `Calm`, and leaves the tree alone, or it is one
  of fork's, exit's or wait's.  What follows has four cases instead of thirty.
* `NoLostWakeupCorrect`, from `WakeInv`: exit() under wait_lock has woken its parent once its loop is
  past that slot, no parent can go to sleep meanwhile, and a parent that is about to sleep has, since
  it took wait_lock, seen every child alive.
* `TreeSpecCorrect` is the refinement of `ProcTree`: the step in which a child gets its parent is the
  abstract fork, that in which a dying process gets wait_lock the abstract exit, the one that frees the
  slot the abstract wait, and every other step stutters.  The mapping is proved in a form without
  the cases that the invariant excludes (`Mapping`).

`AlarmProof`: the count is always `alarmticks - since`, and while an (un-rearmed) handler runs it is
negative, where the test for zero cannot find it, with the interrupted registers in
`original_trapframe`.  From this follow `NoReentryCorrect`, `RestoresRegistersCorrect` and
`CountsTicksCorrect`.

`KallocProof`: the list lies in the free pages themselves, so the invariant speaks of a sequence
`at` that goes through every free page once, each page's word naming the one before it
(`ListInv`); the allocator's lock makes it true between any two steps (`LockInv`), and no page is
with two threads (`OwnInv`).  `FreememExactCorrect` counts the sequence.  `AllocatorSpecCorrect` is the
refinement of `PageAllocator`: the pop of the head is an allocation, the push a free, the look at
an empty list a failure, and every other step a stutter.  `EveryPageOnceCorrect` is about the recursive
`Pointer`, which follows the links: by `PointerFacts` its n-th step is at the n-th page of the
sequence from its top.  A recursive function is the solution of its equation; that the one given has to
be it is shown with the least argument at which another would differ (`LeastNumber`).

`VmProof`:

* `VmCorrect`: who works on which table.  The table a process works on is its own image, its new
  image, or the image of its child (`KernelInv`); slots without a process hold nothing (`HoldInv`);
  and a USED slot has exactly one fork (`ForkInv`).  `NothingLeftCorrect` follows.
* `MemCorrect` adds what the tables map and how many pages there are.  `TableInv` says for every
  point of sbrk, fork and exec what the table in the making maps, as far as the call has come;
  `CountInv` that what is held and what is free are all pages.  They need one another: that a
  page to be mapped is not there yet (so that `mappages` does not panic, and the count goes up by
  one) is true because memory runs out before user memory reaches the fixed pages (`Room`), and
  that is a count.  `PagesConservedCorrect` and `SizesMatchTablesCorrect` follow.
* `CopiesExactCorrect` and `PgaccessExactCorrect` are about the functions of `UserMem`.  `Copied` and
  `Instr` say without recursion what `copyout` and `copyinstr` must come to; one turn of the loop
  keeps them (`CopyStepForm`, `InstrStepForm`), because the part of a chunk that the user may use is
  all of it or nothing; and two solutions would differ first at some least number of bytes left
  (`CopyUnique`, `InstrUnique`).  So `CopyoutCorrect`, `CopyinstrCorrect`, `ArgsCorrect` and
  `PgaccessCorrect` hold for any table that maps pages of the address space, any address and any
  length, not only those that the run tries; `ArgsCorrect` adds that the stack ends below the USYSCALL page, which
  `Room` gives.  What is exact about `copyout` is what it asks of a page, PTE_U; the theorems do not say
  that the user may write there.  The run's invariants need, besides, that the images are
  such tables, and that `exec`'s stack begins no lower than a page (`StackInv`).

`TicksProof`: the difference computed modulo `TickMod` is the true number of ticks while that is below
`TickMod` (`CountInv`), and a process leaves `tickslock` asleep only if its time is not up
(`SleepInv`), so that no tick is missed between the two.  `OnTimeInv` bounds what passes until it
is awake.  From these `ReturnsOnTimeCorrect` and `NoOversleepCorrect`.

`SysinfoProof`: in the middle of `nproc()` the slots counted are a set between the slots used all along
and those with a process at some time, as far as the scan has come (`CountInv`).  It needs that the
half-made slots belong to one process each (`TableInv`).  `SysinfoTruthCorrect` is the case of a scan
that has come to the end.  `TraceInheritedCorrect` has an invariant of its own, `MaskInv`.
`SlotsCleanCorrect`, from `SlotInv`, is about slots that are free again: a fork that ran out of memory
leaves one as `wait()` does, without pages, parent or lock.

`ConsoleProof`: `LockMatches` becomes inductive with the fact that only a panic switches locking off
(`LockInv`); `LinesWholeCorrect` follows from it.  For `BacktraceCompleteCorrect`, `WalkInv` says that
the frames below fp have been shown; that the test at the head of the loop is false at the end of
the stack's page and nowhere else on it is `OnPageBelowTop`.  `BacktraceClimbsCorrect` is the reason why
the loop ends: each turn goes to another frame of the thread, further up.  `ConsoleNeverStuck`: a thread
in `panic()` has switched locking off, and so never waits in `acquire()` (`PanicInv`); any other that
waits does so for a thread that is printing or about to release.

`UtilProof`, the sieve:

* `PrimesCorrect`: along the pipeline numbers rise.  In each pipe they are in order, above the prime
  of both its ends, and below what its writer has in hand (`OrderInv`); the j-th number printed is the
  prime of stage j (`PrintInv`).  `PrintsInOrderCorrect` follows.
* `SieveCorrect` adds three parts.  `TipInv` says where the pipeline ends, be it for good because a `fork()` has
  failed, and how far its last stages are; `FileInv` which ends of which pipes each stage has open at each point of its program; and
  `FlowInv` that of the numbers no earlier prime divides, those a stage has sent and the next has
  not received are in the pipe, and no others.  They need one another: a stage takes an empty pipe
  for its end only when nobody has the write end open, and then the stage before it has passed on
  all it had.  A stage without a child has nobody to receive, and its pipe is never read.
* `PrintsThePrimesCorrect`: the least number that no earlier prime divides is the next prime; and when `main` has
  exited the last stage has either found no number, and all primes are printed, or no child.
* `FilesSufficeCorrect`: each descriptor that a stage holds beyond the standard ones, when it calls
  `pipe()`, is the read end of a different prime's pipe (`DescriptorsArePrimes`).

* `ShellPrimesCorrect` and `ShellFilesCorrect`: the same where the shell runs `primes` as one of its
  commands, since a behaviour of `UtilSpec` is one of the sieve, or leaves it alone (`ShellRunsPrimes`).
* `SieveNeverStuck`: until `main` has exited some stage can go on.  Of the stages that wait for a
  number, the first would wait for one that waits for nothing: the write end of its pipe is open, and
  the stage that has it is before it.  The last stage that waits to write has a reader after it, and
  a stage in `wait()` has a child that does not wait.  `fork()` has a process to make because no
  more is printed than there are primes (`ForkHasRoom`; hence the hypothesis on `MaxStage`).

`UtilProof`, `find` and `xargs`:

* `PipelineCorrect`: every character on its way has a place in the lines that `find` is to print: the
  line, the word, and how far into the word (`Place`).  `Spelt(s, a, b)` says that s is the text from
  place a up to place b.  `WalkInv` says what `find` has still to print: the directory that is read
  j-th from the outside has the lines from `cut[j] + 1` to `cut[j - 1]` left.  `Reading` then
  says that the buffer of the running xargs, the pipe, and what `printf` holds back spell, one after the
  other, the text from the place that xargs has come to up to the one of `find`, and that every line
  before is `Settled`, run or failed; `AllRead` is what is left of that when a process has read to the
  end.  A child whose `exec` failed reads on in its copy of the buffer, and its parent after it does so
  again, in a buffer that is no longer followed by what the pipe holds; so of the processes that wait
  `StackInv` says only that each is somewhere in a line and that its buffer goes on from there.  A
  process that reads past its buffer after that finds the pipe at its end.
* `LinesRunCorrect` follows: without failures one process stays and the lines run are those before
  its place, in order; with failures all are settled and none is invented.  The bound of `args` is an invariant of its
  own, `LimitInv`: what is in `args` when a store goes beyond it are words of the line that xargs is in
  (`LineOverruns`).
* What `find` prints and how a line is built from words are recursive functions.  That they have the
  values their equations give is proved: `WalkExists` and `Recursion` give a solution, as the union of
  the solutions up to each depth, and the rest of the proof uses the equation only.
* `PipelineNeverStuck`: `find` does not wait for room in the pipe while `xargs` waits for something in
  it, and xargs does not leave before `find` has.  What has overrun `args` is left out, here and in `EveryCommandEnds`.

`UtilProof`, `pingpong`: `PingpongInv` says for each pair of points of the two programs what has been
printed and which pipe has a byte (`Together`), what the parent without a child has done (`Alone`), and the ends
of the pipes on which the fate of a byte depends (`EndsOpen`).  From it `PingpongDone` (with a child both lines
are printed when the parent exits; without one nothing, or a pong that nobody sent), `BytesArriveCorrect` (with a child
no read meets an end of file, although no result is looked at; without one the parent's always does) and
`PingpongNeverStuck`.

Only model-checked:

* Everything under fairness: `WaitReturns`, `ExitCompletes`, `RunnableRuns`, `KilledExits`, `AlarmComes`,
  `CallsReturn`, `SleepEnds`, `KilledReturns`, `PanicReports`, `EveryCommandEnds`.  The prover has no
  support for ENABLED, in which fairness is expressed.  The safety half of some of them is proved:
  that there always is someone who can go on (`NoDeadlockCorrect`, `ConsoleNeverStuck`, and for
  `EveryCommandEnds` the three theorems `...NeverStuck` of `UtilProof`).  The conditions under which a
  process can go on are written out there, guard by guard, in place of ENABLED.
* The three properties that the code violates.

## 6. Not modelled, and why

* Arithmetic beyond its bounds: `nextpid` and the alarm's counters are ints that wrap after 2^31
  steps; the models bound them instead.
* Devices, `devintr()`, argument fetching and `procdump()`: input and output with no state that
  the properties are about.
* The files and the directory of a process, which live in files the repository does not have.
* Sleep channels other than those of `wait()` and `sleep(n)`: pipes and disk are not in the repository.
* What `exec` reads from the file, `uvminit`'s first program, and the kernel's own page table, which is
  built once; `vmprint`, which only prints.
* What `xargs` does once it has written beyond `args`, and `pipe()` failing in `primes` for want of memory.
* How `printf` formats a number.
* `sleep.c`: an argument check and one system call.
* Notes and lab reports: text.

## 7. Plan

Every safety property that a run checks has a theorem, the refinements and action properties among
them.  What could follow:

1. Measures for the programs of `Util`: a number that every step makes smaller, which together with
   the theorems `...NeverStuck` is all of `EveryCommandEnds` but the fairness.
2. A count of ticks in `Alarm` that no program re-arms never goes below what one handler lasts.
3. The conservation of pages in `Sysinfo`, as `Vm` has it, with the count that sysinfo reports.
4. The other traps: `devintr()` and the fetching of arguments in `syscall.c`, with the checks against
   `p->sz` that `fetchaddr()` makes.
