------------------------------ MODULE UserMem ------------------------------
(***************************************************************************)
(* How the kernel reads and writes the memory of a process through its     *)
(* page table (Lab_page_tables): copyout, copyin and copyinstr of vm.c,    *)
(* the arguments that exec() pushes, and sys_pgaccess().                   *)
(*                                                                         *)
(* A page table t maps the virtual pages t.leaf; those in t.guard, like    *)
(* the trampoline and the trapframe, are not for the user (no PTE_U).  The *)
(* others may all be written, but for the USYSCALL page (no PTE_W).        *)
(* What is copied is a set of pairs: virtual address, place in the buffer. *)
(***************************************************************************)
EXTENDS Integers, Sequences

CONSTANTS
  PGSIZE,      \* size of a page
  Fan,         \* entries of a page-table page
  Align,       \* alignment of the stack pointer
  PtrSize,     \* size of a pointer
  ByteBits,    \* bits in a byte of the bitmap
  MAX_PAGES    \* most pages that pgaccess looks at

ASSUME UserMemAssumption ==
  /\ PGSIZE \in Nat \ {0} /\ Fan \in Nat /\ Fan >= 3
  /\ Align \in Nat \ {0} /\ PGSIZE % Align = 0
  /\ PtrSize \in Nat \ {0} /\ ByteBits \in Nat \ {0} /\ MAX_PAGES \in Nat

Vpn        == 0 .. Fan * Fan * Fan - 1   \* virtual page numbers
MAXVA      == Fan * Fan * Fan * PGSIZE
TRAMPOLINE == Fan * Fan * Fan - 1        \* the highest of them
TRAPFRAME  == TRAMPOLINE - 1
USYSCALL   == TRAPFRAME - 1

PageOf(va) == va \div PGSIZE

\* PGROUNDUP(s) / PGSIZE
Pages(s) == (s + PGSIZE - 1) \div PGSIZE

-----------------------------------------------------------------------------
(* vm.c                                                                    *)

\* walkaddr(): va is in a page that is mapped and for the user.
walkaddr(t, va) ==
  va < MAXVA /\ PageOf(va) \in t.leaf \ (t.guard \cup {TRAMPOLINE, TRAPFRAME})

\* The bytes to copy from va on: those left, but none of the next page.
ChunkWholePage(va, left) == IF PGSIZE < left THEN PGSIZE ELSE left
Chunk(va, left) ==
  LET n == PGSIZE - (va - PageOf(va) * PGSIZE) IN IF n > left THEN left ELSE n

NextPage(va) == (PageOf(va) + 1) * PGSIZE

\* What a copy comes to: whether it succeeds, and the bytes copied, n of them from va and s on.
Result(ok, bytes) == [ok |-> ok, bytes |-> bytes]
Pairs(va, s, n)   == {<<va + j, s + j>> : j \in 0 .. n - 1}

\* copyout(): page by page, left bytes from va on; the next one is at s in the buffer.
copyout(t, dstva, len) ==
  LET copy[c \in Nat \X Nat \X Nat] ==
        LET va == c[1]  left == c[2]  s == c[3] IN
        IF left = 0 THEN Result(TRUE, {})
        ELSE IF ~walkaddr(t, va) THEN Result(FALSE, {})
        ELSE LET n    == Chunk(va, left)
                 rest == copy[<<NextPage(va), left - n, s + n>>]
             IN Result(rest.ok, rest.bytes \cup Pairs(va, s, n))
  IN copy[<<dstva, len, 0>>]

\* copyin() goes the same way, in the other direction.
copyin(t, srcva, len) == copyout(t, srcva, len)

\* copyinstr(): up to and with the first '\0'; nul: the addresses that hold one.
copyinstr(t, nul, srcva, max) ==
  LET copy[c \in Nat \X Nat \X Nat] ==
        LET va == c[1]  left == c[2]  s == c[3] IN
        IF left = 0 THEN Result(FALSE, {})
        ELSE IF ~walkaddr(t, va) THEN Result(FALSE, {})
        ELSE LET n    == Chunk(va, left)
                 ends == {j \in 0 .. n - 1 : va + j \in nul}
                 rest == copy[<<NextPage(va), left - n, s + n>>]
             IN IF ends # {}
                THEN LET e == CHOOSE j \in ends : \A k \in ends : j <= k
                     IN Result(TRUE, Pairs(va, s, e + 1))
                ELSE Result(rest.ok, rest.bytes \cup Pairs(va, s, n))
  IN copy[<<srcva, max, 0>>]

-----------------------------------------------------------------------------
(* exec(): the arguments on the stack                                      *)

\* The stack pointer after n bytes have been pushed.
Push(sp, n) == (sp - n) - ((sp - n) % Align)

\* exec() pushes strings of sizes lens on the one page of stack that ends at s, and then
\* the array of pointers to them, until one does not fit; addr: the addresses written.
PushArgs(t, s, lens) ==
  LET size == Append(lens, (Len(lens) + 1) * PtrSize)
      item == 1 .. Len(size)
      sp[k \in 0 .. Len(size)] == IF k = 0 THEN s ELSE Push(sp[k - 1], size[k])
      done(k) == copyout(t, sp[k], size[k])
      reached == {k \in item : /\ \A j \in 1 .. k : sp[j] >= s - PGSIZE
                               /\ \A j \in 1 .. k - 1 : done(j).ok}
  IN [ok   |-> reached = item /\ done(Len(size)).ok,
      addr |-> UNION {{b[1] : b \in done(k).bytes} : k \in reached}]

-----------------------------------------------------------------------------
(* sys_pgaccess()                                                          *)

\* The bytes of a bitmap of n bits; with n < 0 the code does not come so far.
BitmapBytesDown(n) == IF n < 0 THEN 0 ELSE n \div ByteBits
BitmapBytes(n)     == n \div ByteBits + (IF n % ByteBits # 0 THEN 1 ELSE 0)

\* A: the mapped pages whose PTE_A is set.  Looks at num pages from page first on, clears
\* their PTE_A, and copies their bits to bitmap.  Beyond MAXVA walk() panics; the loop comes
\* there too when num is negative, which compares with i as a very large number.
sys_pgaccess(t, A, first, num, bitmap) ==
  LET n    == IF num > MAX_PAGES THEN MAX_PAGES ELSE num
      set  == {j \in 0 .. n - 1 : first + j \in A}
      done == copyout(t, bitmap, BitmapBytes(n))
  IN [panic    |-> n < 0 \/ \E j \in 0 .. n - 1 : first + j > TRAMPOLINE,
      ok       |-> done.ok,
      reported |-> {j \in set : \E b \in done.bytes : b[2] = j \div ByteBits},
      accessed |-> A \ (first .. first + n - 1)]

-----------------------------------------------------------------------------
(* What they promise                                                       *)

\* The addresses that the user may read, and those that it may write.
UserBytes(t) ==
  {va \in 0 .. MAXVA - 1 : PageOf(va) \in t.leaf \ (t.guard \cup {TRAMPOLINE, TRAPFRAME})}
Writable(t) == {va \in UserBytes(t) : PageOf(va) # USYSCALL}

\* The first n bytes from va on.
Bytes(va, n) == Pairs(va, 0, n)

\* copyout() and copyin() succeed exactly if all n bytes are mapped for the user, and copy no
\* others.  Whether the user may write them copyout() does not ask.
CopyoutExact(t, va, n) ==
  LET done == copyout(t, va, n) IN
  /\ done.ok <=> \A j \in 0 .. n - 1 : va + j \in UserBytes(t)
  /\ done.ok => done.bytes = Bytes(va, n)
  /\ \E m \in 0 .. n : done.bytes = Bytes(va, m)

CopyinstrExact(t, nul, va, max) ==
  LET done == copyinstr(t, nul, va, max)
      ends == {j \in 0 .. max - 1 : va + j \in nul /\ \A k \in 0 .. j : va + k \in UserBytes(t)}
  IN /\ done.ok <=> ends # {}
     /\ done.ok => \E e \in ends : (\A k \in ends : e <= k) /\ done.bytes = Bytes(va, e + 1)

\* The arguments fit and are on the stack page, or exec() fails; the guard page below is
\* not written, and nothing that the user may not write itself.
ArgsExact(t, s, lens) ==
  LET done == PushArgs(t, s, lens) IN
  /\ done.addr \subseteq s - PGSIZE .. s - 1
  /\ \A va \in done.addr : va \in Writable(t)

\* An access is reported by a call that looks at the page, and by one only; a call that
\* does not look at it leaves it for a later one.  But a call that fails loses what it saw, and
\* one that is to look beyond the address space, or at a negative number of pages, is a panic.
PgaccessReports(t, A, first, num, bitmap) ==
  LET done == sys_pgaccess(t, A, first, num, bitmap)
      seen == {j \in 0 .. num - 1 : first + j \in A /\ j < MAX_PAGES}
  IN /\ done.panic <=> num < 0 \/ \E j \in 0 .. num - 1 : j < MAX_PAGES /\ first + j \notin Vpn
     /\ ~done.panic /\ done.ok => done.reported = seen
     /\ ~done.panic => done.accessed = A \ {first + j : j \in seen}
=============================================================================
