-------------------------------- MODULE MCVm --------------------------------
(* Instances of Vm for TLC.                                                *)
EXTENDS Vm, TLC

\* Processes other than the first are interchangeable.
SlotSymmetry == Permutations(Proc \ {initproc})

\* Up by a page and a half, down by half a page, and down by more than there may be.
SomeSbrkArgs == {6, -2, -10}

\* On the stack page of four bytes there is room for two and two pointers, or just not.
SomeArgSizes == {<<>>, <<2>>, <<3>>, <<1, 1>>}

\* Inside a page, across two and three, up to the end of a page, around the fixed pages and
\* the end of the address space.
SomeRanges ==
  {<<0, 3>>, <<1, 8>>, <<3, 1>>, <<3, 2>>, <<6, 9>>, <<10, 2>>}
    \cup {<<USYSCALL * PGSIZE - 1, 2>>, <<USYSCALL * PGSIZE, 2>>, <<TRAPFRAME * PGSIZE - 2, 3>>, <<MAXVA - 1, 2>>}
SomeAccessed == {{0}, {1, 2}, Vpn}
SomeNums     == {-1, 0, 1, 3, 6}
=============================================================================
