--------------------------- MODULE PageAllocator ---------------------------
(***************************************************************************)
(* What kalloc() and kfree() promise: a page belongs to at most one owner, *)
(* and kalloc() returns 0 only when no page is free.  Kalloc implements    *)
(* this specification (Kalloc!AllocatorSpec).                              *)
(***************************************************************************)
CONSTANTS Thread, Page

VARIABLES free,   \* the pages nobody owns
          owned,  \* the pages of each thread
          failed  \* whether the thread's last kalloc() returned 0
avars == <<free, owned, failed>>

AllocatorInit ==
  /\ free = Page
  /\ owned = [t \in Thread |-> {}]
  /\ failed = [t \in Thread |-> FALSE]

Alloc(t) ==
  \E p \in free :
    /\ free' = free \ {p}
    /\ owned' = [owned EXCEPT ![t] = @ \cup {p}]
    /\ failed' = [failed EXCEPT ![t] = FALSE]

AllocFails(t) ==
  /\ free = {}
  /\ failed' = [failed EXCEPT ![t] = TRUE]
  /\ UNCHANGED <<free, owned>>

Free(t) ==
  \E p \in owned[t] :
    /\ free' = free \cup {p}
    /\ owned' = [owned EXCEPT ![t] = @ \ {p}]
    /\ UNCHANGED failed

AllocatorNext == \E t \in Thread : Alloc(t) \/ AllocFails(t) \/ Free(t)
Spec == AllocatorInit /\ [][AllocatorNext]_avars
=============================================================================
