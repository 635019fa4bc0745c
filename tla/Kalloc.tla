------------------------------- MODULE Kalloc -------------------------------
(***************************************************************************)
(* The page allocator (Lab_syscall/kalloc.c) used by several kernel        *)
(* threads at once.  The list of free pages is kept in the free pages      *)
(* themselves: the first word of a free page is the address of the next.   *)
(* Each access to the list is a step, so that kmem.lock has work to do.    *)
(* The callers free only pages they own and then leave them alone.         *)
(***************************************************************************)
EXTENDS Integers, FiniteSets

CONSTANTS
  NPages,   \* number of pages between end and PHYSTOP
  Thread,   \* kernel threads that allocate and free pages
  None,     \* no thread
  UserWord  \* bound: what owners write to the first words of their pages

ASSUME KallocAssumption == NPages \in Nat \ {0} /\ None \notin Thread

Page == 1 .. NPages   \* a page is its number, in order of address
Null == 0
Junk == -1            \* the fill bytes of memset(), no page's address

ASSUME UserWordAssumption == UserWord \subseteq Page \cup {Null, Junk}

VARIABLES
  freelist, lock,     \* kmem
  word,               \* the first word of each page
  held,               \* the pages each thread has got from kalloc()
  pc, r, count,       \* the threads: control point and locals of kalloc(), kfree(), freemem()
  failed              \* whether the thread's last kalloc() returned 0

thread == <<pc, r, count>>
vars   == <<freelist, lock, word, held, thread, failed>>

Label == {"idle", "aread", "apop", "fill", "facquire", "fnext", "fhead", "mread", "mwalk"}

TypeOK ==
  /\ freelist \in Page \cup {Null}
  /\ lock \in Thread \cup {None}
  /\ word \in [Page -> Page \cup {Null, Junk}]
  /\ held \in [Thread -> SUBSET Page]
  /\ pc \in [Thread -> Label]
  /\ r \in [Thread -> Page \cup {Null}]
  /\ count \in [Thread -> Nat]
  /\ failed \in [Thread -> BOOLEAN]

\* kinit() has run: freerange() has freed the pages in order of address.
Init ==
  /\ freelist = NPages
  /\ lock = None
  /\ word = [p \in Page |-> p - 1]
  /\ held = [t \in Thread |-> {}]
  /\ pc = [t \in Thread |-> "idle"]
  /\ r = [t \in Thread |-> Null]
  /\ count = [t \in Thread |-> 0]
  /\ failed = [t \in Thread |-> FALSE]

-----------------------------------------------------------------------------
Goto(t, from, to) == pc[t] = from /\ pc' = [pc EXCEPT ![t] = to]

Acquire(t) == lock = None /\ lock' = t
Release(t) == lock' = None

\* memset(): the first word of page p is overwritten with v.
Fill(p, v) == word' = [word EXCEPT ![p] = v]

KallocUnlocked(t) ==
  /\ Goto(t, "idle", "aread")
  /\ UNCHANGED <<freelist, lock, word, held, r, count, failed>>

\* kalloc(): take the first page of the list under the lock, then fill it with junk.
KallocAcquire(t) ==
  /\ Goto(t, "idle", "aread")
  /\ Acquire(t)
  /\ UNCHANGED <<freelist, word, held, r, count, failed>>

KallocRead(t) ==
  /\ Goto(t, "aread", "apop")
  /\ r' = [r EXCEPT ![t] = freelist]
  /\ UNCHANGED <<freelist, lock, word, held, count, failed>>

KallocPop(t) ==
  /\ r[t] # Null
  /\ Goto(t, "apop", "fill")
  /\ freelist' = word[r[t]]
  /\ Release(t)
  /\ failed' = [failed EXCEPT ![t] = FALSE]
  /\ UNCHANGED <<word, held, r, count>>

KallocEmptyKeepsLock(t) ==
  /\ r[t] = Null
  /\ Goto(t, "apop", "idle")
  /\ failed' = [failed EXCEPT ![t] = TRUE]
  /\ UNCHANGED <<freelist, lock, word, held, r, count>>

KallocEmpty(t) ==
  /\ r[t] = Null
  /\ Goto(t, "apop", "idle")
  /\ Release(t)
  /\ failed' = [failed EXCEPT ![t] = TRUE]
  /\ UNCHANGED <<freelist, word, held, r, count>>

KallocFill(t) ==
  /\ Goto(t, "fill", "idle")
  /\ Fill(r[t], Junk)
  /\ held' = [held EXCEPT ![t] = @ \cup {r[t]}]
  /\ r' = [r EXCEPT ![t] = Null]
  /\ UNCHANGED <<freelist, lock, count, failed>>

\* The owner of a page writes to it, anything: a pointer, 0, junk.
WritePage(t, p, v) ==
  /\ pc[t] = "idle"
  /\ p \in held[t]
  /\ Fill(p, v)
  /\ UNCHANGED <<freelist, lock, held, thread, failed>>

\* kfree(): fill with junk, then link the page in under the lock.
Kfree(t, p) ==
  /\ p \in held[t]
  /\ Goto(t, "idle", "facquire")
  /\ Fill(p, Junk)
  /\ held' = [held EXCEPT ![t] = @ \ {p}]
  /\ r' = [r EXCEPT ![t] = p]
  /\ UNCHANGED <<freelist, lock, count, failed>>

KfreeUnlocked(t) ==
  /\ Goto(t, "facquire", "fnext")
  /\ UNCHANGED <<freelist, lock, word, held, r, count, failed>>

KfreeAcquire(t) ==
  /\ Goto(t, "facquire", "fnext")
  /\ Acquire(t)
  /\ UNCHANGED <<freelist, word, held, r, count, failed>>

KfreeNext(t) ==
  /\ Goto(t, "fnext", "fhead")
  /\ Fill(r[t], freelist)
  /\ UNCHANGED <<freelist, lock, held, r, count, failed>>

KfreeHead(t) ==
  /\ Goto(t, "fhead", "idle")
  /\ freelist' = r[t]
  /\ Release(t)
  /\ r' = [r EXCEPT ![t] = Null]
  /\ UNCHANGED <<word, held, count, failed>>

\* freemem(): walk the list under the lock; the count is in pages.
FreememAcquire(t) ==
  /\ Goto(t, "idle", "mread")
  /\ Acquire(t)
  /\ UNCHANGED <<freelist, word, held, r, count, failed>>

FreememRead(t) ==
  /\ Goto(t, "mread", "mwalk")
  /\ r' = [r EXCEPT ![t] = freelist]
  /\ UNCHANGED <<freelist, lock, word, held, count, failed>>

FreememCountNext(t) ==
  /\ pc[t] = "mwalk"
  /\ r[t] # Null
  /\ count' = [count EXCEPT ![t] = IF word[r[t]] = Null THEN @ ELSE @ + 1]
  /\ r' = [r EXCEPT ![t] = word[@]]
  /\ UNCHANGED <<freelist, lock, word, held, pc, failed>>

FreememCount(t) ==
  /\ pc[t] = "mwalk"
  /\ r[t] # Null
  /\ count' = [count EXCEPT ![t] = @ + 1]
  /\ r' = [r EXCEPT ![t] = word[@]]
  /\ UNCHANGED <<freelist, lock, word, held, pc, failed>>

FreememDone(t) ==
  /\ r[t] = Null
  /\ Goto(t, "mwalk", "idle")
  /\ Release(t)
  /\ count' = [count EXCEPT ![t] = 0]
  /\ UNCHANGED <<freelist, word, held, r, failed>>

Step(t) ==
  \/ KallocRead(t)
  \/ KallocPop(t)
  \/ KallocEmpty(t)
  \/ KallocFill(t)
  \/ KfreeAcquire(t)
  \/ KfreeNext(t)
  \/ KfreeHead(t)
  \/ FreememRead(t)
  \/ FreememCount(t)
  \/ FreememDone(t)

Next ==
  \E t \in Thread :
    \/ KallocAcquire(t)
    \/ FreememAcquire(t)
    \/ \E p \in Page : Kfree(t, p)
    \/ \E p \in Page, v \in UserWord : WritePage(t, p, v)
    \/ Step(t)

Spec == Init /\ [][Next]_vars

\* A thread inside the allocator goes on, and gets the lock if it is free often enough.
FairSpec == Spec /\ \A t \in Thread : SF_vars(Step(t))

-----------------------------------------------------------------------------
\* The n-th pointer of the list, from 0: freelist, its page's word, and so on.
Pointer[n \in 0 .. NPages] ==
  IF n = 0 THEN freelist
  ELSE IF Pointer[n - 1] \in Page THEN word[Pointer[n - 1]] ELSE Null

OnList == {Pointer[n] : n \in 0 .. NPages} \cap Page

\* The page a thread has between its owner's hands and the list.
InFlight(t) == IF pc[t] \in {"fill", "facquire", "fnext", "fhead"} THEN {r[t]} ELSE {}

Owned(t)  == held[t] \cup InFlight(t)
FreePages == {p \in Page : \A t \in Thread : p \notin Owned(t)}

\* The list ends in 0, and a page is either on it, or with one thread: none is lost, none
\* is on the list and in use (kalloc.c:54-63, 73-81).
EveryPageOnce ==
  /\ Pointer[NPages] = Null
  /\ \A p \in Page :
       Cardinality({t \in Thread : p \in held[t]}) + Cardinality({t \in Thread : p \in InFlight(t)})
         = IF p \in OnList THEN 0 ELSE 1

\* freemem() returns the number of pages that are free when it lets go of the lock
\* (kalloc.c:89-95).
FreememExact ==
  \A t \in Thread : pc[t] = "mwalk" /\ r[t] = Null => count[t] = Cardinality(FreePages)

\* Refinement: allocating and freeing are atomic, and fail only when nothing is free.
Allocator == INSTANCE PageAllocator WITH free <- FreePages, owned <- [t \in Thread |-> Owned(t)]
AllocatorSpec == Allocator!Spec

\* Every call of kalloc(), kfree() and freemem() returns (kalloc.c:73-95).
CallsReturn == \A t \in Thread : pc[t] # "idle" ~> pc[t] = "idle"
=============================================================================
