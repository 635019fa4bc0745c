---------------------------- MODULE KallocProof -----------------------------
(* Theorems about Kalloc, for any number of pages and of threads.          *)
EXTENDS Kalloc, FiniteSetTheorems, WellFoundedInduction, TLAPS

\* Only the holder of kmem.lock is inside a critical section, and what it has read of the
\* list is still so.
LockInv ==
  \A t \in Thread :
    /\ pc[t] \in {"aread", "apop", "fnext", "fhead", "mread", "mwalk"} <=> lock = t
    /\ pc[t] = "apop" => r[t] = freelist
    /\ pc[t] \in {"fill", "facquire", "fnext", "fhead"} => r[t] \in Page
    /\ pc[t] = "fhead" => word[r[t]] = freelist
    /\ pc[t] # "mwalk" => count[t] = 0

\* No page is with two threads, or twice with one.
OwnInv ==
  /\ \A t, u \in Thread : t # u => Owned(t) \cap Owned(u) = {}
  /\ \A t \in Thread : held[t] \cap InFlight(t) = {}

\* The list goes through all free pages, once each: at[K] is the first of K, at[1] the last.
Lists(K, at) ==
  /\ \A i, j \in 1 .. K : at[i] = at[j] => i = j
  /\ FreePages = {at[i] : i \in 1 .. K}
  /\ freelist = IF K = 0 THEN Null ELSE at[K]
  /\ \A i \in 1 .. K : word[at[i]] = IF i = 1 THEN Null ELSE at[i - 1]

\* freemem() has counted the pages of the list above the one it has come to.
Walks(K, at) ==
  \A t \in Thread : pc[t] = "mwalk" =>
    \E i \in 0 .. K : r[t] = (IF i = 0 THEN Null ELSE at[i]) /\ count[t] = K - i

ListInv == \E K \in Nat : \E at \in [1 .. K -> Page] : Lists(K, at) /\ Walks(K, at)

IInv == TypeOK /\ LockInv /\ OwnInv /\ ListInv

\* The end of the list is no page.
LEMMA NullNotPage == Null \notin Page
  BY DEF Null, Page

\* Who follows a link from a free page comes to a free page or to the end.
LEMMA ListFacts ==
  ASSUME ListInv
  PROVE  /\ freelist \in FreePages \cup {Null}
         /\ freelist = Null => FreePages = {}
         /\ \A p \in FreePages : word[p] \in FreePages \cup {Null}
         /\ \A t \in Thread : pc[t] = "mwalk" => r[t] \in FreePages \cup {Null}
<1>0. PICK K \in Nat : \E at \in [1 .. K -> Page] : Lists(K, at) /\ Walks(K, at)
  BY DEF ListInv
<1>1. PICK at \in [1 .. K -> Page] : Lists(K, at) /\ Walks(K, at)
  BY <1>0
<1>2. \A i \in 1 .. K : at[i] \in FreePages /\ at[i] # Null
  BY <1>1, NullNotPage DEF Lists
<1>3. K = 0 \/ K \in 1 .. K
  OBVIOUS
<1>4. freelist \in FreePages \cup {Null} /\ (freelist = Null => FreePages = {})
  BY <1>1, <1>2, <1>3 DEF Lists
<1>5. ASSUME NEW i \in 1 .. K PROVE word[at[i]] \in FreePages \cup {Null}
  <2>1. i = 1 \/ i - 1 \in 1 .. K
    OBVIOUS
  <2> QED
    BY <1>1, <1>2, <2>1 DEF Lists
<1>6. \A p \in FreePages : word[p] \in FreePages \cup {Null}
  BY <1>1, <1>5 DEF Lists
<1>7. ASSUME NEW t \in Thread, pc[t] = "mwalk" PROVE r[t] \in FreePages \cup {Null}
  <2>1. PICK i \in 0 .. K : r[t] = IF i = 0 THEN Null ELSE at[i]
    BY <1>1, <1>7 DEF Walks
  <2>2. i = 0 \/ i \in 1 .. K
    OBVIOUS
  <2> QED
    BY <1>2, <2>1, <2>2
<1> QED
  BY <1>4, <1>6, <1>7

\* kinit() has put every page on the list, each once.
LEMMA KallocInit == Init => IInv
<1> SUFFICES ASSUME Init PROVE IInv
  OBVIOUS
<1> USE KallocAssumption DEF Init
<1>1. TypeOK
  BY DEF TypeOK, Page, Null, Junk, Label
<1>2. FreePages = Page
  BY DEF FreePages, Owned, InFlight
<1>3. LockInv /\ OwnInv
  BY DEF LockInv, OwnInv, Owned, InFlight
<1>4. ListInv
  <2>1. NPages \in Nat /\ Page = 1 .. NPages /\ Null = 0
    BY DEF Page, Null
  <2> DEFINE at == [i \in 1 .. NPages |-> i]
  <2>2. at \in [1 .. NPages -> Page] /\ \A i \in 1 .. NPages : at[i] = i
    BY <2>1
  <2>3. \A i \in 1 .. NPages : word[i] = i - 1
    BY <2>1
  <2>4. Lists(NPages, at)
    BY <1>2, <2>1, <2>2, <2>3 DEF Lists
  <2>5. Walks(NPages, at)
    BY DEF Walks
  <2> QED
    BY <2>1, <2>2, <2>4, <2>5 DEF ListInv
<1> QED
  BY <1>1, <1>3, <1>4 DEF IInv

\* Every step keeps the types.
LEMMA TypeStep == TypeOK /\ LockInv /\ ListInv /\ [Next]_vars => TypeOK'
<1> SUFFICES ASSUME TypeOK /\ LockInv /\ ListInv, [Next]_vars PROVE TypeOK'
  OBVIOUS
<1> USE KallocAssumption, UserWordAssumption DEF TypeOK, Label
<1>1. CASE UNCHANGED vars
  BY <1>1 DEF vars, thread
<1>2. ASSUME NEW t \in Thread, KallocAcquire(t) PROVE TypeOK'
  BY <1>2 DEF KallocAcquire, Goto, Acquire, Release, Fill, thread
<1>3. ASSUME NEW t \in Thread, FreememAcquire(t) PROVE TypeOK'
  BY <1>3 DEF FreememAcquire, Goto, Acquire, Release, Fill, thread
<1>4. ASSUME NEW t \in Thread, NEW p \in Page, Kfree(t, p) PROVE TypeOK'
  BY <1>4 DEF Kfree, Goto, Acquire, Release, Fill, thread
<1>5. ASSUME NEW t \in Thread, NEW p \in Page, NEW v \in UserWord, WritePage(t, p, v) PROVE TypeOK'
  BY <1>5 DEF WritePage, Goto, Acquire, Release, Fill, thread
<1>6. ASSUME NEW t \in Thread, KallocRead(t) PROVE TypeOK'
  BY <1>6 DEF KallocRead, Goto, Acquire, Release, Fill, thread
<1>7. ASSUME NEW t \in Thread, KallocPop(t) PROVE TypeOK'
  <2>1. freelist' \in Page \cup {Null}
    BY <1>7, ListFacts DEF KallocPop, Goto, LockInv, FreePages
  <2> QED
    BY <1>7, <2>1 DEF KallocPop, Goto, Acquire, Release, Fill, thread
<1>8. ASSUME NEW t \in Thread, KallocEmpty(t) PROVE TypeOK'
  BY <1>8 DEF KallocEmpty, Goto, Acquire, Release, Fill, thread
<1>9. ASSUME NEW t \in Thread, KallocFill(t) PROVE TypeOK'
  BY <1>9 DEF KallocFill, LockInv, Goto, Acquire, Release, Fill, thread
<1>10. ASSUME NEW t \in Thread, KfreeAcquire(t) PROVE TypeOK'
  BY <1>10 DEF KfreeAcquire, Goto, Acquire, Release, Fill, thread
<1>11. ASSUME NEW t \in Thread, KfreeNext(t) PROVE TypeOK'
  BY <1>11 DEF KfreeNext, Goto, Acquire, Release, Fill, thread
<1>12. ASSUME NEW t \in Thread, KfreeHead(t) PROVE TypeOK'
  BY <1>12 DEF KfreeHead, Goto, Acquire, Release, Fill, thread
<1>13. ASSUME NEW t \in Thread, FreememRead(t) PROVE TypeOK'
  BY <1>13 DEF FreememRead, Goto, Acquire, Release, Fill, thread
<1>14. ASSUME NEW t \in Thread, FreememCount(t) PROVE TypeOK'
  <2>1. r' \in [Thread -> Page \cup {Null}]
    BY <1>14, ListFacts DEF FreememCount, FreePages
  <2>2. count' \in [Thread -> Nat]
    BY <1>14 DEF FreememCount
  <2> QED
    BY <1>14, <2>1, <2>2 DEF FreememCount, Goto, Acquire, Release, Fill, thread
<1>15. ASSUME NEW t \in Thread, FreememDone(t) PROVE TypeOK'
  BY <1>15 DEF FreememDone, Goto, Acquire, Release, Fill, thread
<1> QED
  BY <1>1, <1>2, <1>3, <1>4, <1>5, <1>6, <1>7, <1>8,
     <1>9, <1>10, <1>11, <1>12, <1>13, <1>14, <1>15 DEF Next, Step

\* Pages change hands when the first is taken off the list, and when one is put there.
Pops(t) ==
  /\ KallocPop(t)
  /\ freelist \in FreePages
  /\ Owned(t)' = Owned(t) \cup {freelist}
  /\ \A u \in Thread \ {t} : Owned(u)' = Owned(u)
  /\ FreePages' = FreePages \ {freelist}
Pushes(t) ==
  /\ KfreeHead(t)
  /\ r[t] \in Owned(t)
  /\ Owned(t)' = Owned(t) \ {r[t]}
  /\ \A u \in Thread \ {t} : Owned(u)' = Owned(u)
  /\ FreePages' = FreePages \cup {r[t]}
Keeps ==
  /\ \A u \in Thread : Owned(u)' = Owned(u)
  /\ FreePages' = FreePages

\* kalloc() moves the first page of the list to the thread.
LEMMA PopStep ==
  ASSUME TypeOK, LockInv, ListInv, NEW t \in Thread, KallocPop(t)
  PROVE  Pops(t)
<1>1. freelist \in FreePages
  BY ListFacts DEF KallocPop, Goto, LockInv
<1>2. Owned(t)' = Owned(t) \cup {freelist} /\ \A u \in Thread \ {t} : Owned(u)' = Owned(u)
  BY DEF KallocPop, Goto, Owned, InFlight, TypeOK, LockInv
<1>3. FreePages' = FreePages \ {freelist}
  BY <1>2 DEF FreePages
<1> QED
  BY <1>1, <1>2, <1>3 DEF Pops

\* kfree() moves the thread's page to the front of the list.
LEMMA PushStep ==
  ASSUME TypeOK, LockInv, OwnInv, NEW t \in Thread, KfreeHead(t)
  PROVE  Pushes(t)
<1>1. r[t] \in Owned(t) /\ r[t] \in Page
  BY DEF KfreeHead, Goto, Owned, InFlight, LockInv
<1>2. Owned(t)' = Owned(t) \ {r[t]} /\ \A u \in Thread \ {t} : Owned(u)' = Owned(u)
  BY DEF KfreeHead, Goto, Owned, InFlight, OwnInv, TypeOK
<1>3. FreePages' = FreePages \cup {r[t]}
  BY <1>1, <1>2 DEF FreePages, OwnInv
<1> QED
  BY <1>1, <1>2, <1>3 DEF Pushes

\* A page changes its owner only where it is popped or pushed.
LEMMA OwnedStep ==
  ASSUME TypeOK, LockInv, OwnInv, ListInv, [Next]_vars
  PROVE  Keeps \/ \E t \in Thread : Pops(t) \/ Pushes(t)
<1> DEFINE Goal == Keeps \/ \E t \in Thread : Pops(t) \/ Pushes(t)
<1>0. ASSUME \A u \in Thread : Owned(u)' = Owned(u) PROVE Goal
  BY <1>0 DEF Keeps, FreePages
<1> USE DEF TypeOK, LockInv
<1>1. CASE UNCHANGED vars
  BY <1>0, <1>1 DEF vars, thread, Owned, InFlight
<1>2. ASSUME NEW t \in Thread, KallocAcquire(t) PROVE Goal
  <2>1. \A u \in Thread : Owned(u)' = Owned(u)
    BY <1>2 DEF KallocAcquire, Goto, Acquire, Release, Fill, thread, Owned, InFlight
  <2> QED
    BY <1>0, <2>1
<1>3. ASSUME NEW t \in Thread, FreememAcquire(t) PROVE Goal
  <2>1. \A u \in Thread : Owned(u)' = Owned(u)
    BY <1>3 DEF FreememAcquire, Goto, Acquire, Release, Fill, thread, Owned, InFlight
  <2> QED
    BY <1>0, <2>1
<1>4. ASSUME NEW t \in Thread, NEW p \in Page, Kfree(t, p) PROVE Goal
  <2>1. \A u \in Thread : Owned(u)' = Owned(u)
    BY <1>4 DEF Kfree, Goto, Acquire, Release, Fill, thread, Owned, InFlight
  <2> QED
    BY <1>0, <2>1
<1>5. ASSUME NEW t \in Thread, NEW p \in Page, NEW v \in UserWord, WritePage(t, p, v) PROVE Goal
  <2>1. \A u \in Thread : Owned(u)' = Owned(u)
    BY <1>5 DEF WritePage, Goto, Acquire, Release, Fill, thread, Owned, InFlight
  <2> QED
    BY <1>0, <2>1
<1>6. ASSUME NEW t \in Thread, KallocRead(t) PROVE Goal
  <2>1. \A u \in Thread : Owned(u)' = Owned(u)
    BY <1>6 DEF KallocRead, Goto, Acquire, Release, Fill, thread, Owned, InFlight
  <2> QED
    BY <1>0, <2>1
<1>7. ASSUME NEW t \in Thread, KallocPop(t) PROVE Goal
  BY <1>7, PopStep
<1>8. ASSUME NEW t \in Thread, KallocEmpty(t) PROVE Goal
  <2>1. \A u \in Thread : Owned(u)' = Owned(u)
    BY <1>8 DEF KallocEmpty, Goto, Acquire, Release, Fill, thread, Owned, InFlight
  <2> QED
    BY <1>0, <2>1
<1>9. ASSUME NEW t \in Thread, KallocFill(t) PROVE Goal
  <2>1. \A u \in Thread : Owned(u)' = Owned(u)
    BY <1>9 DEF KallocFill, Goto, Acquire, Release, Fill, thread, Owned, InFlight
  <2> QED
    BY <1>0, <2>1
<1>10. ASSUME NEW t \in Thread, KfreeAcquire(t) PROVE Goal
  <2>1. \A u \in Thread : Owned(u)' = Owned(u)
    BY <1>10 DEF KfreeAcquire, Goto, Acquire, Release, Fill, thread, Owned, InFlight
  <2> QED
    BY <1>0, <2>1
<1>11. ASSUME NEW t \in Thread, KfreeNext(t) PROVE Goal
  <2>1. \A u \in Thread : Owned(u)' = Owned(u)
    BY <1>11 DEF KfreeNext, Goto, Acquire, Release, Fill, thread, Owned, InFlight
  <2> QED
    BY <1>0, <2>1
<1>12. ASSUME NEW t \in Thread, KfreeHead(t) PROVE Goal
  BY <1>12, PushStep
<1>13. ASSUME NEW t \in Thread, FreememRead(t) PROVE Goal
  <2>1. \A u \in Thread : Owned(u)' = Owned(u)
    BY <1>13 DEF FreememRead, Goto, Acquire, Release, Fill, thread, Owned, InFlight
  <2> QED
    BY <1>0, <2>1
<1>14. ASSUME NEW t \in Thread, FreememCount(t) PROVE Goal
  <2>1. \A u \in Thread : Owned(u)' = Owned(u)
    BY <1>14 DEF FreememCount, Goto, Acquire, Release, Fill, thread, Owned, InFlight
  <2> QED
    BY <1>0, <2>1
<1>15. ASSUME NEW t \in Thread, FreememDone(t) PROVE Goal
  <2>1. \A u \in Thread : Owned(u)' = Owned(u)
    BY <1>15 DEF FreememDone, Goto, Acquire, Release, Fill, thread, Owned, InFlight
  <2> QED
    BY <1>0, <2>1
<1> QED
  BY <1>1, <1>2, <1>3, <1>4, <1>5, <1>6, <1>7, <1>8,
     <1>9, <1>10, <1>11, <1>12, <1>13, <1>14, <1>15 DEF Next, Step

\* Who holds kmem.lock finds the list as it was when it was read.
LEMMA LockStep == TypeOK /\ LockInv /\ OwnInv /\ [Next]_vars => LockInv'
<1> SUFFICES ASSUME TypeOK /\ LockInv /\ OwnInv, [Next]_vars PROVE LockInv'
  OBVIOUS
<1> USE KallocAssumption DEF TypeOK, LockInv
<1>1. CASE UNCHANGED vars
  BY <1>1 DEF vars, thread
<1>2. ASSUME NEW t \in Thread, KallocAcquire(t) PROVE LockInv'
  BY <1>2 DEF KallocAcquire, Goto, Acquire, Release, Fill, thread
<1>3. ASSUME NEW t \in Thread, FreememAcquire(t) PROVE LockInv'
  BY <1>3 DEF FreememAcquire, Goto, Acquire, Release, Fill, thread
<1>4. ASSUME NEW t \in Thread, NEW p \in Page, Kfree(t, p) PROVE LockInv'
  <2>1. \A u \in Thread : pc[u] = "fhead" => r[u] # p
    BY <1>4 DEF Kfree, Goto, OwnInv, Owned, InFlight
  <2> QED
    BY <1>4, <2>1 DEF Kfree, Goto, Acquire, Release, Fill, thread
<1>5. ASSUME NEW t \in Thread, NEW p \in Page, NEW v \in UserWord, WritePage(t, p, v) PROVE LockInv'
  <2>1. \A u \in Thread : pc[u] = "fhead" => r[u] # p
    BY <1>5 DEF WritePage, Goto, OwnInv, Owned, InFlight
  <2> QED
    BY <1>5, <2>1 DEF WritePage, Goto, Acquire, Release, Fill, thread
<1>6. ASSUME NEW t \in Thread, KallocRead(t) PROVE LockInv'
  BY <1>6 DEF KallocRead, Goto, Acquire, Release, Fill, thread
<1>7. ASSUME NEW t \in Thread, KallocPop(t) PROVE LockInv'
  BY <1>7 DEF KallocPop, Goto, Acquire, Release, Fill, thread
<1>8. ASSUME NEW t \in Thread, KallocEmpty(t) PROVE LockInv'
  BY <1>8 DEF KallocEmpty, Goto, Acquire, Release, Fill, thread
<1>9. ASSUME NEW t \in Thread, KallocFill(t) PROVE LockInv'
  <2>1. \A u \in Thread : pc[u] = "fhead" => r[u] # r[t]
    BY <1>9 DEF KallocFill, Goto, OwnInv, Owned, InFlight
  <2> QED
    BY <1>9, <2>1 DEF KallocFill, Goto, Acquire, Release, Fill, thread
<1>10. ASSUME NEW t \in Thread, KfreeAcquire(t) PROVE LockInv'
  BY <1>10 DEF KfreeAcquire, Goto, Acquire, Release, Fill, thread
<1>11. ASSUME NEW t \in Thread, KfreeNext(t) PROVE LockInv'
  BY <1>11 DEF KfreeNext, Goto, Acquire, Release, Fill, thread
<1>12. ASSUME NEW t \in Thread, KfreeHead(t) PROVE LockInv'
  BY <1>12 DEF KfreeHead, Goto, Acquire, Release, Fill, thread
<1>13. ASSUME NEW t \in Thread, FreememRead(t) PROVE LockInv'
  BY <1>13 DEF FreememRead, Goto, Acquire, Release, Fill, thread
<1>14. ASSUME NEW t \in Thread, FreememCount(t) PROVE LockInv'
  BY <1>14 DEF FreememCount, Goto, Acquire, Release, Fill, thread
<1>15. ASSUME NEW t \in Thread, FreememDone(t) PROVE LockInv'
  BY <1>15 DEF FreememDone, Goto, Acquire, Release, Fill, thread
<1> QED
  BY <1>1, <1>2, <1>3, <1>4, <1>5, <1>6, <1>7, <1>8,
     <1>9, <1>10, <1>11, <1>12, <1>13, <1>14, <1>15 DEF Next, Step

\* A page on its way through kalloc() or kfree() is not in use.
LEMMA HeldStep == TypeOK /\ LockInv /\ OwnInv /\ ListInv /\ [Next]_vars =>
  (\A u \in Thread : held[u] \cap InFlight(u) = {})'
<1> SUFFICES ASSUME TypeOK /\ LockInv /\ OwnInv /\ ListInv, [Next]_vars
             PROVE (\A u \in Thread : held[u] \cap InFlight(u) = {})'
  OBVIOUS
<1> USE DEF TypeOK, LockInv, OwnInv
<1>1. CASE UNCHANGED vars
  BY <1>1 DEF vars, thread, InFlight
<1>2. ASSUME NEW t \in Thread, KallocAcquire(t)
      PROVE (\A u \in Thread : held[u] \cap InFlight(u) = {})'
  BY <1>2 DEF KallocAcquire, Goto, Acquire, Release, Fill, thread, InFlight
<1>3. ASSUME NEW t \in Thread, FreememAcquire(t)
      PROVE (\A u \in Thread : held[u] \cap InFlight(u) = {})'
  BY <1>3 DEF FreememAcquire, Goto, Acquire, Release, Fill, thread, InFlight
<1>4. ASSUME NEW t \in Thread, NEW p \in Page, Kfree(t, p)
      PROVE (\A u \in Thread : held[u] \cap InFlight(u) = {})'
  BY <1>4 DEF Kfree, Goto, Acquire, Release, Fill, thread, InFlight
<1>5. ASSUME NEW t \in Thread, NEW p \in Page, NEW v \in UserWord, WritePage(t, p, v)
      PROVE (\A u \in Thread : held[u] \cap InFlight(u) = {})'
  BY <1>5 DEF WritePage, Goto, Acquire, Release, Fill, thread, InFlight
<1>6. ASSUME NEW t \in Thread, KallocRead(t)
      PROVE (\A u \in Thread : held[u] \cap InFlight(u) = {})'
  BY <1>6 DEF KallocRead, Goto, Acquire, Release, Fill, thread, InFlight
<1>7. ASSUME NEW t \in Thread, KallocPop(t) PROVE (\A u \in Thread : held[u] \cap InFlight(u) = {})'
  <2>1. freelist \in FreePages /\ r[t] = freelist
    BY <1>7, ListFacts DEF KallocPop, Goto
  <2> QED
    BY <1>7, <2>1 DEF KallocPop, FreePages, Owned, InFlight, Goto, Acquire, Release, Fill, thread
<1>8. ASSUME NEW t \in Thread, KallocEmpty(t)
      PROVE (\A u \in Thread : held[u] \cap InFlight(u) = {})'
  BY <1>8 DEF KallocEmpty, Goto, Acquire, Release, Fill, thread, InFlight
<1>9. ASSUME NEW t \in Thread, KallocFill(t)
      PROVE (\A u \in Thread : held[u] \cap InFlight(u) = {})'
  BY <1>9 DEF KallocFill, Goto, Acquire, Release, Fill, thread, InFlight
<1>10. ASSUME NEW t \in Thread, KfreeAcquire(t)
       PROVE (\A u \in Thread : held[u] \cap InFlight(u) = {})'
  BY <1>10 DEF KfreeAcquire, Goto, Acquire, Release, Fill, thread, InFlight
<1>11. ASSUME NEW t \in Thread, KfreeNext(t)
       PROVE (\A u \in Thread : held[u] \cap InFlight(u) = {})'
  BY <1>11 DEF KfreeNext, Goto, Acquire, Release, Fill, thread, InFlight
<1>12. ASSUME NEW t \in Thread, KfreeHead(t)
       PROVE (\A u \in Thread : held[u] \cap InFlight(u) = {})'
  BY <1>12 DEF KfreeHead, Goto, Acquire, Release, Fill, thread, InFlight
<1>13. ASSUME NEW t \in Thread, FreememRead(t)
       PROVE (\A u \in Thread : held[u] \cap InFlight(u) = {})'
  BY <1>13 DEF FreememRead, Goto, Acquire, Release, Fill, thread, InFlight
<1>14. ASSUME NEW t \in Thread, FreememCount(t)
       PROVE (\A u \in Thread : held[u] \cap InFlight(u) = {})'
  BY <1>14 DEF FreememCount, Goto, Acquire, Release, Fill, thread, InFlight
<1>15. ASSUME NEW t \in Thread, FreememDone(t)
       PROVE (\A u \in Thread : held[u] \cap InFlight(u) = {})'
  BY <1>15 DEF FreememDone, Goto, Acquire, Release, Fill, thread, InFlight
<1> QED
  BY <1>1, <1>2, <1>3, <1>4, <1>5, <1>6, <1>7, <1>8,
     <1>9, <1>10, <1>11, <1>12, <1>13, <1>14, <1>15 DEF Next, Step

\* No step gives a page to two threads.
LEMMA OwnStep == TypeOK /\ LockInv /\ OwnInv /\ ListInv /\ [Next]_vars => OwnInv'
<1> SUFFICES ASSUME TypeOK, LockInv, OwnInv, ListInv, [Next]_vars PROVE OwnInv'
  OBVIOUS
<1>1. \A t, u \in Thread : t # u => Owned(t)' \cap Owned(u)' = {}
  <2>1. CASE Keeps
    BY <2>1 DEF Keeps, OwnInv
  <2>2. ASSUME NEW t \in Thread, Pops(t)
        PROVE  \A u, w \in Thread : u # w => Owned(u)' \cap Owned(w)' = {}
    BY <2>2 DEF Pops, OwnInv, FreePages
  <2>3. ASSUME NEW t \in Thread, Pushes(t)
        PROVE  \A u, w \in Thread : u # w => Owned(u)' \cap Owned(w)' = {}
    BY <2>3 DEF Pushes, OwnInv
  <2> QED
    BY <2>1, <2>2, <2>3, OwnedStep
<1> QED
  BY <1>1, HeldStep DEF OwnInv

\* While the pages stay where they are and the free ones are not written to, so does the list.
LEMMA ListKept ==
  ASSUME NEW K \in Nat, NEW at \in [1 .. K -> Page], Lists(K, at),
         Keeps, freelist' = freelist, \A p \in FreePages : word'[p] = word[p]
  PROVE  Lists(K, at)'
  BY DEF Lists, Keeps

\* Every step keeps the list whole, also while its links are being written.
LEMMA ListStep == TypeOK /\ LockInv /\ OwnInv /\ ListInv /\ [Next]_vars => ListInv'
<1> SUFFICES ASSUME TypeOK /\ LockInv /\ OwnInv /\ ListInv, [Next]_vars PROVE ListInv'
  OBVIOUS
<1> USE DEF TypeOK, LockInv
<1>0. ASSUME Keeps, freelist' = freelist, \A p \in FreePages : word'[p] = word[p],
            \A u \in Thread : pc'[u] = "mwalk" => pc[u] = "mwalk" /\ r'[u] = r[u] /\ count'[u] = count[u]
      PROVE ListInv'
  <2>1. PICK K \in Nat : \E at \in [1 .. K -> Page] : Lists(K, at) /\ Walks(K, at)
    BY DEF ListInv
  <2>2. PICK at \in [1 .. K -> Page] : Lists(K, at) /\ Walks(K, at)
    BY <2>1
  <2>3. Lists(K, at)'
    BY <1>0, <2>2, ListKept
  <2>4. ASSUME NEW u \in Thread, pc'[u] = "mwalk"
        PROVE  \E i \in 0 .. K : r'[u] = (IF i = 0 THEN Null ELSE at[i]) /\ count'[u] = K - i
    <3>1. \E i \in 0 .. K : r[u] = (IF i = 0 THEN Null ELSE at[i]) /\ count[u] = K - i
      BY <1>0, <2>2, <2>4 DEF Walks
    <3>2. r'[u] = r[u] /\ count'[u] = count[u]
      BY <1>0, <2>4
    <3> QED
      BY <3>1, <3>2
  <2>5. Walks(K, at)'
    BY <2>4 DEF Walks
  <2> QED
    BY <2>1, <2>3, <2>5 DEF ListInv
<1>1. CASE UNCHANGED vars
  <2>1. Keeps
    BY <1>1 DEF vars, thread, Keeps, Owned, InFlight, FreePages
  <2> QED
    BY <1>0, <1>1, <2>1 DEF vars, thread
<1>2. ASSUME NEW t \in Thread, KallocAcquire(t) PROVE ListInv'
  <2>2. freelist' = freelist /\ \A q \in FreePages : word'[q] = word[q]
    BY <1>2 DEF KallocAcquire, Goto, Acquire, Release, Fill, thread, FreePages
  <2>3. \A u \in Thread : pc'[u] = "mwalk" => pc[u] = "mwalk" /\ r'[u] = r[u] /\ count'[u] = count[u]
    BY <1>2 DEF KallocAcquire, Goto, Acquire, Release, Fill, thread
  <2>4. Keeps
    BY <1>2, OwnedStep DEF Pops, Pushes, KallocAcquire, KallocPop, KfreeHead, Goto, thread
  <2> QED
    BY <1>0, <2>2, <2>3, <2>4
<1>3. ASSUME NEW t \in Thread, FreememAcquire(t) PROVE ListInv'
  <2>2. freelist' = freelist /\ \A q \in FreePages : word'[q] = word[q]
    BY <1>3 DEF FreememAcquire, Goto, Acquire, Release, Fill, thread, FreePages
  <2>3. \A u \in Thread : pc'[u] = "mwalk" => pc[u] = "mwalk" /\ r'[u] = r[u] /\ count'[u] = count[u]
    BY <1>3 DEF FreememAcquire, Goto, Acquire, Release, Fill, thread
  <2>4. Keeps
    BY <1>3, OwnedStep DEF Pops, Pushes, FreememAcquire, KallocPop, KfreeHead, Goto, thread
  <2> QED
    BY <1>0, <2>2, <2>3, <2>4
<1>4. ASSUME NEW t \in Thread, NEW p \in Page, Kfree(t, p) PROVE ListInv'
  <2>1. p \notin FreePages
    BY <1>4 DEF Kfree, Goto, FreePages, Owned, InFlight
  <2>2. freelist' = freelist /\ \A q \in FreePages : word'[q] = word[q]
    BY <1>4, <2>1 DEF Kfree, Goto, Acquire, Release, Fill, thread, FreePages
  <2>3. \A u \in Thread : pc'[u] = "mwalk" => pc[u] = "mwalk" /\ r'[u] = r[u] /\ count'[u] = count[u]
    BY <1>4 DEF Kfree, Goto, Acquire, Release, Fill, thread
  <2>4. Keeps
    BY <1>4, OwnedStep DEF Pops, Pushes, Kfree, KallocPop, KfreeHead, Goto, thread
  <2> QED
    BY <1>0, <2>2, <2>3, <2>4
<1>5. ASSUME NEW t \in Thread, NEW p \in Page, NEW v \in UserWord, WritePage(t, p, v) PROVE ListInv'
  <2>1. p \notin FreePages
    BY <1>5 DEF WritePage, Goto, FreePages, Owned, InFlight
  <2>2. freelist' = freelist /\ \A q \in FreePages : word'[q] = word[q]
    BY <1>5, <2>1 DEF WritePage, Goto, Acquire, Release, Fill, thread, FreePages
  <2>3. \A u \in Thread : pc'[u] = "mwalk" => pc[u] = "mwalk" /\ r'[u] = r[u] /\ count'[u] = count[u]
    BY <1>5 DEF WritePage, Goto, Acquire, Release, Fill, thread
  <2>4. Keeps
    BY <1>5, OwnedStep DEF Pops, Pushes, WritePage, KallocPop, KfreeHead, Goto, thread
  <2> QED
    BY <1>0, <2>2, <2>3, <2>4
<1>6. ASSUME NEW t \in Thread, KallocRead(t) PROVE ListInv'
  <2>2. freelist' = freelist /\ \A q \in FreePages : word'[q] = word[q]
    BY <1>6 DEF KallocRead, Goto, Acquire, Release, Fill, thread, FreePages
  <2>3. \A u \in Thread : pc'[u] = "mwalk" => pc[u] = "mwalk" /\ r'[u] = r[u] /\ count'[u] = count[u]
    BY <1>6 DEF KallocRead, Goto, Acquire, Release, Fill, thread
  <2>4. Keeps
    BY <1>6, OwnedStep DEF Pops, Pushes, KallocRead, KallocPop, KfreeHead, Goto, thread
  <2> QED
    BY <1>0, <2>2, <2>3, <2>4
<1>7. ASSUME NEW t \in Thread, KallocPop(t) PROVE ListInv'
  <2>1. Pops(t)
    BY <1>7, PopStep
  <2>2. \A u \in Thread : pc'[u] # "mwalk"
    BY <1>7 DEF KallocPop, Goto
  <2>3. PICK K \in Nat : \E at \in [1 .. K -> Page] : Lists(K, at)
    BY DEF ListInv
  <2>4. PICK at \in [1 .. K -> Page] : Lists(K, at)
    BY <2>3
  <2>5. freelist \in FreePages /\ freelist' = word[freelist] /\ word' = word
        /\ FreePages' = FreePages \ {freelist}
    BY <2>1, <1>7 DEF Pops, KallocPop, Goto
  <2>6. K # 0 /\ K \in 1 .. K /\ K - 1 \in Nat /\ freelist = at[K]
    BY <2>4, <2>5, <2>3 DEF Lists
  <2> DEFINE below == [i \in 1 .. K - 1 |-> at[i]]
  <2>7. below \in [1 .. K - 1 -> Page] /\ \A i \in 1 .. K - 1 : i \in 1 .. K /\ i # K /\ below[i] = at[i]
    BY <2>6
  <2>8. FreePages' = {below[i] : i \in 1 .. K - 1}
    <3>1. \A i \in 1 .. K : i = K \/ i \in 1 .. K - 1
      BY <2>6
    <3> QED
      BY <2>4, <2>5, <2>6, <2>7, <3>1 DEF Lists
  <2>9. freelist' = IF K - 1 = 0 THEN Null ELSE below[K - 1]
    <3>1. K = 1 \/ K - 1 \in 1 .. K - 1
      BY <2>6
    <3> QED
      BY <2>4, <2>5, <2>6, <3>1 DEF Lists
  <2>10. \A i \in 1 .. K - 1 : word'[below[i]] = IF i = 1 THEN Null ELSE below[i - 1]
    <3>1. \A i \in 1 .. K - 1 : i = 1 \/ i - 1 \in 1 .. K - 1
      BY <2>6
    <3> QED
      BY <2>4, <2>5, <2>7, <3>1 DEF Lists
  <2>11. Lists(K - 1, below)'
    BY <2>4, <2>7, <2>8, <2>9, <2>10 DEF Lists
  <2> HIDE DEF below
  <2>12. Walks(K - 1, below)'
    BY <2>2 DEF Walks
  <2> QED
    BY <2>6, <2>7, <2>11, <2>12 DEF ListInv
<1>8. ASSUME NEW t \in Thread, KallocEmpty(t) PROVE ListInv'
  <2>2. freelist' = freelist /\ \A q \in FreePages : word'[q] = word[q]
    BY <1>8 DEF KallocEmpty, Goto, Acquire, Release, Fill, thread, FreePages
  <2>3. \A u \in Thread : pc'[u] = "mwalk" => pc[u] = "mwalk" /\ r'[u] = r[u] /\ count'[u] = count[u]
    BY <1>8 DEF KallocEmpty, Goto, Acquire, Release, Fill, thread
  <2>4. Keeps
    BY <1>8, OwnedStep DEF Pops, Pushes, KallocEmpty, KallocPop, KfreeHead, Goto, thread
  <2> QED
    BY <1>0, <2>2, <2>3, <2>4
<1>9. ASSUME NEW t \in Thread, KallocFill(t) PROVE ListInv'
  <2>1. r[t] \notin FreePages
    BY <1>9 DEF KallocFill, Goto, FreePages, Owned, InFlight
  <2>2. freelist' = freelist /\ \A q \in FreePages : word'[q] = word[q]
    BY <1>9, <2>1 DEF KallocFill, Goto, Acquire, Release, Fill, thread, FreePages
  <2>3. \A u \in Thread : pc'[u] = "mwalk" => pc[u] = "mwalk" /\ r'[u] = r[u] /\ count'[u] = count[u]
    BY <1>9 DEF KallocFill, Goto, Acquire, Release, Fill, thread
  <2>4. Keeps
    BY <1>9, OwnedStep DEF Pops, Pushes, KallocFill, KallocPop, KfreeHead, Goto, thread
  <2> QED
    BY <1>0, <2>2, <2>3, <2>4
<1>10. ASSUME NEW t \in Thread, KfreeAcquire(t) PROVE ListInv'
  <2>2. freelist' = freelist /\ \A q \in FreePages : word'[q] = word[q]
    BY <1>10 DEF KfreeAcquire, Goto, Acquire, Release, Fill, thread, FreePages
  <2>3. \A u \in Thread : pc'[u] = "mwalk" => pc[u] = "mwalk" /\ r'[u] = r[u] /\ count'[u] = count[u]
    BY <1>10 DEF KfreeAcquire, Goto, Acquire, Release, Fill, thread
  <2>4. Keeps
    BY <1>10, OwnedStep DEF Pops, Pushes, KfreeAcquire, KallocPop, KfreeHead, Goto, thread
  <2> QED
    BY <1>0, <2>2, <2>3, <2>4
<1>11. ASSUME NEW t \in Thread, KfreeNext(t) PROVE ListInv'
  <2>1. r[t] \notin FreePages
    BY <1>11 DEF KfreeNext, Goto, FreePages, Owned, InFlight
  <2>2. freelist' = freelist /\ \A q \in FreePages : word'[q] = word[q]
    BY <1>11, <2>1 DEF KfreeNext, Goto, Acquire, Release, Fill, thread, FreePages
  <2>3. \A u \in Thread : pc'[u] = "mwalk" => pc[u] = "mwalk" /\ r'[u] = r[u] /\ count'[u] = count[u]
    BY <1>11 DEF KfreeNext, Goto, Acquire, Release, Fill, thread
  <2>4. Keeps
    BY <1>11, OwnedStep DEF Pops, Pushes, KfreeNext, KallocPop, KfreeHead, Goto, thread
  <2> QED
    BY <1>0, <2>2, <2>3, <2>4
<1>12. ASSUME NEW t \in Thread, KfreeHead(t) PROVE ListInv'
  <2>1. Pushes(t)
    BY <1>12, PushStep
  <2>2. \A u \in Thread : pc'[u] # "mwalk"
    BY <1>12 DEF KfreeHead, Goto
  <2>3. PICK K \in Nat : \E at \in [1 .. K -> Page] : Lists(K, at)
    BY DEF ListInv
  <2>4. PICK at \in [1 .. K -> Page] : Lists(K, at)
    BY <2>3
  <2>5. /\ r[t] \in Page /\ r[t] \notin FreePages /\ word[r[t]] = freelist
        /\ freelist' = r[t] /\ word' = word
        /\ FreePages' = FreePages \cup {r[t]}
    BY <2>1, <1>12 DEF Pushes, KfreeHead, Goto, FreePages
  <2>6. /\ K + 1 \in Nat /\ K + 1 # 0 /\ K + 1 \in 1 .. K + 1
        /\ \A i \in 1 .. K + 1 : i = K + 1 \/ i \in 1 .. K
        /\ \A i \in 1 .. K : i \in 1 .. K + 1 /\ i # K + 1
    BY <2>3
  <2>7. PICK above \in [1 .. K + 1 -> Page] :
          above[K + 1] = r[t] /\ \A i \in 1 .. K : above[i] = at[i]
    <3>1. [i \in 1 .. K + 1 |-> IF i = K + 1 THEN r[t] ELSE at[i]] \in [1 .. K + 1 -> Page]
      BY <2>5, <2>6
    <3> QED
      BY <2>6, <3>1
  <2>8. \A i \in 1 .. K : at[i] # r[t]
    BY <2>4, <2>5 DEF Lists
  <2>9. \A i, j \in 1 .. K + 1 : above[i] = above[j] => i = j
    BY <2>4, <2>6, <2>7, <2>8 DEF Lists
  <2>10. FreePages' = {above[i] : i \in 1 .. K + 1}
    BY <2>4, <2>5, <2>6, <2>7 DEF Lists
  <2>11. \A i \in 1 .. K + 1 : word'[above[i]] = IF i = 1 THEN Null ELSE above[i - 1]
    <3>1. ASSUME NEW i \in 1 .. K PROVE word'[above[i]] = IF i = 1 THEN Null ELSE above[i - 1]
      <4>1. i = 1 \/ i - 1 \in 1 .. K
        OBVIOUS
      <4> QED
        BY <2>4, <2>5, <2>7, <4>1 DEF Lists
    <3>2. word'[above[K + 1]] = IF K + 1 = 1 THEN Null ELSE above[K]
      <4>1. K = 0 \/ K \in 1 .. K
        BY <2>3
      <4> QED
        BY <2>3, <2>4, <2>5, <2>7, <4>1 DEF Lists
    <3>3. (K + 1) - 1 = K
      BY <2>3
    <3> QED
      BY <2>6, <3>1, <3>2, <3>3
  <2> PICK L \in Nat : L = K + 1
    BY <2>6
  <2>12. Lists(L, above)'
    <3>1. /\ L # 0 /\ freelist' = above[L]
          /\ \A i, j \in 1 .. L : above[i] = above[j] => i = j
          /\ FreePages' = {above[i] : i \in 1 .. L}
          /\ \A i \in 1 .. L : word'[above[i]] = IF i = 1 THEN Null ELSE above[i - 1]
      BY <2>5, <2>6, <2>7, <2>9, <2>10, <2>11
    <3> QED
      BY <3>1 DEF Lists
  <2>13. Walks(L, above)'
    BY <2>2 DEF Walks
  <2>14. L \in Nat /\ above \in [1 .. L -> Page]
    BY <2>6, <2>7
  <2> QED
    BY <2>12, <2>13, <2>14 DEF ListInv
<1>13. ASSUME NEW t \in Thread, FreememRead(t) PROVE ListInv'
  <2>2. freelist' = freelist /\ \A q \in FreePages : word'[q] = word[q]
    BY <1>13 DEF FreememRead
  <2>4. Keeps
    BY <1>13, OwnedStep DEF Pops, Pushes, FreememRead, KallocPop, KfreeHead, Goto, thread
  <2>5. PICK K \in Nat : \E at \in [1 .. K -> Page] : Lists(K, at) /\ Walks(K, at)
    BY DEF ListInv
  <2>6. PICK at \in [1 .. K -> Page] : Lists(K, at) /\ Walks(K, at)
    BY <2>5
  <2>7. Lists(K, at)'
    BY <2>2, <2>4, <2>6, ListKept
  <2>8. \A u \in Thread \ {t} : pc'[u] = pc[u] /\ r'[u] = r[u] /\ count'[u] = count[u]
    BY <1>13 DEF FreememRead, Goto
  <2>9. \E i \in 0 .. K : r'[t] = (IF i = 0 THEN Null ELSE at[i]) /\ count'[t] = K - i
    <3>1. r'[t] = (IF K = 0 THEN Null ELSE at[K]) /\ count'[t] = K - K
      BY <1>13, <2>6 DEF FreememRead, Goto, Lists
    <3> QED
      BY <3>1, <2>5
  <2>10. Walks(K, at)'
    BY <2>6, <2>8, <2>9 DEF Walks
  <2> QED
    BY <2>5, <2>7, <2>10 DEF ListInv
<1>14. ASSUME NEW t \in Thread, FreememCount(t) PROVE ListInv'
  <2>2. freelist' = freelist /\ \A q \in FreePages : word'[q] = word[q]
    BY <1>14 DEF FreememCount
  <2>4. Keeps
    BY <1>14, OwnedStep DEF Pops, Pushes, FreememCount, KallocPop, KfreeHead, Goto, thread
  <2>5. PICK K \in Nat : \E at \in [1 .. K -> Page] : Lists(K, at) /\ Walks(K, at)
    BY DEF ListInv
  <2>6. PICK at \in [1 .. K -> Page] : Lists(K, at) /\ Walks(K, at)
    BY <2>5
  <2>7. Lists(K, at)'
    BY <2>2, <2>4, <2>6, ListKept
  <2>8. \A u \in Thread \ {t} : pc'[u] = pc[u] /\ r'[u] = r[u] /\ count'[u] = count[u]
    BY <1>14 DEF FreememCount, Goto
  <2>9. \E i \in 0 .. K : r'[t] = (IF i = 0 THEN Null ELSE at[i]) /\ count'[t] = K - i
    <3>1. PICK i \in 0 .. K : r[t] = (IF i = 0 THEN Null ELSE at[i]) /\ count[t] = K - i
      BY <1>14, <2>6 DEF FreememCount, Walks
    <3>2. i \in 1 .. K /\ i - 1 \in 0 .. K /\ r[t] = at[i] /\ count[t] = K - i
      BY <1>14, <3>1 DEF FreememCount
    <3>3. word[at[i]] = IF i - 1 = 0 THEN Null ELSE at[i - 1]
      BY <2>6, <3>2 DEF Lists
    <3>4. r'[t] = word[at[i]] /\ count'[t] = (K - i) + 1
      BY <1>14, <3>2 DEF FreememCount
    <3>5. count'[t] = K - (i - 1)
      BY <3>2, <3>4
    <3> QED
      BY <3>2, <3>3, <3>4, <3>5
  <2>10. Walks(K, at)'
    BY <2>6, <2>8, <2>9 DEF Walks
  <2> QED
    BY <2>5, <2>7, <2>10 DEF ListInv
<1>15. ASSUME NEW t \in Thread, FreememDone(t) PROVE ListInv'
  <2>2. freelist' = freelist /\ \A q \in FreePages : word'[q] = word[q]
    BY <1>15 DEF FreememDone, Goto, Acquire, Release, Fill, thread, FreePages
  <2>3. \A u \in Thread : pc'[u] = "mwalk" => pc[u] = "mwalk" /\ r'[u] = r[u] /\ count'[u] = count[u]
    BY <1>15 DEF FreememDone, Goto, Acquire, Release, Fill, thread
  <2>4. Keeps
    BY <1>15, OwnedStep DEF Pops, Pushes, FreememDone, KallocPop, KfreeHead, Goto, thread
  <2> QED
    BY <1>0, <2>2, <2>3, <2>4
<1> QED
  BY <1>1, <1>2, <1>3, <1>4, <1>5, <1>6, <1>7, <1>8,
     <1>9, <1>10, <1>11, <1>12, <1>13, <1>14, <1>15 DEF Next, Step

\* The list goes through every free page once, and what a thread inside the allocator has read
\* is what the list is.
THEOREM KallocCorrect == Spec => []IInv
<1>1. IInv /\ [Next]_vars => IInv'
  BY TypeStep, LockStep, OwnStep, ListStep DEF IInv
<1> QED
  BY KallocInit, <1>1, PTL DEF Spec

\* freemem() returns the number of pages that are free when it lets go of the lock.
THEOREM FreememExactCorrect == Spec => []FreememExact
<1>1. IInv => FreememExact
  <2> SUFFICES ASSUME IInv, NEW t \in Thread, pc[t] = "mwalk", r[t] = Null
               PROVE  count[t] = Cardinality(FreePages)
    BY DEF FreememExact
  <2>1. PICK K \in Nat : \E at \in [1 .. K -> Page] : Lists(K, at) /\ Walks(K, at)
    BY DEF IInv, ListInv
  <2>2. PICK at \in [1 .. K -> Page] : Lists(K, at) /\ Walks(K, at)
    BY <2>1
  <2>3. count[t] = K
    <3>1. PICK i \in 0 .. K : Null = (IF i = 0 THEN Null ELSE at[i]) /\ count[t] = K - i
      BY <2>2 DEF Walks
    <3>2. i = 0 \/ i \in 1 .. K
      OBVIOUS
    <3>3. i = 0
      BY <3>1, <3>2, NullNotPage
    <3> QED
      BY <2>1, <3>1, <3>3
  <2>4. at \in Bijection(1 .. K, FreePages)
    <3>1. at \in [1 .. K -> FreePages] /\ \A p \in FreePages : \E i \in 1 .. K : at[i] = p
      BY <2>2 DEF Lists
    <3>2. \A i, j \in 1 .. K : at[i] = at[j] => i = j
      BY <2>2 DEF Lists
    <3> QED
      BY <3>1, <3>2 DEF Bijection, Injection, Surjection, IsInjective
  <2>5. Cardinality(FreePages) = K
    BY <2>4, FS_CountingElements DEF ExistsBijection
  <2> QED
    BY <2>3, <2>5
<1> QED
  BY <1>1, KallocCorrect, PTL

\* kalloc() and kfree() are atomic to their callers, and kalloc() returns 0 only when no
\* page is free: the step at which it finds the list empty.
THEOREM AllocatorSpecCorrect == Spec => AllocatorSpec
<1> USE DEF Allocator!avars
<1>1. Init => Allocator!AllocatorInit
  BY DEF Init, Allocator!AllocatorInit, FreePages, Owned, InFlight
<1>2. IInv /\ [Next]_vars => [Allocator!AllocatorNext]_(Allocator!avars)
  <2> SUFFICES ASSUME IInv, [Next]_vars
               PROVE  [Allocator!AllocatorNext]_(Allocator!avars)
    OBVIOUS
  <2>1. TypeOK /\ LockInv /\ OwnInv /\ ListInv
    BY DEF IInv
  <2>2. ASSUME NEW t \in Thread, Pops(t) PROVE Allocator!Alloc(t)
    <3>1. failed' = [failed EXCEPT ![t] = FALSE]
      BY <2>2 DEF Pops, KallocPop
    <3> QED
      BY <2>2, <3>1 DEF Pops, Allocator!Alloc
  <2>3. ASSUME NEW t \in Thread, Pushes(t) PROVE Allocator!Free(t)
    <3>1. failed' = failed
      BY <2>3 DEF Pushes, KfreeHead
    <3> QED
      BY <2>3, <3>1 DEF Pushes, Allocator!Free
  <2>4. ASSUME Keeps, failed' = failed PROVE UNCHANGED Allocator!avars
    BY <2>4 DEF Keeps
  <2>5. ASSUME NEW t \in Thread, Keeps, KallocEmpty(t) PROVE Allocator!AllocFails(t)
    <3>1. FreePages = {}
      BY <2>1, <2>5, ListFacts DEF KallocEmpty, Goto, LockInv
    <3>2. failed' = [failed EXCEPT ![t] = TRUE]
      BY <2>5 DEF KallocEmpty
    <3> QED
      BY <2>5, <3>1, <3>2 DEF Keeps, Allocator!AllocFails
  <2>6. \/ failed' = failed
        \/ \E t \in Thread : KallocPop(t) \/ KallocEmpty(t)
    BY DEF vars, thread, Next, Step, KallocAcquire, FreememAcquire, Kfree, WritePage, KallocRead,
           KallocFill, KfreeAcquire, KfreeNext, KfreeHead, FreememRead, FreememCount, FreememDone
  <2>7. ASSUME NEW t \in Thread, KallocPop(t) PROVE Pops(t)
    BY <2>1, <2>7, PopStep
  <2>8. Keeps \/ \E t \in Thread : Pops(t) \/ Pushes(t)
    BY <2>1, OwnedStep
  <2> QED
    BY <2>2, <2>3, <2>4, <2>5, <2>6, <2>7, <2>8 DEF Allocator!AllocatorNext
<1> QED
  BY KallocCorrect, <1>1, <1>2, PTL DEF Spec, AllocatorSpec, Allocator!Spec

-----------------------------------------------------------------------------
\* The walk down the list is any function that follows the links: the recursion defines it.
LEMMA PointerDef ==
  ASSUME NEW f, f = [n \in 0 .. NPages |->
                       IF n = 0 THEN freelist
                       ELSE IF f[n - 1] \in Page THEN word[f[n - 1]] ELSE Null]
  PROVE  Pointer = [n \in 0 .. NPages |->
                       IF n = 0 THEN freelist
                       ELSE IF Pointer[n - 1] \in Page THEN word[Pointer[n - 1]] ELSE Null]
<1> DEFINE P(g) == g = [n \in 0 .. NPages |->
                       IF n = 0 THEN freelist
                       ELSE IF g[n - 1] \in Page THEN word[g[n - 1]] ELSE Null]
<1>1. Pointer = CHOOSE g : P(g)
  BY DEF Pointer
<1>2. P(f)
  OBVIOUS
<1> HIDE DEF P
<1>3. \E g : P(g)
  BY <1>2
<1>4. P(CHOOSE g : P(g))
  BY <1>3
<1>5. P(Pointer)
  BY <1>1, <1>4
<1> QED
  BY <1>5 DEF P

\* Among some of the numbers up to m one is the least.
LEMMA LeastNumber ==
  ASSUME NEW m \in Nat, NEW S \in SUBSET (0 .. m), S # {}
  PROVE  \E n \in S : \A k \in S : n <= k
<1> DEFINE R == StrictSubsetOrdering(0 .. m)
           T == {0 .. n : n \in S}
<1>1. IsFiniteSet(0 .. m)
  BY FS_Interval
<1>2. IsWellFoundedOn(R, SUBSET (0 .. m))
  BY <1>1, FS_StrictSubsetOrderingWellFounded, FS_FiniteSubsetsOfFinite
<1>3. T \subseteq SUBSET (0 .. m) /\ T # {}
  <2>1. ASSUME NEW n \in S PROVE 0 .. n \subseteq 0 .. m
    OBVIOUS
  <2> QED
    BY <2>1
<1> HIDE DEF R
<1>4. PICK A \in T : \A B \in T : ~(<<B, A>> \in R)
  BY <1>2, <1>3, WFMin
<1>5. PICK n \in S : A = 0 .. n
  OBVIOUS
<1>6. ASSUME NEW k \in S, ~(n <= k) PROVE FALSE
  <2>1. 0 .. k \in T /\ 0 .. k \subseteq A /\ 0 .. k # A
    <3>1. k \in Nat /\ n \in Nat /\ k < n
      BY <1>6
    <3>2. n \in 0 .. n /\ n \notin 0 .. k
      BY <3>1
    <3>3. 0 .. k \subseteq 0 .. n
      BY <3>1
    <3> QED
      BY <1>5, <3>2, <3>3
  <2>2. <<0 .. k, A>> \in R
    BY <1>3, <2>1 DEF R, StrictSubsetOrdering
  <2> QED
    BY <1>4, <2>1, <2>2
<1> QED
  BY <1>5, <1>6

\* Following the links from freelist goes down the list, page by page, and then stays at its end.
LEMMA PointerFacts ==
  ASSUME TypeOK, NEW K \in Nat, NEW at \in [1 .. K -> Page], Lists(K, at)
  PROVE  K <= NPages /\ \A n \in 0 .. NPages : Pointer[n] = IF n < K THEN at[K - n] ELSE Null
<1>0. NPages \in Nat /\ NPages > 0 /\ IsFiniteSet(Page) /\ Cardinality(Page) = NPages
  <2>1. NPages \in Nat /\ NPages > 0
    BY KallocAssumption
  <2> QED
    BY <2>1, FS_Interval DEF Page
<1>1. K <= NPages
  <2>1. at \in Injection(1 .. K, Page)
    BY DEF Lists, Injection, IsInjective
  <2>2. Cardinality(1 .. K) = K
    BY FS_Interval
  <2> QED
    BY <1>0, <2>1, <2>2, FS_Injection
<1> DEFINE F == [n \in 0 .. NPages |-> IF n < K THEN at[K - n] ELSE Null]
           G == [n \in 0 .. NPages |->
                   IF n = 0 THEN freelist ELSE IF F[n - 1] \in Page THEN word[F[n - 1]] ELSE Null]
<1>2. ASSUME NEW n \in 0 .. NPages PROVE F[n] = G[n]
  <2>1. CASE n = 0
    BY <1>0, <2>1 DEF Lists
  <2>2. CASE n # 0 /\ n - 1 < K
    <3>1. n - 1 \in 0 .. NPages /\ K - (n - 1) \in 1 .. K /\ n \in Int
      BY <1>0, <2>2
    <3>2. F[n - 1] = at[K - (n - 1)] /\ F[n - 1] \in Page
      BY <2>2, <3>1
    <3>3. word[F[n - 1]] = IF K - (n - 1) = 1 THEN Null ELSE at[(K - (n - 1)) - 1]
      BY <3>1, <3>2 DEF Lists
    <3>4. (K - (n - 1) = 1 <=> ~(n < K)) /\ (K - (n - 1)) - 1 = K - n
      BY <2>2, <3>1
    <3>5. F[n] = IF n < K THEN at[K - n] ELSE Null
      OBVIOUS
    <3> QED
      BY <2>2, <3>2, <3>3, <3>4, <3>5
  <2>3. CASE n # 0 /\ ~(n - 1 < K)
    <3>1. n - 1 \in 0 .. NPages /\ ~(n < K)
      BY <1>0, <2>3
    <3>2. F[n - 1] = Null /\ F[n] = Null
      BY <2>3, <3>1
    <3> QED
      BY <2>3, <3>2, NullNotPage
  <2> QED
    BY <2>1, <2>2, <2>3
<1>3. F = G
  BY <1>2
<1> HIDE DEF F
<1>4. Pointer = [n \in 0 .. NPages |->
                   IF n = 0 THEN freelist
                   ELSE IF Pointer[n - 1] \in Page THEN word[Pointer[n - 1]] ELSE Null]
  BY <1>3, PointerDef
<1>5. \A n \in 0 .. NPages : Pointer[n] = F[n]
  <2> DEFINE S == {n \in 0 .. NPages : Pointer[n] # F[n]}
  <2> SUFFICES ASSUME S # {} PROVE FALSE
    OBVIOUS
  <2>1. PICK n \in S : \A k \in S : n <= k
    <3>1. S \in SUBSET (0 .. NPages)
      OBVIOUS
    <3> HIDE DEF S
    <3> QED
      BY <1>0, <3>1, LeastNumber
  <2>2. CASE n = 0
    BY <1>0, <1>3, <1>4, <2>1, <2>2
  <2>3. CASE n # 0
    <3>1. n - 1 \in 0 .. NPages /\ ~(n <= n - 1) /\ n \in 0 .. NPages
      BY <1>0, <2>1, <2>3
    <3>2. Pointer[n - 1] = F[n - 1]
      BY <2>1, <3>1
    <3>3. Pointer[n] = IF Pointer[n - 1] \in Page THEN word[Pointer[n - 1]] ELSE Null
      BY <1>4, <2>3, <3>1
    <3>4. F[n] = G[n] /\ G[n] = IF F[n - 1] \in Page THEN word[F[n - 1]] ELSE Null
      BY <1>2, <2>3, <3>1
    <3> QED
      BY <2>1, <3>2, <3>3, <3>4
  <2> QED
    BY <2>2, <2>3
<1> QED
  BY <1>1, <1>5 DEF F

\* Every page is on the list, or with one thread and once, and the list ends (kalloc.c:54-81).
THEOREM EveryPageOnceCorrect == Spec => []EveryPageOnce
<1>1. IInv => EveryPageOnce
  <2> SUFFICES ASSUME IInv PROVE EveryPageOnce
    OBVIOUS
  <2>0. TypeOK /\ OwnInv /\ NPages \in Nat
    BY KallocAssumption DEF IInv
  <2>1. PICK K \in Nat : \E at \in [1 .. K -> Page] : Lists(K, at) /\ Walks(K, at)
    BY DEF IInv, ListInv
  <2>2. PICK at \in [1 .. K -> Page] : Lists(K, at)
    BY <2>1
  <2>3. K <= NPages /\ \A n \in 0 .. NPages : Pointer[n] = IF n < K THEN at[K - n] ELSE Null
    BY <2>0, <2>2, PointerFacts
  <2>4. Pointer[NPages] = Null
    BY <2>0, <2>3
  <2>5. OnList = FreePages
    <3>1. FreePages = {at[i] : i \in 1 .. K}
      BY <2>2 DEF Lists
    <3>2. ASSUME NEW i \in 1 .. K PROVE at[i] \in OnList
      <4>1. K - i \in 0 .. NPages /\ K - i < K /\ K - (K - i) = i
        BY <2>0, <2>3
      <4>2. Pointer[K - i] = at[i]
        BY <2>3, <4>1
      <4> QED
        BY <4>1, <4>2 DEF OnList
    <3>3. ASSUME NEW p \in OnList PROVE p \in {at[i] : i \in 1 .. K}
      <4>1. PICK n \in 0 .. NPages : p = Pointer[n] /\ p \in Page
        BY DEF OnList
      <4>2. n < K /\ p = at[K - n]
        BY <2>3, <4>1, NullNotPage
      <4>3. K - n \in 1 .. K
        BY <2>0, <4>2
      <4> QED
        BY <4>2, <4>3
    <3> QED
      BY <3>1, <3>2, <3>3
  <2>6. ASSUME NEW p \in Page
        PROVE  Cardinality({t \in Thread : p \in held[t]})
                 + Cardinality({t \in Thread : p \in InFlight(t)}) = IF p \in OnList THEN 0 ELSE 1
    <3>0. Cardinality({}) = 0 /\ \A t : Cardinality({t}) = 1
      BY FS_EmptySet, FS_Singleton
    <3>1. CASE p \in FreePages
      <4>1. {t \in Thread : p \in held[t]} = {} /\ {t \in Thread : p \in InFlight(t)} = {}
        BY <3>1 DEF FreePages, Owned
      <4>2. /\ Cardinality({u \in Thread : p \in held[u]}) = 0
            /\ Cardinality({u \in Thread : p \in InFlight(u)}) = 0
        BY <3>0, <4>1
      <4> QED
        BY <2>5, <3>1, <4>2
    <3>2. CASE p \notin FreePages
      <4>1. PICK t \in Thread : p \in Owned(t)
        BY <3>2 DEF FreePages
      <4>2. \A u \in Thread : u # t => p \notin Owned(u)
        BY <2>0, <4>1 DEF OwnInv
      <4>3. \A u \in Thread : p \in Owned(u) <=> p \in held[u] \/ p \in InFlight(u)
        BY DEF Owned
      <4>4. ~(p \in held[t] /\ p \in InFlight(t))
        BY <2>0 DEF OwnInv
      <4>5. CASE p \in held[t]
        <5>1. {u \in Thread : p \in held[u]} = {t} /\ {u \in Thread : p \in InFlight(u)} = {}
          BY <4>2, <4>3, <4>4, <4>5
        <5>2. /\ Cardinality({u \in Thread : p \in held[u]}) = 1
              /\ Cardinality({u \in Thread : p \in InFlight(u)}) = 0
          BY <3>0, <5>1
        <5> QED
          BY <2>5, <3>2, <5>2
      <4>6. CASE p \in InFlight(t)
        <5>1. {u \in Thread : p \in held[u]} = {} /\ {u \in Thread : p \in InFlight(u)} = {t}
          BY <4>2, <4>3, <4>4, <4>6
        <5>2. /\ Cardinality({u \in Thread : p \in held[u]}) = 0
              /\ Cardinality({u \in Thread : p \in InFlight(u)}) = 1
          BY <3>0, <5>1
        <5> QED
          BY <2>5, <3>2, <5>2
      <4> QED
        BY <4>1, <4>3, <4>5, <4>6
    <3> QED
      BY <3>1, <3>2
  <2> QED
    BY <2>4, <2>6 DEF EveryPageOnce
<1> QED
  BY <1>1, KallocCorrect, PTL
=============================================================================
