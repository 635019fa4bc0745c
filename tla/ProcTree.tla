------------------------------ MODULE ProcTree ------------------------------
(***************************************************************************)
(* What fork, exit and wait promise user programs, with no locks and no    *)
(* CPUs: the living and the dead processes form a tree rooted at init.  A  *)
(* process dies and leaves all its children to init in one step, and stays *)
(* a zombie until its parent, which is alive, collects it.                 *)
(* Proc implements this specification (Proc!TreeSpec).                     *)
(***************************************************************************)
CONSTANTS Slot,      \* the processes there may be
          initproc,  \* the one that never exits, a member of Slot
          None       \* no parent

VARIABLES life,   \* "free", "live" or "zombie"
          up      \* the parent, None for a free slot and for init
tvars == <<life, up>>

TreeInit ==
  /\ life = [p \in Slot |-> IF p = initproc THEN "live" ELSE "free"]
  /\ up = [p \in Slot |-> None]

\* p gets a child in the free slot q.
Fork(p, q) ==
  /\ life[p] = "live"
  /\ life[q] = "free"
  /\ life' = [life EXCEPT ![q] = "live"]
  /\ up' = [up EXCEPT ![q] = p]

\* p dies: its children, living or dead, go to init at once.
Exit(p) ==
  /\ p # initproc
  /\ life[p] = "live"
  /\ life' = [life EXCEPT ![p] = "zombie"]
  /\ up' = [q \in Slot |-> IF up[q] = p THEN initproc ELSE up[q]]

\* p collects its dead child q.
Reap(p, q) ==
  /\ life[p] = "live"
  /\ life[q] = "zombie"
  /\ up[q] = p
  /\ life' = [life EXCEPT ![q] = "free"]
  /\ up' = [up EXCEPT ![q] = None]

TreeNext == \E p \in Slot : Exit(p) \/ \E q \in Slot : Fork(p, q) \/ Reap(p, q)
Spec == TreeInit /\ [][TreeNext]_tvars
=============================================================================
