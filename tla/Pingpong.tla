------------------------------ MODULE Pingpong ------------------------------
(***************************************************************************)
(* Lab_util/pingpong.c: a byte goes from the parent to the child and back. *)
(* Each system call is a step; no result of read() and write() is looked   *)
(* at, so that a read() at the end of a pipe passes for a byte received.   *)
(***************************************************************************)
EXTENDS Sequences

VARIABLES
  pc,       \* next system call of each process
  files,    \* the ends of the pipes each process has open
  pipe,     \* whether there is a byte in each pipe
  printed

vars == <<pc, files, pipe, printed>>

Process == {"parent", "child"}
Pipe    == {"parent_2_child", "child_2_parent"}

Init ==
  /\ pc = [p \in Process |-> IF p = "parent" THEN "pipe" ELSE "none"]
  /\ files = [p \in Process |-> {}]
  /\ pipe = [b \in Pipe |-> FALSE]
  /\ printed = <<>>

-----------------------------------------------------------------------------
Goto(p, from, to) == pc[p] = from /\ pc' = [pc EXCEPT ![p] = to]

CreatePipes ==
  /\ Goto("parent", "pipe", "fork")
  /\ files' = [files EXCEPT !["parent"] = Pipe \X {"r", "w"}]
  /\ UNCHANGED <<pipe, printed>>

CreateFails ==
  /\ Goto("parent", "pipe", "exited")
  /\ UNCHANGED <<files, pipe, printed>>

\* Without a child too the parent goes on: what fork() returns, -1, is not 0.
ForkFails ==
  /\ Goto("parent", "fork", "close1")
  /\ UNCHANGED <<files, pipe, printed>>

Fork ==
  /\ pc["parent"] = "fork"
  /\ pc' = [p \in Process |-> "close1"]
  /\ files' = [files EXCEPT !["child"] = files["parent"]]
  /\ UNCHANGED <<pipe, printed>>

\* close() of an end of pipe b.
Close(p, from, to, b, end) ==
  /\ Goto(p, from, to)
  /\ files' = [files EXCEPT ![p] = @ \ {<<b, end>>}]
  /\ UNCHANGED <<pipe, printed>>

Open(b, end) == \E p \in Process : <<b, end>> \in files[p]

\* The byte fits into the pipe; if nobody can read from it, the byte is lost.
Write(p, to, b) ==
  /\ Goto(p, "write", to)
  /\ pipe' = [pipe EXCEPT ![b] = Open(b, "r")]
  /\ UNCHANGED <<files, printed>>

\* read() waits while the pipe is empty and somebody can write to it.
Read(p, b) ==
  /\ Goto(p, "read", "print")
  /\ pipe[b] \/ ~Open(b, "w")
  /\ pipe' = [pipe EXCEPT ![b] = FALSE]
  /\ UNCHANGED <<files, printed>>

Fprintf(p, to, line) ==
  /\ Goto(p, "print", to)
  /\ printed' = Append(printed, line)
  /\ UNCHANGED <<files, pipe>>

Exit(p) ==
  /\ Goto(p, "exit", "exited")
  /\ files' = [files EXCEPT ![p] = {}]
  /\ UNCHANGED <<pipe, printed>>

Child ==
  \/ Close("child", "close1", "close2", "parent_2_child", "w")
  \/ Close("child", "close2", "read", "child_2_parent", "r")
  \/ Read("child", "parent_2_child")
  \/ Fprintf("child", "write", "ping")
  \/ Write("child", "close3", "child_2_parent")
  \/ Close("child", "close3", "close4", "parent_2_child", "r")
  \/ Close("child", "close4", "exit", "child_2_parent", "w")
  \/ Exit("child")

\* The child has exited, or there is none.
Wait ==
  /\ Goto("parent", "wait", "read")
  /\ pc["child"] \in {"none", "exited"}
  /\ UNCHANGED <<files, pipe, printed>>

ParentReadsFirst ==
  \/ Close("parent", "close1", "close2", "parent_2_child", "r")
  \/ Close("parent", "close2", "read", "child_2_parent", "w")
  \/ Read("parent", "child_2_parent")
  \/ Fprintf("parent", "write", "pong")
  \/ Write("parent", "wait", "parent_2_child")
  \/ Exit("parent")

Parent ==
  \/ Close("parent", "close1", "close2", "parent_2_child", "r")
  \/ Close("parent", "close2", "write", "child_2_parent", "w")
  \/ Write("parent", "wait", "parent_2_child")
  \/ Wait
  \/ Read("parent", "child_2_parent")
  \/ Fprintf("parent", "close3", "pong")
  \/ Close("parent", "close3", "close4", "parent_2_child", "w")
  \/ Close("parent", "close4", "exit", "child_2_parent", "r")
  \/ Exit("parent")

Next == CreatePipes \/ CreateFails \/ Fork \/ ForkFails \/ Child \/ Parent

-----------------------------------------------------------------------------
\* Both lines are printed, in this order.  Without a child the parent reports a pong that
\* nobody has sent, or, without pipes, prints nothing.
Done ==
  /\ pc["parent"] = "exited"
  /\ printed \in IF pc["child"] = "none" THEN {<<>>, <<"pong">>} ELSE {<<"ping", "pong">>}
=============================================================================
