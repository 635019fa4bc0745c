----------------------------- MODULE MCConsole -----------------------------
(* Console for TLC: two threads, stacks of up to three frames.             *)
EXTENDS Console
=============================================================================
