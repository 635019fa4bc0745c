----------------------------- MODULE MCSysinfo -----------------------------
(* Sysinfo for TLC: a table of three slots, memory for two processes of two *)
(* pages each and a page over.                                              *)
EXTENDS Sysinfo
MCMask == {{}, {"fork", "trace"}}
=============================================================================
