------------------------------- MODULE MCProc -------------------------------
(* Instances of Proc for TLC.                                              *)
EXTENDS Proc, TLC

\* The harts are interchangeable: nothing compares or orders them.
CpuSymmetry == Permutations(CPU)
=============================================================================
