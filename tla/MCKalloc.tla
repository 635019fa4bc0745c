------------------------------ MODULE MCKalloc ------------------------------
(* Instances of Kalloc for TLC.                                            *)
EXTENDS Kalloc
=============================================================================
