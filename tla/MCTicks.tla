------------------------------ MODULE MCTicks ------------------------------
(* Ticks for TLC: ticks passes through 0 every four interrupts.            *)
EXTENDS Ticks

MCArgs == {-1, 0, 1}
=============================================================================
