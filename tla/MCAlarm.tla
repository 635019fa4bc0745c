------------------------------ MODULE MCAlarm ------------------------------
(* Instances of Alarm for TLC.                                             *)
EXTENDS Alarm

\* No alarm, a negative interval, and two of different lengths.
SomeIntervals == {-1, 0, 1, 3}
=============================================================================
