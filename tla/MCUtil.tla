------------------------------- MODULE MCUtil -------------------------------
(* Util for TLC: the sieve as it is, and find over a tree in which it      *)
(* finds 3, 8 with a blank in its path, and 6; 4 is a ".", the path of 5   *)
(* is too long, and 10 is too deep to be opened.                           *)
EXTENDS Util

MCNode == 1 .. 10
MCKind == <<"dir", "dir", "file", "skip", "long", "file", "dir", "file", "dir", "file">>
MCEntries ==
  [n \in MCNode |-> CASE n = 1 -> <<2, 7, 6>> [] n = 2 -> <<3, 4, 5>>
                      [] n = 7 -> <<8, 9>> [] n = 9 -> <<10>> [] OTHER -> <<>>]
MCWords ==
  [n \in {3, 6, 8, 10} |-> CASE n = 3 -> <<<<"a">>>> [] n = 6 -> <<<<"d", "a">>>>
                             [] n = 8 -> <<<<"b">>, <<"c">>>> [] n = 10 -> <<<<"f">>>>]
MCTarget == {3, 6, 8, 10}
MCTooLong == <<<<"m">>>>
=============================================================================
