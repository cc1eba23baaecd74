-------------------------------- MODULE MCTty --------------------------------
(***************************************************************************)
(* Tty for TLC: the tasks that print are interchangeable.  The calls are   *)
(* not counted; the search ends where there is nothing left to check, once *)
(* somebody was caught, and where the paper has grown beyond MaxRows,      *)
(* which it only does as long as calls do not overlap.                     *)
(***************************************************************************)
EXTENDS Tty, TLC

CONSTANT MaxRows   \* bound: rows of paper

PrintersAlike == Permutations(Printers)
Bounded == ~caught /\ Len(paper) <= MaxRows
=============================================================================
