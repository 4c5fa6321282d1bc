-------------------------- MODULE MCBranchAndBound --------------------------
(***************************************************************************)
(* BranchAndBound with the small instances TLC explores.  A length is one  *)
(* of a few numbers around the optimum 3; an infinite length is 9, above   *)
(* every length by more than the gap.                                      *)
(***************************************************************************)
EXTENDS SearchInvariant

MCInf == 9
MCOpt == 3

\* Lengths on both sides of the optimum.
MCCosts == 2 .. 4
=============================================================================
