------------------------------- MODULE MCStateTree -------------------------------
(***************************************************************************)
(* All machines of up to seven states and marks (MaxSize), the root among  *)
(* them, three levels deep: a parallel state with two regions of which one *)
(* has a choice, one nested in another, three regions, regions without     *)
(* states.  With transitions, of which there are two at most, they have up *)
(* to six (MaxMoving); the one event e is named as it is, by the partial   *)
(* wildcard ePart or by "*".  Those of up to five, event transitions       *)
(* counted twice (MaxReleased), are released and edited twice, so that a   *)
(* region is gone with the state above it, or a state comes in the place   *)
(* of another.                                                             *)
(***************************************************************************)
EXTENDS Analysis

CONSTANTS e, ePart
MCMatching == [s \in {e} |-> <<e, ePart, Star>>]
=============================================================================
