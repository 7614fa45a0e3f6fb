------------------------- MODULE MCSessionRunState -------------------------
(***************************************************************************)
(* SessionRunState for TLC: one session, whose loops, shells and cancels   *)
(* race.                                                                   *)
(***************************************************************************)
EXTENDS SessionRunState, TLC

RunSymmetry == Permutations(Loops) \cup Permutations(Shells)
                 \cup Permutations(Cancels)
=============================================================================
