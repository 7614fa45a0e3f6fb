----------------------------- MODULE MCTaskTool -----------------------------
(***************************************************************************)
(* TaskTool for TLC: calls on one session, which is where they meet.       *)
(***************************************************************************)
EXTENDS TaskTool, TLC

Symmetry == Permutations(Calls)
=============================================================================
