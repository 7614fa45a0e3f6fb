-------------------------- MODULE MCSessionPrompts --------------------------
(***************************************************************************)
(* SessionPrompts for TLC: one session, whose prompts, senders and         *)
(* interrupters race.                                                      *)
(***************************************************************************)
EXTENDS SessionPrompts, TLC

CONSTANT k1
OneSession == [p \in Prompts |-> k1]

Symmetry == Permutations(Entries) \cup Permutations(Prompts)
              \cup Permutations(Senders)
=============================================================================
