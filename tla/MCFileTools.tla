---------------------------- MODULE MCFileTools ----------------------------
(***************************************************************************)
(* FileTools for TLC: two edits of one session, and in another a patch     *)
(* that deletes the same file and adds it again; or, in the place of the   *)
(* patch, an edit of the file from another Location.                       *)
(***************************************************************************)
EXTENDS FileTools, TLC

CONSTANTS patch, elsewhere, f1, s1, s2, here, there

MCLocationOf == [c \in Fibers |-> IF c = elsewhere THEN there ELSE here]

MCKeys == Locations \X Files

MCPlan == [c \in Fibers |->
    IF c = patch THEN <<[kind |-> "delete", file |-> f1], [kind |-> "create", file |-> f1]>>
    ELSE <<[kind |-> "update", file |-> f1]>>]

MCSessionOf == [c \in Requests |-> IF c = patch THEN s2 ELSE s1]

MCConfigured == [c \in Requests |-> "ask"]

MCActionOf == [c \in Requests |-> "edit"]

MCFiles == [f \in Files |-> Holding({})]

(* Bound: the patch and two replies, or the edit from elsewhere and one    *)
(* reply.                                                                  *)
ThreeCalls ==
    \/ call[elsewhere].at = "prepares"
    \/ ask[patch].at = "off" /\ \E r \in Replies : reply[r].at = "off"

Symmetry == Permutations(Requests \ {patch}) \cup Permutations(Replies)
=============================================================================
