------------------------ MODULE MCSessionExecution ------------------------
(***************************************************************************)
(* SessionExecution for TLC: one session with a waker and two fibers that  *)
(* resume, interrupt and give up; one entry more than keys, so that a      *)
(* successor can be created while the entry it succeeds is still in use.   *)
(***************************************************************************)
EXTENDS SessionExecution, Naturals, FiniteSets

ASSUME EntriesSuffice == Cardinality(Entries) > Cardinality(Keys)
=============================================================================
