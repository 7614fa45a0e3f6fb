-------------------------- MODULE MCLockDirectory --------------------------
(***************************************************************************)
(* LockDirectory for TLC: with two deaths, three processes show all that   *)
(* the pid locks can do; flock needs a fourth for two to hold it.          *)
(***************************************************************************)
EXTENDS LockDirectory

CONSTANT p4

MCUsers == [kind \in Protocols |->
              IF kind = "flock" THEN Processes ELSE Processes \ {p4}]
=============================================================================
