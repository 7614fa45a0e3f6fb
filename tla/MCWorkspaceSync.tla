-------------------------- MODULE MCWorkspaceSync --------------------------
(***************************************************************************)
(* WorkspaceSync for TLC: a session of a remote workspace that is mirrored *)
(* and moved.                                                              *)
(***************************************************************************)
EXTENDS WorkspaceSync
=============================================================================
