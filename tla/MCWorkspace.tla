---------------------------- MODULE MCWorkspace ----------------------------
(* Workspace with two query tabs, so that one may hold a session of the      *)
(* pool while the other is still connecting.                                 *)
EXTENDS Workspace
=============================================================================
