------------------------------ MODULE MCPullLog ------------------------------
(* Instances of PullLog for TLC. *)
EXTENDS PullLog
=============================================================================
