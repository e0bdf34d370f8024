----------------------------- MODULE MCPushClient -----------------------------
(* Symmetry is not declared: the run checks liveness. *)
EXTENDS PushClient
=============================================================================
