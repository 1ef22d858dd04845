---------------------------- MODULE MCBrpcEcho -----------------------------
(* Two calls, each of which may be tried twice.                             *)
EXTENDS BrpcEcho
=============================================================================
