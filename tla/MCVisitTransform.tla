-------------------------- MODULE MCVisitTransform --------------------------
(* Up to three arguments with up to two alternatives each.                 *)
EXTENDS VisitTransform
=============================================================================
