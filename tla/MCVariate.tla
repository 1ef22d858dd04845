----------------------------- MODULE MCVariate -----------------------------
(* Three types, one of them too large for the buffer.                       *)
EXTENDS Variate

CONSTANTS small, medium, large

MCTypes == {small, medium, large}
MCSizeOf == [T \in MCTypes |-> CASE T = small -> 1 [] T = medium -> 2 [] T = large -> 3]
=============================================================================
