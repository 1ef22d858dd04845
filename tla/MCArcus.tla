------------------------------ MODULE MCArcus ------------------------------
(* Two objects that differ in id and vertices.                              *)
EXTENDS Arcus

MCObject == {[id |-> 1, vertices |-> "u"], [id |-> 2, vertices |-> "v"]}
=============================================================================
