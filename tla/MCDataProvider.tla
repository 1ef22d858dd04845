--------------------------- MODULE MCDataProvider ---------------------------
(* Two streams and two requests that differ in id and in input.            *)
EXTENDS DataProvider

MCRequest == {[id |-> 1, input |-> "a"], [id |-> 2, input |-> "b"]}
=============================================================================
