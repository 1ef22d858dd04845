----------------------------- MODULE MCGreeter -----------------------------
(* The client of the program itself asks for two greetings, a client in     *)
(* another process for a negative number.                                   *)
EXTENDS Greeter

MCNumGreetings == [c \in Clients |-> IF c = Local THEN 2 ELSE -1]
=============================================================================
