--------------------------- MODULE GreeterPromise ---------------------------
(***************************************************************************)
(* What a user of src/asio-grpc/main2.cpp sees: the lines that client_main *)
(* prints, per client.  One line answers SayHello, then one line for each  *)
(* greeting of SayManyHellos; the client ends in silence only after all    *)
(* the greetings it asked for, and otherwise says that the call failed.    *)
(***************************************************************************)
EXTENDS Integers, Sequences

CONSTANTS
  Clients,
  NumGreetings     (* for each client, the num_greetings it asks for       *)

VARIABLES
  printed,         (* for each client, the lines printed                   *)
  ended            (* the clients whose client_main has returned           *)

promiseVars == <<printed, ended>>

(* Asking for a negative number of greetings is asking for none.           *)
Asked(c) == IF NumGreetings[c] < 0 THEN 0 ELSE NumGreetings[c]

PromiseInit == printed = [c \in Clients |-> <<>>] /\ ended = {}

Answer(c) ==
  /\ printed[c] = <<>>
  /\ \E line \in {"hello", "failed"} : printed' = [printed EXCEPT ![c] = <<line>>]
  /\ UNCHANGED ended

Greet(c) ==
  /\ c \notin ended
  /\ Len(printed[c]) \in 1..Asked(c)
  /\ printed' = [printed EXCEPT ![c] = Append(@, "greeting")]
  /\ UNCHANGED ended

EndComplete(c) ==
  /\ c \notin ended
  /\ Len(printed[c]) = 1 + Asked(c)
  /\ ended' = ended \cup {c}
  /\ UNCHANGED printed

EndFailed(c) ==
  /\ c \notin ended
  /\ printed[c] # <<>>
  /\ printed' = [printed EXCEPT ![c] = Append(@, "failed")]
  /\ ended' = ended \cup {c}

PromiseNext ==
  \E c \in Clients : Answer(c) \/ Greet(c) \/ EndComplete(c) \/ EndFailed(c)

PromiseSpec == PromiseInit /\ [][PromiseNext]_promiseVars
=============================================================================
