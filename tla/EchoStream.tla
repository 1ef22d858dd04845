----------------------------- MODULE EchoStream -----------------------------
(***************************************************************************)
(* What DataProvider.Get of src/asio-grpc/dataProvider.cpp promises to the *)
(* caller of one stream or many: each request is answered once, in order,  *)
(* with its own id and input, and the status is OK only when the caller    *)
(* has closed its side and holds all the answers.                          *)
(***************************************************************************)
EXTENDS Naturals, Sequences

CONSTANTS
  Streams,
  Request          (* records with an id and an input                      *)

VARIABLES
  sent,            (* for each stream, the requests written                *)
  closed,          (* the streams whose caller called WritesDone           *)
  received,        (* for each stream, the answers read                    *)
  outcome          (* for each stream, "none" until Finish returns         *)

echoVars == <<sent, closed, received, outcome>>

Answer(r) == [id |-> r.id, data |-> r.input]

EchoInit ==
  /\ sent = [s \in Streams |-> <<>>]
  /\ closed = {}
  /\ received = [s \in Streams |-> <<>>]
  /\ outcome = [s \in Streams |-> "none"]

Send(s) ==
  /\ s \notin closed
  /\ \E r \in Request : sent' = [sent EXCEPT ![s] = Append(@, r)]
  /\ UNCHANGED <<closed, received, outcome>>

Close(s) ==
  /\ closed' = closed \cup {s}
  /\ UNCHANGED <<sent, received, outcome>>

Receive(s) ==
  /\ Len(received[s]) < Len(sent[s])
  /\ received' = [received EXCEPT ![s] = Append(@, Answer(sent[s][Len(@) + 1]))]
  /\ UNCHANGED <<sent, closed, outcome>>

End(s) ==
  /\ outcome[s] = "none"
  /\ \/ /\ s \in closed /\ Len(received[s]) = Len(sent[s])
        /\ outcome' = [outcome EXCEPT ![s] = "OK"]
     \/ outcome' = [outcome EXCEPT ![s] = "UNAVAILABLE"]
  /\ UNCHANGED <<sent, closed, received>>

EchoNext == \E s \in Streams : Send(s) \/ Close(s) \/ Receive(s) \/ End(s)

EchoSpec == EchoInit /\ [][EchoNext]_echoVars
=============================================================================
