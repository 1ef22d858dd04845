---------------------------- MODULE DataProvider ----------------------------
(***************************************************************************)
(* run_data_provider of src/asio-grpc/dataProvider.cpp: one thread serves  *)
(* the bidirectional stream Get with a coroutine per call that reads a     *)
(* request, answers it and reads the next.                                 *)
(*                                                                         *)
(* gRPC, asio-grpc and the callers are modelled from their use here: read  *)
(* fails once the caller has closed its side or the connection is broken,  *)
(* write fails once it is broken, and the transport holds at most Window   *)
(* messages in each direction.                                             *)
(***************************************************************************)
EXTENDS Integers, Sequences

CONSTANTS
  Streams,            (* the calls that callers make                       *)
  Request,            (* records with an id and an input                   *)
  NoRequest,          (* what `request' holds before the first read        *)
  MaxRequests,        (* bound: requests a caller writes on a stream       *)
  Window              (* messages the transport takes ahead of the reader  *)

ASSUME DataProviderAssumption ==
  /\ \A r \in Request : r = [id |-> r.id, input |-> r.input]
  /\ NoRequest \notin Request
  /\ MaxRequests \in Nat
  /\ Window \in Nat \ {0}

VARIABLES
  server,             (* what BuildAndStart returned                       *)
  requested,          (* asio-grpc waits for the next call of Get          *)
  op,                 (* the operation each call's coroutine awaits        *)
  request,            (* the coroutine's variable                          *)
  toServer, toCaller, (* messages under way on each stream                 *)
  status,             (* how the stream ended, as the transport has it     *)
  sent, closed,       (* what each caller wrote, and who called WritesDone *)
  received, outcome   (* what each caller read, and what Finish returned   *)

callerVars == <<sent, closed, received, outcome>>
vars == <<server, requested, op, request, toServer, toCaller, status, callerVars>>

Data == [id : {r.id : r \in Request}, data : {r.input : r \in Request}]

Init ==
  /\ server = "none"
  /\ requested = FALSE
  /\ op = [s \in Streams |-> "none"]
  /\ request = [s \in Streams |-> NoRequest]
  /\ toServer = [s \in Streams |-> <<>>]
  /\ toCaller = [s \in Streams |-> <<>>]
  /\ status = [s \in Streams |-> "none"]
  /\ sent = [s \in Streams |-> <<>>]
  /\ closed = {}
  /\ received = [s \in Streams |-> <<>>]
  /\ outcome = [s \in Streams |-> "none"]
-----------------------------------------------------------------------------
(* BuildAndStart is not checked; without a server there is nothing to      *)
(* request from, and the process ends there.                               *)
BuildAndStart ==
  /\ server = "none"
  /\ \/ server' = "started" /\ requested' = TRUE
     \/ server' = "crashed" /\ UNCHANGED requested
  /\ UNCHANGED <<op, request, toServer, toCaller, status, callerVars>>

(* The call that arrives takes the outstanding request ...                 *)
Match(s) ==
  /\ requested /\ op[s] = "pending"
  /\ requested' = FALSE
  /\ op' = [op EXCEPT ![s] = "request"]
  /\ UNCHANGED <<server, request, toServer, toCaller, status, callerVars>>

(* A defect to tell StreamEnds by: one call of Get is served and no more.  *)
HandleGet_Once(s) ==
  /\ op[s] = "request"
  /\ op' = [op EXCEPT ![s] = "read"]
  /\ UNCHANGED <<server, requested, request, toServer, toCaller, status, callerVars>>

(* ... and repeatedly_request asks for the next one and starts a coroutine *)
(* for this one, which runs to its first read.                             *)
HandleGet(s) ==
  /\ op[s] = "request"
  /\ requested' = TRUE
  /\ op' = [op EXCEPT ![s] = "read"]
  /\ UNCHANGED <<server, request, toServer, toCaller, status, callerVars>>

Broken(s) == status[s] = "UNAVAILABLE"

(* A defect to tell TypeOK by: what was read is not kept.                  *)
NextRequest_Dropped(s) == request[s]

NextRequest(s) == Head(toServer[s])

(* The read succeeds: the answer is filled in and its write started.       *)
ReadReturns(s) ==
  /\ op[s] = "read"
  /\ toServer[s] # <<>>
  /\ request' = [request EXCEPT ![s] = NextRequest(s)]
  /\ toServer' = [toServer EXCEPT ![s] = Tail(@)]
  /\ op' = [op EXCEPT ![s] = "write"]
  /\ UNCHANGED <<server, requested, toCaller, status, callerVars>>

(* A defect to tell KeepsPromise by: the loop ends when the caller closes  *)
(* its side, before its last requests are read.                            *)
NoneLeft_Early(s) == s \in closed

NoneLeft(s) == s \in closed /\ toServer[s] = <<>>

ReadFails(s) ==
  /\ op[s] = "read"
  /\ Broken(s) \/ NoneLeft(s)
  /\ op' = [op EXCEPT ![s] = "finish"]
  /\ UNCHANGED <<server, requested, request, toServer, toCaller, status, callerVars>>

(* A defect to tell Conserved by: the id is set for the first answer only. *)
data_StaleId(s) == [id |-> sent[s][1].id, data |-> request[s].input]

(* What data was set to from the request.                                  *)
data(s) == [id |-> request[s].id, data |-> request[s].input]

WriteReturns(s) ==
  /\ op[s] = "write"
  /\ ~Broken(s) /\ Len(toCaller[s]) < Window
  /\ toCaller' = [toCaller EXCEPT ![s] = Append(@, data(s))]
  /\ op' = [op EXCEPT ![s] = "read"]
  /\ UNCHANGED <<server, requested, request, toServer, status, callerVars>>

(* write_ok is false: the loop ends without another read.                  *)
WriteFails(s) ==
  /\ op[s] = "write"
  /\ Broken(s)
  /\ op' = [op EXCEPT ![s] = "finish"]
  /\ UNCHANGED <<server, requested, request, toServer, toCaller, status, callerVars>>

FinishReturns(s) ==
  /\ op[s] = "finish"
  /\ op' = [op EXCEPT ![s] = "over"]
  /\ status' = [status EXCEPT ![s] = IF @ = "none" THEN "OK" ELSE @]
  /\ request' = [request EXCEPT ![s] = NoRequest]
  /\ UNCHANGED <<server, requested, toServer, toCaller, callerVars>>
-----------------------------------------------------------------------------
(* The callers and the transport.                                          *)
Dial(s) ==
  /\ op[s] = "none" /\ status[s] = "none"
  /\ IF server = "started"
     THEN op' = [op EXCEPT ![s] = "pending"] /\ UNCHANGED status
     ELSE status' = [status EXCEPT ![s] = "UNAVAILABLE"] /\ UNCHANGED op
  /\ UNCHANGED <<server, requested, request, toServer, toCaller, callerVars>>

Open(s) == op[s] # "none" /\ s \notin closed /\ outcome[s] = "none"

Write(s) ==
  /\ Open(s) /\ ~Broken(s)
  /\ Len(sent[s]) < MaxRequests /\ Len(toServer[s]) < Window
  /\ \E r \in Request :
       /\ sent' = [sent EXCEPT ![s] = Append(@, r)]
       /\ toServer' = [toServer EXCEPT ![s] = Append(@, r)]
  /\ UNCHANGED <<server, requested, op, request, toCaller, status, closed, received, outcome>>

WritesDone(s) ==
  /\ Open(s)
  /\ closed' = closed \cup {s}
  /\ UNCHANGED <<server, requested, op, request, toServer, toCaller, status, sent, received, outcome>>

Read(s) ==
  /\ outcome[s] = "none" /\ toCaller[s] # <<>>
  /\ received' = [received EXCEPT ![s] = Append(@, Head(toCaller[s]))]
  /\ toCaller' = [toCaller EXCEPT ![s] = Tail(@)]
  /\ UNCHANGED <<server, requested, op, request, toServer, status, sent, closed, outcome>>

Finish(s) ==
  /\ outcome[s] = "none" /\ toCaller[s] = <<>> /\ status[s] # "none"
  /\ outcome' = [outcome EXCEPT ![s] = status[s]]
  /\ UNCHANGED <<server, requested, op, request, toServer, toCaller, status, sent, closed, received>>

(* The connection breaks, even after the server has finished: some of the  *)
(* messages still under way may get through, and a call that has not been  *)
(* handed over may never be.                                               *)
Break(s) ==
  /\ op[s] # "none" /\ outcome[s] = "none" /\ ~Broken(s)
  /\ status' = [status EXCEPT ![s] = "UNAVAILABLE"]
  /\ \E m \in 0..Len(toServer[s]), n \in 0..Len(toCaller[s]) :
       /\ toServer' = [toServer EXCEPT ![s] = SubSeq(@, 1, m)]
       /\ toCaller' = [toCaller EXCEPT ![s] = SubSeq(@, 1, n)]
  /\ \/ op[s] = "pending" /\ op' = [op EXCEPT ![s] = "over"]
     \/ UNCHANGED op
  /\ UNCHANGED <<server, requested, request, callerVars>>
-----------------------------------------------------------------------------
Coroutine(s) == Match(s) \/ HandleGet(s) \/ ReadReturns(s) \/ ReadFails(s) \/ WriteReturns(s)
                \/ WriteFails(s) \/ FinishReturns(s)

Next ==
  \/ BuildAndStart
  \/ \E s \in Streams :
       \/ Coroutine(s)
       \/ Dial(s) \/ Write(s) \/ WritesDone(s) \/ Read(s) \/ Finish(s)
       \/ Break(s)

(* run() resumes the coroutines and the callers read to the end.           *)
Fairness == \A s \in Streams : WF_vars(Coroutine(s)) /\ WF_vars(Read(s)) /\ WF_vars(Finish(s))

Spec == Init /\ [][Next]_vars
FairSpec == Spec /\ Fairness
-----------------------------------------------------------------------------
TypeOK ==
  /\ server \in {"none", "started", "crashed"}
  /\ requested \in BOOLEAN
  /\ op \in [Streams -> {"none", "pending", "request", "read", "write", "finish", "over"}]
  /\ request \in [Streams -> Request \cup {NoRequest}]
  /\ \A s \in Streams : op[s] = "write" => request[s] \in Request
  /\ toServer \in [Streams -> Seq(Request)]
  /\ toCaller \in [Streams -> Seq(Data)]
  /\ status \in [Streams -> {"none", "OK", "UNAVAILABLE"}]
  /\ sent \in [Streams -> Seq(Request)]
  /\ closed \subseteq Streams
  /\ received \in [Streams -> Seq(Data)]
  /\ outcome \in [Streams -> {"none", "OK", "UNAVAILABLE"}]

Promise == INSTANCE EchoStream

(* Whatever overlaps or breaks, each stream is an EchoStream.              *)
KeepsPromise == Promise!EchoSpec

(* No request is lost or repeated inside a stream that is not broken: the  *)
(* answers read, the answers under way, the request being answered and the *)
(* requests under way are together the requests sent, in order.            *)
Conserved ==
  \A s \in Streams : ~Broken(s) =>
    LET answered == received[s] \o toCaller[s]
        held == IF op[s] = "write" THEN <<request[s]>> ELSE <<>>
    IN  /\ Len(sent[s]) = Len(answered) + Len(held \o toServer[s])
        /\ \A n \in DOMAIN sent[s] :
             IF n <= Len(answered) THEN answered[n] = Promise!Answer(sent[s][n])
             ELSE sent[s][n] = (held \o toServer[s])[n - Len(answered)]

(* A caller that closes its side is told how the stream ended.             *)
StreamEnds == \A s \in Streams : s \in closed ~> outcome[s] # "none"
=============================================================================
