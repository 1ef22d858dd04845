---------------------------- MODULE HealthServer ----------------------------
(***************************************************************************)
(* The greeter of src/asio-grpc/main.cpp: main starts one thread per       *)
(* completion queue, each serving SayHello by a callback handler; thread 0 *)
(* serves the health check service as well.  There is no client in the     *)
(* program: the calls come from elsewhere.                                 *)
(*                                                                         *)
(* gRPC and asio-grpc are modelled from their use here, as in Greeter.  A  *)
(* health check of a server that was built is answered with SERVING.       *)
(***************************************************************************)
EXTENDS Integers, FiniteSets

CONSTANTS
  Callers,            (* each makes one Check and one SayHello, in any     *)
                      (* order, at any time                                *)
  MaxThreads          (* bound: the largest argv[1]                        *)

ASSUME HealthServerAssumption == MaxThreads \in Nat

Threads == 0..(MaxThreads - 1)
Methods == {"Check", "SayHello"}
Calls   == Callers \X Methods

VARIABLES
  thread_count,       (* argv[1]                                           *)
  main,               (* where main stands                                 *)
  queues,             (* how many completion queues were added             *)
  server,             (* what BuildAndStart returned                       *)
  thread,             (* where each thread stands                          *)
  requested,          (* requests asked for and not matched yet            *)
  call                (* each call: where it stands, who serves it, and    *)
                      (* what the caller was told                          *)

vars == <<thread_count, main, queues, server, thread, requested, call>>

Idle == [op |-> "none", owner |-> -1, status |-> "none"]

Alive == main # "crashed"

Init ==
  /\ thread_count \in 0..MaxThreads
  /\ main = "queues" /\ queues = 0 /\ server = "none"
  /\ thread = [t \in Threads |-> "none"]
  /\ requested = {}
  /\ call = [k \in Calls |-> Idle]
-----------------------------------------------------------------------------
(* main, in its order.                                                     *)
AddCompletionQueue ==
  /\ main = "queues"
  /\ IF queues < thread_count THEN queues' = queues + 1 /\ UNCHANGED main
                              ELSE main' = "build" /\ UNCHANGED queues
  /\ UNCHANGED <<thread_count, server, thread, requested, call>>

(* The port may be taken; a server without a completion queue is refused.  *)
BuildAndStart ==
  /\ main = "build"
  /\ server' \in IF queues = 0 THEN {"null"} ELSE {"started", "null"}
  /\ main' = "spawn"
  /\ UNCHANGED <<thread_count, queues, thread, requested, call>>

Spawned == {t \in Threads : thread[t] # "none"}

SpawnThread ==
  /\ main = "spawn"
  /\ LET t == Cardinality(Spawned) IN
       IF t < thread_count THEN thread' = [thread EXCEPT ![t] = "started"] /\ UNCHANGED main
                           ELSE main' = "join" /\ UNCHANGED thread
  /\ UNCHANGED <<thread_count, queues, server, requested, call>>

(* A defect to tell DownOnlyUnbuilt by: a thread that waits in run() is    *)
(* taken for one that has ended.                                           *)
RunReturns_Waiting(t) == thread[t] = "run"

(* run() returns when nothing is requested of, or handled by, the thread.  *)
RunReturns(t) ==
  /\ thread[t] = "run"
  /\ \A m \in Methods : <<t, m>> \notin requested
  /\ \A k \in Calls : call[k].owner # t

JoinThreads ==
  /\ main = "join" /\ \A t \in 0..(thread_count - 1) : RunReturns(t)
  /\ main' = "done"
  /\ UNCHANGED <<thread_count, queues, server, thread, requested, call>>
-----------------------------------------------------------------------------
(* A thread.  Thread 0 dereferences server, the others ask the service for *)
(* a request: without a server either ends the process.                    *)
WithoutServer(t) ==
  /\ Alive /\ thread[t] = "started" /\ server = "null"
  /\ main' = "crashed"
  /\ UNCHANGED <<thread_count, queues, server, thread, requested, call>>

StartHealthCheck(t) ==
  /\ Alive /\ t = 0 /\ thread[t] = "started" /\ server = "started"
  /\ requested' = requested \cup {<<t, "Check">>}
  /\ thread' = [thread EXCEPT ![t] = "checked"]
  /\ UNCHANGED <<thread_count, main, queues, server, call>>

(* A defect to tell HealthyMeansServed by: thread 0 serves health checks   *)
(* and nothing else.                                                       *)
Registers_Else(t) == IF t = 0 THEN {} ELSE {<<t, "SayHello">>}

Registers(t) == {<<t, "SayHello">>}

(* register_callback_rpc_handler, and on to run().                         *)
RegisterSayHello(t) ==
  /\ Alive /\ server = "started" /\ thread[t] = IF t = 0 THEN "checked" ELSE "started"
  /\ requested' = requested \cup Registers(t)
  /\ thread' = [thread EXCEPT ![t] = "run"]
  /\ UNCHANGED <<thread_count, main, queues, server, call>>

(* A defect to tell CallEnds by: a handler serves one call.                *)
Rearmed_Once(k) == requested

Rearmed(k) == requested \cup {<<call[k].owner, k[2]>>}

(* asio-grpc asks for the next request, then calls the handler, which      *)
(* starts finish; the callback of finish holds the RPC.                    *)
Handle(k) ==
  /\ call[k].op = "request" /\ thread[call[k].owner] = "run"
  /\ requested' = Rearmed(k)
  /\ call' = [call EXCEPT ![k].op = "finish"]
  /\ UNCHANGED <<thread_count, main, queues, server, thread>>

(* The callback of finish runs and lets go of the RPC.                     *)
FinishReturns(k) ==
  /\ call[k].op = "finished"
  /\ call' = [call EXCEPT ![k].op = "over", ![k].owner = -1]
  /\ UNCHANGED <<thread_count, main, queues, server, thread, requested>>
-----------------------------------------------------------------------------
(* The callers and the transport.                                          *)
Dial(k) ==
  /\ call[k] = Idle
  /\ call' = [call EXCEPT ![k] = IF server = "started" THEN [Idle EXCEPT !.op = "pending"]
                                 ELSE [Idle EXCEPT !.status = "UNAVAILABLE"]]
  /\ UNCHANGED <<thread_count, main, queues, server, thread, requested>>

Match(k) ==
  /\ call[k].op = "pending"
  /\ \E t \in Threads :
       /\ <<t, k[2]>> \in requested
       /\ requested' = requested \ {<<t, k[2]>>}
       /\ call' = [call EXCEPT ![k].op = "request", ![k].owner = t]
  /\ UNCHANGED <<thread_count, main, queues, server, thread>>

FinishCompletes(k) ==
  /\ call[k].op = "finish"
  /\ call' = [call EXCEPT ![k].op = "finished",
                          ![k].status = IF @ = "none" THEN "OK" ELSE @]
  /\ UNCHANGED <<thread_count, main, queues, server, thread, requested>>

(* The connection breaks before an answer; a call that no thread has taken *)
(* may disappear with it.                                                  *)
Break(k) ==
  /\ call[k].op # "none" /\ call[k].status = "none"
  /\ \E op \in {call[k].op} \cup (IF call[k].op = "pending" THEN {"over"} ELSE {}) :
       call' = [call EXCEPT ![k].status = "UNAVAILABLE", ![k].op = op]
  /\ UNCHANGED <<thread_count, main, queues, server, thread, requested>>
-----------------------------------------------------------------------------
MainStep == AddCompletionQueue \/ BuildAndStart \/ SpawnThread \/ JoinThreads

ThreadStep(t) == WithoutServer(t) \/ StartHealthCheck(t) \/ RegisterSayHello(t)

Serve(k) == Match(k) \/ Handle(k) \/ FinishCompletes(k) \/ FinishReturns(k)

Next ==
  \/ MainStep
  \/ \E t \in Threads : ThreadStep(t)
  \/ \E k \in Calls : Serve(k) \/ Dial(k) \/ Break(k)

(* Threads run, run() delivers completions and the transport moves what it *)
(* can.  Nobody is obliged to call and no connection to break.             *)
Fairness ==
  /\ WF_vars(MainStep)
  /\ \A t \in Threads : WF_vars(ThreadStep(t))
  /\ \A k \in Calls : WF_vars(Serve(k))

Spec == Init /\ [][Next]_vars /\ Fairness
-----------------------------------------------------------------------------
(* Once any caller has been told SERVING, SayHello has a taker for ever:   *)
(* thread 0, in run(), has asked for a SayHello or is about to hand one to *)
(* the handler, which asks again.  Health is answered inside run(), which  *)
(* thread 0 enters after it has registered SayHello.                       *)
HealthyMeansServed ==
  (\E c \in Callers : call[<<c, "Check">>].status = "OK") =>
    \/ <<0, "SayHello">> \in requested
    \/ \E c \in Callers : LET k == call[<<c, "SayHello">>] IN k.owner = 0 /\ k.op = "request"

(* A server that was built stays: main neither returns nor crashes, and    *)
(* what brings the process down is always the missing server.  It crashes  *)
(* if argv[1] asked for threads and returns if it asked for none.          *)
DownOnlyUnbuilt ==
  /\ main \in {"done", "crashed"} => server = "null"
  /\ main = "done" => thread_count = 0

(* Every call that reached the server is answered or fails, whichever      *)
(* thread takes it and however far the threads had come when it arrived.   *)
CallEnds == \A k \in Calls : call[k].op = "pending" ~> call[k].status # "none"
=============================================================================
