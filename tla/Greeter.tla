------------------------------ MODULE Greeter ------------------------------
(***************************************************************************)
(* The greeter of src/asio-grpc/main2.cpp: main starts one thread per      *)
(* completion queue, each serving SayHello (a callback handler) and        *)
(* SayManyHellos (a coroutine), and one client thread that makes both      *)
(* calls.  Other processes may run client_main against the same server.    *)
(*                                                                         *)
(* gRPC and asio-grpc are modelled from their use here: a request that a   *)
(* thread has asked for is matched with a call that has arrived, a write   *)
(* completes when the transport takes the message, a connection may break  *)
(* at any time, and run() hands completions to the handlers one at a time. *)
(***************************************************************************)
EXTENDS Integers, Sequences, FiniteSets

CONSTANTS
  Clients, Local,     (* those who run client_main; Local is thread `t'    *)
  NumGreetings,       (* for each client, the num_greetings it asks for    *)
  MaxThreads,         (* bound: the largest argv[1]                        *)
  Window              (* messages the transport takes ahead of the reader  *)

ASSUME GreeterAssumption ==
  /\ Local \in Clients
  /\ NumGreetings \in [Clients -> Int]
  /\ MaxThreads \in Nat
  /\ Window \in Nat \ {0}

Threads == 0..(MaxThreads - 1)
Methods == {"SayHello", "SayManyHellos"}
Calls   == Clients \X Methods     (* a client makes each call once         *)

VARIABLES
  thread_count,       (* argv[1]                                           *)
  main,               (* where main stands                                 *)
  queues,             (* how many completion queues were added             *)
  server,             (* what BuildAndStart returned                       *)
  thread,             (* where each server thread stands                   *)
  requested,          (* requests asked for and not matched yet            *)
  call,               (* each call as server and transport see it          *)
  client,             (* where each client stands in client_main           *)
  printed             (* the lines each client printed                     *)

serverVars == <<thread_count, main, queues, server, thread>>
clientVars == <<client, printed>>
vars == <<serverVars, requested, call, clientVars>>

CallType == [op     : {"none", "pending", "request", "write", "finish", "over"},
             done   : BOOLEAN,    (* the operation's completion is queued  *)
             owner  : Threads \cup {-1},
             i      : Nat,        (* the handler's loop variable           *)
             unread : 0..Window,
             status : {"none", "OK", "UNAVAILABLE"}]

Idle == [op |-> "none", done |-> FALSE, owner |-> -1, i |-> 0, unread |-> 0,
         status |-> "none"]

Alive == main # "crashed"
-----------------------------------------------------------------------------
Init ==
  /\ thread_count \in 0..MaxThreads
  /\ main = "queues"
  /\ queues = 0
  /\ server = "none"
  /\ thread = [t \in Threads |-> "none"]
  /\ requested = {}
  /\ call = [k \in Calls |-> Idle]
  /\ client = [c \in Clients |-> IF c = Local THEN "none" ELSE "start"]
  /\ printed = [c \in Clients |-> <<>>]
-----------------------------------------------------------------------------
(* main, in its order.                                                     *)
(* A defect to tell TypeOK by: one queue too many.                         *)
MoreQueues_OneMore == queues <= thread_count

MoreQueues == queues < thread_count

AddCompletionQueue ==
  /\ main = "queues"
  /\ IF MoreQueues THEN queues' = queues + 1 /\ UNCHANGED main
                   ELSE main' = "build" /\ UNCHANGED queues
  /\ UNCHANGED <<thread_count, server, thread, requested, call, clientVars>>

(* The port may be taken; a server without a completion queue is refused.  *)
(* The result is not tested.                                               *)
BuildAndStart ==
  /\ main = "build"
  /\ server' \in IF queues = 0 THEN {"null"} ELSE {"started", "null"}
  /\ main' = "spawn"
  /\ UNCHANGED <<thread_count, queues, thread, requested, call, clientVars>>

Spawned == {t \in Threads : thread[t] # "none"}

SpawnThread ==
  /\ main = "spawn"
  /\ LET t == Cardinality(Spawned) IN
       /\ t < thread_count
       /\ thread' = [thread EXCEPT ![t] = "started"]
  /\ UNCHANGED <<thread_count, main, queues, server, requested, call, clientVars>>

SpawnClient ==
  /\ main = "spawn"
  /\ Cardinality(Spawned) = thread_count
  /\ client' = [client EXCEPT ![Local] = "start"]
  /\ main' = "join"
  /\ UNCHANGED <<thread_count, queues, server, thread, requested, call, printed>>

(* run() returns when nothing is requested of, or handled by, the thread.  *)
RunReturns(t) ==
  /\ thread[t] = "run"
  /\ \A m \in Methods : <<t, m>> \notin requested
  /\ \A k \in Calls : call[k].owner # t

(* A defect to tell ReturnsOnlyIdle by: the threads are not waited for.    *)
Joined_Detached == TRUE

(* A defect to tell EndsWithoutThreads by: a first thread is taken for     *)
(* granted.                                                                *)
Joined_AtLeastOne == \A t \in 0..(thread_count - 1) \cup {0} : RunReturns(t)

Joined == \A t \in 0..(thread_count - 1) : RunReturns(t)

JoinThreads ==
  /\ main = "join" /\ Joined
  /\ main' = "join_client"
  /\ UNCHANGED <<thread_count, queues, server, thread, requested, call, clientVars>>

JoinClient ==
  /\ main = "join_client"
  /\ client[Local] = "done"
  /\ main' = "done"
  /\ UNCHANGED <<thread_count, queues, server, thread, requested, call, clientVars>>
-----------------------------------------------------------------------------
(* A server thread: register both handlers, then run().                    *)
RegisterSayHello(t) ==
  /\ Alive /\ thread[t] = "started" /\ server = "started"
  /\ requested' = requested \cup {<<t, "SayHello">>}
  /\ thread' = [thread EXCEPT ![t] = "registered"]
  /\ UNCHANGED <<thread_count, main, queues, server, call, clientVars>>

RegisterSayManyHellos(t) ==
  /\ Alive /\ thread[t] = "registered"
  /\ requested' = requested \cup {<<t, "SayManyHellos">>}
  /\ thread' = [thread EXCEPT ![t] = "run"]
  /\ UNCHANGED <<thread_count, main, queues, server, call, clientVars>>

(* A service that no server was built for has no server to request from.   *)
RequestWithoutServer(t) ==
  /\ Alive /\ thread[t] = "started" /\ server = "null"
  /\ main' = "crashed"
  /\ UNCHANGED <<thread_count, queues, server, thread, requested, call, clientVars>>

(* A defect to tell KeepsPromise by: the last greeting is not written.     *)
MoreGreetings_OneLess(k, i) == i + 1 < NumGreetings[k[1]]

MoreGreetings(k, i) == i < NumGreetings[k[1]]

(* The coroutine of SayManyHellos from the loop's test to its next await.  *)
Resume(k, i) ==
  call' = [call EXCEPT ![k].i = i, ![k].done = FALSE,
                       ![k].op = IF MoreGreetings(k, i) THEN "write" ELSE "finish"]

(* A defect to tell KeepsServing by: a method is served once.              *)
Rearmed_Once(k) == requested

(* asio-grpc asks for the next request, then calls the handler.            *)
Rearmed(k) == requested \cup {<<call[k].owner, k[2]>>}

(* A defect to tell ClientEnds by: the handler returns without finish.     *)
StartFinish_Missing(k) == call' = [call EXCEPT ![k].op = "over"]

StartFinish(k) == call' = [call EXCEPT ![k].op = "finish"]

HandleSayHello(k) ==
  /\ k[2] = "SayHello" /\ call[k].op = "request" /\ thread[call[k].owner] = "run"
  /\ requested' = Rearmed(k)
  /\ StartFinish(k)
  /\ UNCHANGED <<serverVars, clientVars>>

HandleSayManyHellos(k) ==
  /\ k[2] = "SayManyHellos" /\ call[k].op = "request" /\ thread[call[k].owner] = "run"
  /\ requested' = Rearmed(k)
  /\ Resume(k, 0)
  /\ UNCHANGED <<serverVars, clientVars>>

(* co_await rpc.write(...) resumes; its result is not looked at.           *)
WriteReturns(k) ==
  /\ call[k].op = "write" /\ call[k].done
  /\ Resume(k, call[k].i + 1)
  /\ UNCHANGED <<serverVars, requested, clientVars>>

(* The finish callback, or the end of the coroutine, releases the RPC; the *)
(* client's side of the call is left.                                      *)
FinishReturns(k) ==
  /\ call[k].op = "finish" /\ call[k].done
  /\ call' = [call EXCEPT ![k] = [Idle EXCEPT !.op = "over", !.unread = call[k].unread,
                                              !.status = call[k].status]]
  /\ UNCHANGED <<serverVars, requested, clientVars>>
-----------------------------------------------------------------------------
(* The transport.                                                          *)
Match(k) ==
  /\ call[k].op = "pending"
  /\ \E t \in Threads :
       /\ <<t, k[2]>> \in requested
       /\ requested' = requested \ {<<t, k[2]>>}
       /\ call' = [call EXCEPT ![k].op = "request", ![k].owner = t]
  /\ UNCHANGED <<serverVars, clientVars>>

WriteCompletes(k) ==
  /\ call[k].op = "write" /\ ~call[k].done
  /\ \/ /\ call[k].status = "none" /\ call[k].unread < Window
        /\ call' = [call EXCEPT ![k].done = TRUE, ![k].unread = @ + 1]
     \/ /\ call[k].status # "none"
        /\ call' = [call EXCEPT ![k].done = TRUE]
  /\ UNCHANGED <<serverVars, requested, clientVars>>

FinishCompletes(k) ==
  /\ call[k].op = "finish" /\ ~call[k].done
  /\ call' = [call EXCEPT ![k].done = TRUE,
                          ![k].status = IF @ = "none" THEN "OK" ELSE @]
  /\ UNCHANGED <<serverVars, requested, clientVars>>

Awaits(k) == client[k[1]] = k[2]

(* The connection breaks: messages on their way are lost, and so may be a  *)
(* call that no thread has taken yet.                                      *)
Break(k) ==
  /\ Awaits(k) /\ call[k].status # "UNAVAILABLE"
  /\ \E left \in 0..call[k].unread,
        op \in {call[k].op} \cup (IF call[k].op = "pending" THEN {"over"} ELSE {}) :
       call' = [call EXCEPT ![k].status = "UNAVAILABLE", ![k].unread = left, ![k].op = op]
  /\ UNCHANGED <<serverVars, requested, clientVars>>
-----------------------------------------------------------------------------
(* client_main.                                                            *)
Running(c) == c = Local => Alive

Dial(k) == IF server = "started" THEN [Idle EXCEPT !.op = "pending"]
                                 ELSE [Idle EXCEPT !.status = "UNAVAILABLE"]

SayHello(c) ==
  /\ Running(c) /\ client[c] = "start"
  /\ call' = [call EXCEPT ![<<c, "SayHello">>] = Dial(<<c, "SayHello">>)]
  /\ client' = [client EXCEPT ![c] = "SayHello"]
  /\ UNCHANGED <<serverVars, requested, printed>>

(* SayHello returns, its answer is printed and SayManyHellos is called.    *)
SayManyHellos(c) ==
  LET hello == <<c, "SayHello">>
      many  == <<c, "SayManyHellos">> IN
  /\ Running(c) /\ client[c] = "SayHello" /\ call[hello].status # "none"
  /\ printed' = [printed EXCEPT ![c] =
                   Append(@, IF call[hello].status = "OK" THEN "hello" ELSE "failed")]
  /\ call' = [call EXCEPT ![many] = Dial(many)]
  /\ client' = [client EXCEPT ![c] = "SayManyHellos"]
  /\ UNCHANGED <<serverVars, requested>>

Read(c) ==
  LET many == <<c, "SayManyHellos">> IN
  /\ Running(c) /\ client[c] = "SayManyHellos" /\ call[many].unread > 0
  /\ call' = [call EXCEPT ![many].unread = @ - 1]
  /\ printed' = [printed EXCEPT ![c] = Append(@, "greeting")]
  /\ UNCHANGED <<serverVars, requested, client>>

(* Read returns false once nothing is left and the call has ended.         *)
Finish(c) ==
  LET many == <<c, "SayManyHellos">> IN
  /\ Running(c) /\ client[c] = "SayManyHellos"
  /\ call[many].unread = 0 /\ call[many].status # "none"
  /\ printed' = IF call[many].status = "OK" THEN printed
                ELSE [printed EXCEPT ![c] = Append(@, "failed")]
  /\ client' = [client EXCEPT ![c] = "done"]
  /\ UNCHANGED <<serverVars, requested, call>>
-----------------------------------------------------------------------------
MainStep == AddCompletionQueue \/ BuildAndStart \/ SpawnThread \/ SpawnClient
            \/ JoinThreads \/ JoinClient

ThreadStep(t) == RegisterSayHello(t) \/ RegisterSayManyHellos(t) \/ RequestWithoutServer(t)

HandlerStep(k) == HandleSayHello(k) \/ HandleSayManyHellos(k)
                  \/ WriteReturns(k) \/ FinishReturns(k)

TransportStep(k) == Match(k) \/ WriteCompletes(k) \/ FinishCompletes(k)

ClientStep(c) == SayHello(c) \/ SayManyHellos(c) \/ Read(c) \/ Finish(c)

Next ==
  \/ MainStep
  \/ \E t \in Threads : ThreadStep(t)
  \/ \E k \in Calls : HandlerStep(k) \/ TransportStep(k) \/ Break(k)
  \/ \E c \in Clients : ClientStep(c)

(* Threads run, run() delivers completions, the transport moves what it    *)
(* can, clients read.  Nothing says that a connection breaks.              *)
Fairness ==
  /\ WF_vars(MainStep)
  /\ \A t \in Threads : WF_vars(ThreadStep(t))
  /\ \A k \in Calls : WF_vars(HandlerStep(k)) /\ WF_vars(TransportStep(k))
  /\ \A c \in Clients : WF_vars(ClientStep(c))

Spec == Init /\ [][Next]_vars
FairSpec == Spec /\ Fairness
-----------------------------------------------------------------------------
TypeOK ==
  /\ thread_count \in 0..MaxThreads
  /\ main \in {"queues", "build", "spawn", "join", "join_client", "done", "crashed"}
  /\ queues \in 0..thread_count
  /\ server \in {"none", "started", "null"}
  /\ thread \in [Threads -> {"none", "started", "registered", "run"}]
  /\ requested \subseteq Threads \X Methods
  /\ call \in [Calls -> CallType]
  /\ client \in [Clients -> {"none", "start", "SayHello", "SayManyHellos", "done"}]
  /\ printed \in [Clients -> Seq({"hello", "greeting", "failed"})]

(* Each thread in run() always has, for each method, one request that it   *)
(* asked for and has not handed to a handler: whatever calls overlap or    *)
(* break, no method stops being served and run() never returns.            *)
KeepsServing ==
  \A t \in Threads, m \in Methods : thread[t] = "run" =>
    LET taken == {k \in Calls : k[2] = m /\ call[k].owner = t /\ call[k].op = "request"}
    IN  IF <<t, m>> \in requested THEN taken = {} ELSE Cardinality(taken) = 1

(* A server with threads is never shut down: main returns only if argv[1]  *)
(* asked for none, and then the client has been told so.                   *)
ReturnsOnlyIdle ==
  main = "done" => thread_count = 0 /\ printed[Local] = <<"failed", "failed">>

Promise == INSTANCE GreeterPromise
             WITH ended <- {c \in Clients : client[c] = "done"}

(* Through every interleaving of the handlers, the transport and the       *)
(* client, and every broken connection, client_main prints what            *)
(* GreeterPromise allows: a stream that ends without "RPC failed" has      *)
(* delivered every greeting, although the handler ignores failed writes.   *)
KeepsPromise == Promise!PromiseSpec

(* A client that has dialled finishes client_main, unless its own process  *)
(* has crashed for want of a server.                                       *)
ClientEnds ==
  \A c \in Clients : client[c] = "SayHello" ~> client[c] = "done" \/ ~Running(c)

(* Without server threads the program ends by itself.                      *)
EndsWithoutThreads == thread_count = 0 ~> main = "done"
=============================================================================
