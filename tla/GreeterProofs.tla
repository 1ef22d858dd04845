--------------------------- MODULE GreeterProofs ---------------------------
(***************************************************************************)
(* The greeter keeps serving, never returns with threads, and prints what  *)
(* GreeterPromise allows, for every number of threads, clients, greetings  *)
(* and every window of the transport: the inductive invariant IInv.        *)
(***************************************************************************)
EXTENDS Greeter, FiniteSetTheorems, SequenceTheorems, TLAPS

Hello(c) == <<c, "SayHello">>
Many(c)  == <<c, "SayManyHellos">>

(* How far main has come bounds what the rest has done.                    *)
Building ==
  /\ main \in {"queues", "build"} => server = "none"
  /\ main \in {"spawn", "join", "join_client", "done"} => server # "none"
  /\ server = "started" => thread_count > 0
  /\ main \in {"queues", "build", "spawn"} => client[Local] = "none"
  /\ main \in {"join_client", "done"} => thread_count = 0
  /\ main = "done" => client[Local] = "done"

(* Threads are started one after another, none twice.                      *)
SpawnedInOrder == \E n \in 0..MaxThreads : Spawned = 0..(n - 1)

(* The calls of a method that a thread was given and has not handled yet.  *)
InHand(t, m) == {k \in Calls : k[2] = m /\ call[k].owner = t /\ call[k].op = "request"}

(* Whether the thread has registered its handler of a method.              *)
Registered(t, m) ==
  thread[t] \in IF m = "SayHello" THEN {"registered", "run"} ELSE {"run"}

(* One request for each handler registered, asked for or in hand, and none *)
(* for any other.                                                          *)
OneRequestFor(t, m) ==
  \/ ~Registered(t, m) /\ <<t, m>> \notin requested /\ InHand(t, m) = {}
  \/ Registered(t, m) /\ <<t, m>> \in requested /\ InHand(t, m) = {}
  \/ Registered(t, m) /\ <<t, m>> \notin requested /\ \E k \in Calls : InHand(t, m) = {k}

OneRequest == \A t \in Threads, m \in Methods : OneRequestFor(t, m)

(* A request is some thread's, and a call not made yet has none.           *)
Dialled ==
  /\ \A k \in Calls : call[k].op = "request" => call[k].owner \in Threads
  /\ \A c \in Clients :
       /\ client[c] \in {"none", "start"} => call[Hello(c)].op = "none"
       /\ client[c] \in {"none", "start", "SayHello"} => call[Many(c)].op = "none"

(* Without a server the client of this process is told so, twice.          *)
Unserved ==
  server = "null" =>
    /\ client[Local] = "SayHello" => call[Hello(Local)].status = "UNAVAILABLE"
    /\ client[Local] = "SayManyHellos" =>
         /\ printed[Local] = <<"failed">>
         /\ call[Many(Local)].status = "UNAVAILABLE" /\ call[Many(Local)].unread = 0
    /\ client[Local] = "done" => printed[Local] = <<"failed", "failed">>

(* The greetings that have reached a client, printed or not.               *)
Received(c) == Len(printed[c]) - 1 + call[Many(c)].unread

(* A stream under way: what the client has received is what the handler    *)
(* has written, as long as the connection holds, and never more.           *)
Stream(c) ==
  LET k == call[Many(c)]
      written == k.i + (IF k.done THEN 1 ELSE 0) IN
  /\ Len(printed[c]) > 0
  /\ Received(c) <= Promise!Asked(c)
  /\ k.status = "OK" => Received(c) = Promise!Asked(c)
  /\ k.op \in {"none", "pending", "request"} => Received(c) = 0
  /\ k.op = "write" =>
       /\ k.i < NumGreetings[c]
       /\ Received(c) <= written /\ (k.status = "none" => Received(c) = written)
  /\ k.op = "finish" /\ k.status = "none" => Received(c) = Promise!Asked(c)

Printing ==
  \A c \in Clients :
    /\ client[c] \in {"none", "start", "SayHello"} => printed[c] = <<>>
    /\ client[c] = "SayManyHellos" => Stream(c)

IInv ==
  /\ TypeOK
  /\ Building /\ SpawnedInOrder /\ OneRequest
  /\ Dialled /\ Unserved /\ Printing
-----------------------------------------------------------------------------
(* Nothing is built, requested, called or printed when main begins.        *)
LEMMA InitEstablishes == Init => IInv
<1> SUFFICES ASSUME Init PROVE IInv
  OBVIOUS
<1> USE GreeterAssumption
<1>1. TypeOK
  BY DEF Init, TypeOK, CallType, Idle
<1>2. Building /\ Unserved
  BY DEF Init, Building, Unserved
<1>3. SpawnedInOrder
  <2>1. Spawned = 0..(0 - 1)
    BY DEF Init, Spawned
  <2> QED BY <2>1 DEF SpawnedInOrder
<1>4. OneRequest
  BY DEF Init, OneRequest, OneRequestFor, Registered, InHand, Idle
<1>5. Dialled
  BY DEF Init, Dialled, Idle, Hello, Many, Calls, Methods
<1>6. Printing
  BY DEF Init, Printing
<1> QED BY <1>1, <1>2, <1>3, <1>4, <1>5, <1>6 DEF IInv

(* Each client's calls are calls, and different ones.                      *)
LEMMA CallsOf ==
  /\ \A c \in Clients : Hello(c) \in Calls /\ Many(c) \in Calls
  /\ \A k \in Calls : /\ k[1] \in Clients /\ k[2] \in Methods
                      /\ k = Hello(k[1]) \/ k = Many(k[1])
                      /\ k[2] = "SayHello" <=> k = Hello(k[1])
BY DEF Hello, Many, Calls, Methods

(* A call as it is made, or as it is left when the handler is done.        *)
LEMMA FreshCall ==
  ASSUME NEW op \in {"none", "pending", "over"},
         NEW unread \in 0..Window, NEW status \in {"none", "OK", "UNAVAILABLE"}
  PROVE  [Idle EXCEPT !.op = op, !.unread = unread, !.status = status] \in CallType
BY DEF CallType, Idle

(* The types are kept by every step.                                       *)
LEMMA TypeStep == TypeOK /\ Dialled /\ [Next]_vars => TypeOK'
<1> SUFFICES ASSUME TypeOK, Dialled, [Next]_vars PROVE TypeOK'
  OBVIOUS
<1> USE GreeterAssumption
<1>1. CASE MainStep
  <2>1. CASE AddCompletionQueue
    BY <2>1 DEF AddCompletionQueue, MoreQueues, TypeOK, clientVars
  <2>2. CASE BuildAndStart
    BY <2>2 DEF BuildAndStart, TypeOK, clientVars
  <2>3. CASE SpawnThread
    BY <2>3 DEF SpawnThread, TypeOK, clientVars
  <2>4. CASE SpawnClient
    BY <2>4 DEF SpawnClient, TypeOK
  <2>5. CASE JoinThreads \/ JoinClient
    BY <2>5 DEF JoinThreads, JoinClient, TypeOK, clientVars
  <2> QED BY <1>1, <2>1, <2>2, <2>3, <2>4, <2>5 DEF MainStep
<1>2. ASSUME NEW t \in Threads, ThreadStep(t) PROVE TypeOK'
  BY <1>2 DEF ThreadStep, RegisterSayHello, RegisterSayManyHellos, RequestWithoutServer,
              TypeOK, clientVars, Methods
<1>3. ASSUME NEW k \in Calls, HandleSayHello(k) \/ HandleSayManyHellos(k) PROVE TypeOK'
  <2>1. call[k].owner \in Threads /\ k[2] \in Methods
    BY <1>3 DEF HandleSayHello, HandleSayManyHellos, Dialled, Calls
  <2>2. requested' \subseteq Threads \X Methods
    BY <1>3, <2>1 DEF HandleSayHello, HandleSayManyHellos, Rearmed, TypeOK
  <2>3. call' \in [Calls -> CallType]
    <3>1. call \in [Calls -> CallType] /\ call[k] \in CallType
      BY DEF TypeOK
    <3>2. CASE HandleSayHello(k)
      <4>1. [call[k] EXCEPT !.op = "finish"] \in CallType
        BY <3>1 DEF CallType
      <4> QED BY <3>1, <3>2, <4>1 DEF HandleSayHello, StartFinish
    <3>3. CASE HandleSayManyHellos(k)
      <4>1. PICK op \in {"write", "finish"} :
              call' = [call EXCEPT ![k].i = 0, ![k].done = FALSE, ![k].op = op]
        BY <3>3 DEF HandleSayManyHellos, Resume
      <4>2. [call[k] EXCEPT !.i = 0, !.done = FALSE, !.op = op] \in CallType
        BY <3>1 DEF CallType
      <4> QED BY <3>1, <4>1, <4>2
    <3> QED BY <1>3, <3>2, <3>3
  <2> QED BY <1>3, <2>2, <2>3 DEF HandleSayHello, HandleSayManyHellos, TypeOK, serverVars, clientVars
<1>4. ASSUME NEW k \in Calls, WriteReturns(k) \/ FinishReturns(k) PROVE TypeOK'
  <2>1. call' \in [Calls -> CallType]
    <3>1. call \in [Calls -> CallType] /\ call[k] \in CallType
      BY DEF TypeOK
    <3>2. /\ call[k].i + 1 \in Nat /\ call[k].unread \in 0..Window
          /\ call[k].status \in {"none", "OK", "UNAVAILABLE"}
      BY <3>1 DEF CallType
    <3>3. CASE WriteReturns(k)
      <4>1. PICK op \in {"write", "finish"} :
              call' = [call EXCEPT ![k].i = call[k].i + 1, ![k].done = FALSE, ![k].op = op]
        BY <3>3 DEF WriteReturns, Resume
      <4>2. [call[k] EXCEPT !.i = call[k].i + 1, !.done = FALSE, !.op = op] \in CallType
        BY <3>1, <3>2 DEF CallType
      <4> QED BY <3>1, <4>1, <4>2
    <3>4. CASE FinishReturns(k)
      BY <3>1, <3>2, <3>4, FreshCall DEF FinishReturns
    <3> QED BY <1>4, <3>3, <3>4
  <2> QED BY <1>4, <2>1 DEF WriteReturns, FinishReturns, TypeOK, serverVars, clientVars
<1>5. ASSUME NEW k \in Calls, TransportStep(k) PROVE TypeOK'
  <2>1. call' \in [Calls -> CallType]
    <3>1. call \in [Calls -> CallType] /\ call[k] \in CallType
      BY DEF TypeOK
    <3>2. CASE Match(k)
      <4>1. PICK t \in Threads : call' = [call EXCEPT ![k].op = "request", ![k].owner = t]
        BY <3>2 DEF Match
      <4>2. [call[k] EXCEPT !.op = "request", !.owner = t] \in CallType
        BY <3>1 DEF CallType
      <4> QED BY <3>1, <4>1, <4>2
    <3>3. CASE WriteCompletes(k)
      <4>1. [call[k] EXCEPT !.done = TRUE] \in CallType
        BY <3>1 DEF CallType
      <4>2. ASSUME call[k].unread < Window
            PROVE  [call[k] EXCEPT !.done = TRUE, !.unread = call[k].unread + 1] \in CallType
        <5>1. call[k].unread + 1 \in 0..Window
          BY <3>1, <4>2 DEF CallType
        <5> QED BY <3>1, <5>1 DEF CallType
      <4> QED BY <3>1, <3>3, <4>1, <4>2 DEF WriteCompletes
    <3>4. CASE FinishCompletes(k)
      <4> DEFINE status == IF call[k].status = "none" THEN "OK" ELSE call[k].status
      <4>1. status \in {"none", "OK", "UNAVAILABLE"}
        BY <3>1 DEF CallType
      <4>2. [call[k] EXCEPT !.done = TRUE, !.status = status] \in CallType
        BY <3>1, <4>1 DEF CallType
      <4>3. call' = [call EXCEPT ![k].done = TRUE, ![k].status = status]
        BY <3>4 DEF FinishCompletes
      <4> HIDE DEF status
      <4> QED BY <3>1, <4>2, <4>3
    <3> QED BY <1>5, <3>2, <3>3, <3>4 DEF TransportStep
  <2>2. requested' \subseteq Threads \X Methods
    BY <1>5 DEF TransportStep, Match, WriteCompletes, FinishCompletes, TypeOK
  <2> QED BY <1>5, <2>1, <2>2 DEF TransportStep, Match, WriteCompletes, FinishCompletes, TypeOK,
                                  serverVars, clientVars
<1>6. ASSUME NEW k \in Calls, Break(k) PROVE TypeOK'
  <2>1. PICK left \in 0..call[k].unread, op \in {call[k].op, "over"} :
          call' = [call EXCEPT ![k].status = "UNAVAILABLE", ![k].unread = left, ![k].op = op]
    BY <1>6 DEF Break
  <2>2. left \in 0..Window
    BY <2>1 DEF TypeOK, CallType
  <2>3. call \in [Calls -> CallType] /\ call[k] \in CallType
    BY DEF TypeOK
  <2>4. op \in {"none", "pending", "request", "write", "finish", "over"}
    BY <2>1, <2>3 DEF CallType
  <2>5. [call[k] EXCEPT !.status = "UNAVAILABLE", !.unread = left, !.op = op] \in CallType
    BY <2>2, <2>3, <2>4 DEF CallType
  <2>6. call' \in [Calls -> CallType]
    BY <2>1, <2>3, <2>5
  <2> QED BY <1>6, <2>6 DEF Break, TypeOK, serverVars, clientVars
<1>7. ASSUME NEW c \in Clients, SayHello(c) \/ SayManyHellos(c) PROVE TypeOK'
  <2>1. \A k \in Calls : Dial(k) \in CallType
    <3>1. Idle \in CallType
      BY DEF Idle, CallType
    <3>2. /\ [Idle EXCEPT !.op = "pending"] \in CallType
          /\ [Idle EXCEPT !.status = "UNAVAILABLE"] \in CallType
      BY <3>1 DEF CallType
    <3> QED BY <3>2 DEF Dial
  <2>2. call' \in [Calls -> CallType]
    <3>1. PICK k \in Calls : call' = [call EXCEPT ![k] = Dial(k)]
      BY <1>7, CallsOf DEF SayHello, SayManyHellos, Hello, Many
    <3> QED BY <2>1, <3>1 DEF TypeOK
  <2>3. printed' \in [Clients -> Seq({"hello", "greeting", "failed"})]
    <3>1. CASE SayHello(c)
      BY <3>1 DEF SayHello, TypeOK
    <3>2. CASE SayManyHellos(c)
      <4>1. PICK line \in {"hello", "failed"} : printed' = [printed EXCEPT ![c] = Append(@, line)]
        BY <3>2 DEF SayManyHellos
      <4> QED BY <4>1 DEF TypeOK
    <3> QED BY <1>7, <3>1, <3>2
  <2>4. client' \in [Clients -> {"none", "start", "SayHello", "SayManyHellos", "done"}]
    BY <1>7 DEF SayHello, SayManyHellos, TypeOK
  <2> QED BY <1>7, <2>2, <2>3, <2>4 DEF SayHello, SayManyHellos, TypeOK, serverVars
<1>8. ASSUME NEW c \in Clients, Read(c) PROVE TypeOK'
  <2>1. call' \in [Calls -> CallType]
    <3>1. Many(c) \in Calls /\ call[Many(c)] \in CallType
      BY CallsOf DEF TypeOK
    <3>2. call[Many(c)].unread - 1 \in 0..Window
      BY <1>8, <3>1 DEF Read, CallType, Many
    <3>3. call' = [call EXCEPT ![Many(c)].unread = call[Many(c)].unread - 1]
      BY <1>8 DEF Read, Many
    <3> QED BY <3>1, <3>2, <3>3 DEF CallType, TypeOK
  <2>2. printed' \in [Clients -> Seq({"hello", "greeting", "failed"})]
    BY <1>8 DEF Read, TypeOK
  <2> QED BY <1>8, <2>1, <2>2 DEF Read, TypeOK, serverVars
<1>9. ASSUME NEW c \in Clients, Finish(c) PROVE TypeOK'
  <2>1. printed' \in [Clients -> Seq({"hello", "greeting", "failed"})]
    BY <1>9 DEF Finish, TypeOK
  <2> QED BY <1>9, <2>1 DEF Finish, TypeOK, serverVars
<1>10. CASE UNCHANGED vars
  BY <1>10 DEF TypeOK, vars, serverVars, clientVars
<1> QED BY <1>1, <1>2, <1>3, <1>4, <1>5, <1>6, <1>7, <1>8, <1>9, <1>10 DEF Next, HandlerStep, ClientStep
-----------------------------------------------------------------------------
(* The thread started next is the first that was not started.              *)
LEMMA SpawnsNext ==
  ASSUME TypeOK, SpawnedInOrder, SpawnThread
  PROVE  /\ SpawnedInOrder'
         /\ \E t \in Threads : thread[t] = "none" /\ thread' = [thread EXCEPT ![t] = "started"]
<1>1. PICK n \in 0..MaxThreads : Spawned = 0..(n - 1)
  BY DEF SpawnedInOrder
<1>2. n \in Nat /\ n <= MaxThreads
  BY <1>1, GreeterAssumption
<1>3. Cardinality(Spawned) = n
  BY <1>1, <1>2, FS_Interval
<1>4. n < thread_count /\ thread' = [thread EXCEPT ![n] = "started"]
  BY <1>3 DEF SpawnThread
<1>5. n \in Threads /\ n + 1 \in 0..MaxThreads
  BY <1>2, <1>4, GreeterAssumption DEF Threads, TypeOK
<1>6. n \notin Spawned
  BY <1>1, <1>2
<1>7. thread[n] = "none"
  BY <1>5, <1>6 DEF Spawned
<1>8. Spawned' = Spawned \cup {n}
  BY <1>4, <1>5 DEF Spawned, TypeOK
<1>9. Spawned' = 0..((n + 1) - 1)
  BY <1>1, <1>2, <1>8
<1> QED BY <1>4, <1>5, <1>7, <1>9 DEF SpawnedInOrder

(* A step that neither registers, matches nor handles keeps the requests.  *)
LEMMA RequestsKept ==
  ASSUME OneRequest, requested' = requested,
         ASSUME NEW t \in Threads, NEW m \in Methods PROVE Registered(t, m)' <=> Registered(t, m),
         \A k \in Calls : /\ call'[k].op = "request" <=> call[k].op = "request"
                          /\ call[k].op = "request" => call'[k].owner = call[k].owner
  PROVE  OneRequest'
<1> SUFFICES ASSUME NEW t \in Threads, NEW m \in Methods PROVE OneRequestFor(t, m)'
  BY DEF OneRequest
<1>1. InHand(t, m)' = InHand(t, m)
  BY DEF InHand
<1>2. Registered(t, m)' <=> Registered(t, m)
  OBVIOUS
<1> QED BY <1>1, <1>2 DEF OneRequest, OneRequestFor

(* A handler that is registered asks for its first request.                *)
LEMMA RegisterRequests ==
  ASSUME TypeOK, OneRequest, NEW t \in Threads, RegisterSayHello(t) \/ RegisterSayManyHellos(t)
  PROVE  OneRequest'
<1> SUFFICES ASSUME NEW u \in Threads, NEW l \in Methods PROVE OneRequestFor(u, l)'
  BY DEF OneRequest
<1>1. OneRequestFor(u, l)
  BY DEF OneRequest
<1>2. PICK m \in Methods : /\ requested' = requested \cup {<<t, m>>}
                           /\ <<u, l>> = <<t, m>> => ~Registered(u, l) /\ Registered(u, l)'
                           /\ <<u, l>> # <<t, m>> => (Registered(u, l)' <=> Registered(u, l))
  <2>1. CASE RegisterSayHello(t)
    BY <2>1 DEF RegisterSayHello, Registered, TypeOK, Methods
  <2>2. CASE RegisterSayManyHellos(t)
    BY <2>2 DEF RegisterSayManyHellos, Registered, TypeOK, Methods
  <2> QED BY <2>1, <2>2
<1>3. InHand(u, l)' = InHand(u, l)
  BY DEF RegisterSayHello, RegisterSayManyHellos, InHand
<1> QED BY <1>1, <1>2, <1>3 DEF OneRequestFor

(* A call that is matched is the only one in hand.                         *)
LEMMA MatchHands ==
  ASSUME TypeOK, OneRequest, NEW k \in Calls, Match(k)
  PROVE  OneRequest'
<1>1. PICK t \in Threads : /\ <<t, k[2]>> \in requested
                           /\ requested' = requested \ {<<t, k[2]>>}
                           /\ call' = [call EXCEPT ![k].op = "request", ![k].owner = t]
  BY DEF Match
<1>2. k[2] \in Methods /\ call[k].op # "request" /\ thread' = thread
  BY CallsOf DEF Match, serverVars
<1>3. Registered(t, k[2]) /\ InHand(t, k[2]) = {}
  BY <1>1, <1>2 DEF OneRequest, OneRequestFor
<1>4. /\ call'[k].op = "request" /\ call'[k].owner = t
      /\ \A j \in Calls : j # k => call'[j] = call[j]
  BY <1>1 DEF TypeOK, CallType
<1>5. InHand(t, k[2])' = {k}
  <2>1. k \in InHand(t, k[2])'
    BY <1>4 DEF InHand
  <2>2. ASSUME NEW j \in InHand(t, k[2])', j # k PROVE FALSE
    BY <1>3, <1>4, <2>2 DEF InHand
  <2> QED BY <2>1, <2>2
<1>6. Registered(t, k[2])' <=> Registered(t, k[2])
  BY <1>2 DEF Registered
<1>7. OneRequestFor(t, k[2])'
  BY <1>1, <1>3, <1>5, <1>6 DEF OneRequestFor
<1>8. ASSUME NEW u \in Threads, NEW m \in Methods, <<u, m>> # <<t, k[2]>>
      PROVE  OneRequestFor(u, m)'
  <2>1. ASSUME NEW j \in Calls PROVE j \in InHand(u, m)' <=> j \in InHand(u, m)
    BY <1>2, <1>4, <1>8 DEF InHand
  <2>2. InHand(u, m)' = InHand(u, m)
    BY <2>1 DEF InHand
  <2>3. Registered(u, m)' <=> Registered(u, m)
    BY <1>2 DEF Registered
  <2>4. <<u, m>> \in requested' <=> <<u, m>> \in requested
    BY <1>1, <1>8
  <2>5. OneRequestFor(u, m)
    BY DEF OneRequest
  <2> QED BY <2>2, <2>3, <2>4, <2>5 DEF OneRequestFor
<1> QED BY <1>2, <1>7, <1>8 DEF OneRequest

(* A handler is called with the call in hand, after the next request.      *)
LEMMA HandleRearms ==
  ASSUME TypeOK, OneRequest, Dialled, NEW k \in Calls, HandleSayHello(k) \/ HandleSayManyHellos(k)
  PROVE  OneRequest'
<1>1. k[2] \in Methods /\ call[k].op = "request" /\ thread' = thread
  BY CallsOf DEF HandleSayHello, HandleSayManyHellos, serverVars
<1>2. PICK t \in Threads : t = call[k].owner
  BY <1>1 DEF Dialled
<1>3. requested' = requested \cup {<<t, k[2]>>}
  BY <1>2 DEF HandleSayHello, HandleSayManyHellos, Rearmed
<1>4. call'[k].op # "request" /\ \A j \in Calls : j # k => call'[j] = call[j]
  BY DEF HandleSayHello, HandleSayManyHellos, StartFinish, Resume, TypeOK, CallType
<1>5. k \in InHand(t, k[2])
  BY <1>1, <1>2 DEF InHand
<1>6. Registered(t, k[2]) /\ InHand(t, k[2]) = {k}
  <2>1. OneRequestFor(t, k[2])
    BY <1>1, <1>2 DEF OneRequest
  <2>2. Registered(t, k[2]) /\ \E j \in Calls : InHand(t, k[2]) = {j}
    BY <1>5, <2>1 DEF OneRequestFor
  <2> QED BY <1>5, <2>2
<1>7. InHand(t, k[2])' = {}
  <2> SUFFICES ASSUME NEW j \in InHand(t, k[2])' PROVE FALSE
    OBVIOUS
  <2>1. j \in Calls /\ j # k
    BY <1>4 DEF InHand
  <2>2. j \in InHand(t, k[2])
    BY <1>4, <2>1 DEF InHand
  <2> QED BY <1>6, <2>1, <2>2
<1>8. Registered(t, k[2])' <=> Registered(t, k[2])
  BY <1>1 DEF Registered
<1>9. OneRequestFor(t, k[2])'
  BY <1>3, <1>6, <1>7, <1>8 DEF OneRequestFor
<1>10. ASSUME NEW u \in Threads, NEW m \in Methods, <<u, m>> # <<t, k[2]>>
       PROVE  OneRequestFor(u, m)'
  <2>1. ASSUME NEW j \in Calls PROVE j \in InHand(u, m)' <=> j \in InHand(u, m)
    BY <1>1, <1>2, <1>4, <1>10 DEF InHand
  <2>2. InHand(u, m)' = InHand(u, m)
    BY <2>1 DEF InHand
  <2>3. Registered(u, m)' <=> Registered(u, m)
    BY <1>1 DEF Registered
  <2>4. <<u, m>> \in requested' <=> <<u, m>> \in requested
    BY <1>3, <1>10
  <2>5. OneRequestFor(u, m)
    BY DEF OneRequest
  <2> QED BY <2>2, <2>3, <2>4, <2>5 DEF OneRequestFor
<1> QED BY <1>1, <1>9, <1>10 DEF OneRequest
-----------------------------------------------------------------------------
(* A thread in run() stays there: its requests are never all gone.         *)
LEMMA RunNeverReturns ==
  ASSUME TypeOK, OneRequest, NEW t \in Threads
  PROVE  ~RunReturns(t)
<1> SUFFICES ASSUME RunReturns(t) PROVE FALSE
  OBVIOUS
<1>1. Registered(t, "SayHello") /\ <<t, "SayHello">> \notin requested
  BY DEF RunReturns, Registered, Methods
<1>2. OneRequestFor(t, "SayHello")
  BY DEF OneRequest, Methods
<1>3. PICK k \in Calls : InHand(t, "SayHello") = {k}
  BY <1>1, <1>2 DEF OneRequestFor
<1>4. call[k].owner = t
  BY <1>3 DEF InHand
<1> QED BY <1>4 DEF RunReturns

(* Whatever touches neither threads, requests nor calls keeps the service. *)
LEMMA ServiceKept ==
  ASSUME SpawnedInOrder, OneRequest, UNCHANGED <<thread, requested, call>>
  PROVE  SpawnedInOrder' /\ OneRequest'
<1>1. SpawnedInOrder'
  BY DEF SpawnedInOrder, Spawned
<1>2. ASSUME NEW t \in Threads, NEW m \in Methods PROVE Registered(t, m)' <=> Registered(t, m)
  BY DEF Registered
<1>3. OneRequest'
  BY <1>2, RequestsKept
<1> QED BY <1>1, <1>3

(* Whatever touches neither clients, calls nor lines keeps what is printed.*)
LEMMA ClientsKept ==
  ASSUME Dialled, Printing, UNCHANGED <<client, call, printed>>
  PROVE  Dialled' /\ Printing'
<1>1. Dialled'
  BY DEF Dialled
<1>2. ASSUME NEW c \in Clients, client[c] = "SayManyHellos" PROVE Stream(c)'
  <2>1. Stream(c)
    BY <1>2 DEF Printing
  <2> QED BY <2>1 DEF Stream, Received
<1>3. Printing'
  BY <1>2 DEF Printing
<1> QED BY <1>1, <1>3

(* main builds the server before it starts a thread, and starts the client *)
(* last; its threads never end, so it goes on only if there are none.      *)
LEMMA MainKeeps ==
  ASSUME IInv, TypeOK', MainStep
  PROVE  IInv'
<1> USE GreeterAssumption DEF IInv
<1>1. CASE AddCompletionQueue
  <2>1. UNCHANGED <<thread_count, server, thread, requested, call, client, printed>>
        /\ main = "queues" /\ main' \in {"queues", "build"}
    BY <1>1 DEF AddCompletionQueue, clientVars
  <2>2. Building' /\ Unserved'
    BY <2>1 DEF Building, Unserved
  <2> QED BY <2>1, <2>2, ServiceKept, ClientsKept
<1>2. CASE BuildAndStart
  <2>1. UNCHANGED <<thread_count, thread, requested, call, client, printed>>
        /\ main = "build" /\ main' = "spawn"
    BY <1>2 DEF BuildAndStart, clientVars
  <2>2. Building'
    BY <1>2, <2>1 DEF BuildAndStart, Building, TypeOK
  <2>3. Unserved'
    BY <2>1 DEF Building, Unserved
  <2> QED BY <2>1, <2>2, <2>3, ServiceKept, ClientsKept
<1>3. CASE SpawnThread
  <2>1. UNCHANGED <<thread_count, main, server, requested, call, client, printed>>
    BY <1>3 DEF SpawnThread, clientVars
  <2>2. PICK t \in Threads : thread[t] = "none" /\ thread' = [thread EXCEPT ![t] = "started"]
    BY <1>3, SpawnsNext
  <2>3. ASSUME NEW u \in Threads, NEW m \in Methods PROVE Registered(u, m)' <=> Registered(u, m)
    BY <2>2 DEF Registered, TypeOK
  <2>4. OneRequest'
    BY <2>1, <2>3, RequestsKept
  <2>5. Building' /\ Unserved'
    BY <2>1 DEF Building, Unserved
  <2> QED BY <1>3, <2>1, <2>4, <2>5, SpawnsNext, ClientsKept
<1>4. CASE SpawnClient
  <2>1. UNCHANGED <<thread_count, server, thread, requested, call, printed>>
        /\ main = "spawn" /\ main' = "join" /\ client[Local] = "none"
        /\ client' = [client EXCEPT ![Local] = "start"]
    BY <1>4 DEF SpawnClient, Building
  <2>2. client'[Local] = "start" /\ \A c \in Clients : c # Local => client'[c] = client[c]
    BY <2>1 DEF TypeOK
  <2>3. Building' /\ Unserved'
    BY <2>1, <2>2 DEF Building, Unserved
  <2>4. Dialled'
    BY <2>1, <2>2 DEF Dialled
  <2>5. ASSUME NEW c \in Clients, client'[c] = "SayManyHellos" PROVE Stream(c)'
    <3>1. Stream(c)
      BY <2>2, <2>5 DEF Printing
    <3> QED BY <2>1, <3>1 DEF Stream, Received
  <2>6. Printing'
    BY <2>1, <2>2, <2>5 DEF Printing
  <2> QED BY <2>1, <2>3, <2>4, <2>6, ServiceKept
<1>5. CASE JoinThreads
  <2>1. UNCHANGED <<thread_count, server, thread, requested, call, client, printed>>
        /\ main = "join" /\ main' = "join_client" /\ Joined
    BY <1>5 DEF JoinThreads, clientVars
  <2>2. thread_count = 0
    <3>1. SUFFICES ASSUME thread_count # 0 PROVE FALSE
      OBVIOUS
    <3>2. 0 \in 0..(thread_count - 1) /\ 0 \in Threads
      BY <3>1 DEF TypeOK, Threads
    <3> QED BY <2>1, <3>2, RunNeverReturns DEF Joined
  <2>3. Building' /\ Unserved'
    BY <2>1, <2>2 DEF Building, Unserved
  <2> QED BY <2>1, <2>3, ServiceKept, ClientsKept
<1>6. CASE JoinClient
  <2>1. UNCHANGED <<thread_count, server, thread, requested, call, client, printed>>
        /\ main = "join_client" /\ main' = "done" /\ client[Local] = "done"
    BY <1>6 DEF JoinClient, clientVars
  <2>2. Building' /\ Unserved'
    BY <2>1 DEF Building, Unserved
  <2> QED BY <2>1, <2>2, ServiceKept, ClientsKept
<1> QED BY <1>1, <1>2, <1>3, <1>4, <1>5, <1>6 DEF MainStep

(* A server thread registers its handlers, or brings the process down.     *)
LEMMA ThreadKeeps ==
  ASSUME IInv, TypeOK', NEW t \in Threads, ThreadStep(t)
  PROVE  IInv'
<1> USE DEF IInv
<1>1. UNCHANGED <<thread_count, server, call, client, printed>>
  BY DEF ThreadStep, RegisterSayHello, RegisterSayManyHellos, RequestWithoutServer, clientVars
<1>2. main' \in {main, "crashed"}
  BY DEF ThreadStep, RegisterSayHello, RegisterSayManyHellos, RequestWithoutServer
<1>3. Building' /\ Unserved'
  BY <1>1, <1>2 DEF Building, Unserved
<1>4. SpawnedInOrder' /\ OneRequest'
  <2>1. CASE RequestWithoutServer(t)
    BY <2>1, ServiceKept DEF RequestWithoutServer
  <2>2. CASE RegisterSayHello(t) \/ RegisterSayManyHellos(t)
    <3>1. Spawned' = Spawned
      BY <2>2 DEF RegisterSayHello, RegisterSayManyHellos, Spawned, TypeOK
    <3>2. SpawnedInOrder'
      BY <3>1 DEF SpawnedInOrder
    <3> QED BY <2>2, <3>2, RegisterRequests
  <2> QED BY <2>1, <2>2 DEF ThreadStep
<1> QED BY <1>1, <1>3, <1>4, ClientsKept
-----------------------------------------------------------------------------
(* A step of a handler or of the transport is about one call.  It does not *)
(* make a call, nor bring a broken one back.                               *)
LEMMA CallEffect ==
  ASSUME TypeOK, NEW k \in Calls, HandlerStep(k) \/ TransportStep(k) \/ Break(k)
  PROVE  /\ UNCHANGED <<thread_count, main, server, thread, client, printed>>
         /\ \A j \in Calls : j # k => call'[j] = call[j]
         /\ call[k].op = "none" => call'[k].op = "none"
         /\ call[k].status = "UNAVAILABLE" =>
              call'[k].status = "UNAVAILABLE" /\ call'[k].unread = call[k].unread
<1>1. CASE HandleSayHello(k) \/ HandleSayManyHellos(k) \/ WriteReturns(k)
  BY <1>1 DEF HandleSayHello, HandleSayManyHellos, WriteReturns, StartFinish, Resume,
              TypeOK, CallType, serverVars, clientVars
<1>2. CASE FinishReturns(k)
  BY <1>2 DEF FinishReturns, TypeOK, CallType, Idle, serverVars, clientVars
<1>3. CASE Match(k)
  BY <1>3 DEF Match, TypeOK, CallType, serverVars, clientVars
<1>4. CASE WriteCompletes(k)
  BY <1>4 DEF WriteCompletes, TypeOK, CallType, serverVars, clientVars
<1>5. CASE FinishCompletes(k)
  BY <1>5 DEF FinishCompletes, TypeOK, CallType, serverVars, clientVars
<1>6. CASE Break(k)
  <2>1. PICK left \in 0..call[k].unread, op \in {call[k].op, "over"} :
          /\ call' = [call EXCEPT ![k].status = "UNAVAILABLE", ![k].unread = left, ![k].op = op]
          /\ op # call[k].op => call[k].op = "pending"
    BY <1>6 DEF Break
  <2> QED BY <1>6, <2>1 DEF Break, TypeOK, CallType, serverVars, clientVars
<1> QED BY <1>1, <1>2, <1>3, <1>4, <1>5, <1>6 DEF HandlerStep, TransportStep

(* No step of a handler or of the transport loses a request or doubles it. *)
LEMMA CallKeepsService ==
  ASSUME TypeOK, SpawnedInOrder, OneRequest, Dialled,
         NEW k \in Calls, HandlerStep(k) \/ TransportStep(k) \/ Break(k)
  PROVE  SpawnedInOrder' /\ OneRequest'
<1>1. SpawnedInOrder'
  BY CallEffect DEF SpawnedInOrder, Spawned
<1>2. CASE Match(k)
  BY <1>1, <1>2, MatchHands
<1>3. CASE HandleSayHello(k) \/ HandleSayManyHellos(k)
  BY <1>1, <1>3, HandleRearms
<1>4. CASE WriteReturns(k) \/ FinishReturns(k) \/ WriteCompletes(k) \/ FinishCompletes(k) \/ Break(k)
  <2>1. requested' = requested
    BY <1>4 DEF WriteReturns, FinishReturns, WriteCompletes, FinishCompletes, Break
  <2>2. /\ call'[k].op = "request" <=> call[k].op = "request"
        /\ call[k].op = "request" => call'[k].owner = call[k].owner
    <3>1. CASE WriteReturns(k)
      BY <3>1 DEF WriteReturns, Resume, TypeOK, CallType
    <3>2. CASE FinishReturns(k)
      BY <3>2 DEF FinishReturns, Idle, TypeOK, CallType
    <3>3. CASE WriteCompletes(k) \/ FinishCompletes(k)
      BY <3>3 DEF WriteCompletes, FinishCompletes, TypeOK, CallType
    <3>4. CASE Break(k)
      <4>1. PICK left \in 0..call[k].unread, op \in {call[k].op, "over"} :
              /\ call' = [call EXCEPT ![k].status = "UNAVAILABLE", ![k].unread = left, ![k].op = op]
              /\ op # call[k].op => call[k].op = "pending"
        BY <3>4 DEF Break
      <4> QED BY <4>1 DEF TypeOK, CallType
    <3> QED BY <1>4, <3>1, <3>2, <3>3, <3>4
  <2>3. ASSUME NEW t \in Threads, NEW m \in Methods PROVE Registered(t, m)' <=> Registered(t, m)
    BY CallEffect DEF Registered
  <2>4. \A j \in Calls : /\ call'[j].op = "request" <=> call[j].op = "request"
                         /\ call[j].op = "request" => call'[j].owner = call[j].owner
    BY <2>2, CallEffect
  <2> QED BY <1>1, <2>1, <2>3, <2>4, RequestsKept
<1> QED BY <1>2, <1>3, <1>4 DEF HandlerStep, TransportStep

(* What GreeterPromise counts as asked for.                                *)
LEMMA AskedFor ==
  ASSUME NEW c \in Clients
  PROVE  /\ Promise!Asked(c) \in Nat
         /\ NumGreetings[c] > 0 => Promise!Asked(c) = NumGreetings[c]
         /\ NumGreetings[c] <= 0 => Promise!Asked(c) = 0
         /\ NumGreetings[c] \in Int
BY GreeterAssumption DEF Promise!Asked

(* The handler writes one greeting after another and finishes after the    *)
(* last; the transport delivers each while the connection holds.           *)
LEMMA StreamGoesOn ==
  ASSUME TypeOK, NEW c \in Clients, Stream(c),
         HandlerStep(Many(c)) \/ TransportStep(Many(c)) \/ Break(Many(c))
  PROVE  Stream(c)'
<1> DEFINE k == Many(c)
<1>1. k \in Calls /\ k[1] = c /\ k[2] = "SayManyHellos"
  BY CallsOf DEF Many
<1>2. /\ call[k].i \in Nat /\ call[k].unread \in Nat /\ call[k].done \in BOOLEAN
      /\ printed \in [Clients -> Seq({"hello", "greeting", "failed"})]
  BY <1>1 DEF TypeOK, CallType
<1>3. printed' = printed
  BY <1>1, CallEffect
<1>4. PICK g \in Nat : g = Len(printed[c])
  BY <1>2
<1>5. Received(c) = g - 1 + call[k].unread /\ Received(c)' = g - 1 + call'[k].unread
  BY <1>3, <1>4 DEF Received
<1>6. PICK A \in Nat, N \in Int : /\ A = Promise!Asked(c) /\ N = NumGreetings[c]
                                  /\ N > 0 => A = N
                                  /\ N <= 0 => A = 0
  BY AskedFor
<1>7. /\ g > 0
      /\ g - 1 + call[k].unread <= A
      /\ call[k].status = "OK" => g - 1 + call[k].unread = A
      /\ call[k].op \in {"none", "pending", "request"} => g - 1 + call[k].unread = 0
      /\ call[k].op = "write" =>
           /\ call[k].i < N
           /\ g - 1 + call[k].unread <= call[k].i + (IF call[k].done THEN 1 ELSE 0)
           /\ call[k].status = "none" =>
                g - 1 + call[k].unread = call[k].i + (IF call[k].done THEN 1 ELSE 0)
      /\ call[k].op = "finish" /\ call[k].status = "none" => g - 1 + call[k].unread = A
  BY <1>4, <1>5, <1>6 DEF Stream
<1>8. SUFFICES
      /\ g - 1 + call'[k].unread <= A
      /\ call'[k].status = "OK" => g - 1 + call'[k].unread = A
      /\ call'[k].op \in {"none", "pending", "request"} => g - 1 + call'[k].unread = 0
      /\ call'[k].op = "write" =>
           /\ call'[k].i < N
           /\ g - 1 + call'[k].unread <= call'[k].i + (IF call'[k].done THEN 1 ELSE 0)
           /\ call'[k].status = "none" =>
                g - 1 + call'[k].unread = call'[k].i + (IF call'[k].done THEN 1 ELSE 0)
      /\ call'[k].op = "finish" /\ call'[k].status = "none" => g - 1 + call'[k].unread = A
  BY <1>3, <1>4, <1>5, <1>6, <1>7 DEF Stream, Promise!Asked
<1> HIDE DEF k
<1>9. ASSUME NEW i \in Nat, Resume(k, i)
      PROVE  /\ call'[k].i = i /\ call'[k].done = FALSE
             /\ call'[k].op = IF i < N THEN "write" ELSE "finish"
             /\ call'[k].unread = call[k].unread /\ call'[k].status = call[k].status
  BY <1>1, <1>6, <1>9 DEF Resume, MoreGreetings, TypeOK, CallType
<1>10. CASE HandleSayManyHellos(k)
  <2>1. Resume(k, 0) /\ call[k].op = "request"
    BY <1>10 DEF HandleSayManyHellos
  <2>2. /\ call'[k].i = 0 /\ ~call'[k].done
        /\ call'[k].op = IF 0 < N THEN "write" ELSE "finish"
        /\ call'[k].unread = call[k].unread /\ call'[k].status = call[k].status
    BY <1>9, <2>1
  <2>3. g - 1 + call[k].unread = 0 /\ (call[k].status = "OK" => A = 0)
    BY <1>7, <2>1
  <2> QED BY <1>2, <1>6, <2>2, <2>3
<1>11. CASE WriteReturns(k)
  <2>1. Resume(k, call[k].i + 1) /\ call[k].op = "write" /\ call[k].done /\ call[k].i + 1 \in Nat
    BY <1>2, <1>11 DEF WriteReturns
  <2>2. /\ call'[k].i = call[k].i + 1 /\ ~call'[k].done
        /\ call'[k].op = IF call[k].i + 1 < N THEN "write" ELSE "finish"
        /\ call'[k].unread = call[k].unread /\ call'[k].status = call[k].status
    BY <1>9, <2>1
  <2>3. /\ g - 1 + call[k].unread <= A /\ (call[k].status = "OK" => g - 1 + call[k].unread = A)
        /\ call[k].i < N /\ g - 1 + call[k].unread <= call[k].i + 1
        /\ call[k].status = "none" => g - 1 + call[k].unread = call[k].i + 1
    BY <1>7, <2>1
  <2> QED BY <1>2, <1>6, <2>2, <2>3
<1>12. CASE FinishReturns(k)
  <2>1. call'[k].op = "over" /\ call'[k].unread = call[k].unread /\ call'[k].status = call[k].status
    BY <1>1, <1>12 DEF FinishReturns, Idle, TypeOK
  <2> QED BY <1>2, <1>7, <2>1
<1>13. CASE Match(k)
  <2>1. /\ call[k].op = "pending" /\ call'[k].op = "request"
        /\ call'[k].unread = call[k].unread /\ call'[k].status = call[k].status
    BY <1>1, <1>13 DEF Match, TypeOK, CallType
  <2> QED BY <1>2, <1>7, <2>1
<1>14. CASE WriteCompletes(k)
  <2>1. /\ call[k].op = "write" /\ ~call[k].done
        /\ call'[k].op = "write" /\ call'[k].done /\ call'[k].i = call[k].i
        /\ call'[k].status = call[k].status
        /\ call'[k].unread = IF call[k].status = "none" THEN call[k].unread + 1 ELSE call[k].unread
    BY <1>1, <1>14 DEF WriteCompletes, TypeOK, CallType
  <2>2. /\ g - 1 + call[k].unread <= A /\ (call[k].status = "OK" => g - 1 + call[k].unread = A)
        /\ call[k].i < N /\ g - 1 + call[k].unread <= call[k].i
        /\ call[k].status = "none" => g - 1 + call[k].unread = call[k].i
    BY <1>2, <1>7, <2>1
  <2>3. CASE call[k].status = "none"
    <3>1. call'[k].unread = call[k].unread + 1 /\ g - 1 + (call[k].unread + 1) = call[k].i + 1
      BY <1>2, <2>1, <2>2, <2>3
    <3>2. call[k].i + 1 <= A
      BY <1>2, <1>6, <2>2
    <3> QED BY <1>2, <1>6, <2>1, <2>2, <2>3, <3>1, <3>2
  <2>4. CASE call[k].status # "none"
    <3>1. g - 1 + call[k].unread <= call[k].i + 1
      BY <1>2, <2>2
    <3> QED BY <2>1, <2>2, <2>4, <3>1
  <2> QED BY <2>3, <2>4
<1>15. CASE FinishCompletes(k)
  <2>1. /\ call[k].op = "finish" /\ call'[k].op = "finish"
        /\ call'[k].unread = call[k].unread
        /\ call'[k].status = IF call[k].status = "none" THEN "OK" ELSE call[k].status
    BY <1>1, <1>15 DEF FinishCompletes, TypeOK, CallType
  <2> QED BY <1>2, <1>7, <2>1
<1>16. CASE Break(k)
  <2>1. PICK left \in 0..call[k].unread, op \in {call[k].op, "over"} :
          call' = [call EXCEPT ![k].status = "UNAVAILABLE", ![k].unread = left, ![k].op = op]
    BY <1>16 DEF Break
  <2>2. /\ call'[k].status = "UNAVAILABLE" /\ call'[k].unread = left /\ call'[k].op = op
        /\ call'[k].i = call[k].i /\ call'[k].done = call[k].done
    BY <1>1, <2>1 DEF TypeOK, CallType
  <2>3. left \in Nat /\ left <= call[k].unread /\ call[k].unread \in Nat
    BY <1>2, <2>1
  <2>4. g - 1 + left <= A
    BY <1>7, <2>3
  <2>5. ASSUME op \in {"none", "pending", "request"}
        PROVE  g - 1 + left = 0
    <3>1. g - 1 + call[k].unread = 0
      BY <1>7, <2>1, <2>5
    <3> QED BY <1>7, <2>3, <3>1
  <2>6. ASSUME op = "write"
        PROVE  /\ call[k].i < N
               /\ g - 1 + left <= call[k].i + (IF call[k].done THEN 1 ELSE 0)
    <3>1. /\ call[k].i < N
          /\ g - 1 + call[k].unread <= call[k].i + (IF call[k].done THEN 1 ELSE 0)
      BY <1>7, <2>1, <2>6
    <3> QED BY <1>2, <2>3, <3>1
  <2> QED BY <2>2, <2>4, <2>5, <2>6
<1>17. ~HandleSayHello(k)
  BY <1>1 DEF HandleSayHello
<1> QED BY <1>10, <1>11, <1>12, <1>13, <1>14, <1>15, <1>16, <1>17 DEF HandlerStep, TransportStep, k

(* A step of a handler or of the transport keeps the invariant.            *)
LEMMA CallKeeps ==
  ASSUME IInv, TypeOK', NEW k \in Calls, HandlerStep(k) \/ TransportStep(k) \/ Break(k)
  PROVE  IInv'
<1> USE DEF IInv
<1>1. /\ UNCHANGED <<thread_count, main, server, thread, client, printed>>
      /\ \A j \in Calls : j # k => call'[j] = call[j]
      /\ call[k].op = "none" => call'[k].op = "none"
      /\ call[k].status = "UNAVAILABLE" =>
           call'[k].status = "UNAVAILABLE" /\ call'[k].unread = call[k].unread
  BY CallEffect
<1>2. Building'
  BY <1>1 DEF Building
<1>3. SpawnedInOrder' /\ OneRequest'
  BY CallKeepsService
<1>4. Dialled'
  <2>1. ASSUME NEW j \in Calls, call'[j].op = "request" PROVE call'[j].owner \in Threads
    <3>1. CASE call[j].op = "request" /\ call'[j].owner = call[j].owner
      BY <3>1 DEF Dialled
    <3>2. CASE j # k
      BY <1>1, <2>1, <3>1, <3>2
    <3>3. CASE Match(k) /\ j = k
      BY <3>3 DEF Match, TypeOK, CallType
    <3>4. CASE Break(k) /\ j = k
      <4>1. PICK left \in 0..call[k].unread, op \in {call[k].op, "over"} :
              call' = [call EXCEPT ![k].status = "UNAVAILABLE", ![k].unread = left, ![k].op = op]
        BY <3>4 DEF Break
      <4>2. call'[k].op = op /\ call'[k].owner = call[k].owner
        BY <4>1 DEF TypeOK, CallType
      <4> QED BY <2>1, <3>1, <3>4, <4>2
    <3>5. ASSUME j = k, ~Match(k), ~Break(k) PROVE FALSE
      <4>1. CASE HandleSayHello(k) \/ HandleSayManyHellos(k) \/ WriteReturns(k)
        BY <2>1, <3>5, <4>1 DEF HandleSayHello, HandleSayManyHellos, WriteReturns, StartFinish, Resume,
                                TypeOK, CallType
      <4>2. CASE FinishReturns(k)
        BY <2>1, <3>5, <4>2 DEF FinishReturns, Idle, TypeOK
      <4>3. CASE WriteCompletes(k) \/ FinishCompletes(k)
        <5>1. call[k].op \in {"write", "finish"} /\ call'[k].op = call[k].op
          BY <4>3 DEF WriteCompletes, FinishCompletes, TypeOK, CallType
        <5> QED BY <2>1, <3>5, <5>1
      <4> QED BY <3>5, <4>1, <4>2, <4>3 DEF HandlerStep, TransportStep
    <3> QED BY <3>2, <3>3, <3>4, <3>5
  <2>2. \A j \in Calls : call[j].op = "none" => call'[j].op = "none"
    BY <1>1
  <2> QED BY <1>1, <2>1, <2>2, CallsOf DEF Dialled
<1>5. Unserved'
  <2>1. \A j \in Calls : call[j].status = "UNAVAILABLE" =>
           call'[j].status = "UNAVAILABLE" /\ call'[j].unread = call[j].unread
    BY <1>1
  <2> QED BY <1>1, <2>1, CallsOf, GreeterAssumption DEF Unserved
<1>6. Printing'
  <2>1. ASSUME NEW c \in Clients, client[c] = "SayManyHellos" PROVE Stream(c)'
    <3>1. Stream(c)
      BY <2>1 DEF Printing
    <3>2. CASE k = Many(c)
      BY <3>1, <3>2, StreamGoesOn
    <3>3. CASE k # Many(c)
      <4>1. call'[Many(c)] = call[Many(c)]
        BY <1>1, <3>3, CallsOf
      <4> QED BY <1>1, <3>1, <4>1 DEF Stream, Received
    <3> QED BY <3>2, <3>3
  <2> QED BY <1>1, <2>1 DEF Printing
<1> QED BY <1>2, <1>3, <1>4, <1>5, <1>6

(* A client's step is about its own stream.                                *)
LEMMA OtherStreams ==
  ASSUME Printing, NEW c \in Clients, NEW d \in Clients, d # c,
         client'[d] = client[d], printed'[d] = printed[d], call'[Many(d)] = call[Many(d)]
  PROVE  /\ client'[d] \in {"none", "start", "SayHello"} => printed'[d] = <<>>
         /\ client'[d] = "SayManyHellos" => Stream(d)'
BY DEF Printing, Stream, Received

(* The client makes its calls, reads what has arrived, and ends.           *)
LEMMA ClientKeeps ==
  ASSUME IInv, TypeOK', NEW c \in Clients, ClientStep(c)
  PROVE  IInv'
<1> USE GreeterAssumption DEF IInv
<1>1. UNCHANGED <<thread_count, main, queues, server, thread, requested>>
  BY DEF ClientStep, SayHello, SayManyHellos, Read, Finish, serverVars
<1>2. client[c] \in {"start", "SayHello", "SayManyHellos"}
      /\ \A d \in Clients : d # c => client'[d] = client[d]
  BY DEF ClientStep, SayHello, SayManyHellos, Read, Finish, TypeOK
<1>3. Building'
  BY <1>1, <1>2 DEF Building
<1>4. Hello(c) \in Calls /\ Many(c) \in Calls
  BY CallsOf
<1>5. ASSUME NEW t \in Threads, NEW m \in Methods PROVE Registered(t, m)' <=> Registered(t, m)
  BY <1>1 DEF Registered
<1>6. SpawnedInOrder'
  BY <1>1 DEF SpawnedInOrder, Spawned
<1>7. CASE SayHello(c)
  <2>1. /\ client[c] = "start" /\ client'[c] = "SayHello" /\ printed' = printed
        /\ call'[Hello(c)] = Dial(Hello(c)) /\ \A j \in Calls : j # Hello(c) => call'[j] = call[j]
    BY <1>4, <1>7 DEF SayHello, TypeOK, Hello
  <2>2. call[Hello(c)].op = "none"
    BY <2>1 DEF Dialled
  <2>3. call'[Hello(c)].op # "request" /\ (server = "null" => call'[Hello(c)].status = "UNAVAILABLE")
    BY <2>1 DEF Dial, Idle
  <2>4. OneRequest'
    BY <1>1, <1>5, <2>1, <2>2, <2>3, RequestsKept
  <2>5. \A d \in Clients : Many(d) # Hello(c) /\ (d # c => Hello(d) # Hello(c))
    BY DEF Many, Hello
  <2>6. Dialled'
    BY <1>2, <1>4, <2>1, <2>3, <2>5, CallsOf DEF Dialled
  <2>7. Unserved'
    <3>1. CASE c = Local
      BY <1>1, <2>1, <2>3, <3>1 DEF Unserved
    <3>2. CASE c # Local
      BY <1>1, <1>2, <2>1, <2>5, <3>2, CallsOf DEF Unserved
    <3> QED BY <3>1, <3>2
  <2>8. Printing'
    <3>1. printed'[c] = <<>>
      BY <2>1 DEF Printing
    <3>2. ASSUME NEW d \in Clients, d # c
          PROVE  /\ client'[d] \in {"none", "start", "SayHello"} => printed'[d] = <<>>
                 /\ client'[d] = "SayManyHellos" => Stream(d)'
      BY <1>2, <2>1, <2>5, <3>2, CallsOf, OtherStreams
    <3> QED BY <2>1, <3>1, <3>2 DEF Printing
  <2> QED BY <1>3, <1>6, <2>4, <2>6, <2>7, <2>8
<1>8. CASE SayManyHellos(c)
  <2>1. /\ client[c] = "SayHello" /\ client'[c] = "SayManyHellos"
        /\ call'[Many(c)] = Dial(Many(c)) /\ \A j \in Calls : j # Many(c) => call'[j] = call[j]
    BY <1>4, <1>8 DEF SayManyHellos, TypeOK, Many
  <2>2. PICK line \in {"hello", "failed"} :
          /\ line = IF call[Hello(c)].status = "OK" THEN "hello" ELSE "failed"
          /\ printed' = [printed EXCEPT ![c] = Append(printed[c], line)]
    BY <1>8 DEF SayManyHellos, Hello
  <2>3. printed[c] = <<>> /\ call[Many(c)].op = "none"
    BY <2>1 DEF Printing, Dialled
  <2>4. printed'[c] = <<line>> /\ \A d \in Clients : d # c => printed'[d] = printed[d]
    BY <2>2, <2>3 DEF TypeOK
  <2>5. /\ call'[Many(c)].op \in {"none", "pending"} /\ call'[Many(c)].unread = 0
        /\ call'[Many(c)].status \in {"none", "UNAVAILABLE"}
        /\ server = "null" => call'[Many(c)].status = "UNAVAILABLE"
    BY <2>1 DEF Dial, Idle
  <2>6. OneRequest'
    BY <1>1, <1>5, <2>1, <2>3, <2>5, RequestsKept
  <2>7. \A d \in Clients : Hello(d) # Many(c) /\ (d # c => Many(d) # Many(c))
    BY DEF Many, Hello
  <2>8. Dialled'
    BY <1>2, <1>4, <2>1, <2>5, <2>7, CallsOf DEF Dialled
  <2>9. Unserved'
    <3>1. CASE c = Local
      BY <1>1, <2>1, <2>2, <2>4, <2>5, <3>1 DEF Unserved
    <3>2. CASE c # Local
      BY <1>1, <1>2, <2>1, <2>4, <2>7, <3>2, CallsOf DEF Unserved
    <3> QED BY <3>1, <3>2
  <2>10. Stream(c)'
    <3>1. Len(printed'[c]) = 1
      BY <2>4
    <3>2. Received(c)' = 0
      BY <2>5, <3>1 DEF Received
    <3> QED BY <2>5, <3>1, <3>2, AskedFor DEF Stream, Promise!Asked
  <2>11. Printing'
    <3>1. ASSUME NEW d \in Clients, d # c
          PROVE  /\ client'[d] \in {"none", "start", "SayHello"} => printed'[d] = <<>>
                 /\ client'[d] = "SayManyHellos" => Stream(d)'
      BY <1>2, <2>1, <2>4, <2>7, <3>1, CallsOf, OtherStreams
    <3> QED BY <2>1, <2>10, <3>1 DEF Printing
  <2> QED BY <1>3, <1>6, <2>6, <2>8, <2>9, <2>11
<1>9. CASE Read(c)
  <2>1. /\ client[c] = "SayManyHellos" /\ client' = client
        /\ call[Many(c)].unread > 0
        /\ call' = [call EXCEPT ![Many(c)].unread = call[Many(c)].unread - 1]
        /\ printed' = [printed EXCEPT ![c] = Append(printed[c], "greeting")]
    BY <1>9 DEF Read, Many
  <2>2. call[Many(c)].unread \in Nat /\ printed[c] \in Seq({"hello", "greeting", "failed"})
    BY <1>4 DEF TypeOK, CallType
  <2>3. /\ Len(printed'[c]) = Len(printed[c]) + 1 /\ Len(printed[c]) \in Nat
        /\ \A d \in Clients : d # c => printed'[d] = printed[d]
    BY <2>1, <2>2, AppendProperties, LenProperties DEF TypeOK
  <2>4. /\ call'[Many(c)].unread = call[Many(c)].unread - 1
        /\ call'[Many(c)].op = call[Many(c)].op /\ call'[Many(c)].owner = call[Many(c)].owner
        /\ call'[Many(c)].status = call[Many(c)].status
        /\ call'[Many(c)].i = call[Many(c)].i /\ call'[Many(c)].done = call[Many(c)].done
        /\ \A j \in Calls : j # Many(c) => call'[j] = call[j]
    BY <1>4, <2>1 DEF TypeOK, CallType
  <2>5. \A j \in Calls : call'[j].op = call[j].op /\ call'[j].owner = call[j].owner
                         /\ call'[j].status = call[j].status
    BY <2>4
  <2>6. OneRequest'
    BY <1>1, <1>5, <2>5, RequestsKept
  <2>7. Dialled'
    BY <2>1, <2>5, CallsOf DEF Dialled
  <2>8. Unserved'
    <3>1. CASE c = Local
      BY <1>1, <2>1, <3>1 DEF Unserved
    <3>2. CASE c # Local
      <4>1. Many(Local) # Many(c) /\ Hello(Local) # Many(c)
        BY <3>2 DEF Many, Hello
      <4> QED BY <1>1, <2>1, <2>3, <2>4, <3>2, <4>1, CallsOf DEF Unserved
    <3> QED BY <3>1, <3>2
  <2>9. Stream(c)'
    <3>1. Stream(c)
      BY <2>1 DEF Printing
    <3>2. Received(c)' = Received(c) /\ Len(printed'[c]) > 0
      <4>1. PICK g \in Nat : Len(printed[c]) = g /\ Len(printed'[c]) = g + 1
        BY <2>3
      <4>2. PICK u \in Nat : call[Many(c)].unread = u
        BY <2>2
      <4>3. Received(c)' = (g + 1) - 1 + (u - 1) /\ Received(c) = g - 1 + u
        BY <2>4, <4>1, <4>2 DEF Received
      <4> QED BY <4>1, <4>3
    <3> QED BY <2>4, <3>1, <3>2 DEF Stream, Promise!Asked
  <2>10. Printing'
    <3>1. ASSUME NEW d \in Clients, d # c
          PROVE  /\ client'[d] \in {"none", "start", "SayHello"} => printed'[d] = <<>>
                 /\ client'[d] = "SayManyHellos" => Stream(d)'
      <4>1. Many(d) # Many(c)
        BY <3>1 DEF Many
      <4> QED BY <1>2, <2>3, <2>4, <3>1, <4>1, CallsOf, OtherStreams
    <3> QED BY <2>1, <2>9, <3>1 DEF Printing
  <2> QED BY <1>3, <1>6, <2>6, <2>7, <2>8, <2>10
<1>10. CASE Finish(c)
  <2>1. /\ client[c] = "SayManyHellos" /\ client'[c] = "done" /\ call' = call
        /\ \A d \in Clients : d # c => printed'[d] = printed[d]
        /\ call[Many(c)].status # "OK" => printed'[c] = Append(printed[c], "failed")
    BY <1>10 DEF Finish, TypeOK, Many
  <2>2. OneRequest'
    BY <1>1, <1>5, <2>1, RequestsKept
  <2>3. Dialled'
    BY <1>2, <2>1 DEF Dialled
  <2>4. Unserved'
    <3>1. CASE c = Local
      BY <1>1, <2>1, <3>1 DEF Unserved
    <3>2. CASE c # Local
      BY <1>1, <1>2, <2>1, <3>2 DEF Unserved
    <3> QED BY <3>1, <3>2
  <2>5. Printing'
    <3>1. ASSUME NEW d \in Clients, d # c
          PROVE  /\ client'[d] \in {"none", "start", "SayHello"} => printed'[d] = <<>>
                 /\ client'[d] = "SayManyHellos" => Stream(d)'
      BY <1>2, <2>1, <3>1, OtherStreams
    <3> QED BY <2>1, <3>1 DEF Printing
  <2> QED BY <1>3, <1>6, <2>2, <2>3, <2>4, <2>5
<1> QED BY <1>7, <1>8, <1>9, <1>10 DEF ClientStep
-----------------------------------------------------------------------------
(* IInv holds in every reachable state.                                    *)
THEOREM Invariance == Spec => []IInv
<1>1. IInv /\ [Next]_vars => IInv'
  <2> SUFFICES ASSUME IInv, [Next]_vars PROVE IInv'
    OBVIOUS
  <2>1. TypeOK'
    BY TypeStep DEF IInv
  <2>2. CASE MainStep
    BY <2>1, <2>2, MainKeeps
  <2>3. ASSUME NEW t \in Threads, ThreadStep(t) PROVE IInv'
    BY <2>1, <2>3, ThreadKeeps
  <2>4. ASSUME NEW k \in Calls, HandlerStep(k) \/ TransportStep(k) \/ Break(k) PROVE IInv'
    BY <2>1, <2>4, CallKeeps
  <2>5. ASSUME NEW c \in Clients, ClientStep(c) PROVE IInv'
    BY <2>1, <2>5, ClientKeeps
  <2>6. CASE UNCHANGED vars
    <3>1. UNCHANGED <<thread_count, main, server, thread, requested, call, client, printed>>
      BY <2>6 DEF vars, serverVars, clientVars
    <3>2. Building' /\ Unserved'
      BY <3>1 DEF IInv, Building, Unserved
    <3> QED BY <2>1, <3>1, <3>2, ServiceKept, ClientsKept DEF IInv
  <2> QED BY <2>2, <2>3, <2>4, <2>5, <2>6 DEF Next
<1> QED BY <1>1, InitEstablishes, PTL DEF Spec

(* The variables keep their types: no window overflows, no queue too many. *)
THEOREM TypeCorrect == Spec => []TypeOK
<1>1. IInv => TypeOK
  BY DEF IInv
<1> QED BY <1>1, Invariance, PTL

(* A thread in run() has one request of each method, asked for or in hand, *)
(* for any number of threads, clients and broken connections.              *)
THEOREM ServesForEver == Spec => []KeepsServing
<1>1. IInv => KeepsServing
  <2> SUFFICES ASSUME IInv, NEW t \in Threads, NEW m \in Methods, thread[t] = "run"
               PROVE  IF <<t, m>> \in requested THEN InHand(t, m) = {} ELSE Cardinality(InHand(t, m)) = 1
    BY DEF KeepsServing, InHand
  <2>1. OneRequestFor(t, m) /\ Registered(t, m)
    BY DEF IInv, OneRequest, Registered
  <2> QED BY <2>1, FS_Singleton DEF OneRequestFor
<1> QED BY <1>1, Invariance, PTL

(* main returns only without threads, and after its client was told twice  *)
(* that the call failed.                                                   *)
THEOREM ReturnsIdle == Spec => []ReturnsOnlyIdle
<1>1. IInv => ReturnsOnlyIdle
  <2> SUFFICES ASSUME IInv, main = "done"
               PROVE  thread_count = 0 /\ printed[Local] = <<"failed", "failed">>
    BY DEF ReturnsOnlyIdle
  <2>1. thread_count = 0 /\ client[Local] = "done" /\ server # "none" /\ server # "started"
    BY DEF IInv, Building
  <2>2. server = "null"
    BY <2>1 DEF IInv, TypeOK
  <2> QED BY <2>1, <2>2 DEF IInv, Unserved
<1> QED BY <1>1, Invariance, PTL
-----------------------------------------------------------------------------
(* Each step is one that GreeterPromise allows, or prints nothing.         *)
LEMMA StepIsPromised ==
  ASSUME IInv, [Next]_vars
  PROVE  [Promise!PromiseNext]_(Promise!promiseVars)
<1> DEFINE ended == {c \in Clients : client[c] = "done"}
<1> USE GreeterAssumption
<1>1. ASSUME printed' = printed, \A c \in Clients : client'[c] = "done" <=> client[c] = "done"
      PROVE  [Promise!PromiseNext]_(Promise!promiseVars)
  BY <1>1 DEF Promise!promiseVars
<1>2. CASE MainStep
  <2>1. printed' = printed /\ \A c \in Clients : client'[c] = "done" <=> client[c] = "done"
    BY <1>2 DEF MainStep, AddCompletionQueue, BuildAndStart, SpawnThread, SpawnClient, JoinThreads,
                JoinClient, clientVars, IInv, TypeOK, Building
  <2> QED BY <1>1, <2>1
<1>3. ASSUME NEW t \in Threads, ThreadStep(t) PROVE [Promise!PromiseNext]_(Promise!promiseVars)
  BY <1>1, <1>3 DEF ThreadStep, RegisterSayHello, RegisterSayManyHellos, RequestWithoutServer, clientVars
<1>4. ASSUME NEW k \in Calls, HandlerStep(k) \/ TransportStep(k) \/ Break(k)
      PROVE  [Promise!PromiseNext]_(Promise!promiseVars)
  BY <1>1, <1>4, CallEffect DEF IInv
<1>5. ASSUME NEW c \in Clients, ClientStep(c) PROVE [Promise!PromiseNext]_(Promise!promiseVars)
  <2>1. CASE SayHello(c)
    BY <1>1, <2>1 DEF SayHello, IInv, TypeOK
  <2>2. CASE SayManyHellos(c)
    <3>1. printed[c] = <<>>
      BY <2>2 DEF SayManyHellos, IInv, Printing
    <3>2. PICK line \in {"hello", "failed"} : printed' = [printed EXCEPT ![c] = Append(@, line)]
      BY <2>2 DEF SayManyHellos
    <3>3. printed' = [printed EXCEPT ![c] = <<line>>]
      BY <3>1, <3>2 DEF IInv, TypeOK
    <3>4. ended' = ended
      BY <2>2 DEF SayManyHellos, IInv, TypeOK
    <3>5. Promise!Answer(c)
      BY <3>1, <3>3, <3>4 DEF Promise!Answer
    <3> QED BY <3>5 DEF Promise!PromiseNext
  <2>3. CASE Read(c)
    <3>1. /\ client[c] = "SayManyHellos" /\ client' = client /\ call[Many(c)].unread > 0
          /\ printed' = [printed EXCEPT ![c] = Append(@, "greeting")]
      BY <2>3 DEF Read, Many
    <3>2. Stream(c)
      BY <3>1 DEF IInv, Printing
    <3>3. call[Many(c)].unread \in Nat /\ Len(printed[c]) \in Nat
      BY CallsOf, LenProperties DEF IInv, TypeOK, CallType
    <3>4. Len(printed[c]) \in 1..Promise!Asked(c)
      BY <3>1, <3>2, <3>3, AskedFor DEF Stream, Received
    <3>5. c \notin ended /\ ended' = ended
      BY <3>1
    <3>6. Promise!Greet(c)
      BY <3>1, <3>4, <3>5 DEF Promise!Greet
    <3> QED BY <3>6 DEF Promise!PromiseNext
  <2>4. CASE Finish(c)
    <3>1. /\ client[c] = "SayManyHellos" /\ call[Many(c)].unread = 0 /\ call[Many(c)].status # "none"
          /\ client' = [client EXCEPT ![c] = "done"]
          /\ printed' = IF call[Many(c)].status = "OK" THEN printed
                        ELSE [printed EXCEPT ![c] = Append(@, "failed")]
      BY <2>4 DEF Finish, Many
    <3>2. Stream(c) /\ Len(printed[c]) \in Nat
      BY <3>1, LenProperties DEF IInv, Printing, TypeOK
    <3>3. c \notin ended /\ ended' = ended \cup {c}
      BY <3>1 DEF IInv, TypeOK
    <3>4. CASE call[Many(c)].status = "OK"
      <4>1. Len(printed[c]) = 1 + Promise!Asked(c)
        BY <3>1, <3>2, <3>4, AskedFor DEF Stream, Received
      <4>2. Promise!EndComplete(c)
        BY <3>1, <3>3, <3>4, <4>1 DEF Promise!EndComplete
      <4> QED BY <4>2 DEF Promise!PromiseNext
    <3>5. CASE call[Many(c)].status # "OK"
      <4>1. printed[c] # <<>>
        BY <3>2 DEF Stream
      <4>2. Promise!EndFailed(c)
        BY <3>1, <3>3, <3>5, <4>1 DEF Promise!EndFailed
      <4> QED BY <4>2 DEF Promise!PromiseNext
    <3> QED BY <3>4, <3>5
  <2> QED BY <1>5, <2>1, <2>2, <2>3, <2>4 DEF ClientStep
<1>6. CASE UNCHANGED vars
  BY <1>1, <1>6 DEF vars, clientVars
<1> QED BY <1>2, <1>3, <1>4, <1>5, <1>6 DEF Next

(* Every behaviour of the greeter prints what GreeterPromise allows.       *)
THEOREM ImplementsGreeterPromise == Spec => KeepsPromise
<1>1. Init => Promise!PromiseInit
  BY DEF Init, Promise!PromiseInit
<1>2. IInv /\ [Next]_vars => [Promise!PromiseNext]_(Promise!promiseVars)
  BY StepIsPromised
<1> QED BY <1>1, <1>2, Invariance, PTL DEF Spec, KeepsPromise, Promise!PromiseSpec
============================================================================
