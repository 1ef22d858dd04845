------------------------- MODULE HealthServerProofs -------------------------
(***************************************************************************)
(* Whoever was told SERVING is served, and a server that was built stays,  *)
(* for every number of threads and callers: the inductive invariant IInv.  *)
(***************************************************************************)
EXTENDS HealthServer, FiniteSetTheorems, TLAPS

CallType == [op     : {"none", "pending", "request", "finish", "finished", "over"},
             owner  : Threads \cup {-1},
             status : {"none", "OK", "UNAVAILABLE"}]

TypeOK ==
  /\ thread_count \in 0..MaxThreads
  /\ main \in {"queues", "build", "spawn", "join", "done", "crashed"}
  /\ queues \in 0..thread_count
  /\ server \in {"none", "started", "null"}
  /\ thread \in [Threads -> {"none", "started", "checked", "run"}]
  /\ requested \subseteq Threads \X Methods
  /\ call \in [Calls -> CallType]
  /\ \A k \in Calls : call[k].op = "request" => call[k].owner \in Threads

(* Main builds before it starts a thread, and not without a queue.         *)
BuiltFirst ==
  /\ main \in {"spawn", "join", "done"} => server # "none"
  /\ server = "started" => thread_count > 0

(* A thread in run() has a request of SayHello to hand out, or has one in  *)
(* hand.                                                                   *)
TakesSayHello(t) ==
  \/ <<t, "SayHello">> \in requested
  \/ \E c \in Callers : LET k == call[<<c, "SayHello">>] IN k.owner = t /\ k.op = "request"

Serves == \A t \in Threads : thread[t] = "run" => TakesSayHello(t)

(* Health checks are thread 0's, and are handled only after it runs.       *)
CheckedByFirst ==
  /\ \A t \in Threads : <<t, "Check">> \in requested => t = 0
  /\ \A c \in Callers :
       LET k == call[<<c, "Check">>] IN
       /\ k.op = "request" => k.owner = 0
       /\ k.op \in {"finish", "finished"} \/ k.status = "OK" => 0 \in Threads /\ thread[0] = "run"

IInv == TypeOK /\ BuiltFirst /\ Serves /\ CheckedByFirst /\ DownOnlyUnbuilt
-----------------------------------------------------------------------------
(* Nothing is requested or called before main begins.                      *)
LEMMA InitEstablishes == Init => IInv
<1> SUFFICES ASSUME Init PROVE IInv
  OBVIOUS
<1>1. TypeOK
  BY HealthServerAssumption DEF Init, TypeOK, CallType, Idle
<1>2. BuiltFirst /\ Serves /\ DownOnlyUnbuilt
  BY DEF Init, BuiltFirst, Serves, DownOnlyUnbuilt
<1>3. CheckedByFirst
  BY DEF Init, CheckedByFirst, Calls, Methods, Idle
<1> QED BY <1>1, <1>2, <1>3 DEF IInv

(* The types are kept by every step.                                       *)
LEMMA TypeStep == TypeOK /\ [Next]_vars => TypeOK'
<1> SUFFICES ASSUME TypeOK, [Next]_vars PROVE TypeOK'
  OBVIOUS
<1> USE HealthServerAssumption
<1>1. CASE AddCompletionQueue
  BY <1>1 DEF TypeOK, AddCompletionQueue
<1>2. CASE BuildAndStart
  BY <1>2 DEF TypeOK, BuildAndStart
<1>3. CASE SpawnThread
  BY <1>3 DEF TypeOK, SpawnThread
<1>4. CASE JoinThreads
  BY <1>4 DEF TypeOK, JoinThreads
<1>5. ASSUME NEW t \in Threads, ThreadStep(t) PROVE TypeOK'
  BY <1>5 DEF TypeOK, ThreadStep, WithoutServer, StartHealthCheck, RegisterSayHello, Registers, Methods
<1>6. ASSUME NEW k \in Calls, Match(k) PROVE TypeOK'
  <2>1. PICK t \in Threads : /\ requested' = requested \ {<<t, k[2]>>}
                             /\ call' = [call EXCEPT ![k].op = "request", ![k].owner = t]
    BY <1>6 DEF Match
  <2>2. call' \in [Calls -> CallType] /\ \A j \in Calls : call'[j].op = "request" => call'[j].owner \in Threads
    <3>1. call \in [Calls -> CallType] /\ \A j \in Calls : call[j].op = "request" => call[j].owner \in Threads
      BY DEF TypeOK
    <3>2. /\ [call[k] EXCEPT !.op = "request", !.owner = t] \in CallType
          /\ [call[k] EXCEPT !.op = "request", !.owner = t].owner = t
      BY <3>1 DEF CallType
    <3>3. call' \in [Calls -> CallType] /\ call'[k].owner = t
      BY <2>1, <3>1, <3>2
    <3>4. \A j \in Calls : j # k => call'[j] = call[j]
      BY <2>1, <3>1
    <3> QED BY <3>1, <3>3, <3>4
  <2> QED BY <1>6, <2>1, <2>2 DEF TypeOK, Match
<1>7. ASSUME NEW k \in Calls, Handle(k) PROVE TypeOK'
  <2>1. call[k].owner \in Threads /\ k[2] \in Methods
    BY <1>7 DEF TypeOK, Handle, Calls
  <2>2. call' \in [Calls -> CallType] /\ \A j \in Calls : call'[j].op = "request" => call'[j].owner \in Threads
    BY <1>7 DEF TypeOK, Handle, CallType
  <2> QED BY <1>7, <2>1, <2>2 DEF TypeOK, Handle, Rearmed
<1>8. ASSUME NEW k \in Calls, FinishCompletes(k) \/ FinishReturns(k) PROVE TypeOK'
  BY <1>8 DEF TypeOK, FinishCompletes, FinishReturns, CallType
<1>9. ASSUME NEW k \in Calls, Dial(k) \/ Break(k) PROVE TypeOK'
  BY <1>9 DEF TypeOK, Dial, Break, CallType, Idle
<1>10. CASE UNCHANGED vars
  BY <1>10 DEF TypeOK, vars
<1> QED BY <1>1, <1>2, <1>3, <1>4, <1>5, <1>6, <1>7, <1>8, <1>9, <1>10 DEF Next, MainStep, Serve

(* A thread is started once: with thread 0 spawned, the next is another.   *)
LEMMA SpawnSpares ==
  ASSUME TypeOK, SpawnThread, 0 \in Threads, thread[0] = "run"
  PROVE  thread'[0] = "run"
<1>1. IsFiniteSet(Threads)
  BY HealthServerAssumption, FS_Interval DEF Threads
<1>2. IsFiniteSet(Spawned)
  BY <1>1, FS_Subset DEF Spawned
<1>3. 0 \in Spawned
  BY DEF Spawned
<1>4. Cardinality(Spawned) # 0
  BY <1>2, <1>3, FS_EmptySet
<1> QED BY <1>4 DEF SpawnThread, TypeOK

(* What main does keeps who serves whom; that it returns only without      *)
(* threads follows, since a thread that runs has a request.                *)
LEMMA MainPreserves ==
  ASSUME IInv, TypeOK', MainStep
  PROVE  IInv'
<1> USE HealthServerAssumption DEF IInv
<1>1. CASE AddCompletionQueue
  BY <1>1 DEF AddCompletionQueue, BuiltFirst, Serves, TakesSayHello, CheckedByFirst, DownOnlyUnbuilt
<1>2. CASE BuildAndStart
  <2>1. BuiltFirst' /\ DownOnlyUnbuilt'
    BY <1>2 DEF BuildAndStart, BuiltFirst, DownOnlyUnbuilt, TypeOK
  <2> QED BY <1>2, <2>1 DEF BuildAndStart, Serves, TakesSayHello, CheckedByFirst
<1>3. CASE SpawnThread
  <2>1. \A t \in Threads : thread'[t] = "run" => thread[t] = "run"
    BY <1>3 DEF SpawnThread, TypeOK
  <2>2. ASSUME 0 \in Threads, thread[0] = "run" PROVE thread'[0] = "run"
    BY <1>3, <2>2, SpawnSpares
  <2>3. Serves' /\ CheckedByFirst'
    BY <1>3, <2>1, <2>2 DEF SpawnThread, Serves, TakesSayHello, CheckedByFirst
  <2>4. BuiltFirst' /\ DownOnlyUnbuilt'
    BY <1>3 DEF SpawnThread, BuiltFirst, DownOnlyUnbuilt
  <2> QED BY <2>3, <2>4
<1>4. CASE JoinThreads
  <2>1. thread_count = 0
    <3>1. SUFFICES ASSUME thread_count # 0 PROVE FALSE
      OBVIOUS
    <3>2. 0 \in 0..(thread_count - 1) /\ 0 \in Threads
      BY <3>1 DEF TypeOK, Threads
    <3>3. RunReturns(0)
      BY <1>4, <3>2 DEF JoinThreads
    <3>4. TakesSayHello(0)
      BY <3>2, <3>3 DEF RunReturns, Serves
    <3> QED BY <3>3, <3>4 DEF RunReturns, TakesSayHello, Calls, Methods
  <2>2. server = "null"
    BY <1>4, <2>1 DEF JoinThreads, BuiltFirst, TypeOK
  <2>3. Serves' /\ CheckedByFirst' /\ BuiltFirst'
    BY <1>4 DEF JoinThreads, Serves, TakesSayHello, CheckedByFirst, BuiltFirst
  <2> QED BY <1>4, <2>1, <2>2, <2>3 DEF JoinThreads, DownOnlyUnbuilt
<1> QED BY <1>1, <1>2, <1>3, <1>4 DEF MainStep

(* A thread enters run() with a request of SayHello just made, and thread  *)
(* 0 alone asks for health checks.  Only a missing server crashes.         *)
LEMMA ThreadPreserves ==
  ASSUME IInv, TypeOK', NEW t \in Threads, ThreadStep(t)
  PROVE  IInv'
<1> USE DEF IInv
<1>1. CASE WithoutServer(t)
  BY <1>1 DEF WithoutServer, BuiltFirst, Serves, TakesSayHello, CheckedByFirst, DownOnlyUnbuilt
<1>2. CASE StartHealthCheck(t)
  <2>1. \A u \in Threads : thread'[u] = "run" <=> thread[u] = "run"
    BY <1>2 DEF StartHealthCheck, TypeOK
  <2>2. Serves'
    BY <1>2, <2>1 DEF StartHealthCheck, Serves, TakesSayHello
  <2>3. CheckedByFirst'
    BY <1>2, <2>1 DEF StartHealthCheck, CheckedByFirst
  <2> QED BY <1>2, <2>2, <2>3 DEF StartHealthCheck, BuiltFirst, DownOnlyUnbuilt
<1>3. CASE RegisterSayHello(t)
  <2>1. \A u \in Threads : thread'[u] = "run" <=> u = t \/ thread[u] = "run"
    BY <1>3 DEF RegisterSayHello, TypeOK
  <2>2. Serves'
    BY <1>3, <2>1 DEF RegisterSayHello, Registers, Serves, TakesSayHello
  <2>3. CheckedByFirst'
    BY <1>3, <2>1 DEF RegisterSayHello, Registers, CheckedByFirst
  <2> QED BY <1>3, <2>2, <2>3 DEF RegisterSayHello, BuiltFirst, DownOnlyUnbuilt
<1> QED BY <1>1, <1>2, <1>3 DEF ThreadStep

(* A call of SayHello takes a request away and brings it back: matched, it *)
(* is in hand until the handler is called, which asks again.               *)
LEMMA CallKeepsServing ==
  ASSUME IInv, TypeOK', NEW k \in Calls, Serve(k) \/ Dial(k) \/ Break(k)
  PROVE  Serves'
<1> USE DEF IInv
<1> SUFFICES ASSUME NEW t \in Threads, thread'[t] = "run" PROVE TakesSayHello(t)'
  BY DEF Serves
<1>1. thread' = thread
  BY DEF Serve, Match, Handle, FinishCompletes, FinishReturns, Dial, Break
<1>2. TakesSayHello(t)
  BY <1>1 DEF Serves
<1>3. k = <<k[1], k[2]>> /\ k[1] \in Callers /\ k[2] \in Methods
  BY DEF Calls
<1>4. \A c \in Callers : <<c, "SayHello">> \in Calls
  BY DEF Calls, Methods
<1>5. CASE Match(k)
  <2>1. PICK u \in Threads : /\ <<u, k[2]>> \in requested
                             /\ requested' = requested \ {<<u, k[2]>>}
                             /\ call' = [call EXCEPT ![k].op = "request", ![k].owner = u]
    BY <1>5 DEF Match
  <2>2. CASE <<t, "SayHello">> \in requested
    <3>1. CASE u = t /\ k[2] = "SayHello"
      <4>1. call'[k].op = "request" /\ call'[k].owner = t
        BY <2>1, <3>1 DEF TypeOK, CallType
      <4> QED BY <1>3, <3>1, <4>1 DEF TakesSayHello
    <3>2. CASE ~(u = t /\ k[2] = "SayHello")
      BY <2>1, <2>2, <3>2 DEF TakesSayHello
    <3> QED BY <3>1, <3>2
  <2>3. CASE <<t, "SayHello">> \notin requested
    <3>1. PICK c \in Callers : call[<<c, "SayHello">>].owner = t /\ call[<<c, "SayHello">>].op = "request"
      BY <1>2, <2>3 DEF TakesSayHello
    <3>2. <<c, "SayHello">> # k
      BY <1>5, <3>1 DEF Match
    <3>3. call'[<<c, "SayHello">>] = call[<<c, "SayHello">>]
      BY <1>4, <2>1, <3>2 DEF TypeOK
    <3> QED BY <3>1, <3>3 DEF TakesSayHello
  <2> QED BY <2>2, <2>3
<1>6. CASE Handle(k)
  <2>1. requested \subseteq requested' /\ <<call[k].owner, k[2]>> \in requested'
    BY <1>6 DEF Handle, Rearmed
  <2>2. CASE <<t, "SayHello">> \in requested
    BY <2>1, <2>2 DEF TakesSayHello
  <2>3. CASE <<t, "SayHello">> \notin requested
    <3>1. PICK c \in Callers : call[<<c, "SayHello">>].owner = t /\ call[<<c, "SayHello">>].op = "request"
      BY <1>2, <2>3 DEF TakesSayHello
    <3>2. CASE <<c, "SayHello">> = k
      BY <2>1, <3>1, <3>2 DEF TakesSayHello
    <3>3. CASE <<c, "SayHello">> # k
      <4>1. call'[<<c, "SayHello">>] = call[<<c, "SayHello">>]
        BY <1>4, <1>6, <3>3 DEF TypeOK, Handle
      <4> QED BY <3>1, <4>1 DEF TakesSayHello
    <3> QED BY <3>2, <3>3
  <2> QED BY <2>2, <2>3
<1>7. CASE FinishCompletes(k) \/ FinishReturns(k) \/ Dial(k) \/ Break(k)
  <2>1. requested' = requested
    BY <1>7 DEF FinishCompletes, FinishReturns, Dial, Break
  <2>2. \A j \in Calls : call[j].op = "request" => call'[j].op = "request" /\ call'[j].owner = call[j].owner
    BY <1>7 DEF FinishCompletes, FinishReturns, Dial, Break, TypeOK, CallType, Idle
  <2> QED BY <1>2, <1>4, <2>1, <2>2 DEF TakesSayHello
<1> QED BY <1>5, <1>6, <1>7 DEF Serve

(* Only thread 0 answers a health check, and only from run().              *)
LEMMA CallKeepsFirst ==
  ASSUME IInv, TypeOK', NEW k \in Calls, Serve(k) \/ Dial(k) \/ Break(k)
  PROVE  CheckedByFirst'
<1> USE DEF IInv
<1>1. thread' = thread
  BY DEF Serve, Match, Handle, FinishCompletes, FinishReturns, Dial, Break
<1>2. \A c \in Callers : <<c, "Check">> \in Calls
  BY DEF Calls, Methods
<1>3. ASSUME NEW t \in Threads, <<t, "Check">> \in requested' PROVE t = 0
  <2>1. CASE <<t, "Check">> \in requested
    BY <2>1 DEF CheckedByFirst
  <2>2. CASE <<t, "Check">> \notin requested
    <3>1. Handle(k)
      BY <1>3, <2>2 DEF Serve, Match, FinishCompletes, FinishReturns, Dial, Break
    <3>2. t = call[k].owner /\ k[2] = "Check"
      BY <1>3, <2>2, <3>1 DEF Handle, Rearmed
    <3>3. k = <<k[1], "Check">> /\ k[1] \in Callers
      BY <3>2 DEF Calls
    <3> QED BY <3>1, <3>2, <3>3 DEF CheckedByFirst, Handle
  <2> QED BY <2>1, <2>2
<1>4. ASSUME NEW c \in Callers, call'[<<c, "Check">>].op = "request"
      PROVE  call'[<<c, "Check">>].owner = 0
  <2> DEFINE j == <<c, "Check">>
  <2>1. CASE Match(k) /\ k = j
    <3>1. PICK u \in Threads : /\ <<u, k[2]>> \in requested
                               /\ call' = [call EXCEPT ![k].op = "request", ![k].owner = u]
      BY <2>1 DEF Match
    <3>2. u = 0
      BY <2>1, <3>1 DEF CheckedByFirst
    <3> QED BY <1>2, <2>1, <3>1, <3>2 DEF TypeOK, CallType
  <2>2. CASE ~(Match(k) /\ k = j)
    <3>1. call[j].op = "request" /\ call'[j].owner = call[j].owner
      <4>1. CASE Match(k)
        BY <1>2, <1>4, <2>2, <4>1 DEF Match, TypeOK, CallType
      <4>2. CASE Handle(k)
        BY <1>2, <1>4, <2>2, <4>2 DEF Handle, TypeOK, CallType
      <4>3. CASE FinishCompletes(k)
        BY <1>2, <1>4, <2>2, <4>3 DEF FinishCompletes, TypeOK, CallType
      <4>4. CASE FinishReturns(k)
        BY <1>2, <1>4, <2>2, <4>4 DEF FinishReturns, TypeOK, CallType
      <4>5. CASE Dial(k)
        BY <1>2, <1>4, <2>2, <4>5 DEF Dial, TypeOK, CallType, Idle
      <4>6. CASE Break(k)
        <5>1. PICK op \in {call[k].op, "over"} :
                call' = [call EXCEPT ![k].status = "UNAVAILABLE", ![k].op = op]
          BY <4>6 DEF Break
        <5> QED BY <1>2, <1>4, <5>1 DEF TypeOK, CallType
      <4> QED BY <4>1, <4>2, <4>3, <4>4, <4>5, <4>6 DEF Serve
    <3> QED BY <3>1 DEF CheckedByFirst
  <2> QED BY <2>1, <2>2
<1>5. ASSUME NEW c \in Callers,
             call'[<<c, "Check">>].op \in {"finish", "finished"} \/ call'[<<c, "Check">>].status = "OK"
      PROVE  0 \in Threads /\ thread'[0] = "run"
  <2> DEFINE j == <<c, "Check">>
  <2>1. CASE Handle(k) /\ k = j
    <3>1. call[j].owner = 0 /\ call[j].owner \in Threads
      BY <1>2, <2>1 DEF Handle, CheckedByFirst, TypeOK
    <3> QED BY <1>1, <2>1, <3>1 DEF Handle
  <2>2. CASE ~(Handle(k) /\ k = j)
    <3>1. call[j].op \in {"finish", "finished"} \/ call[j].status = "OK"
      <4>1. CASE Match(k)
        BY <1>2, <1>5, <2>2, <4>1 DEF Match, TypeOK, CallType
      <4>2. CASE Handle(k)
        BY <1>2, <1>5, <2>2, <4>2 DEF Handle, TypeOK, CallType
      <4>3. CASE FinishCompletes(k)
        BY <1>2, <1>5, <2>2, <4>3 DEF FinishCompletes, TypeOK, CallType
      <4>4. CASE FinishReturns(k)
        BY <1>2, <1>5, <2>2, <4>4 DEF FinishReturns, TypeOK, CallType
      <4>5. CASE Dial(k)
        BY <1>2, <1>5, <2>2, <4>5 DEF Dial, TypeOK, CallType, Idle
      <4>6. CASE Break(k)
        <5>1. PICK op \in {call[k].op, "over"} :
                call' = [call EXCEPT ![k].status = "UNAVAILABLE", ![k].op = op]
          BY <4>6 DEF Break
        <5>2. CASE j = k
          BY <1>2, <1>5, <5>1, <5>2 DEF TypeOK, CallType
        <5>3. CASE j # k
          BY <1>2, <1>5, <5>1, <5>3 DEF TypeOK
        <5> QED BY <5>2, <5>3
      <4> QED BY <4>1, <4>2, <4>3, <4>4, <4>5, <4>6 DEF Serve
    <3> QED BY <1>1, <3>1 DEF CheckedByFirst
  <2> QED BY <2>1, <2>2
<1> QED BY <1>3, <1>4, <1>5 DEF CheckedByFirst
-----------------------------------------------------------------------------
(* IInv holds in every reachable state.                                    *)
THEOREM Invariance == Spec => []IInv
<1>1. IInv /\ [Next]_vars => IInv'
  <2> SUFFICES ASSUME IInv, [Next]_vars PROVE IInv'
    OBVIOUS
  <2>1. TypeOK'
    BY TypeStep DEF IInv
  <2>2. CASE MainStep
    BY <2>1, <2>2, MainPreserves
  <2>3. ASSUME NEW t \in Threads, ThreadStep(t) PROVE IInv'
    BY <2>1, <2>3, ThreadPreserves
  <2>4. ASSUME NEW k \in Calls, Serve(k) \/ Dial(k) \/ Break(k) PROVE IInv'
    <3>1. Serves' /\ CheckedByFirst'
      BY <2>1, <2>4, CallKeepsServing, CallKeepsFirst
    <3>2. UNCHANGED <<thread_count, main, server>>
      BY <2>4 DEF Serve, Match, Handle, FinishCompletes, FinishReturns, Dial, Break
    <3> QED BY <2>1, <3>1, <3>2 DEF IInv, BuiltFirst, DownOnlyUnbuilt
  <2>5. CASE UNCHANGED vars
    BY <2>1, <2>5 DEF vars, IInv, BuiltFirst, Serves, TakesSayHello, CheckedByFirst, DownOnlyUnbuilt
  <2> QED BY <2>2, <2>3, <2>4, <2>5 DEF Next
<1> QED BY <1>1, InitEstablishes, PTL DEF Spec

(* A caller told SERVING by the health check is right to call SayHello:    *)
(* thread 0 keeps a request of it, or is about to make the next one.       *)
THEOREM HealthIsHonest == Spec => []HealthyMeansServed
<1>1. IInv => HealthyMeansServed
  <2> SUFFICES ASSUME IInv, NEW c \in Callers, call[<<c, "Check">>].status = "OK"
               PROVE  TakesSayHello(0)
    BY DEF HealthyMeansServed, TakesSayHello
  <2>1. 0 \in Threads /\ thread[0] = "run"
    BY DEF IInv, CheckedByFirst
  <2> QED BY <2>1 DEF IInv, Serves
<1> QED BY <1>1, Invariance, PTL

(* main of a server that was built never returns and never crashes.        *)
THEOREM StaysUp == Spec => []DownOnlyUnbuilt
<1>1. IInv => DownOnlyUnbuilt
  BY DEF IInv
<1> QED BY <1>1, Invariance, PTL
=============================================================================
