------------------------- MODULE DataProviderProofs -------------------------
(***************************************************************************)
(* Every stream of run_data_provider is an EchoStream, for every number of *)
(* streams, requests and messages under way: the inductive invariant IInv  *)
(* and the refinement it supports.                                         *)
(***************************************************************************)
EXTENDS DataProvider, SequenceTheorems, TLAPS

(* The requests that the coroutine of s holds in its variable: one or none.*)
Holds(s) == IF op[s] = "write" THEN 1 ELSE 0

Echoed(s) == Len(received[s]) + Len(toCaller[s])

(* The answers read and under way answer the first requests sent, broken   *)
(* or not.                                                                 *)
InOrder(s) ==
  /\ Echoed(s) <= Len(sent[s])
  /\ \A n \in 1..Len(received[s]) : received[s][n] = Promise!Answer(sent[s][n])
  /\ \A n \in 1..Len(toCaller[s]) :
       toCaller[s][n] = Promise!Answer(sent[s][Len(received[s]) + n])

(* While s is not broken, what follows them is the request held and the    *)
(* requests under way.                                                     *)
NothingLost(s) ==
  ~Broken(s) =>
    /\ Len(sent[s]) = Echoed(s) + Holds(s) + Len(toServer[s])
    /\ op[s] = "write" => request[s] = sent[s][Echoed(s) + 1]
    /\ \A n \in 1..Len(toServer[s]) : toServer[s][n] = sent[s][Echoed(s) + Holds(s) + n]

(* A stream that is not broken is finished only after its caller closed it *)
(* and its last request was read.                                          *)
FinishedClosed(s) ==
  (op[s] = "finish" /\ ~Broken(s)) \/ status[s] = "OK" =>
    op[s] \in {"finish", "over"} /\ s \in closed /\ toServer[s] = <<>>

StreamInv(s) == InOrder(s) /\ NothingLost(s) /\ FinishedClosed(s)

IInv == TypeOK /\ \A s \in Streams : StreamInv(s)
-----------------------------------------------------------------------------
(* What request and data are filled with stays within its type.            *)
LEMMA AnswerType == ASSUME NEW r \in Request PROVE Promise!Answer(r) \in Data
BY DEF Data, Promise!Answer

(* What is left of a queue after a break is its first part.                *)
LEMMA CutQueue ==
  ASSUME NEW S, NEW q \in Seq(S), NEW m \in 0..Len(q)
  PROVE  /\ SubSeq(q, 1, m) \in Seq(S)
         /\ Len(SubSeq(q, 1, m)) = m
         /\ \A n \in 1..m : SubSeq(q, 1, m)[n] = q[n]
BY SubSeqProperties

(* Before the server is built every queue is empty.                        *)
LEMMA TypeInit == Init => TypeOK
<1> SUFFICES ASSUME Init PROVE TypeOK
  OBVIOUS
<1>1. <<>> \in Seq(Request) /\ <<>> \in Seq(Data)
  OBVIOUS
<1> QED BY <1>1 DEF Init, TypeOK

(* Every step of the coroutines, the callers and the transport keeps the   *)
(* types.                                                                  *)
LEMMA TypeStep == TypeOK /\ [Next]_vars => TypeOK'
<1> SUFFICES ASSUME TypeOK, [Next]_vars PROVE TypeOK'
  OBVIOUS
<1>1. CASE BuildAndStart
  BY <1>1 DEF TypeOK, BuildAndStart, callerVars
<1>2. ASSUME NEW s \in Streams, Match(s) PROVE TypeOK'
  BY <1>2 DEF TypeOK, Match, callerVars
<1>3. ASSUME NEW s \in Streams, HandleGet(s) PROVE TypeOK'
  BY <1>3 DEF TypeOK, HandleGet, callerVars
<1>4. ASSUME NEW s \in Streams, ReadReturns(s) PROVE TypeOK'
  BY <1>4 DEF TypeOK, ReadReturns, NextRequest, callerVars
<1>5. ASSUME NEW s \in Streams, ReadFails(s) PROVE TypeOK'
  BY <1>5 DEF TypeOK, ReadFails, callerVars
<1>6. ASSUME NEW s \in Streams, WriteReturns(s) PROVE TypeOK'
  <2>1. data(s) \in Data
    BY <1>6 DEF TypeOK, WriteReturns, data, Data
  <2> QED BY <1>6, <2>1 DEF TypeOK, WriteReturns, callerVars
<1>7. ASSUME NEW s \in Streams, WriteFails(s) PROVE TypeOK'
  BY <1>7 DEF TypeOK, WriteFails, callerVars
<1>8. ASSUME NEW s \in Streams, FinishReturns(s) PROVE TypeOK'
  BY <1>8 DEF TypeOK, FinishReturns, callerVars
<1>9. ASSUME NEW s \in Streams, Dial(s) PROVE TypeOK'
  BY <1>9 DEF TypeOK, Dial, callerVars
<1>10. ASSUME NEW s \in Streams, Write(s) PROVE TypeOK'
  BY <1>10 DEF TypeOK, Write, callerVars
<1>11. ASSUME NEW s \in Streams, WritesDone(s) PROVE TypeOK'
  BY <1>11 DEF TypeOK, WritesDone, callerVars
<1>12. ASSUME NEW s \in Streams, Read(s) PROVE TypeOK'
  BY <1>12 DEF TypeOK, Read, callerVars
<1>13. ASSUME NEW s \in Streams, Finish(s) PROVE TypeOK'
  BY <1>13 DEF TypeOK, Finish, callerVars
<1>14. ASSUME NEW s \in Streams, Break(s) PROVE TypeOK'
  <2>1. PICK m \in 0..Len(toServer[s]), n \in 0..Len(toCaller[s]) :
          /\ toServer' = [toServer EXCEPT ![s] = SubSeq(toServer[s], 1, m)]
          /\ toCaller' = [toCaller EXCEPT ![s] = SubSeq(toCaller[s], 1, n)]
    BY <1>14 DEF Break
  <2>2. SubSeq(toServer[s], 1, m) \in Seq(Request) /\ SubSeq(toCaller[s], 1, n) \in Seq(Data)
    BY CutQueue DEF TypeOK
  <2> QED BY <1>14, <2>1, <2>2 DEF TypeOK, Break, callerVars
<1>15. CASE UNCHANGED vars
  BY <1>15 DEF TypeOK, vars, callerVars
<1> QED BY <1>1, <1>2, <1>3, <1>4, <1>5, <1>6, <1>7, <1>8, <1>9, <1>10, <1>11, <1>12, <1>13,
           <1>14, <1>15 DEF Next, Coroutine

(* A step that leaves a stream alone keeps what is known of it.            *)
LEMMA Untouched ==
  ASSUME NEW s \in Streams, StreamInv(s),
         op'[s] = op[s], request'[s] = request[s], toServer'[s] = toServer[s],
         toCaller'[s] = toCaller[s], status'[s] = status[s], sent'[s] = sent[s],
         received'[s] = received[s], s \in closed' <=> s \in closed
  PROVE  StreamInv(s)'
BY DEF StreamInv, InOrder, NothingLost, FinishedClosed, Echoed, Holds, Broken, Promise!Answer

(* The types of the messages, which is what the arithmetic on them needs.  *)
Typed ==
  /\ toServer \in [Streams -> Seq(Request)] /\ sent \in [Streams -> Seq(Request)]
  /\ toCaller \in [Streams -> Seq(Data)] /\ received \in [Streams -> Seq(Data)]

(* The steps of one stream, each for that stream.                          *)
LEMMA ReadReturnsKeeps ==
  ASSUME TypeOK, TypeOK', NEW s \in Streams, StreamInv(s), ReadReturns(s)
  PROVE  StreamInv(s)'
<1>0. Typed /\ Typed' /\ InOrder(s) /\ NothingLost(s) /\ FinishedClosed(s)
  BY DEF StreamInv, TypeOK, Typed
<1>1. /\ op[s] = "read" /\ op'[s] = "write" /\ toServer[s] # <<>>
      /\ request'[s] = Head(toServer[s]) /\ toServer'[s] = Tail(toServer[s])
      /\ UNCHANGED <<toCaller, status, sent, received, closed>>
  BY DEF ReadReturns, NextRequest, callerVars, TypeOK
<1>2. /\ Len(toServer'[s]) = Len(toServer[s]) - 1 /\ Len(toServer[s]) > 0
      /\ \A n \in 1..Len(toServer'[s]) : toServer'[s][n] = toServer[s][n + 1]
      /\ Head(toServer[s]) = toServer[s][1]
  BY <1>0, <1>1, HeadTailProperties DEF Typed
<1>3. InOrder(s)'
  BY <1>0, <1>1 DEF Typed, InOrder, Echoed, Promise!Answer
<1>4. NothingLost(s)'
  <2>1. Echoed(s)' = Echoed(s) /\ Holds(s) = 0 /\ Holds(s)' = 1 /\ (Broken(s)' <=> Broken(s))
    BY <1>1 DEF Echoed, Holds, Broken
  <2>2. Echoed(s) \in Nat
    BY <1>0 DEF Typed, Echoed
  <2> SUFFICES ASSUME ~Broken(s)
               PROVE  /\ Len(sent'[s]) = Echoed(s)' + 1 + Len(toServer'[s])
                      /\ request'[s] = sent'[s][Echoed(s)' + 1]
                      /\ \A n \in 1..Len(toServer'[s]) : toServer'[s][n] = sent'[s][Echoed(s)' + 1 + n]
    BY <1>1, <2>1 DEF NothingLost
  <2>3. /\ Len(sent[s]) = Echoed(s) + Len(toServer[s])
        /\ \A n \in 1..Len(toServer[s]) : toServer[s][n] = sent[s][Echoed(s) + n]
    BY <1>0, <2>1, <2>2 DEF NothingLost, Typed
  <2>4. ASSUME NEW n \in 1..Len(toServer'[s])
        PROVE  toServer'[s][n] = sent'[s][Echoed(s)' + 1 + n]
    <3>1. n + 1 \in 1..Len(toServer[s]) /\ Echoed(s)' + 1 + n = Echoed(s) + (n + 1)
      BY <1>0, <1>2, <2>1, <2>2 DEF Typed
    <3>2. toServer[s][n + 1] = sent[s][Echoed(s) + (n + 1)]
      BY <2>3, <3>1
    <3> QED BY <1>1, <1>2, <3>1, <3>2
  <2>5. request'[s] = sent'[s][Echoed(s)' + 1]
    BY <1>0, <1>1, <1>2, <2>1, <2>3 DEF Typed
  <2>6. Len(sent'[s]) = Echoed(s)' + 1 + Len(toServer'[s])
    BY <1>0, <1>1, <1>2, <2>1, <2>2, <2>3 DEF Typed
  <2> QED BY <2>4, <2>5, <2>6
<1>5. FinishedClosed(s)'
  BY <1>0, <1>1 DEF FinishedClosed, Broken
<1> QED BY <1>3, <1>4, <1>5 DEF StreamInv

(* A read or a write that fails leaves the coroutine for its last call and *)
(* loses no more than a broken stream may.                                 *)
LEMMA ReadFailsKeeps ==
  ASSUME TypeOK, TypeOK', NEW s \in Streams, StreamInv(s), ReadFails(s) \/ WriteFails(s)
  PROVE  StreamInv(s)'
<1>0. Typed /\ Typed' /\ InOrder(s) /\ NothingLost(s) /\ FinishedClosed(s)
  BY DEF StreamInv, TypeOK, Typed
<1>1. /\ op[s] \in {"read", "write"} /\ op'[s] = "finish"
      /\ UNCHANGED <<request, toServer, toCaller, status, sent, received, closed>>
      /\ Broken(s) \/ (op[s] = "read" /\ NoneLeft(s))
  BY DEF ReadFails, WriteFails, callerVars, TypeOK
<1>2. InOrder(s)'
  BY <1>0, <1>1 DEF Typed, InOrder, Echoed, Promise!Answer
<1>3. NothingLost(s)'
  BY <1>0, <1>1 DEF Typed, NothingLost, Echoed, Holds, Broken
<1>4. FinishedClosed(s)'
  BY <1>0, <1>1 DEF FinishedClosed, Broken, NoneLeft
<1> QED BY <1>2, <1>3, <1>4 DEF StreamInv

(* A write that returns moves the answer the coroutine holds to the end of *)
(* what the caller is to read.                                             *)
LEMMA WriteReturnsKeeps ==
  ASSUME TypeOK, TypeOK', NEW s \in Streams, StreamInv(s), WriteReturns(s)
  PROVE  StreamInv(s)'
<1>0. Typed /\ Typed' /\ InOrder(s) /\ NothingLost(s) /\ FinishedClosed(s)
  BY DEF StreamInv, TypeOK, Typed
<1>1. /\ op[s] = "write" /\ op'[s] = "read" /\ ~Broken(s)
      /\ toCaller'[s] = Append(toCaller[s], Promise!Answer(request[s]))
      /\ request[s] \in Request
      /\ UNCHANGED <<request, toServer, status, sent, received, closed>>
  BY DEF WriteReturns, data, callerVars, TypeOK, Promise!Answer
<1>2. /\ Len(toCaller'[s]) = Len(toCaller[s]) + 1
      /\ toCaller'[s][Len(toCaller[s]) + 1] = Promise!Answer(request[s])
      /\ \A n \in 1..Len(toCaller[s]) : toCaller'[s][n] = toCaller[s][n]
  BY <1>0, <1>1, AnswerType DEF Typed
<1>3. /\ Echoed(s)' = Echoed(s) + 1 /\ Holds(s) = 1 /\ Holds(s)' = 0 /\ (Broken(s)' <=> Broken(s))
      /\ Echoed(s) \in Nat
  BY <1>0, <1>1, <1>2 DEF Typed, Echoed, Holds, Broken
<1>4. /\ Len(sent[s]) = Echoed(s) + 1 + Len(toServer[s])
      /\ request[s] = sent[s][Echoed(s) + 1]
      /\ \A n \in 1..Len(toServer[s]) : toServer[s][n] = sent[s][Echoed(s) + 1 + n]
  BY <1>0, <1>1, <1>3 DEF NothingLost
<1>5. InOrder(s)'
  <2>1. Echoed(s)' <= Len(sent'[s])
    BY <1>0, <1>1, <1>3, <1>4 DEF Typed
  <2>2. \A n \in 1..Len(received'[s]) : received'[s][n] = Promise!Answer(sent[s][n])'
    BY <1>0, <1>1 DEF InOrder, Promise!Answer
  <2>3. ASSUME NEW n \in 1..Len(toCaller'[s])
        PROVE  toCaller'[s][n] = Promise!Answer(sent[s][Len(received[s]) + n])'
    <3>1. CASE n \in 1..Len(toCaller[s])
      BY <1>0, <1>1, <1>2, <3>1 DEF InOrder, Promise!Answer
    <3>2. CASE n = Len(toCaller[s]) + 1
      BY <1>0, <1>1, <1>2, <1>4, <3>2 DEF Typed, Echoed, Promise!Answer
    <3> QED BY <1>0, <1>2, <3>1, <3>2 DEF Typed
  <2> QED BY <2>1, <2>2, <2>3 DEF InOrder
<1>6. NothingLost(s)'
  BY <1>0, <1>1, <1>3, <1>4 DEF Typed, NothingLost
<1>7. FinishedClosed(s)'
  BY <1>0, <1>1 DEF FinishedClosed, Broken
<1> QED BY <1>5, <1>6, <1>7 DEF StreamInv

(* finish ends the stream with nothing more to answer.                     *)
LEMMA FinishReturnsKeeps ==
  ASSUME TypeOK, TypeOK', NEW s \in Streams, StreamInv(s), FinishReturns(s)
  PROVE  StreamInv(s)'
<1>0. Typed /\ Typed' /\ InOrder(s) /\ NothingLost(s) /\ FinishedClosed(s)
  BY DEF StreamInv, TypeOK, Typed
<1>1. /\ op[s] = "finish" /\ op'[s] = "over"
      /\ status'[s] = IF status[s] = "none" THEN "OK" ELSE status[s]
      /\ status[s] \in {"none", "OK", "UNAVAILABLE"}
      /\ UNCHANGED <<toServer, toCaller, sent, received, closed>>
  BY DEF FinishReturns, callerVars, TypeOK
<1>2. InOrder(s)'
  BY <1>0, <1>1 DEF Typed, InOrder, Echoed, Promise!Answer
<1>3. NothingLost(s)'
  BY <1>0, <1>1 DEF Typed, NothingLost, Echoed, Holds, Broken
<1>4. FinishedClosed(s)'
  BY <1>0, <1>1 DEF FinishedClosed, Broken
<1> QED BY <1>2, <1>3, <1>4 DEF StreamInv

(* The steps before the coroutine runs leave the messages alone.           *)
LEMMA StartKeeps ==
  ASSUME TypeOK, TypeOK', NEW s \in Streams, StreamInv(s), Match(s) \/ HandleGet(s) \/ Dial(s)
  PROVE  StreamInv(s)'
<1>0. Typed /\ Typed' /\ InOrder(s) /\ NothingLost(s) /\ FinishedClosed(s)
  BY DEF StreamInv, TypeOK, Typed
<1>1. /\ op[s] \in {"none", "pending", "request"} /\ op'[s] \in {"none", "pending", "request", "read"}
      /\ status'[s] = status[s] \/ status'[s] = "UNAVAILABLE"
      /\ UNCHANGED <<request, toServer, toCaller, sent, received, closed>>
  BY DEF Match, HandleGet, Dial, callerVars, TypeOK
<1>2. InOrder(s)'
  BY <1>0, <1>1 DEF Typed, InOrder, Echoed, Promise!Answer
<1>3. NothingLost(s)'
  BY <1>0, <1>1 DEF Typed, NothingLost, Echoed, Holds, Broken
<1>4. FinishedClosed(s)'
  BY <1>0, <1>1 DEF FinishedClosed, Broken
<1> QED BY <1>2, <1>3, <1>4 DEF StreamInv

(* The steps of the caller and of the transport.                           *)
LEMMA WriteKeeps ==
  ASSUME TypeOK, TypeOK', NEW s \in Streams, StreamInv(s), Write(s)
  PROVE  StreamInv(s)'
<1>0. Typed /\ Typed' /\ InOrder(s) /\ NothingLost(s) /\ FinishedClosed(s)
  BY DEF StreamInv, TypeOK, Typed
<1>1. PICK r \in Request : /\ sent' = [sent EXCEPT ![s] = Append(sent[s], r)]
                           /\ toServer' = [toServer EXCEPT ![s] = Append(toServer[s], r)]
  BY DEF Write
<1>2. /\ UNCHANGED <<op, request, toCaller, status, received, closed>>
      /\ s \notin closed /\ ~Broken(s)
  BY DEF Write, Open
<1>3. /\ Len(sent'[s]) = Len(sent[s]) + 1 /\ sent'[s][Len(sent[s]) + 1] = r
      /\ \A n \in 1..Len(sent[s]) : sent'[s][n] = sent[s][n]
      /\ Len(toServer'[s]) = Len(toServer[s]) + 1 /\ toServer'[s][Len(toServer[s]) + 1] = r
      /\ \A n \in 1..Len(toServer[s]) : toServer'[s][n] = toServer[s][n]
  BY <1>0, <1>1 DEF Typed
<1>4. /\ Echoed(s)' = Echoed(s) /\ Holds(s)' = Holds(s)
      /\ Echoed(s) \in Nat /\ Holds(s) \in Nat /\ (op[s] = "write" => Holds(s) = 1)
  BY <1>0, <1>2 DEF Typed, Echoed, Holds
<1>5. /\ Len(sent[s]) = Echoed(s) + Holds(s) + Len(toServer[s])
      /\ op[s] = "write" => request[s] = sent[s][Echoed(s) + 1]
      /\ \A n \in 1..Len(toServer[s]) : toServer[s][n] = sent[s][Echoed(s) + Holds(s) + n]
  BY <1>0, <1>2 DEF NothingLost
<1>6. InOrder(s)'
  <2>1. Echoed(s)' <= Len(sent'[s])
    BY <1>0, <1>3, <1>4 DEF Typed, InOrder
  <2>2. ASSUME NEW n \in 1..Len(received'[s])
        PROVE  received'[s][n] = Promise!Answer(sent[s][n])'
    <3>1. n \in 1..Len(received[s]) /\ n \in 1..Len(sent[s])
      BY <1>0, <1>2 DEF Typed, InOrder, Echoed
    <3> QED BY <1>0, <1>2, <1>3, <3>1 DEF InOrder, Promise!Answer
  <2>3. ASSUME NEW n \in 1..Len(toCaller'[s])
        PROVE  toCaller'[s][n] = Promise!Answer(sent[s][Len(received[s]) + n])'
    <3>1. n \in 1..Len(toCaller[s]) /\ Len(received[s]) + n \in 1..Len(sent[s])
      BY <1>0, <1>2 DEF Typed, InOrder, Echoed
    <3> QED BY <1>0, <1>2, <1>3, <3>1 DEF InOrder, Promise!Answer
  <2> QED BY <2>1, <2>2, <2>3 DEF InOrder
<1>7. NothingLost(s)'
  <2>1. Len(sent'[s]) = Echoed(s)' + Holds(s)' + Len(toServer'[s])
    BY <1>0, <1>3, <1>4, <1>5 DEF Typed
  <2>2. op[s] = "write" => request'[s] = sent'[s][Echoed(s)' + 1]
    BY <1>0, <1>2, <1>3, <1>4, <1>5 DEF Typed
  <2>3. ASSUME NEW n \in 1..Len(toServer'[s])
        PROVE  toServer'[s][n] = sent'[s][Echoed(s)' + Holds(s)' + n]
    <3>1. CASE n \in 1..Len(toServer[s])
      <4>1. Echoed(s) + Holds(s) + n \in 1..Len(sent[s])
        BY <1>0, <1>4, <1>5, <3>1 DEF Typed
      <4> QED BY <1>3, <1>4, <1>5, <3>1, <4>1
    <3>2. CASE n = Len(toServer[s]) + 1
      <4>1. Echoed(s) + Holds(s) + n = Len(sent[s]) + 1
        BY <1>0, <1>4, <1>5, <3>2 DEF Typed
      <4> QED BY <1>3, <1>4, <3>2, <4>1
    <3> QED BY <1>0, <1>3, <3>1, <3>2 DEF Typed
  <2> QED BY <1>2, <2>1, <2>2, <2>3 DEF NothingLost
<1>8. FinishedClosed(s)'
  BY <1>0, <1>2 DEF FinishedClosed, Broken
<1> QED BY <1>6, <1>7, <1>8 DEF StreamInv

(* What the caller reads is the answer to the first request that it has    *)
(* none of yet.                                                            *)
LEMMA ReadKeeps ==
  ASSUME TypeOK, TypeOK', NEW s \in Streams, StreamInv(s), Read(s)
  PROVE  /\ StreamInv(s)'
         /\ Len(received[s]) < Len(sent[s])
         /\ Head(toCaller[s]) = Promise!Answer(sent[s][Len(received[s]) + 1])
<1>0. Typed /\ Typed' /\ InOrder(s) /\ NothingLost(s) /\ FinishedClosed(s)
  BY DEF StreamInv, TypeOK, Typed
<1>1. /\ toCaller[s] # <<>> /\ toCaller'[s] = Tail(toCaller[s])
      /\ received'[s] = Append(received[s], Head(toCaller[s]))
      /\ UNCHANGED <<op, request, toServer, status, sent, closed>>
  BY DEF Read, TypeOK
<1>2. /\ Len(toCaller'[s]) = Len(toCaller[s]) - 1 /\ Len(toCaller[s]) > 0
      /\ \A n \in 1..Len(toCaller'[s]) : toCaller'[s][n] = toCaller[s][n + 1]
      /\ Head(toCaller[s]) = toCaller[s][1] /\ Head(toCaller[s]) \in Data
  BY <1>0, <1>1, HeadTailProperties DEF Typed
<1>3. /\ Len(received'[s]) = Len(received[s]) + 1
      /\ received'[s][Len(received[s]) + 1] = Head(toCaller[s])
      /\ \A n \in 1..Len(received[s]) : received'[s][n] = received[s][n]
  BY <1>0, <1>1, <1>2 DEF Typed
<1>4. /\ Echoed(s)' = Echoed(s) /\ Len(received[s]) < Echoed(s) /\ Echoed(s) <= Len(sent[s])
  BY <1>0, <1>2, <1>3 DEF Typed, Echoed, InOrder
<1>5. Head(toCaller[s]) = Promise!Answer(sent[s][Len(received[s]) + 1])
  BY <1>0, <1>2 DEF Typed, InOrder
<1>6. InOrder(s)'
  <2>1. ASSUME NEW n \in 1..Len(received'[s])
        PROVE  received'[s][n] = Promise!Answer(sent[s][n])'
    <3>1. CASE n \in 1..Len(received[s])
      BY <1>0, <1>1, <1>3, <3>1 DEF InOrder, Promise!Answer
    <3>2. CASE n = Len(received[s]) + 1
      BY <1>1, <1>3, <1>5, <3>2 DEF Promise!Answer
    <3> QED BY <1>0, <1>3, <3>1, <3>2 DEF Typed
  <2>2. ASSUME NEW n \in 1..Len(toCaller'[s])
        PROVE  toCaller'[s][n] = Promise!Answer(sent[s][Len(received[s]) + n])'
    <3>1. n + 1 \in 1..Len(toCaller[s])
      BY <1>0, <1>2 DEF Typed
    <3>2. toCaller[s][n + 1] = Promise!Answer(sent[s][Len(received[s]) + (n + 1)])
      BY <1>0, <3>1 DEF InOrder
    <3>3. Len(received'[s]) + n = Len(received[s]) + (n + 1)
      BY <1>0, <1>3 DEF Typed
    <3> QED BY <1>1, <1>2, <3>2, <3>3 DEF Promise!Answer
  <2> QED BY <1>1, <1>4, <2>1, <2>2 DEF InOrder
<1>7. NothingLost(s)'
  BY <1>0, <1>1, <1>4 DEF NothingLost, Holds, Broken
<1>8. FinishedClosed(s)'
  BY <1>0, <1>1 DEF FinishedClosed, Broken
<1>9. Len(received[s]) < Len(sent[s])
  BY <1>0, <1>4 DEF Typed, Echoed
<1> QED BY <1>5, <1>6, <1>7, <1>8, <1>9 DEF StreamInv

(* A broken connection cuts the queues and leaves what is in them in       *)
(* order.                                                                  *)
LEMMA BreakKeeps ==
  ASSUME TypeOK, TypeOK', NEW s \in Streams, StreamInv(s), Break(s)
  PROVE  StreamInv(s)'
<1>0. Typed /\ Typed' /\ InOrder(s) /\ NothingLost(s) /\ FinishedClosed(s)
  BY DEF StreamInv, TypeOK, Typed
<1>1. PICK n \in 0..Len(toCaller[s]) : toCaller' = [toCaller EXCEPT ![s] = SubSeq(toCaller[s], 1, n)]
  BY DEF Break
<1>2. /\ status'[s] = "UNAVAILABLE" /\ UNCHANGED <<sent, received>>
  BY DEF Break, TypeOK, callerVars
<1>3. /\ Len(toCaller'[s]) = n /\ n <= Len(toCaller[s])
      /\ \A k \in 1..n : toCaller'[s][k] = toCaller[s][k]
  BY <1>0, <1>1, CutQueue DEF Typed
<1>4. InOrder(s)'
  <2>1. Echoed(s)' <= Len(sent'[s])
    BY <1>0, <1>2, <1>3 DEF Typed, InOrder, Echoed
  <2>2. \A k \in 1..Len(received'[s]) : received'[s][k] = Promise!Answer(sent[s][k])'
    BY <1>0, <1>2 DEF InOrder, Promise!Answer
  <2>3. \A k \in 1..Len(toCaller'[s]) :
          toCaller'[s][k] = Promise!Answer(sent[s][Len(received[s]) + k])'
    <3>1. \A k \in 1..n : k \in 1..Len(toCaller[s])
      BY <1>0, <1>3 DEF Typed
    <3> QED BY <1>0, <1>2, <1>3, <3>1 DEF InOrder, Promise!Answer
  <2> QED BY <2>1, <2>2, <2>3 DEF InOrder
<1>5. NothingLost(s)' /\ FinishedClosed(s)'
  BY <1>2 DEF NothingLost, FinishedClosed, Broken
<1> QED BY <1>4, <1>5 DEF StreamInv

(* The calls that move no message keep the streams as they are.            *)
LEMMA CloseKeeps ==
  ASSUME NEW s \in Streams, StreamInv(s), WritesDone(s) \/ Finish(s) \/ BuildAndStart \/ UNCHANGED vars
  PROVE  StreamInv(s)'
<1>1. /\ UNCHANGED <<op, request, toServer, toCaller, status, sent, received>>
      /\ s \in closed => s \in closed'
  BY DEF WritesDone, Finish, BuildAndStart, vars, callerVars
<1> QED BY <1>1 DEF StreamInv, InOrder, NothingLost, FinishedClosed, Echoed, Holds, Broken, Promise!Answer
-----------------------------------------------------------------------------
(* A stream starts with nothing sent, held or received.                    *)
LEMMA InitEstablishes == Init => IInv
<1> SUFFICES ASSUME Init PROVE IInv
  OBVIOUS
<1>1. ASSUME NEW s \in Streams PROVE StreamInv(s)
  <2>1. /\ op[s] = "none" /\ status[s] = "none"
        /\ toServer[s] = <<>> /\ toCaller[s] = <<>> /\ sent[s] = <<>> /\ received[s] = <<>>
    BY DEF Init
  <2> QED BY <2>1 DEF StreamInv, InOrder, NothingLost, FinishedClosed, Echoed, Holds, Broken
<1> QED BY <1>1, TypeInit DEF IInv

(* Whichever stream a step is about, what is known of s is kept.           *)
LEMMA StreamStep ==
  ASSUME IInv, TypeOK', [Next]_vars, NEW s \in Streams
  PROVE  StreamInv(s)'
<1>0. TypeOK /\ StreamInv(s)
  BY DEF IInv
<1>1. CASE BuildAndStart \/ UNCHANGED vars
  BY <1>0, <1>1, CloseKeeps
<1>2. ASSUME NEW t \in Streams,
             \/ Coroutine(t)
             \/ Dial(t) \/ Write(t) \/ WritesDone(t) \/ Read(t) \/ Finish(t)
             \/ Break(t)
      PROVE  StreamInv(s)'
  <2>1. CASE t = s
    BY <1>0, <1>2, <2>1, ReadReturnsKeeps, ReadFailsKeeps, WriteReturnsKeeps, FinishReturnsKeeps,
       StartKeeps, WriteKeeps, ReadKeeps, BreakKeeps, CloseKeeps DEF Coroutine
  <2>2. CASE t # s
    <3>1. /\ op'[s] = op[s] /\ request'[s] = request[s] /\ toServer'[s] = toServer[s]
          /\ toCaller'[s] = toCaller[s] /\ status'[s] = status[s] /\ sent'[s] = sent[s]
          /\ received'[s] = received[s] /\ (s \in closed' <=> s \in closed)
      <4> USE <1>0, <2>2 DEF TypeOK, callerVars
      <4>1. CASE Match(t) \/ HandleGet(t)
        BY <4>1 DEF Match, HandleGet
      <4>2. CASE ReadReturns(t) \/ ReadFails(t)
        BY <4>2 DEF ReadReturns, ReadFails
      <4>3. CASE WriteReturns(t) \/ WriteFails(t) \/ FinishReturns(t)
        BY <4>3 DEF WriteReturns, WriteFails, FinishReturns
      <4>4. CASE Write(t) \/ WritesDone(t)
        BY <4>4 DEF Write, WritesDone
      <4>5. CASE Read(t) \/ Finish(t)
        BY <4>5 DEF Read, Finish
      <4>6. CASE Break(t)
        BY <4>6 DEF Break
      <4>7. CASE Dial(t)
        BY <4>7 DEF Dial
      <4> QED BY <1>2, <4>1, <4>2, <4>3, <4>4, <4>5, <4>6, <4>7 DEF Coroutine
    <3> QED BY <1>0, <3>1, Untouched
  <2> QED BY <2>1, <2>2
<1> QED BY <1>1, <1>2 DEF Next

(* IInv holds whatever overlaps or breaks.                                 *)
THEOREM Invariance == Spec => []IInv
<1>1. Init => IInv
  BY InitEstablishes
<1>2. IInv /\ [Next]_vars => IInv'
  <2> SUFFICES ASSUME IInv, [Next]_vars PROVE IInv'
    OBVIOUS
  <2>1. TypeOK'
    BY TypeStep DEF IInv
  <2>2. \A s \in Streams : StreamInv(s)'
    BY <2>1, StreamStep
  <2> QED BY <2>1, <2>2 DEF IInv
<1> QED BY <1>1, <1>2, PTL DEF Spec

(* The coroutines' variables and the messages under way keep their types:  *)
(* in particular a coroutine of Get never writes before it has read.       *)
THEOREM TypeCorrect == Spec => []TypeOK
<1>1. IInv => TypeOK
  BY DEF IInv
<1> QED BY <1>1, Invariance, PTL

(* For any number of streams, requests and messages under way, no request  *)
(* of Get is lost, repeated or answered out of turn on an unbroken stream. *)
THEOREM RequestsConserved == Spec => []Conserved
<1>1. IInv => Conserved
  <2> SUFFICES ASSUME IInv, NEW s \in Streams, ~Broken(s)
               PROVE  LET answered == received[s] \o toCaller[s]
                          held == IF op[s] = "write" THEN <<request[s]>> ELSE <<>>
                      IN  /\ Len(sent[s]) = Len(answered) + Len(held \o toServer[s])
                          /\ \A n \in DOMAIN sent[s] :
                               IF n <= Len(answered) THEN answered[n] = Promise!Answer(sent[s][n])
                               ELSE sent[s][n] = (held \o toServer[s])[n - Len(answered)]
    BY DEF Conserved
  <2> DEFINE answered == received[s] \o toCaller[s]
             held == IF op[s] = "write" THEN <<request[s]>> ELSE <<>>
  <2>0. Typed /\ InOrder(s) /\ NothingLost(s)
    BY DEF IInv, StreamInv, TypeOK, Typed
  <2>1. /\ answered \in Seq(Data) /\ Len(answered) = Echoed(s)
        /\ \A n \in 1..Len(received[s]) : answered[n] = received[s][n]
        /\ \A n \in (Len(received[s]) + 1)..Echoed(s) : answered[n] = toCaller[s][n - Len(received[s])]
    BY <2>0 DEF Typed, Echoed
  <2>2. held \in Seq(Request) /\ Len(held) = Holds(s) /\ (Holds(s) = 1 => held[1] = request[s])
    BY DEF IInv, TypeOK, Holds
  <2>3. /\ Len(held \o toServer[s]) = Holds(s) + Len(toServer[s])
        /\ \A n \in 1..(Holds(s) + Len(toServer[s])) :
             (held \o toServer[s])[n] = IF n <= Holds(s) THEN held[n] ELSE toServer[s][n - Holds(s)]
    <3> HIDE DEF held
    <3>1. toServer[s] \in Seq(Request) /\ Len(toServer[s]) \in Nat
      BY <2>0 DEF Typed
    <3>2. /\ Len(held \o toServer[s]) = Len(held) + Len(toServer[s])
          /\ \A n \in 1..(Len(held) + Len(toServer[s])) :
               (held \o toServer[s])[n] = IF n <= Len(held) THEN held[n] ELSE toServer[s][n - Len(held)]
      BY <2>2, <3>1, ConcatProperties
    <3> QED BY <2>2, <3>2
  <2>4. /\ Len(sent[s]) = Echoed(s) + Holds(s) + Len(toServer[s])
        /\ op[s] = "write" => request[s] = sent[s][Echoed(s) + 1]
        /\ \A n \in 1..Len(toServer[s]) : toServer[s][n] = sent[s][Echoed(s) + Holds(s) + n]
    BY <2>0 DEF NothingLost
  <2>5. Echoed(s) \in Nat /\ Holds(s) \in Nat /\ Holds(s) <= 1 /\ (Holds(s) = 1 => op[s] = "write")
    BY <2>0 DEF Typed, Echoed, Holds
  <2>6. Len(sent[s]) = Len(answered) + Len(held \o toServer[s])
    <3> HIDE DEF held, answered
    <3> QED BY <2>0, <2>1, <2>3, <2>4, <2>5 DEF Typed
  <2>7. ASSUME NEW n \in DOMAIN sent[s], n <= Len(answered)
        PROVE  answered[n] = Promise!Answer(sent[s][n])
    <3>1. n \in 1..Len(sent[s]) /\ n <= Echoed(s)
      BY <2>0, <2>1, <2>7 DEF Typed
    <3>2. CASE n \in 1..Len(received[s])
      BY <2>0, <2>1, <3>2 DEF InOrder
    <3>3. CASE n \in (Len(received[s]) + 1)..Echoed(s)
      <4>1. n - Len(received[s]) \in 1..Len(toCaller[s]) /\ Len(received[s]) + (n - Len(received[s])) = n
        BY <2>0, <3>3 DEF Typed, Echoed
      <4>2. toCaller[s][n - Len(received[s])] = Promise!Answer(sent[s][n])
        BY <2>0, <4>1 DEF InOrder
      <4> QED BY <2>1, <3>3, <4>2
    <3> QED BY <2>0, <3>1, <3>2, <3>3 DEF Typed, Echoed
  <2>8. ASSUME NEW n \in DOMAIN sent[s], ~(n <= Len(answered))
        PROVE  sent[s][n] = (held \o toServer[s])[n - Len(answered)]
    <3> DEFINE k == n - Echoed(s)
    <3> HIDE DEF held, answered
    <3>1. k \in 1..(Holds(s) + Len(toServer[s])) /\ k = n - Len(answered)
      BY <2>0, <2>1, <2>4, <2>5, <2>8 DEF Typed
    <3>2. CASE k <= Holds(s)
      <4>1. k = 1 /\ Holds(s) = 1 /\ n = Echoed(s) + 1
        BY <2>0, <2>5, <3>1, <3>2 DEF Typed
      <4> QED BY <2>2, <2>3, <2>4, <2>5, <3>1, <3>2, <4>1
    <3>3. CASE ~(k <= Holds(s))
      <4>1. k - Holds(s) \in 1..Len(toServer[s]) /\ Echoed(s) + Holds(s) + (k - Holds(s)) = n
        BY <2>0, <2>5, <3>1, <3>3 DEF Typed
      <4> QED BY <2>3, <2>4, <3>1, <3>3, <4>1
    <3> QED BY <3>2, <3>3
  <2> QED BY <2>6, <2>7, <2>8
<1> QED BY <1>1, Invariance, PTL

(* Every step of the data provider, its callers and the transport is a     *)
(* step of EchoStream or changes nothing that a caller sees.               *)
LEMMA StepRefines == IInv /\ TypeOK' /\ [Next]_vars => [Promise!EchoNext]_(Promise!echoVars)
<1> SUFFICES ASSUME IInv, TypeOK', [Next]_vars
             PROVE  Promise!EchoNext \/ UNCHANGED callerVars
  BY DEF Promise!echoVars, callerVars
<1>0. TypeOK /\ \A s \in Streams : StreamInv(s)
  BY DEF IInv
<1>1. CASE BuildAndStart \/ UNCHANGED vars
  BY <1>1 DEF BuildAndStart, vars
<1>2. ASSUME NEW s \in Streams, Coroutine(s) \/ Dial(s) \/ Break(s)
      PROVE  UNCHANGED callerVars
  BY <1>2 DEF Coroutine, Match, HandleGet, ReadReturns, ReadFails, WriteReturns, WriteFails,
              FinishReturns, Dial, Break
<1>3. ASSUME NEW s \in Streams, Write(s)
      PROVE  Promise!Send(s)
  BY <1>3 DEF Write, Open, Promise!Send
<1>4. ASSUME NEW s \in Streams, WritesDone(s)
      PROVE  Promise!Close(s)
  BY <1>4 DEF WritesDone, Promise!Close
<1>5. ASSUME NEW s \in Streams, Read(s)
      PROVE  Promise!Receive(s)
  <2>1. /\ Len(received[s]) < Len(sent[s])
        /\ Head(toCaller[s]) = Promise!Answer(sent[s][Len(received[s]) + 1])
    BY <1>0, <1>5, ReadKeeps
  <2> QED BY <1>5, <2>1 DEF Read, Promise!Receive
<1>6. ASSUME NEW s \in Streams, Finish(s)
      PROVE  Promise!End(s)
  <2>1. CASE status[s] = "OK"
    <3>1. Typed /\ InOrder(s) /\ NothingLost(s) /\ FinishedClosed(s)
      BY <1>0 DEF StreamInv, TypeOK, Typed
    <3>2. s \in closed /\ toServer[s] = <<>> /\ toCaller[s] = <<>> /\ op[s] # "write"
      BY <1>6, <2>1, <3>1 DEF FinishedClosed, Finish
    <3>3. Len(sent[s]) = Len(received[s])
      BY <2>1, <3>1, <3>2 DEF NothingLost, Broken, Echoed, Holds, Typed
    <3> QED BY <1>6, <2>1, <3>2, <3>3 DEF Finish, Promise!End
  <2>2. CASE status[s] = "UNAVAILABLE"
    BY <1>6, <2>2 DEF Finish, Promise!End
  <2> QED BY <1>0, <1>6, <2>1, <2>2 DEF Finish, TypeOK
<1> QED BY <1>1, <1>2, <1>3, <1>4, <1>5, <1>6 DEF Next, Promise!EchoNext

(* run_data_provider keeps the promise of EchoStream to every caller,      *)
(* whatever overlaps or breaks: each request is answered once, in order,   *)
(* with its own id and input, and OK means that all were answered.         *)
THEOREM ImplementsEchoStream == Spec => KeepsPromise
<1>1. Init => Promise!EchoInit
  BY DEF Init, Promise!EchoInit
<1> QED BY <1>1, StepRefines, Invariance, TypeCorrect, PTL DEF Spec, KeepsPromise, Promise!EchoSpec
=============================================================================
