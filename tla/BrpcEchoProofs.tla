--------------------------- MODULE BrpcEchoProofs ---------------------------
(***************************************************************************)
(* Each response that the client logs is the echo of what one call sends,  *)
(* for every number of calls and retries: the inductive invariant IInv.    *)
(***************************************************************************)
EXTENDS BrpcEcho, TLAPS

(* A call under way has been made.                                         *)
CallMade == client = "call" => log_id > 0

(* What was sent: the message, and the attachment once.                    *)
IsSent(r) == r.message = "hello" /\ r.attachment = 1

(* The controller of a call, each request and what Echo was given.         *)
Sent ==
  /\ client = "call" => cntl = 1
  /\ \A r \in requests : IsSent(r)
  /\ \A e \in busy : IsSent(e.request)

(* What Echo fills in.                                                     *)
IsEcho(r) == r.message = "hello" /\ r.attachment = IF echo_attachment THEN 1 ELSE 0

(* Echo starts from an empty attachment, and done sends what it has filled.*)
Answered ==
  /\ \A e \in busy :
       /\ e.at = "entered" => e.response.attachment = 0
       /\ e.at = "filled" => IsEcho(e.response)
  /\ \A r \in responses : IsEcho(r)

IInv == TypeOK /\ CallMade /\ Sent /\ Answered /\ LoggedEcho
-----------------------------------------------------------------------------
(* Nothing was called, sent or logged when the programs start.             *)
LEMMA InitEstablishes == Init => IInv
BY BrpcEchoAssumption
   DEF Init, IInv, TypeOK, CallMade, Sent, Answered, LoggedEcho

(* A try is a message of its call, with what the controller has attached.  *)
LEMMA SendKeeps ==
  ASSUME IInv, NEW c \in CallIds, NEW try \in 1..(max_retry + 1),
         Send(c, try, 1), UNCHANGED <<responses, serverVars, logged>>
  PROVE  /\ tries' \in 0..(max_retry + 1)
         /\ (requests \cup responses \cup logged)' \subseteq Messages
         /\ \A r \in requests' : IsSent(r)
<1>1. PICK m \in Messages : requests' = requests \cup {m} /\ IsSent(m)
  <2> DEFINE n == [log_id |-> c, try |-> try, message |-> "hello", attachment |-> 1]
  <2>1. n \in Messages
    BY DEF Messages
  <2>2. requests' = requests \cup {n}
    BY DEF Send
  <2>3. IsSent(n)
    BY DEF IsSent
  <2> QED BY <2>1, <2>2, <2>3
<1>2. (requests \cup responses \cup logged)' \subseteq Messages
  BY <1>1 DEF IInv, TypeOK
<1>3. \A r \in requests' : IsSent(r)
  BY <1>1 DEF IInv, Sent
<1>4. tries' \in 0..(max_retry + 1)
  BY BrpcEchoAssumption DEF Send
<1> QED BY <1>2, <1>3, <1>4

(* A new call starts with an empty controller, a retry with the one its    *)
(* call has: either sends the attachment once.                             *)
LEMMA SendStep ==
  ASSUME IInv, Call \/ Retry
  PROVE  IInv'
<1>1. PICK c \in CallIds, try \in 1..(max_retry + 1) : Send(c, try, 1)
  <2>1. CASE Call
    <3>1. log_id \in CallIds
      BY <2>1, BrpcEchoAssumption DEF Call, IInv, TypeOK, CallIds
    <3>2. cntl' = 1
      BY <2>1 DEF Call, NewController
    <3>3. 1 \in 1..(max_retry + 1)
      BY BrpcEchoAssumption
    <3> QED BY <2>1, <3>1, <3>2, <3>3 DEF Call
  <2>2. CASE Retry
    <3>1. log_id \in 0..MaxCalls /\ log_id > 0
      BY <2>2 DEF Retry, IInv, TypeOK, CallMade
    <3>2. current \in CallIds
      BY <3>1, BrpcEchoAssumption DEF current, CallIds
    <3>3. tries \in 0..(max_retry + 1) /\ tries <= max_retry
      BY <2>2 DEF Retry, options_max_retry, IInv, TypeOK
    <3>4. tries + 1 \in 1..(max_retry + 1)
      BY <3>3, BrpcEchoAssumption
    <3>5. cntl = 1
      BY <2>2 DEF Retry, IInv, Sent
    <3> QED BY <2>2, <3>2, <3>4, <3>5 DEF Retry
  <2> QED BY <2>1, <2>2
<1>2. UNCHANGED <<logged, serverVars, responses, asked>>
  BY DEF Call, Retry
<1>3. /\ tries' \in 0..(max_retry + 1)
      /\ (requests \cup responses \cup logged)' \subseteq Messages
      /\ \A r \in requests' : IsSent(r)
  BY <1>1, <1>2, SendKeeps
<1>4. client' = "call" /\ log_id' \in 0..MaxCalls /\ log_id' > 0 /\ cntl' = 1
  <2>1. CASE Call
    BY <2>1, BrpcEchoAssumption DEF Call, NewController, IInv, TypeOK
  <2>2. CASE Retry
    BY <2>2 DEF Retry, IInv, TypeOK, CallMade, Sent
  <2> QED BY <2>1, <2>2
<1>5. TypeOK'
  BY <1>2, <1>3, <1>4 DEF IInv, TypeOK, serverVars
<1>6. CallMade' /\ Sent'
  BY <1>2, <1>3, <1>4 DEF IInv, CallMade, Sent, serverVars
<1>7. Answered' /\ LoggedEcho'
  BY <1>2 DEF IInv, Answered, IsEcho, LoggedEcho, serverVars
<1> QED BY <1>5, <1>6, <1>7 DEF IInv

(* Only what Echo has filled comes back, and only that is logged.          *)
LEMMA ReceivedStep ==
  ASSUME IInv, Received
  PROVE  IInv'
<1>1. PICK r \in responses : responses' = responses \ {r} /\ logged' = logged \cup {r}
  BY DEF Received, Answers
<1>2. client' = "sleep" /\ UNCHANGED <<log_id, cntl, tries, serverVars, requests, asked>>
  BY DEF Received
<1>3. IsEcho(r)
  BY DEF IInv, Answered
<1>4. TypeOK'
  BY <1>1, <1>2 DEF IInv, TypeOK, serverVars
<1>5. CallMade' /\ Sent'
  BY <1>2 DEF IInv, CallMade, Sent, serverVars
<1>6. Answered'
  BY <1>1, <1>2 DEF IInv, Answered, IsEcho, serverVars
<1>7. LoggedEcho'
  BY <1>1, <1>2, <1>3 DEF IInv, IsEcho, LoggedEcho, serverVars
<1> QED BY <1>4, <1>5, <1>6, <1>7 DEF IInv

(* Echo is entered with what was sent, and an empty response.              *)
LEMMA AcceptStep ==
  ASSUME IInv, Accept
  PROVE  IInv'
<1>1. PICK r \in requests :
        /\ requests' = requests \ {r}
        /\ busy' = busy \cup {[request |-> r, response |-> EmptyResponse(r), at |-> "entered"]}
  BY DEF Accept
<1>2. UNCHANGED <<client, log_id, cntl, tries, logged, server, echo_attachment, responses, asked>>
  BY DEF Accept, clientVars
<1>3. r \in Messages /\ IsSent(r)
  BY DEF IInv, TypeOK, Sent
<1>4. EmptyResponse(r) \in Messages /\ EmptyResponse(r).attachment = 0
  BY <1>3 DEF EmptyResponse, Messages
<1>5. PICK x \in Exchanges :
        busy' = busy \cup {x} /\ x.at = "entered" /\ IsSent(x.request) /\ x.response.attachment = 0
  <2> DEFINE y == [request |-> r, response |-> EmptyResponse(r), at |-> "entered"]
  <2>1. y \in Exchanges
    BY <1>3, <1>4 DEF Exchanges
  <2> QED BY <1>1, <1>3, <1>4, <2>1
<1>6. TypeOK'
  BY <1>1, <1>2, <1>5 DEF IInv, TypeOK
<1>7. CallMade' /\ Sent'
  BY <1>1, <1>2, <1>5 DEF IInv, CallMade, Sent
<1>8. Answered' /\ LoggedEcho'
  BY <1>2, <1>5 DEF IInv, Answered, IsEcho, LoggedEcho
<1> QED BY <1>6, <1>7, <1>8 DEF IInv

(* Filling an empty response makes it the echo of the request.             *)
LEMMA FillStep ==
  ASSUME IInv, NEW e \in busy, FillResponse(e)
  PROVE  IInv'
<1>1. /\ e \in Exchanges /\ e.request \in Messages /\ e.response \in Messages
      /\ e.at = "entered" /\ IsSent(e.request) /\ e.response.attachment = 0
  BY DEF FillResponse, IInv, TypeOK, Exchanges, Sent, Answered
<1>2. echo_attachment \in BOOLEAN
  BY DEF IInv, TypeOK
<1>3. PICK f \in Messages : f = Filled(e) /\ IsEcho(f)
  <2> DEFINE n == IF echo_attachment THEN e.request.attachment ELSE 0
             g == [e.response EXCEPT !.message = e.request.message, !.attachment = @ + n]
  <2>1. n \in Nat /\ n = IF echo_attachment THEN 1 ELSE 0
    BY <1>1, <1>2 DEF IsSent
  <2>2. e.request.message = "hello" /\ e.response.attachment = 0
    BY <1>1 DEF IsSent
  <2>3. g = Filled(e)
    BY DEF Filled
  <2> HIDE DEF n
  <2>4. g \in Messages /\ g.message = "hello" /\ g.attachment = n
    <3>1. PICK q \in Messages, t \in {"none", "hello"} :
            /\ q = e.response /\ q.attachment = 0
            /\ t = e.request.message /\ t = "hello"
      BY <1>1, <2>2
    <3>2. g = [q EXCEPT !.message = t, !.attachment = @ + n]
      BY <3>1
    <3>3. q.attachment + n = n
      BY <2>1, <3>1
    <3> HIDE DEF g
    <3>4. g = [q EXCEPT !.message = t, !.attachment = n]
      BY <3>2, <3>3
    <3>5. g \in Messages
      BY <2>1, <3>4 DEF Messages
    <3>6. g.message = t /\ g.attachment = n
      BY <3>4 DEF Messages
    <3> QED BY <3>1, <3>5, <3>6
  <2> HIDE DEF g
  <2> QED BY <2>1, <2>3, <2>4 DEF IsEcho
<1>4. PICK x \in Exchanges :
        /\ busy' = (busy \ {e}) \cup {x}
        /\ x.at = "filled" /\ IsSent(x.request) /\ IsEcho(x.response)
  <2> DEFINE y == [e EXCEPT !.response = f, !.at = "filled"]
  <2>1. y \in Exchanges /\ y.at = "filled" /\ y.request = e.request /\ y.response = f
    BY <1>1 DEF Exchanges
  <2>2. busy' = (busy \ {e}) \cup {y}
    BY <1>3 DEF FillResponse
  <2> HIDE DEF y
  <2> QED BY <1>1, <1>3, <2>1, <2>2
<1>5. UNCHANGED <<client, log_id, cntl, tries, logged, server, echo_attachment, requests, responses, asked>>
  BY DEF FillResponse, clientVars
<1>6. TypeOK'
  BY <1>4, <1>5 DEF IInv, TypeOK
<1>7. CallMade' /\ Sent'
  BY <1>4, <1>5 DEF IInv, CallMade, Sent
<1>8. Answered' /\ LoggedEcho'
  BY <1>4, <1>5 DEF IInv, Answered, IsEcho, LoggedEcho
<1> QED BY <1>6, <1>7, <1>8 DEF IInv

(* The response that done sends is filled.                                 *)
LEMMA DoneStep ==
  ASSUME IInv, NEW e \in busy, RunDone(e)
  PROVE  IInv'
<1>1. e.response \in Messages /\ IsEcho(e.response)
  BY DEF RunDone, IInv, TypeOK, Exchanges, Answered
<1>2. /\ busy' = busy \ {e} /\ responses' = responses \cup {e.response}
      /\ UNCHANGED <<client, log_id, cntl, tries, logged, server, echo_attachment, requests, asked>>
  BY DEF RunDone, clientVars
<1>3. TypeOK'
  BY <1>1, <1>2 DEF IInv, TypeOK
<1>4. CallMade' /\ Sent'
  BY <1>2 DEF IInv, CallMade, Sent
<1>5. Answered' /\ LoggedEcho'
  BY <1>1, <1>2 DEF IInv, Answered, IsEcho, LoggedEcho
<1> QED BY <1>3, <1>4, <1>5 DEF IInv

(* The other steps send nothing and lose what they lose.                   *)
LEMMA OtherStep ==
  ASSUME IInv,
         \/ ChannelInit \/ Failed \/ Sleep \/ Leave \/ ServerMain \/ Lose \/ UNCHANGED vars
         \/ \E p \in {"client", "server"} : AskToQuit(p)
  PROVE  IInv'
<1>1. /\ UNCHANGED <<log_id, cntl, tries, logged, echo_attachment, busy>>
      /\ requests' \subseteq requests /\ responses' \subseteq responses
      /\ client' = "call" => client = "call"
  BY DEF ChannelInit, Failed, Sleep, Leave, ServerMain, Start, Stop, Join, Lose, AskToQuit,
         vars, clientVars, serverVars
<1>2. /\ client' \in {"init", "failed", "loop", "call", "sleep", "done"}
      /\ server' \in {"init", "failed", "serving", "stopping", "done"}
      /\ asked' \subseteq {"client", "server"}
  BY DEF ChannelInit, Failed, Sleep, Leave, ServerMain, Start, Stop, Join, Lose, AskToQuit,
         vars, clientVars, serverVars, IInv, TypeOK
<1>3. TypeOK'
  BY <1>1, <1>2 DEF IInv, TypeOK
<1>4. CallMade' /\ Sent'
  BY <1>1 DEF IInv, CallMade, Sent
<1>5. Answered' /\ LoggedEcho'
  BY <1>1 DEF IInv, Answered, IsEcho, LoggedEcho
<1> QED BY <1>3, <1>4, <1>5 DEF IInv
-----------------------------------------------------------------------------
(* IInv holds in every reachable state.                                    *)
THEOREM Invariance == Spec => []IInv
<1>1. IInv /\ [Next]_vars => IInv'
  <2> SUFFICES ASSUME IInv, [Next]_vars PROVE IInv'
    OBVIOUS
  <2>1. CASE Call \/ Retry
    BY <2>1, SendStep
  <2>2. CASE Received
    BY <2>2, ReceivedStep
  <2>3. CASE Accept
    BY <2>3, AcceptStep
  <2>4. CASE Echo
    BY <2>4, FillStep, DoneStep DEF Echo
  <2>5. CASE \/ ChannelInit \/ Failed \/ Sleep \/ Leave \/ ServerMain \/ Lose \/ UNCHANGED vars
             \/ \E p \in {"client", "server"} : AskToQuit(p)
    BY <2>5, OtherStep
  <2> QED BY <2>1, <2>2, <2>3, <2>4, <2>5 DEF Next, Client
<1> QED BY <1>1, InitEstablishes, PTL DEF Spec

(* The variables keep their types: no call is tried more than max_retry    *)
(* times again.                                                            *)
THEOREM TypeCorrect == Spec => []TypeOK
<1>1. IInv => TypeOK
  BY DEF IInv
<1> QED BY <1>1, Invariance, PTL

(* What the client logs is the echo of what one call sends, for any number *)
(* of calls, retries, losses and late arrivals.                            *)
THEOREM EchoesWhatWasSent == Spec => []LoggedEcho
<1>1. IInv => LoggedEcho
  BY DEF IInv
<1> QED BY <1>1, Invariance, PTL
=============================================================================
