------------------------------ MODULE BrpcEcho ------------------------------
(***************************************************************************)
(* The echo client and server of src/brpc.  The client makes one           *)
(* synchronous call after another, each with a controller of its own; the  *)
(* server fills the response, which a ClosureGuard sends when Echo         *)
(* returns, and stops when asked to quit.                                  *)
(*                                                                         *)
(* brpc is modelled from its use here: a try that meets a connection error *)
(* is followed by another, with the request attachment the controller has, *)
(* while max_retry allows; a response counts only for the try it answers;  *)
(* a call ends at its time-out; Echo is given an empty response; a server  *)
(* that stops takes no request but finishes those it has.                  *)
(*                                                                         *)
(* log_id stands for a call.  An attachment is the number of copies of     *)
(* FLAGS_attachment in it.                                                 *)
(***************************************************************************)
EXTENDS Integers

CONSTANTS
  MaxCalls,       (* bound: calls the client makes                         *)
  max_retry       (* FLAGS_max_retry                                       *)

ASSUME BrpcEchoAssumption == MaxCalls \in Nat /\ max_retry \in Nat

VARIABLES
  client,         (* where the client stands                               *)
  log_id,         (* the client's variable: the calls made                 *)
  cntl,           (* the request attachment of the client's controller     *)
  tries,          (* how often the call under way was sent                 *)
  logged,         (* the responses that the client has logged              *)
  server,         (* where the server stands                               *)
  echo_attachment,(* FLAGS_echo_attachment                                 *)
  busy,           (* what is inside EchoServiceImpl::Echo                  *)
  requests, responses,   (* on their way                                   *)
  asked           (* who was asked to quit                                 *)

clientVars == <<client, log_id, cntl, tries, logged>>
serverVars == <<server, echo_attachment, busy>>
vars == <<clientVars, serverVars, requests, responses, asked>>

CallIds == 0..(MaxCalls - 1)

Init ==
  /\ client = "init" /\ log_id = 0 /\ cntl = 0 /\ tries = 0 /\ logged = {}
  /\ server = "init" /\ echo_attachment \in BOOLEAN /\ busy = {}
  /\ requests = {} /\ responses = {}
  /\ asked = {}
-----------------------------------------------------------------------------
(* The client.                                                             *)

(* A defect to tell TypeOK by: the flag is taken to count the first try.   *)
options_max_retry_OneMore == max_retry + 1

(* The option that the channel is initialised with.                        *)
options_max_retry == max_retry

ChannelInit ==
  /\ client = "init"
  /\ client' \in {"loop", "failed"}
  /\ UNCHANGED <<log_id, cntl, tries, logged, serverVars, requests, responses, asked>>

(* What the channel sends: a try of call c.                                *)
Send(c, try, attachment) ==
  /\ tries' = try
  /\ requests' = requests \cup
       {[log_id |-> c, try |-> try, message |-> "hello", attachment |-> attachment]}

(* A defect to tell LoggedEcho by: one controller serves all turns.        *)
NewController_Kept == cntl

(* The attachment of a controller declared in this turn of the loop.       *)
NewController == 0

Call ==
  /\ client = "loop" /\ "client" \notin asked
  /\ log_id < MaxCalls
  /\ log_id' = log_id + 1
  /\ cntl' = NewController + 1
  /\ Send(log_id, 1, cntl')
  /\ client' = "call"
  /\ UNCHANGED <<logged, serverVars, responses, asked>>

current == log_id - 1

(* The connection fails under a try, whatever became of the request.       *)
Retry ==
  /\ client = "call" /\ tries <= options_max_retry
  /\ Send(current, tries + 1, cntl)
  /\ UNCHANGED <<client, log_id, cntl, logged, serverVars, responses, asked>>

(* The responses that count for the try under way.                         *)
Answers == {r \in responses : r.log_id = current /\ r.try = tries}

Received ==
  /\ client = "call"
  /\ \E r \in Answers :
       /\ responses' = responses \ {r}
       /\ logged' = logged \cup {r}
  /\ client' = "sleep"
  /\ UNCHANGED <<log_id, cntl, tries, serverVars, requests, asked>>

(* A defect to tell ClientQuits by: no time-out, only errors end a call.   *)
Failed_OnErrorOnly ==
  /\ client = "call"
  /\ tries > max_retry /\ server # "serving"
  /\ client' = "sleep"
  /\ UNCHANGED <<log_id, cntl, tries, logged, serverVars, requests, responses, asked>>

(* cntl.Failed(): the time-out, or an error that is not tried again.       *)
Failed ==
  /\ client = "call"
  /\ client' = "sleep"
  /\ UNCHANGED <<log_id, cntl, tries, logged, serverVars, requests, responses, asked>>

Sleep ==
  /\ client = "sleep"
  /\ client' = "loop"
  /\ UNCHANGED <<log_id, cntl, tries, logged, serverVars, requests, responses, asked>>

Leave ==
  /\ client = "loop" /\ "client" \in asked
  /\ client' = "done"
  /\ UNCHANGED <<log_id, cntl, tries, logged, serverVars, requests, responses, asked>>
-----------------------------------------------------------------------------
(* The server.                                                             *)
Start ==
  /\ server = "init"
  /\ server' \in {"serving", "failed"}
  /\ UNCHANGED <<clientVars, echo_attachment, busy, requests, responses, asked>>

(* brpc calls Echo, with a response in which nothing is set.               *)
EmptyResponse(r) ==
  [log_id |-> r.log_id, try |-> r.try, message |-> "none", attachment |-> 0]

Accept ==
  /\ server = "serving"
  /\ \E r \in requests :
       /\ requests' = requests \ {r}
       /\ busy' = busy \cup {[request |-> r, response |-> EmptyResponse(r), at |-> "entered"]}
  /\ UNCHANGED <<clientVars, server, echo_attachment, responses, asked>>

(* Echo sets the message and appends the attachment of the request.        *)
Filled(e) ==
  [e.response EXCEPT !.message = e.request.message,
                     !.attachment = @ + (IF echo_attachment THEN e.request.attachment ELSE 0)]

FillResponse(e) ==
  /\ e.at = "entered"
  /\ busy' = (busy \ {e}) \cup {[e EXCEPT !.response = Filled(e), !.at = "filled"]}
  /\ UNCHANGED <<clientVars, server, echo_attachment, requests, responses, asked>>

(* A defect to tell ServerQuits by: no ClosureGuard, Echo returns and done *)
(* is never run, so that brpc waits for it.                                *)
RunDone_NoGuard(e) == e.at = "filled" /\ UNCHANGED vars

(* Echo returns: done_guard runs done, which sends the response.           *)
RunDone(e) ==
  /\ e.at = "filled"
  /\ busy' = busy \ {e}
  /\ responses' = responses \cup {e.response}
  /\ UNCHANGED <<clientVars, server, echo_attachment, requests, asked>>

Echo == \E e \in busy : FillResponse(e) \/ RunDone(e)

(* RunUntilAskedToQuit: Stop() and then Join().                            *)
Stop ==
  /\ server = "serving" /\ "server" \in asked
  /\ server' = "stopping"
  /\ UNCHANGED <<clientVars, echo_attachment, busy, requests, responses, asked>>

Join ==
  /\ server = "stopping" /\ busy = {}
  /\ server' = "done"
  /\ UNCHANGED <<clientVars, echo_attachment, busy, requests, responses, asked>>
-----------------------------------------------------------------------------
(* The world: messages are lost, and Ctrl-C is pressed on either side.     *)
Lose ==
  /\ \/ /\ \E r \in requests : requests' = requests \ {r}
        /\ UNCHANGED responses
     \/ /\ \E r \in responses : responses' = responses \ {r}
        /\ UNCHANGED requests
  /\ UNCHANGED <<clientVars, serverVars, asked>>

AskToQuit(p) ==
  /\ p \notin asked
  /\ asked' = asked \cup {p}
  /\ UNCHANGED <<clientVars, serverVars, requests, responses>>

Client == ChannelInit \/ Call \/ Received \/ Failed \/ Sleep \/ Leave

ServerMain == Start \/ Stop \/ Join

Next ==
  \/ Client \/ Retry
  \/ ServerMain \/ Accept \/ Echo
  \/ Lose
  \/ \E p \in {"client", "server"} : AskToQuit(p)

(* Both programs run, a call ends by its time-out at the latest, and Echo  *)
(* returns.                                                                *)
Fairness == WF_vars(Client) /\ WF_vars(ServerMain) /\ WF_vars(Echo)

Spec == Init /\ [][Next]_vars
FairSpec == Spec /\ Fairness
-----------------------------------------------------------------------------
Messages == [log_id : CallIds, try : 1..(max_retry + 1), message : {"none", "hello"},
             attachment : Nat]

Exchanges == [request : Messages, response : Messages, at : {"entered", "filled"}]

TypeOK ==
  /\ client \in {"init", "failed", "loop", "call", "sleep", "done"}
  /\ log_id \in 0..MaxCalls
  /\ cntl \in Nat
  /\ tries \in 0..(max_retry + 1)
  /\ server \in {"init", "failed", "serving", "stopping", "done"}
  /\ echo_attachment \in BOOLEAN
  /\ busy \subseteq Exchanges
  /\ requests \cup responses \cup logged \subseteq Messages
  /\ asked \subseteq {"client", "server"}

(* Each response that the client logs is the echo of what one call sends:  *)
(* its message, and its attachment once or, if the server does not echo    *)
(* attachments, not at all.  Neither an earlier call's controller nor a    *)
(* retry adds to the attachment, and no response leaves before Echo has    *)
(* filled it.                                                              *)
LoggedEcho ==
  \A r \in logged :
    /\ r.message = "hello"
    /\ r.attachment = IF echo_attachment THEN 1 ELSE 0

(* A client asked to quit ends, even if the request it waits for is lost.  *)
ClientQuits == "client" \in asked ~> client \in {"done", "failed"}

(* A server asked to quit ends, whatever it has in hand.                   *)
ServerQuits == "server" \in asked ~> server \in {"done", "failed"}
=============================================================================
