------------------------------- MODULE Tracer -------------------------------
(***************************************************************************)
(* The traced client of src/opentelemetry/main.cpp: one Greet call,        *)
(* awaited by a coroutine, whose completion token is wrapped by            *)
(* bind_tracer.  The wrapper starts a span when the call is initiated and  *)
(* ends it in the completion handler that resumes the coroutine.           *)
(*                                                                         *)
(* OpenTelemetry and gRPC are modelled from their use here: a tracer of a  *)
(* provider that was never set records nothing; End exports through the    *)
(* simple processor and counts once; a span that is let go of without End  *)
(* is ended then; a call without deadline ends when the server answers or  *)
(* the connection fails.                                                   *)
(***************************************************************************)
EXTENDS Sequences

CONSTANT Code       (* the codes of grpc::Status                           *)

(* OK is a code, and no code is taken for the lack of one.                 *)
ASSUME TracerAssumption == "OK" \in Code /\ "none" \notin Code

VARIABLES
  at,               (* where the program stands                            *)
  provider,         (* the global tracer provider                          *)
  tracer,           (* what get_tracer returned                            *)
  span,             (* the span: its life and what was set on it           *)
  status,           (* the grpc::Status of the call                        *)
  exported,         (* spans exported                                      *)
  result            (* what Greet returned                                 *)

tracerVars == <<at, provider, tracer, span, status, exported, result>>

NoSpan == [life |-> "none", status |-> "kUnset", code |-> "none"]

TracerInit ==
  /\ at = "main"
  /\ provider = "noop" /\ tracer = "none"
  /\ span = NoSpan /\ status = "none"
  /\ exported = <<>> /\ result = "none"
-----------------------------------------------------------------------------
(* main: the provider is set before RunClient.                             *)
InitTracer ==
  /\ at = "main"
  /\ provider' = "sdk"
  /\ at' = "run"
  /\ UNCHANGED <<tracer, span, status, exported, result>>

(* A defect to tell SpanExported by: the tracer was taken while the        *)
(* provider was not set yet.                                               *)
get_tracer_TooEarly == "noop"

get_tracer == provider

(* The client gets its tracer; Greet is a coroutine that run() resumes.    *)
RunClient ==
  /\ at = "run"
  /\ tracer' = get_tracer
  /\ at' = "inject"
  /\ UNCHANGED <<provider, span, status, exported, result>>

(* Greet injects the current context, in which no span was made active:    *)
(* the call's metadata stay as they are.                                   *)
Inject ==
  /\ at = "inject"
  /\ at' = "initiate"
  /\ UNCHANGED <<provider, tracer, span, status, exported, result>>

(* What StartSpan of a tracer gives.                                       *)
StartSpan(t) == [NoSpan EXCEPT !.life = IF t = "sdk" THEN "recording" ELSE "noop"]

(* bind_tracer's initiation: the tracer moved out of the token starts the  *)
(* span, and the call is started with the handler that owns it.            *)
InitiateBound ==
  /\ at = "initiate"
  /\ span' = StartSpan(tracer)
  /\ at' = "await"
  /\ UNCHANGED <<provider, tracer, status, exported, result>>

(* The server answers, or the connection fails.                            *)
CallEnds ==
  /\ at = "await"
  /\ status' \in Code
  /\ at' = "completion"
  /\ UNCHANGED <<provider, tracer, span, exported, result>>
-----------------------------------------------------------------------------
(* The completion handler: status, attribute, End, and on to Greet.        *)
SetStatus ==
  /\ at = "completion"
  /\ span' = [span EXCEPT !.status = IF status = "OK" THEN "kOk" ELSE "kError"]
  /\ at' = "attribute"
  /\ UNCHANGED <<provider, tracer, status, exported, result>>

SetAttribute ==
  /\ at = "attribute"
  /\ span' = [span EXCEPT !.code = status]
  /\ at' = "end"
  /\ UNCHANGED <<provider, tracer, status, exported, result>>

(* Ending a span, by End or by letting go of it: the first time counts.    *)
EndSpan ==
  /\ exported' = IF span.life = "recording"
                 THEN Append(exported, [status |-> span.status, code |-> span.code])
                 ELSE exported
  /\ span' = [span EXCEPT !.life = "ended"]

(* A defect to tell KeepsPromise by: the span is left to its destructor.   *)
End_Missing ==
  at = "end" /\ at' = "return" /\ UNCHANGED <<provider, tracer, span, status, exported, result>>

End ==
  /\ at = "end"
  /\ EndSpan
  /\ at' = "return"
  /\ UNCHANGED <<provider, tracer, status, result>>

(* The handler resumes Greet, which returns whatever the response holds    *)
(* and does not look at the status.                                        *)
ReturnBound ==
  /\ at = "return"
  /\ result' = IF status = "OK" THEN "response" ELSE "default"
  /\ at' = "release"
  /\ UNCHANGED <<provider, tracer, span, status, exported>>

(* The handler is destroyed with its span.                                 *)
Release ==
  /\ at = "release"
  /\ EndSpan
  /\ at' = "get"
  /\ UNCHANGED <<provider, tracer, status, result>>

(* run() has no more work and returns, the future is ready, main returns.  *)
Get ==
  /\ at = "get" /\ result # "none"
  /\ at' = "done"
  /\ UNCHANGED <<provider, tracer, span, status, exported, result>>
-----------------------------------------------------------------------------
ClientMain == InitTracer \/ RunClient \/ Get

Handler == SetStatus \/ SetAttribute \/ End \/ ReturnBound \/ Release

Client == ClientMain \/ Inject \/ InitiateBound \/ Handler

TracerNext == Client \/ CallEnds

(* The program runs; nothing says that the server ever answers.            *)
TracerSpec == TracerInit /\ [][TracerNext]_tracerVars /\ WF_tracerVars(Client)
-----------------------------------------------------------------------------
Promise == INSTANCE TracePromise WITH returned <- result # "none"

(* The client keeps TracePromise: the span is exported once, with the      *)
(* status of the call, before Greet's caller goes on, although Greet       *)
(* resumes inside the completion handler that still owns the span, and     *)
(* whose destruction ends it a second time.                                *)
KeepsPromise == Promise!PromiseSpec

(* Once the call has ended, its span reaches the exporter and main returns.*)
SpanExported == status # "none" ~> at = "done" /\ exported # <<>>
=============================================================================
