---------------------------- MODULE TracePromise ----------------------------
(***************************************************************************)
(* What tracing promises about one Greet call, made by a traced client:    *)
(* when the caller of Greet goes on, exactly one span has been exported,   *)
(* and it records how the call ended.                                      *)
(***************************************************************************)
EXTENDS Sequences

CONSTANT Code       (* the codes of grpc::Status; "OK" is one of them      *)

VARIABLES
  status,           (* how the call ended, "none" until then               *)
  exported,         (* the spans exported                                  *)
  returned          (* Greet has returned                                  *)

Recorded(code) == [status |-> IF code = "OK" THEN "kOk" ELSE "kError", code |-> code]

PromiseInit == status = "none" /\ exported = <<>> /\ returned = FALSE

CallEnds == status = "none" /\ status' \in Code /\ UNCHANGED <<exported, returned>>

Export ==
  /\ status # "none" /\ exported = <<>>
  /\ exported' = <<Recorded(status)>>
  /\ UNCHANGED <<status, returned>>

Return == Len(exported) = 1 /\ returned' = TRUE /\ UNCHANGED <<status, exported>>

PromiseSpec ==
  PromiseInit /\ [][CallEnds \/ Export \/ Return]_<<status, exported, returned>>
=============================================================================
