------------------------------ MODULE MCTracer ------------------------------
(* The traced client with every status code of gRPC.                       *)
EXTENDS Tracer

MCCode == {"OK", "CANCELLED", "UNKNOWN", "INVALID_ARGUMENT", "DEADLINE_EXCEEDED", "NOT_FOUND",
           "ALREADY_EXISTS", "PERMISSION_DENIED", "RESOURCE_EXHAUSTED", "FAILED_PRECONDITION",
           "ABORTED", "OUT_OF_RANGE", "UNIMPLEMENTED", "INTERNAL", "UNAVAILABLE", "DATA_LOSS",
           "UNAUTHENTICATED"}
=============================================================================
