--------------------------- MODULE MCHealthServer ---------------------------
(* The server of main.cpp with up to two threads and two callers.          *)
EXTENDS HealthServer
=============================================================================
