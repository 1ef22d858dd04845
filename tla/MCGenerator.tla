---------------------------- MODULE MCGenerator ----------------------------
(* Texts over two letters, and file names of up to three pieces.           *)
EXTENDS Generator
=============================================================================
