------------------------------ MODULE MCMinWin ------------------------------
(* Every input of at most MaxInput and every pattern of at most MaxPattern  *)
(* characters over the given alphabet.                                      *)
EXTENDS MinWin
=============================================================================
