---------------------------- MODULE MCBootstrap ----------------------------
(* Model-checking instance of Bootstrap.                                   *)
EXTENDS Bootstrap, TLC
=============================================================================
