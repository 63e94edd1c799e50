-------------------------- MODULE MCMessageStream --------------------------
(* Model-checking instances of MessageStream.                              *)
EXTENDS MessageStream
=============================================================================
