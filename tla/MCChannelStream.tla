-------------------------- MODULE MCChannelStream --------------------------
(* Model-checking instances of ChannelStream.                              *)
EXTENDS ChannelStream
=============================================================================
