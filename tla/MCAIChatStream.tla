--------------------------- MODULE MCAIChatStream ---------------------------
(* Model-checking instance of AIChatStream.                                *)
EXTENDS AIChatStream
=============================================================================
