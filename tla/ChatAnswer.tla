----------------------------- MODULE ChatAnswer -----------------------------
(***************************************************************************)
(* What the caller of AIChatStream gets of one answer, said of the         *)
(* channels it reads and the connection they come from.                    *)
(***************************************************************************)
EXTENDS BufferedStream

Sent == got \o events

(* Until it is cancelled the stream is a prefix of the answer, every event *)
(* once and in order; a cancellation may lose events from then on (the     *)
(* buffer still holds an undelivered one and the decoder reads only the    *)
(* first value), but none is repeated or overtaken.                        *)
InOrder ==
    /\ \A i, j \in 1..Len(Sent) : i < j => Sent[i] < Sent[j]
    /\ ~cancelled => \A i \in 1..Len(Sent) : Sent[i] = i

(* A stream that ends without an error was cancelled, or its body ended    *)
(* cleanly and every event written completely was delivered: at most the   *)
(* one in flight at the end is missing.                                    *)
NoSilentLoss ==
    pc = "done" /\ errs = <<>> /\ ~cancelled =>
        conn = "eof" /\ Len(Sent) >= next - 2
=============================================================================
