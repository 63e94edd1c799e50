--------------------------- MODULE BufferedStream ---------------------------
(***************************************************************************)
(* What the two readers with a buffered channel and an error channel have  *)
(* in common, SubscribeChannel and AIChatStream.                           *)
(***************************************************************************)
EXTENDS SSEStream

CONSTANTS
    Cap,        \* capacity of the events channel, 16 in the code
    Oversize    \* publications whose data line exceeds the scanner's limit:
                \* 16 MiB for channels, 1 MiB for chats

ASSUME BufferAssumption == Cap \in Nat \ {0} /\ Oversize \subseteq Nat

VARIABLES
    data,       \* the data lines buffered and not yet reset
    events,     \* the buffered channel the caller ranges over
    errs,       \* the error channel, capacity 1
    got         \* everything the caller received, in order
=============================================================================
