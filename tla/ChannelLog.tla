----------------------------- MODULE ChannelLog -----------------------------
(***************************************************************************)
(* What a durable channel promises to one consumer, whatever subscriptions,*)
(* history pages and reconnections it takes: the publications arrive in    *)
(* log order, each once, without a gap, and never before they were         *)
(* published.  A consumer with a position receives all that follows it, up *)
(* to one that no stream can carry; one that starts live may begin         *)
(* anywhere.                                                               *)
(***************************************************************************)
EXTENDS Integers, Sequences

CONSTANTS
    MaxPublished,
    Live,       \* the consumer may start live
    Unreadable  \* publications it may never get

VARIABLES published, got,
          position      \* the last publication it has or skips; -1 when live

logVars == <<published, got, position>>

Publish ==
    /\ published < MaxPublished
    /\ published' = published + 1
    /\ UNCHANGED <<got, position>>

Deliver ==
    /\ \E first, last \in 1..published :
         /\ first <= last
         /\ position >= 0 => first = position + 1
         /\ got' = got \o [i \in 1..(last - first + 1) |-> first + i - 1]
         /\ position' = last
    /\ UNCHANGED published

LogInit == published = 0 /\ got = <<>> /\ position \in (IF Live THEN {-1, 0} ELSE {0})

LogNext == Publish \/ Deliver

LogSafe == LogInit /\ [][LogNext]_logVars

Promised == position >= 0 /\ position + 1 \notin Unreadable

LogSpec == LogSafe /\ WF_logVars(Promised /\ Deliver)
=============================================================================
