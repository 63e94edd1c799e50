----------------------------- MODULE EventStream -----------------------------
(***************************************************************************)
(* StreamEvents: the daemon's event feed over an unbuffered channel, with  *)
(* a consumer that calls again with SinceSeq set to the last Seq it        *)
(* received.  Two things set it apart from SubscribeChannel.  The          *)
(* connection is opened inside the goroutine, so errs carries exactly one  *)
(* value for every call, nil included.  And the frame that is incomplete   *)
(* when the body ends cleanly is flushed, not discarded.                   *)
(***************************************************************************)
EXTENDS SSEStream

CONSTANT Oversize   \* events whose data line exceeds the scanner's 1 MiB

ASSUME OversizeAssumption == Oversize \subseteq Nat

VARIABLES
    ev,         \* Seq and Kind of the event being assembled
    data,       \* its data lines
    errs,       \* the result of streamEvents, once it returned
    got,        \* events received from this call
    cursor,     \* the Seq to resume from: the last one received that is not 0
    seen        \* the highest Seq ever received

streamVars == <<ev, data, errs, got, cursor, seen>>
vars == <<sseVars, streamVars>>

NoEvent == [seq |-> 0, kind |-> "none"]

-----------------------------------------------------------------------------
DataLines(n) ==
    IF n \in Oversize THEN {<<Data(n, "long")>>}
                      ELSE {<<Data(n, "whole")>>, <<Data(n, "head"), Data(n, "tail")>>}

Frames(n) == {<<Id(n), Event("message")>> \o d \o <<Blank>> : d \in DataLines(n)}

(* Keep-alives, an event whose id is not a number (modelled by one without *)
(* id: ParseInt fails and Seq stays 0), and data that is not JSON.         *)
Noise == { <<Comment, Blank>>,
           <<Event("unrelated"), Data(0, "whole"), Blank>>,
           <<Event("message"), Data(0, "bad"), Blank>> }

Parses(d) ==
    \/ d = <<>>
    \/ Len(d) = 1 /\ d[1].text = "whole"
    \/ Len(d) = 2 /\ d[1].text = "head" /\ d[2].text = "tail" /\ d[1].seq = d[2].seq

(* The StreamEvent handed over: Seq and Kind, and the event the payload    *)
(* belongs to (0 when its frame has no Seq), or NoPayload.                 *)
NoPayload == -1

Assembled == [seq |-> ev.seq, kind |-> ev.kind,
              payload |-> IF data = <<>> THEN NoPayload ELSE data[1].seq]

-----------------------------------------------------------------------------
Fresh ==
    /\ ev' = NoEvent
    /\ data' = <<>>
    /\ got' = <<>>
    /\ UNCHANGED <<cursor, seen>>

(* SinceSeq 0 is not sent, and the daemon starts where it likes.           *)
StreamEvents ==
    /\ \E from \in IF cursor > 0 THEN {cursor} ELSE {0, published} :
         Connected(from, <<"body", "errs", "events">>)
    /\ errs' = <<>>
    /\ Fresh

ConnectFails ==
    /\ pc \in {"idle", "done"}
    /\ Fault
    /\ conn' = "none"
    /\ cancelled' = FALSE
    /\ reading' = TRUE
    /\ lines' = <<>>
    /\ pc' = "return"
    /\ defers' = <<"errs", "events">>
    /\ errs' = <<"connect">>
    /\ Fresh
    /\ UNCHANGED <<published, next>>

(* Between calls the consumer may page through the history with ListEvents *)
(* or ListSessionEvents, here with Limit 1.                                *)
ListEvents ==
    /\ pc \in {"idle", "done"}
    /\ cursor < published
    /\ cursor' = cursor + 1
    /\ seen' = IF cursor' > seen THEN cursor' ELSE seen
    /\ UNCHANGED <<sseVars, ev, data, errs, got>>

-----------------------------------------------------------------------------
(* streamEvents returns its result, which the goroutine sends to errs.     *)
Result(err) == pc' = "return" /\ errs' = Append(errs, err)

ScanField ==
    /\ \/ Scanning("id") /\ UNCHANGED data
          /\ ev' = IF Head(lines).seq = 0 THEN ev ELSE [ev EXCEPT !.seq = Head(lines).seq]
       \/ Scanning("event") /\ ev' = [ev EXCEPT !.kind = Head(lines).text] /\ UNCHANGED data
       \/ Scanning("data") /\ data' = Append(data, Head(lines)) /\ UNCHANGED ev
       \/ Scanning("comment") /\ UNCHANGED <<ev, data>>
    /\ UNCHANGED <<pc, errs, got, cursor, seen>>

Empty == ev = NoEvent /\ data = <<>>

(* flush, called from the loop: sends to the select, skips, or fails.      *)
Flush ==
    /\ Scanning("blank")
    /\ \/ Empty /\ UNCHANGED <<pc, errs>>
       \/ ~Empty /\ ~Parses(data) /\ Result("parse")
       \/ ~Empty /\ Parses(data) /\ pc' = "send" /\ UNCHANGED errs
    /\ UNCHANGED <<ev, data, got, cursor, seen>>

(* flush, called after a clean end of the body.                            *)
FinalFlush ==
    /\ pc = "final"
    /\ \/ Empty /\ Result("nil")
       \/ ~Empty /\ ~Parses(data) /\ Result(IF cancelled THEN "nil" ELSE "parse")
       \/ ~Empty /\ Parses(data) /\ pc' = "sendFinal" /\ UNCHANGED errs
    /\ UNCHANGED <<published, next, lines, conn, faults, cancelled, reading, defers,
                   ev, data, got, cursor, seen>>

(* Mutants: the Kind is not reset after a send; the select has no ctx.Done *)
(* case; that case drops the event and goes on scanning.                   *)
SendKeepsKind ==
    /\ reading
    /\ \/ pc = "send" /\ pc' = "scan" /\ UNCHANGED errs
       \/ pc = "sendFinal" /\ Result("nil")
    /\ got' = Append(got, Assembled)
    /\ cursor' = IF ev.seq = 0 THEN cursor ELSE ev.seq
    /\ seen' = IF ev.seq > seen THEN ev.seq ELSE seen
    /\ ev' = [ev EXCEPT !.seq = 0]
    /\ data' = <<>>
    /\ UNCHANGED <<published, next, lines, conn, faults, cancelled, reading, defers>>

NoDoneCase == FALSE

CancelDropsEvent ==
    /\ cancelled
    /\ pc = "send"
    /\ pc' = "scan"
    /\ ev' = NoEvent
    /\ data' = <<>>
    /\ UNCHANGED <<published, next, lines, conn, faults, cancelled, reading, defers,
                   errs, got, cursor, seen>>

(* The channel is unbuffered: the send happens when the consumer receives. *)
SendEvent ==
    /\ reading
    /\ \/ pc = "send" /\ pc' = "scan" /\ UNCHANGED errs
       \/ pc = "sendFinal" /\ Result("nil")
    /\ got' = Append(got, Assembled)
    /\ cursor' = IF ev.seq = 0 THEN cursor ELSE ev.seq
    /\ seen' = IF ev.seq > seen THEN ev.seq ELSE seen
    /\ ev' = NoEvent
    /\ data' = <<>>
    /\ UNCHANGED <<published, next, lines, conn, faults, cancelled, reading, defers>>

SendCancelled ==
    /\ cancelled
    /\ \/ pc = "send" /\ Result("ctx")
       \/ pc = "sendFinal" /\ Result("nil")
    /\ UNCHANGED <<published, next, lines, conn, faults, cancelled, reading, defers,
                   ev, data, got, cursor, seen>>

(* Mutant: scanner.Err is not consulted.                                   *)
ScanErrIgnored ==
    /\ ScanEOF \/ ScanFails
    /\ pc' = "final"
    /\ UNCHANGED <<published, next, lines, conn, faults, cancelled, reading, defers,
                   errs, ev, data, got, cursor, seen>>

ScanEnd ==
    /\ \/ ScanEOF /\ pc' = "final" /\ UNCHANGED errs
       \/ ScanFails /\ Result(IF cancelled THEN "ctx" ELSE "read")
    /\ UNCHANGED <<published, next, lines, conn, faults, cancelled, reading, defers,
                   ev, data, got, cursor, seen>>

Return == Deferred /\ UNCHANGED streamVars

Goroutine ==
    \/ ScanField \/ Flush \/ FinalFlush \/ SendEvent \/ SendCancelled
    \/ ScanEnd \/ Return

-----------------------------------------------------------------------------
Daemon ==
    /\ Publish \/ WritePublication(Frames(next)) \/ WriteNoise(Noise) \/ Disconnect
    /\ UNCHANGED streamVars

CancelContext == Cancel /\ UNCHANGED streamVars

Init ==
    /\ SSEInit
    /\ ev = NoEvent
    /\ data = <<>>
    /\ errs = <<>>
    /\ got = <<>>
    /\ cursor = 0
    /\ seen = 0

Next == StreamEvents \/ ConnectFails \/ ListEvents \/ Goroutine \/ Daemon \/ CancelContext

(* The goroutine is never starved; nothing is assumed of the daemon.       *)
Spec == Init /\ [][Next]_vars /\ WF_vars(Goroutine)

-----------------------------------------------------------------------------
TypeOK ==
    /\ SSETypeOK
    /\ ev \in [seq : 0..MaxPublished, kind : Texts]
    /\ data \in Seq(Line)
    /\ errs \in Seq({"nil", "connect", "parse", "read", "ctx"})
    /\ Len(errs) <= 1
    /\ got \in Seq([seq : 0..MaxPublished, kind : Texts, payload : NoPayload..MaxPublished])
    /\ cursor \in 0..MaxPublished
    /\ seen \in 0..MaxPublished

(* A StreamEvent of one frame: its Seq, its Kind and its payload.  The     *)
(* event without a numeric id is the only one that has Seq 0.              *)
Numbered(e) == e.seq > 0 /\ e.payload = e.seq
Whole(e) ==
    \/ Numbered(e) /\ e.kind = "message"
    \/ e = [seq |-> 0, kind |-> "unrelated", payload |-> 0]

(* Fields never leak from one frame into the next, not even by way of a    *)
(* keep-alive: every event of a call has the Seq, the Kind and the payload *)
(* of one frame.  Only the last may be cut short, when the body ended      *)
(* cleanly inside its frame, and then it has no payload at all.  The       *)
(* events that have a Seq and its payload come in the order of the log,    *)
(* and without a gap: from any one of them to any later one, every Seq in  *)
(* between was handed over in between.                                     *)
WholeExceptLast ==
    /\ \A i \in 1..Len(got) :
          Whole(got[i]) \/ (i = Len(got) /\ got[i].payload = NoPayload /\ conn = "eof")
    /\ \A i, j \in 1..Len(got) : i < j /\ Numbered(got[i]) /\ Numbered(got[j]) =>
          /\ got[i].seq < got[j].seq
          /\ \A m \in got[i].seq..got[j].seq : \E k \in i..j : got[k].seq = m

(* Resuming from the last Seq, with a stream or with a page of history,    *)
(* never skips an event the daemon had: a Seq is at most one beyond the    *)
(* highest received before, even after an id that was itself cut short.    *)
NoSkip == [][seen > 0 => seen' <= seen + 1]_vars

(* streamEvents' result reaches errs exactly once, and nil means that the  *)
(* body ended cleanly: never a read error, an over-long line or a          *)
(* cancellation in mid-stream.                                             *)
OneHonestResult ==
    pc = "done" => /\ Len(errs) = 1
                   /\ errs[1] = "nil" => conn = "eof"

(* A call ends when its context is cancelled, and when the connection ends *)
(* while the consumer still receives.                                      *)
Terminates == (cancelled \/ conn \in {"eof", "reset"}) ~> (pc = "done" /\ defers = <<>>)
=============================================================================
