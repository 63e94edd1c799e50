---------------------------- MODULE ChannelStream ----------------------------
(***************************************************************************)
(* SubscribeChannel and ChannelMessages, with the consumer loop the README *)
(* documents: range over the stream, save the Seq of every message, and    *)
(* when the stream ends read history or subscribe again from the saved     *)
(* cursor.                                                                 *)
(*                                                                         *)
(* A Seq is modelled by the publication's rank in the daemon's log: the    *)
(* client only compares and returns Seqs, so gaps in their numbering are   *)
(* not visible to it.                                                      *)
(***************************************************************************)
EXTENDS BufferedStream

CONSTANT Live   \* the first subscription may pass a nil since

ASSUME ChannelAssumption == Live \in BOOLEAN

VARIABLES
    event,      \* the event field of the current frame
    cursor      \* the consumer's saved Seq; -1 before it has one

vars == <<sseVars, events, errs, data, event, cursor, got>>

-----------------------------------------------------------------------------
(* The daemon's frames.  A publication's JSON is one data line, or several *)
(* when it contains newlines; the event field may be left out.             *)

Frames(n) ==
    IF n \in Oversize
    THEN { <<Data(n, "long"), Blank>>,
           <<Id(n), Event("message"), Data(n, "long"), Blank>> }
    ELSE { <<Data(n, "whole"), Blank>>,
           <<Data(n, "head"), Data(n, "tail"), Blank>>,
           <<Id(n), Event("message"), Data(n, "whole"), Blank>>,
           <<Id(n), Event("message"), Data(n, "head"), Data(n, "tail"), Blank>> }

Noise == { <<Comment, Blank>>,
           <<Event("message"), Blank>>,
           <<Event("unrelated"), Data(0, "whole"), Blank>>,
           <<Data(0, "bad"), Blank>> }

(* json.Unmarshal of the joined data lines: the publication, or 0 when the *)
(* text is not one complete JSON value.                                    *)
Decode(d) ==
    IF \/ Len(d) = 1 /\ d[1].text = "whole"
       \/ Len(d) = 2 /\ d[1].text = "head" /\ d[2].text = "tail" /\ d[1].seq = d[2].seq
    THEN d[1].seq ELSE 0

-----------------------------------------------------------------------------
(* Opening a subscription. *)

(* Mutant: the two close calls deferred in the other order.                *)
DefersErrsFirst == <<"body", "events", "errs">>

Defers == <<"body", "errs", "events">>

(* The consumer is done with the previous stream: it drained the channel,  *)
(* or it cancelled and walked away.                                        *)
Finished == pc = "idle" \/ (pc = "done" /\ (events = <<>> \/ ~reading))

SubscribeChannel ==
    /\ Finished
    /\ Connected(IF cursor = -1 THEN published ELSE cursor, Defers)
    /\ events' = <<>>
    /\ errs' = <<>>
    /\ data' = <<>>
    /\ event' = "none"
    /\ UNCHANGED <<cursor, got>>

SubscribeRefused ==
    /\ Finished
    /\ Refused
    /\ UNCHANGED <<events, errs, data, event, cursor, got>>

(* A page of history after the cursor; the daemon chooses how much fits.   *)
(* An empty page leaves NextSince where Since was.                         *)
ChannelMessages ==
    /\ Finished
    /\ cursor >= 0
    /\ \E nextSince \in cursor..published :
         /\ got' = got \o [i \in 1..(nextSince - cursor) |-> cursor + i]
         /\ cursor' = nextSince
    /\ UNCHANGED <<sseVars, events, errs, data, event>>

-----------------------------------------------------------------------------
(* The goroutine. *)

(* Mutants: the error is not sent; the return after it is missing.         *)
FailSilently(err) == pc' = "return" /\ UNCHANGED errs
FailWithoutReturn(err) == pc' = "scan" /\ errs' = Append(errs, err)

(* Stop with an error, reported unless the context was cancelled.          *)
Fail(err) ==
    /\ pc' = "return"
    /\ errs' = IF cancelled THEN errs ELSE Append(errs, err)

(* Mutant: a data line replaces the ones before it.                        *)
ScanLastDataLine ==
    /\ \/ Scanning("event") /\ event' = Head(lines).text /\ UNCHANGED data
       \/ Scanning("data") /\ data' = <<Head(lines)>> /\ UNCHANGED event
       \/ (Scanning("id") \/ Scanning("comment")) /\ UNCHANGED <<data, event>>
    /\ UNCHANGED <<pc, events, errs, cursor, got>>

ScanField ==
    /\ \/ Scanning("event") /\ event' = Head(lines).text /\ UNCHANGED data
       \/ Scanning("data") /\ data' = Append(data, Head(lines)) /\ UNCHANGED event
       \/ (Scanning("id") \/ Scanning("comment")) /\ UNCHANGED <<data, event>>
    /\ UNCHANGED <<pc, events, errs, cursor, got>>

(* Mutant: the event field survives into the next frame.                   *)
ResetDataOnly == data' = <<>> /\ UNCHANGED event

ResetFrame == data' = <<>> /\ event' = "none"

Ignorable == data = <<>> \/ event \notin {"none", "message"}

FlushIgnored ==
    /\ Scanning("blank")
    /\ Ignorable
    /\ ResetFrame
    /\ UNCHANGED <<pc, events, errs, cursor, got>>

FlushMalformed ==
    /\ Scanning("blank")
    /\ ~Ignorable
    /\ Decode(data) = 0
    /\ Fail("decode")
    /\ ResetFrame
    /\ UNCHANGED <<events, cursor, got>>

FlushMessage ==
    /\ Scanning("blank")
    /\ ~Ignorable
    /\ Decode(data) # 0
    /\ pc' = "send"
    /\ UNCHANGED <<events, errs, data, event, cursor, got>>

(* Mutant: the select has no ctx.Done case.                                *)
NoDoneCase == FALSE

(* The select of flush: whichever case is ready, either when both are.     *)
SendEvent ==
    /\ pc = "send"
    /\ Len(events) < Cap
    /\ events' = Append(events, Decode(data))
    /\ pc' = "scan"
    /\ ResetFrame
    /\ UNCHANGED <<published, next, lines, conn, faults, cancelled, reading, defers,
                   errs, cursor, got>>

SendCancelled ==
    /\ pc = "send"
    /\ cancelled
    /\ Fail("ctx")
    /\ ResetFrame
    /\ UNCHANGED <<published, next, lines, conn, faults, cancelled, reading, defers,
                   events, cursor, got>>

ScanEnd ==
    /\ \/ ScanEOF /\ pc' = "return" /\ UNCHANGED errs
       \/ ScanFails /\ Fail("read")
    /\ UNCHANGED <<published, next, lines, conn, faults, cancelled, reading, defers,
                   events, data, event, cursor, got>>

Return == Deferred /\ UNCHANGED <<events, errs, data, event, cursor, got>>

Goroutine ==
    \/ ScanField \/ FlushIgnored \/ FlushMalformed \/ FlushMessage
    \/ SendEvent \/ SendCancelled \/ ScanEnd \/ Return

-----------------------------------------------------------------------------
(* The consumer and the environment. *)

Receive ==
    /\ reading
    /\ events # <<>>
    /\ events' = Tail(events)
    /\ got' = Append(got, Head(events))
    /\ cursor' = Head(events)
    /\ UNCHANGED <<sseVars, errs, data, event>>

Daemon ==
    /\ Publish \/ WritePublication(Frames(next)) \/ WriteNoise(Noise) \/ Disconnect
    /\ UNCHANGED <<events, errs, data, event, cursor, got>>

CancelContext == Cancel /\ UNCHANGED <<events, errs, data, event, cursor, got>>

Init ==
    /\ SSEInit
    /\ events = <<>>
    /\ errs = <<>>
    /\ data = <<>>
    /\ event = "none"
    /\ cursor \in (IF Live THEN {-1, 0} ELSE {0})
    /\ got = <<>>

Next ==
    \/ SubscribeChannel \/ SubscribeRefused \/ ChannelMessages
    \/ Goroutine \/ Receive \/ Daemon \/ CancelContext

Spec == Init /\ [][Next]_vars

(* The goroutine and the consumer's loop are never starved; the consumer   *)
(* subscribes again after every end; the daemon writes what it has.        *)
Fairness ==
    /\ WF_vars(Goroutine)
    /\ WF_vars(Receive)
    /\ WF_vars(SubscribeChannel)
    /\ WF_vars(WritePublication(Frames(next)) /\ UNCHANGED <<events, errs, data, event, cursor, got>>)

FairSpec == Spec /\ Fairness

-----------------------------------------------------------------------------
TypeOK ==
    /\ SSETypeOK
    /\ events \in Seq(1..MaxPublished)
    /\ Len(events) <= Cap
    /\ errs \in Seq({"decode", "read", "ctx"})
    /\ Len(errs) <= 1
    /\ data \in Seq(Line)
    /\ event \in Texts
    /\ cursor \in -1..MaxPublished
    /\ got \in Seq(1..MaxPublished)

(* The messages a consumer receives over any number of subscriptions,      *)
(* disconnects, cancellations and history pages are consecutive            *)
(* publications of the channel: resuming from the last received Seq        *)
(* (SubscribeChannel's doc, and the comment on the incomplete frame at     *)
(* EOF) loses nothing and repeats nothing.                                 *)
NoGap ==
    /\ \A i \in 1..Len(got) : got[i] = got[1] + i - 1
    /\ got # <<>> => /\ got[Len(got)] = cursor
                     /\ cursor <= published
                     /\ ~Live => got[1] = 1

(* A stream that ends without an error was cancelled or ended cleanly: a   *)
(* decoding or transport error, an over-long line included, always reaches *)
(* errs (SubscribeChannel's doc: "stream decoding/transport errors use     *)
(* errs").                                                                 *)
NoSilentFailure ==
    pc = "done" /\ errs = <<>> => cancelled \/ conn = "eof"

(* When the range loop over the events channel ends, the error is already  *)
(* there or errs is already closed, and the response body was released, so *)
(* the README's receive from streamErrors after the loop never waits.      *)
ErrsReadyWhenEventsClose ==
    pc # "idle" /\ ~Pending("events") => ~Pending("errs") /\ ~Pending("body")

(* A cancelled subscription ends: the goroutine leaves even when it is     *)
(* blocked on a full channel nobody reads, and releases everything.        *)
CancelReleases == cancelled ~> (pc = "done" /\ defers = <<>>)

(* Subscribing, cancelling, reconnecting and paging implement the channel  *)
(* log; under the fairness above also its delivery guarantee.              *)
Log == INSTANCE ChannelLog WITH position <- cursor, Unreadable <- Oversize
LogSafe == Log!LogSafe
LogSpec == Log!LogSpec

-----------------------------------------------------------------------------
(* The inductive invariant behind NoGap.  NoGap alone is not inductive: it *)
(* says nothing of the messages between the wire and the consumer.         *)

(* Part of a publication is among these lines.                             *)
HasPiece(ls) == \E i \in 1..Len(ls) : ls[i].field = "data" /\ ls[i].seq # 0

Undelivered == HasPiece(lines) \/ HasPiece(data)

(* A whole frame is on its way: its blank line will arrive.                *)
Complete == lines # <<>> /\ lines[Len(lines)].field = "blank"

(* Pieces belong to the last publication written; a blank line ends what   *)
(* is in flight; between frames nothing is left over from the last one.    *)
FrameInv ==
    /\ \A i \in 1..Len(lines) :
          /\ lines[i].field = "blank" => i = Len(lines)
          /\ lines[i].field = "data" => lines[i].seq \in {0, next - 1}
    /\ \A i \in 1..Len(data) : data[i].field = "data" /\ data[i].seq \in {0, next - 1}
    /\ pc = "scan" /\ conn = "open" =>
          IF lines = <<>> THEN data = <<>> /\ event = "none" ELSE Complete
    /\ pc = "send" => lines = <<>> /\ Decode(data) # 0
    /\ pc = "scan" /\ Complete /\ Undelivered =>
          /\ event \in {"none", "message"}
          /\ \A i \in 1..Len(lines) : lines[i].field = "event" => lines[i].text = "message"

(* What the goroutine has done so far and what it has left to do.          *)
RunInv ==
    /\ pc \in {"idle", "scan", "send", "return", "done"}
    /\ pc \in {"scan", "send"} => errs = <<>> /\ defers = Defers
    /\ pc = "return" => defers \in {Defers, <<"errs", "events">>, <<"events">>}
    /\ pc \in {"idle", "done"} => defers = <<>>
    /\ pc = "idle" => events = <<>>
    /\ pc \in {"return", "done"} /\ errs = <<>> => cancelled \/ conn = "eof"

(* The last message the consumer has or will find in the channel.          *)
Frontier == IF events = <<>> THEN cursor ELSE events[Len(events)]

(* The publication on the wire, or else the next to be written, is the one *)
(* after the frontier.                                                     *)
FrontierInv ==
    pc \in {"scan", "send"} /\ Frontier >= 0 =>
        /\ Undelivered => Frontier = next - 2
        /\ ~Undelivered /\ pc = "scan" /\ conn = "open" => Frontier = next - 1

(* What is buffered continues what was received, unless the consumer has   *)
(* abandoned the stream and moved on.                                      *)
BufferInv ==
    /\ \A i \in 1..Len(events) : events[i] = events[1] + i - 1 /\ events[i] <= published
    /\ events # <<>> /\ cursor >= 0 /\ ~Finished => events[1] = cursor + 1

CursorInv ==
    /\ next - 1 <= published
    /\ cursor <= published
    /\ got = <<>> => cursor \in (IF Live THEN {-1, 0} ELSE {0})
    /\ got # <<>> => cursor = got[Len(got)] /\ (~Live => got[1] = 1)
    /\ \A i \in 1..Len(got) : got[i] = got[1] + i - 1

(* The invariant of the proof of NoGap, conjoined with TypeOK.             *)
IndInv == TypeOK /\ RunInv /\ FrameInv /\ FrontierInv /\ BufferInv /\ CursorInv
=============================================================================
