---------------------------- MODULE AIChatStream ----------------------------
(***************************************************************************)
(* AIChatStream: one chat request whose answer arrives as a stream of      *)
(* events on a buffered channel.  The flush of this reader differs from    *)
(* the others in two ways: it decodes the first JSON value of the buffered *)
(* data and ignores the rest, and when the context is cancelled it returns *)
(* nil without resetting the buffer, so the loop goes on with the          *)
(* undelivered event still in it.                                          *)
(***************************************************************************)
EXTENDS ChatAnswer

streamVars == <<data, events, errs, got>>
vars == <<sseVars, streamVars>>

-----------------------------------------------------------------------------
DataLines(n) ==
    IF n \in Oversize THEN {<<Data(n, "long")>>}
                      ELSE {<<Data(n, "whole")>>, <<Data(n, "head"), Data(n, "tail")>>}

Frames(n) == {<<Event("message")>> \o d \o <<Blank>> : d \in DataLines(n)}

Noise == { <<Comment, Blank>>, <<Event("unrelated"), Data(0, "bad"), Blank>> }

(* json.Decoder.Decode of the joined lines: the first value, 0 if there is *)
(* no complete one.                                                        *)
Decode(d) ==
    IF \/ d[1].text = "whole"
       \/ Len(d) >= 2 /\ d[1].text = "head" /\ d[2].text = "tail" /\ d[1].seq = d[2].seq
    THEN d[1].seq ELSE 0

-----------------------------------------------------------------------------
AIChatStream ==
    /\ pc = "idle"
    /\ Connected(0, <<"body", "errs", "events">>)
    /\ UNCHANGED streamVars

AIChatRefused == pc = "idle" /\ Refused /\ UNCHANGED streamVars

Report(err) == errs' = Append(errs, err)

ScanField ==
    /\ \/ Scanning("data") /\ data' = Append(data, Head(lines))
       \/ (Scanning("event") \/ Scanning("comment")) /\ UNCHANGED data
    /\ UNCHANGED <<pc, events, errs, got>>

(* flush from the loop; its error is reported even after a cancellation.   *)
Flush ==
    /\ Scanning("blank")
    /\ \/ data = <<>> /\ UNCHANGED <<pc, errs>>
       \/ data # <<>> /\ Decode(data) = 0 /\ pc' = "return" /\ Report("decode")
       \/ data # <<>> /\ Decode(data) # 0 /\ pc' = "send" /\ UNCHANGED errs
    /\ UNCHANGED <<data, events, got>>

(* flush after the loop; its error is reported unless cancelled.           *)
FinalFlush ==
    /\ pc = "final"
    /\ \/ data = <<>> /\ pc' = "return" /\ UNCHANGED errs
       \/ /\ data # <<>> /\ Decode(data) = 0 /\ pc' = "return"
          /\ IF cancelled THEN UNCHANGED errs ELSE Report("decode")
       \/ data # <<>> /\ Decode(data) # 0 /\ pc' = "sendFinal" /\ UNCHANGED errs
    /\ UNCHANGED <<published, next, lines, conn, faults, cancelled, reading, defers,
                   data, events, got>>

Flushed == pc' = IF pc = "send" THEN "scan" ELSE "return"

(* Mutants: the buffer is not reset after a send; the select has no        *)
(* ctx.Done case.                                                          *)
SendWithoutReset ==
    /\ pc \in {"send", "sendFinal"}
    /\ Len(events) < Cap
    /\ events' = Append(events, Decode(data))
    /\ Flushed
    /\ UNCHANGED <<published, next, lines, conn, faults, cancelled, reading, defers,
                   data, errs, got>>

NoDoneCase == FALSE

SendEvent ==
    /\ pc \in {"send", "sendFinal"}
    /\ Len(events) < Cap
    /\ events' = Append(events, Decode(data))
    /\ data' = <<>>
    /\ Flushed
    /\ UNCHANGED <<published, next, lines, conn, faults, cancelled, reading, defers,
                   errs, got>>

(* The ctx.Done case: flush returns nil, data keeps its lines.             *)
SendCancelled ==
    /\ pc \in {"send", "sendFinal"}
    /\ cancelled
    /\ Flushed
    /\ UNCHANGED <<published, next, lines, conn, faults, cancelled, reading, defers,
                   streamVars>>

(* Mutant: scanner.Err is not consulted.                                   *)
ScanErrIgnored ==
    /\ ScanEOF \/ ScanFails
    /\ pc' = "final"
    /\ UNCHANGED <<published, next, lines, conn, faults, cancelled, reading, defers, streamVars>>

(* A read error after a cancellation falls through to the last flush.      *)
ScanEnd ==
    /\ \/ ScanEOF /\ pc' = "final" /\ UNCHANGED errs
       \/ ScanFails /\ cancelled /\ pc' = "final" /\ UNCHANGED errs
       \/ ScanFails /\ ~cancelled /\ pc' = "return" /\ Report("read")
    /\ UNCHANGED <<published, next, lines, conn, faults, cancelled, reading, defers,
                   data, events, got>>

Return == Deferred /\ UNCHANGED streamVars

Goroutine ==
    \/ ScanField \/ Flush \/ FinalFlush \/ SendEvent \/ SendCancelled
    \/ ScanEnd \/ Return

-----------------------------------------------------------------------------
Receive ==
    /\ reading
    /\ events # <<>>
    /\ events' = Tail(events)
    /\ got' = Append(got, Head(events))
    /\ UNCHANGED <<sseVars, data, errs>>

Daemon ==
    /\ Publish \/ WritePublication(Frames(next)) \/ WriteNoise(Noise) \/ Disconnect
    /\ UNCHANGED streamVars

CancelContext == Cancel /\ UNCHANGED streamVars

Init ==
    /\ SSEInit
    /\ data = <<>>
    /\ events = <<>>
    /\ errs = <<>>
    /\ got = <<>>

Next ==
    \/ AIChatStream \/ AIChatRefused \/ Goroutine \/ Receive
    \/ Daemon \/ CancelContext

Spec == Init /\ [][Next]_vars /\ WF_vars(Goroutine) /\ WF_vars(Receive)

-----------------------------------------------------------------------------
TypeOK ==
    /\ SSETypeOK
    /\ data \in Seq(Line)
    /\ events \in Seq(1..MaxPublished)
    /\ Len(events) <= Cap
    /\ errs \in Seq({"decode", "read"})
    /\ Len(errs) <= 1
    /\ got \in Seq(1..MaxPublished)

(* A cancelled stream ends and releases the response, although flush       *)
(* swallows the cancellation and goes back to the scanner.                 *)
CancelReleases == cancelled ~> (pc = "done" /\ defers = <<>>)
=============================================================================
