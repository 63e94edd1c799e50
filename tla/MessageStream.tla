---------------------------- MODULE MessageStream ----------------------------
(***************************************************************************)
(* Subscribe of the messaging store: envelopes addressed to one mailbox,   *)
(* live from the moment the daemon accepted the subscription.  Each data   *)
(* line is one envelope, a line that does not decode is skipped, and there *)
(* is no error channel: whatever ends the scanner just closes the channel. *)
(* The scanner keeps its default limit of 64 KiB for a line.               *)
(***************************************************************************)
EXTENDS SSEStream

CONSTANTS
    Cap,        \* capacity of the channel, 16 in the code
    Oversize    \* envelopes whose data line exceeds the scanner's 64 KiB

ASSUME MessageAssumption == Cap \in Nat \ {0} /\ Oversize \subseteq Nat

VARIABLES
    env,        \* the envelope being sent, 0 when none
    events,     \* the buffered channel
    got,        \* envelopes received
    since       \* envelopes sent before the subscription was accepted

streamVars == <<env, events, got, since>>
vars == <<sseVars, streamVars>>

-----------------------------------------------------------------------------
Frames(n) ==
    {<<Event("message"), Data(n, IF n \in Oversize THEN "long" ELSE "whole"), Blank>>}

Noise == { <<Comment, Blank>>, <<Data(0, "bad"), Blank>> }

(* json.Unmarshal of one data line: the envelope, 0 when it fails.         *)
Decode(line) == IF line.text = "whole" THEN line.seq ELSE 0

-----------------------------------------------------------------------------
(* Mutant: the connection is opened in the goroutine, after Subscribe      *)
(* returned.                                                               *)
SubscribeAsync ==
    /\ pc = "idle"
    /\ Connected(published, <<"body", "events">>)
    /\ since' \in 0..published
    /\ UNCHANGED <<env, events, got>>

Subscribe ==
    /\ pc = "idle"
    /\ Connected(published, <<"body", "events">>)
    /\ since' = published
    /\ UNCHANGED <<env, events, got>>

SubscribeRefused == pc = "idle" /\ Refused /\ UNCHANGED streamVars

(* Mutant: a line that does not decode ends the loop.                      *)
StopAtBadLine ==
    /\ \/ (Scanning("blank") \/ Scanning("comment") \/ Scanning("event")) /\ UNCHANGED pc
       \/ Scanning("data") /\ Decode(Head(lines)) = 0 /\ pc' = "return"
    /\ UNCHANGED streamVars

(* Everything but a data line, and data that is no envelope, is skipped.   *)
SkipLine ==
    /\ \/ Scanning("blank") \/ Scanning("comment") \/ Scanning("event")
       \/ Scanning("data") /\ Decode(Head(lines)) = 0
    /\ UNCHANGED <<pc, streamVars>>

ScanEnvelope ==
    /\ Scanning("data")
    /\ Decode(Head(lines)) # 0
    /\ env' = Decode(Head(lines))
    /\ pc' = "send"
    /\ UNCHANGED <<events, got, since>>

(* Mutants: the select has a default case that drops the envelope; it has  *)
(* no ctx.Done case.                                                       *)
SendOrDrop ==
    /\ pc = "send"
    /\ events' = IF Len(events) < Cap THEN Append(events, env) ELSE events
    /\ env' = 0
    /\ pc' = "scan"
    /\ UNCHANGED <<published, next, lines, conn, faults, cancelled, reading, defers,
                   got, since>>

NoDoneCase == FALSE

SendEnvelope ==
    /\ pc = "send"
    /\ Len(events) < Cap
    /\ events' = Append(events, env)
    /\ env' = 0
    /\ pc' = "scan"
    /\ UNCHANGED <<published, next, lines, conn, faults, cancelled, reading, defers,
                   got, since>>

SendCancelled ==
    /\ pc = "send"
    /\ cancelled
    /\ pc' = "return"
    /\ UNCHANGED <<published, next, lines, conn, faults, cancelled, reading, defers,
                   streamVars>>

(* The loop ends; scanner.Err is not consulted.                            *)
ScanEnd ==
    /\ ScanEOF \/ ScanFails
    /\ pc' = "return"
    /\ UNCHANGED <<published, next, lines, conn, faults, cancelled, reading, defers,
                   streamVars>>

Return == Deferred /\ UNCHANGED streamVars

Goroutine ==
    \/ SkipLine \/ ScanEnvelope \/ SendEnvelope \/ SendCancelled
    \/ ScanEnd \/ Return

-----------------------------------------------------------------------------
Receive ==
    /\ reading
    /\ events # <<>>
    /\ events' = Tail(events)
    /\ got' = Append(got, Head(events))
    /\ UNCHANGED <<sseVars, env, since>>

WriteEnvelope == WritePublication(Frames(next)) /\ UNCHANGED streamVars

Daemon ==
    \/ WriteEnvelope
    \/ (Publish \/ WriteNoise(Noise) \/ Disconnect) /\ UNCHANGED streamVars

CancelContext == Cancel /\ UNCHANGED streamVars

Init ==
    /\ SSEInit
    /\ env = 0
    /\ events = <<>>
    /\ got = <<>>
    /\ since = 0

Next ==
    \/ Subscribe \/ SubscribeRefused \/ Goroutine \/ Receive
    \/ Daemon \/ CancelContext

(* The goroutine, the receiving caller and the daemon's writer make        *)
(* progress.                                                               *)
Spec ==
    /\ Init /\ [][Next]_vars
    /\ WF_vars(Goroutine) /\ WF_vars(Receive) /\ WF_vars(WriteEnvelope)

-----------------------------------------------------------------------------
TypeOK ==
    /\ SSETypeOK
    /\ env \in 0..MaxPublished
    /\ events \in Seq(1..MaxPublished)
    /\ Len(events) <= Cap
    /\ got \in Seq(1..MaxPublished)
    /\ since \in 0..MaxPublished

Sent == got \o events

(* The envelopes on the channel are those sent after Subscribe returned,   *)
(* each once, in the order the daemon wrote them, whatever noise and       *)
(* undecodable lines are in between.                                       *)
LiveAndContiguous == \A i \in 1..Len(Sent) : Sent[i] = since + i

(* Subscribe's comment: "The returned channel closes when ctx is canceled  *)
(* or the SSE stream ends", and for no other reason.                       *)
ClosesOnlyOnCancelOrEnd ==
    pc # "idle" /\ ~Pending("events") => cancelled \/ conn \in {"eof", "reset"}

(* Subscribe's comment: "a Send immediately after Subscribe is guaranteed  *)
(* to be observed", as long as the stream is neither cancelled nor ended.  *)
SendObserved ==
    \A n \in 1..MaxPublished :
        (pc # "idle" /\ since < n /\ n <= published) ~>
            (Len(got) >= n - since \/ cancelled \/ conn \in {"eof", "reset"})

(* A cancelled subscription ends and releases the response.                *)
CancelReleases == cancelled ~> (pc = "done" /\ defers = <<>>)
=============================================================================
