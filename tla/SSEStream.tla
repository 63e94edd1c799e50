------------------------------ MODULE SSEStream ------------------------------
(***************************************************************************)
(* What the four server-sent-event readers of the client have in common:   *)
(* SubscribeChannel, StreamEvents, AIChatStream and httpStore.Subscribe    *)
(* each open one long-lived HTTP response, start a goroutine that reads it *)
(* line by line with a bufio.Scanner, and hand decoded values to the       *)
(* caller over a Go channel.  This module holds the daemon's end of the    *)
(* connection, the scanner's input, the caller's context and the           *)
(* goroutine's deferred calls; the extending modules add what the loop     *)
(* does with a line.                                                       *)
(*                                                                         *)
(* A line of the stream is a record: the field it starts with, the         *)
(* publication it carries a piece of (0 for none), and which piece.  Text  *)
(* is not modelled: only the distinctions the readers make are kept.       *)
(***************************************************************************)
EXTENDS Integers, Sequences, FiniteSets

CONSTANTS
    MaxPublished,   \* bound: publications in the daemon's log
    MaxFaults       \* bound: noise frames, broken connections, cancellations

ASSUME BoundsAssumption ==
    /\ MaxPublished \in Nat
    /\ MaxFaults \in Nat

VARIABLES
    published,  \* length of the daemon's log; its publications are 1..published
    next,       \* the publication the daemon writes next on this connection
    lines,      \* bytes on their way to the scanner, as lines
    conn,       \* the response body: "none", "open", "eof" (clean end), "reset"
    faults,     \* how many faults happened so far
    cancelled,  \* ctx.Done() is closed
    reading,    \* the caller is still receiving from the channel
    pc,         \* the goroutine: "idle", "scan" (in scanner.Scan), "send" (in the
                \* select of flush), "final" and "sendFinal" (the flush after the
                \* loop), "return" (running deferred calls), "done"
    defers      \* deferred calls not yet run, innermost first

sseVars == <<published, next, lines, conn, faults, cancelled, reading, pc, defers>>

-----------------------------------------------------------------------------
Blank       == [field |-> "blank",   seq |-> 0, text |-> "none"]
Comment     == [field |-> "comment", seq |-> 0, text |-> "none"]
Event(kind) == [field |-> "event",   seq |-> 0, text |-> kind]
Id(n)       == [field |-> "id",      seq |-> n, text |-> "none"]
Data(n, t)  == [field |-> "data",    seq |-> n, text |-> t]

Texts == {"none", "whole", "head", "tail", "bad", "long", "cut", "message", "unrelated"}
Line  == [field : {"blank", "comment", "event", "id", "data"}, seq : Nat, text : Texts]

(* A line longer than the scanner's buffer limit.                          *)
TooLong(line) == line.text = "long"

(* What a line becomes when the stream ends inside it: a shorter value,    *)
(* and for a sequence number a smaller one.  Half a blank line is nothing. *)
Cuts(line) ==
    CASE line.field \in {"data", "event"} -> {[line EXCEPT !.text = "cut"]}
      [] line.field = "id"               -> {Id(m) : m \in 0..(line.seq - 1)}
      [] OTHER                           -> {}

(* What of the lines in flight reaches the scanner when the stream ends.   *)
(* bufio.ScanLines returns an unterminated last line as a token, at a      *)
(* clean end and after a read error alike.                                 *)
Remainders(ls) ==
    {SubSeq(ls, 1, k) : k \in 0..Len(ls)}
      \cup UNION {{Append(SubSeq(ls, 1, k - 1), c) : c \in Cuts(ls[k])} : k \in 1..Len(ls)}

-----------------------------------------------------------------------------
(* The daemon. *)

Publish ==
    /\ published < MaxPublished
    /\ published' = published + 1
    /\ UNCHANGED <<next, lines, conn, faults, cancelled, reading, pc, defers>>

Fault ==
    /\ faults < MaxFaults
    /\ faults' = faults + 1

(* The daemon writes a frame once the reader has consumed the previous     *)
(* one: when a frame is written is not observable, only its order is.      *)
Idle == conn = "open" /\ pc = "scan" /\ lines = <<>>

WritePublication(frames) ==
    /\ Idle
    /\ next <= published
    /\ lines' \in frames
    /\ next' = next + 1
    /\ UNCHANGED <<published, conn, faults, cancelled, reading, pc, defers>>

(* Frames that carry no publication: keep-alives, other event types, and   *)
(* frames whose data is not the JSON the reader expects.                   *)
WriteNoise(Frames) ==
    /\ Idle
    /\ Fault
    /\ lines' \in Frames
    /\ UNCHANGED <<published, next, conn, cancelled, reading, pc, defers>>

(* The response body ends, cleanly or not; a prefix of what was in flight  *)
(* still reaches the scanner.                                              *)
Disconnect ==
    /\ conn = "open"
    /\ Fault
    /\ conn' \in {"eof", "reset"}
    /\ lines' \in Remainders(lines)
    /\ UNCHANGED <<published, next, cancelled, reading, pc, defers>>

-----------------------------------------------------------------------------
(* The caller's context.  A caller that cancels may also stop receiving.   *)

Cancel ==
    /\ pc \notin {"idle", "done"}
    /\ ~cancelled
    /\ Fault
    /\ cancelled' = TRUE
    /\ reading' \in BOOLEAN
    /\ UNCHANGED <<published, next, lines, conn, pc, defers>>

-----------------------------------------------------------------------------
(* The scanner's next token is a line with field f.                        *)
Scanning(f) ==
    /\ pc = "scan"
    /\ lines # <<>>
    /\ ~TooLong(Head(lines))
    /\ Head(lines).field = f
    /\ lines' = Tail(lines)
    /\ UNCHANGED <<published, next, conn, faults, cancelled, reading, defers>>

(* scanner.Scan returns false.  A read that the cancelled context          *)
(* interrupts fails whatever the connection holds.                         *)
ScanFails ==
    /\ pc = "scan"
    /\ \/ lines = <<>> /\ conn = "reset"
       \/ lines # <<>> /\ TooLong(Head(lines))
       \/ cancelled

ScanEOF == pc = "scan" /\ lines = <<>> /\ conn = "eof"

(* The goroutine returns: its deferred calls run last-in first-out.        *)

Deferred ==
    /\ pc = "return"
    /\ defers' = Tail(defers)
    /\ pc' = IF Len(defers) = 1 THEN "done" ELSE "return"
    /\ UNCHANGED <<published, next, lines, conn, faults, cancelled, reading>>

Pending(call) == \E i \in 1..Len(defers) : defers[i] = call

-----------------------------------------------------------------------------
(* A response with status 200 arrived and the goroutine was started.       *)
Connected(from, stack) ==
    /\ pc \in {"idle", "done"}
    /\ next' = from + 1
    /\ lines' = <<>>
    /\ conn' = "open"
    /\ cancelled' = FALSE
    /\ reading' = TRUE
    /\ pc' = "scan"
    /\ defers' = stack
    /\ UNCHANGED <<published, faults>>

(* The request failed or was refused: no goroutine, no channel.            *)
Refused ==
    /\ pc \in {"idle", "done"}
    /\ Fault
    /\ UNCHANGED <<published, next, lines, conn, cancelled, reading, pc, defers>>

SSEInit ==
    /\ published = 0
    /\ next = 1
    /\ lines = <<>>
    /\ conn = "none"
    /\ faults = 0
    /\ cancelled = FALSE
    /\ reading = TRUE
    /\ pc = "idle"
    /\ defers = <<>>

SSETypeOK ==
    /\ published \in 0..MaxPublished
    /\ next \in 1..MaxPublished + 1
    /\ lines \in Seq(Line)
    /\ conn \in {"none", "open", "eof", "reset"}
    /\ faults \in 0..MaxFaults
    /\ cancelled \in BOOLEAN
    /\ reading \in BOOLEAN
    /\ pc \in {"idle", "scan", "send", "final", "sendFinal", "return", "done"}
    /\ defers \in Seq({"body", "errs", "events"})
=============================================================================
