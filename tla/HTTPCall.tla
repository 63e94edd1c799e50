------------------------------ MODULE HTTPCall ------------------------------
(***************************************************************************)
(* The request pipeline under every method of the client: doJSONAccept and *)
(* its variants build one request, hand it to an http.Client, and turn     *)
(* what comes back into a value or one of a few kinds of error.  Several   *)
(* calls run concurrently and share the transport's idle connections,      *)
(* while the daemon crashes, restarts and drops connections.               *)
(*                                                                         *)
(* The transport (net/http) is external.  What the client relies on is     *)
(* modelled: an idle connection is reused; a request that fails on a       *)
(* reused connection is sent again when nothing of it was written, or when *)
(* it is replayable, that is, a GET or a request that carries the          *)
(* Idempotency-Key header; Client.Timeout bounds the whole call, reading   *)
(* the body included.                                                      *)
(***************************************************************************)
EXTENDS Integers, FiniteSets

CONSTANTS
    Calls,      \* the calls a process makes, in any order and overlap
    Kinds,      \* subset of CallKinds: what they may be
    MaxIdle,    \* idle connections kept, 2 per host in net/http
    MaxCrashes  \* bound: daemon crashes and dropped connections

CallKinds == {"read", "write", "reply", "request", "wait"}

ASSUME CallAssumption ==
    /\ Kinds \subseteq CallKinds
    /\ MaxIdle \in Nat
    /\ MaxCrashes \in Nat

VARIABLES
    up,         \* the daemon accepts connections
    crashes,    \* crashes and dropped connections so far
    idle,       \* pooled connections: [live, stale], stale ones are dead
    kind,       \* what each call is
    pc,         \* where it is
    alive,      \* its connection still works
    reused,     \* its connection came from the pool
    sent,       \* its request is with the daemon, not handled yet
    orphans,    \* requests of it the daemon still holds on abandoned connections
    handled,    \* how often the daemon handled it
    answer,     \* the daemon's answer on the current connection
    cancelled,  \* its context is done
    result      \* what the method returned

vars == <<up, crashes, idle, kind, pc, alive, reused, sent, orphans, handled,
          answer, cancelled, result>>

(* The wanted status with a readable body, any other status, the wanted    *)
(* status with a body that does not decode.                                *)
Answers == {"wanted", "refused", "garbled"}

Results == {"none", "ok", "api", "decode", "unreachable", "neterr", "timeout", "ctx"}

-----------------------------------------------------------------------------
(* Methods that only read use GET; Reply sets the Idempotency-Key header.  *)
Replayable(c) == kind[c] \in {"read", "reply"}

(* Launch, turn, wait, chat and the streams run on longLivedClient, a copy *)
(* of the http.Client with Timeout 0.  Request does not.                   *)
LongLived(c) == kind[c] = "wait"

Busy(c) == pc[c] \notin {"idle", "done"}

(* The method returns.  A request the daemon still holds stays with it.    *)
Finish(c, res) ==
    /\ pc' = [pc EXCEPT ![c] = "done"]
    /\ result' = [result EXCEPT ![c] = res]

-----------------------------------------------------------------------------
(* http.Client.Do: get a connection, write the request, wait.              *)

Do(c, k) ==
    /\ pc[c] = "idle"
    /\ kind' = [kind EXCEPT ![c] = k]
    /\ pc' = [pc EXCEPT ![c] = "conn"]
    /\ UNCHANGED <<up, crashes, idle, alive, reused, sent, orphans, handled,
                   answer, cancelled, result>>

TakeIdle(c, state) ==
    /\ pc[c] = "conn"
    /\ idle[state] > 0
    /\ idle' = [idle EXCEPT ![state] = @ - 1]
    /\ alive' = [alive EXCEPT ![c] = (state = "live")]
    /\ reused' = [reused EXCEPT ![c] = TRUE]
    /\ pc' = [pc EXCEPT ![c] = "write"]
    /\ UNCHANGED <<up, crashes, kind, sent, orphans, handled, answer, cancelled, result>>

Dial(c) ==
    /\ pc[c] = "conn"
    /\ idle.live + idle.stale = 0
    /\ IF up THEN /\ alive' = [alive EXCEPT ![c] = TRUE]
                  /\ reused' = [reused EXCEPT ![c] = FALSE]
                  /\ pc' = [pc EXCEPT ![c] = "write"]
                  /\ UNCHANGED result
             ELSE Finish(c, "unreachable") /\ UNCHANGED <<alive, reused>>
    /\ UNCHANGED <<up, crashes, idle, kind, sent, orphans, handled, answer, cancelled>>

Write(c) ==
    /\ pc[c] = "write"
    /\ pc' = [pc EXCEPT ![c] = "wait"]
    /\ sent' = [sent EXCEPT ![c] = alive[c]]
    /\ UNCHANGED <<up, crashes, idle, kind, alive, reused, orphans, handled,
                   answer, cancelled, result>>

(* The transport sends the request again, on another connection.           *)
Resend(c) ==
    /\ pc' = [pc EXCEPT ![c] = "conn"]
    /\ orphans' = [orphans EXCEPT ![c] = @ + (IF sent[c] THEN 1 ELSE 0)]
    /\ sent' = [sent EXCEPT ![c] = FALSE]
    /\ answer' = [answer EXCEPT ![c] = "none"]
    /\ UNCHANGED result

(* Mutants: every request is sent again; every network error counts as an  *)
(* unreachable daemon.                                                     *)
BrokenResendsAll(c) ==
    /\ ~alive[c]
    /\ \/ pc[c] \in {"write", "wait"} /\ reused[c] /\ Resend(c)
       \/ /\ pc[c] \in {"write", "wait"} /\ ~reused[c]
          /\ Finish(c, "neterr")
          /\ UNCHANGED <<orphans, sent, answer>>
    /\ UNCHANGED <<up, crashes, idle, kind, alive, reused, handled, cancelled>>

BrokenIsUnreachable(c) ==
    /\ ~alive[c]
    /\ pc[c] \in {"write", "wait"}
    /\ Finish(c, "unreachable")
    /\ UNCHANGED <<up, crashes, idle, kind, alive, reused, sent, orphans, handled, answer, cancelled>>

(* The connection fails: before anything was written, or before the first  *)
(* byte of an answer.                                                      *)
Broken(c) ==
    /\ ~alive[c]
    /\ \/ pc[c] = "write" /\ reused[c] /\ Resend(c)
       \/ pc[c] = "wait" /\ reused[c] /\ Replayable(c) /\ Resend(c)
       \/ /\ \/ pc[c] = "write" /\ ~reused[c]
             \/ pc[c] = "wait" /\ ~(reused[c] /\ Replayable(c))
          /\ Finish(c, "neterr")
          /\ UNCHANGED <<orphans, sent, answer>>
    /\ UNCHANGED <<up, crashes, idle, kind, alive, reused, handled, cancelled>>

-----------------------------------------------------------------------------
(* After Do: status, body, decoding.                                       *)

ReadHeader(c) ==
    /\ pc[c] = "wait"
    /\ answer[c] # "none"
    /\ pc' = [pc EXCEPT ![c] = "body"]
    /\ UNCHANGED <<up, crashes, idle, kind, alive, reused, sent, orphans, handled,
                   answer, cancelled, result>>

(* An unwanted status becomes an APIError whatever its body; a wanted one  *)
(* is decoded.  The connection goes back to the pool if it can.            *)
ReadBody(c) ==
    /\ pc[c] = "body"
    /\ \/ answer[c] = "refused" /\ Finish(c, "api")
       \/ answer[c] = "wanted" /\ Finish(c, "ok")
       \/ answer[c] = "garbled" /\ Finish(c, "decode")
    /\ \/ /\ alive[c]
          /\ idle.live + idle.stale < MaxIdle
          /\ idle' = [idle EXCEPT !.live = @ + 1]
       \/ UNCHANGED idle
    /\ UNCHANGED <<up, crashes, kind, alive, reused, sent, orphans, handled,
                   answer, cancelled>>

(* The call is cut short by its deadline, its context or its connection:   *)
(* an error from Do, or a failed decode, or an APIError with what was read *)
(* of the body.  A dial that is interrupted may surface as a dial error.   *)
CutShort(c, res) ==
    /\ \/ pc[c] \in {"conn", "write", "wait"} /\ Finish(c, res)
       \/ pc[c] = "conn" /\ Finish(c, "unreachable")
       \/ pc[c] = "body" /\ Finish(c, IF answer[c] = "refused" THEN "api" ELSE "decode")
    /\ UNCHANGED <<up, crashes, idle, kind, alive, reused, sent, orphans, handled,
                   answer, cancelled>>

(* Mutant: the deadline stops counting once the header has arrived.        *)
HeaderTimeout(c) == pc[c] # "body" /\ ~LongLived(c) /\ CutShort(c, "timeout")

Timeout(c)   == ~LongLived(c) /\ CutShort(c, "timeout")
Abort(c)     == cancelled[c] /\ CutShort(c, "ctx")
Truncated(c) == pc[c] = "body" /\ ~alive[c] /\ CutShort(c, "neterr")

CancelContext(c) ==
    /\ Busy(c)
    /\ ~cancelled[c]
    /\ cancelled' = [cancelled EXCEPT ![c] = TRUE]
    /\ UNCHANGED <<up, crashes, idle, kind, pc, alive, reused, sent, orphans,
                   handled, answer, result>>

-----------------------------------------------------------------------------
(* The daemon and the network (external). *)

(* The daemon handles a request, also one whose caller has given up; only  *)
(* the current connection carries the answer back.                         *)
Handle(c) ==
    /\ up
    /\ \/ /\ sent[c]
          /\ sent' = [sent EXCEPT ![c] = FALSE]
          /\ IF alive[c] THEN \E a \in Answers : answer' = [answer EXCEPT ![c] = a]
                         ELSE UNCHANGED answer
          /\ UNCHANGED orphans
       \/ /\ orphans[c] > 0
          /\ orphans' = [orphans EXCEPT ![c] = @ - 1]
          /\ UNCHANGED <<sent, answer>>
    /\ handled' = [handled EXCEPT ![c] = @ + 1]
    /\ UNCHANGED <<up, crashes, idle, kind, pc, alive, reused, cancelled, result>>

Crash ==
    /\ up
    /\ crashes < MaxCrashes
    /\ crashes' = crashes + 1
    /\ up' = FALSE
    /\ idle' = [live |-> 0, stale |-> idle.live + idle.stale]
    /\ alive' = [c \in Calls |-> FALSE]
    /\ sent' = [c \in Calls |-> FALSE]
    /\ orphans' = [c \in Calls |-> 0]
    /\ UNCHANGED <<kind, pc, reused, handled, answer, cancelled, result>>

Restart == ~up /\ up' = TRUE
           /\ UNCHANGED <<crashes, idle, kind, pc, alive, reused, sent, orphans,
                          handled, answer, cancelled, result>>

(* A connection dies while the daemon lives: the request stays with it.    *)
DropConnection(c) ==
    /\ Busy(c)
    /\ alive[c]
    /\ crashes < MaxCrashes
    /\ crashes' = crashes + 1
    /\ alive' = [alive EXCEPT ![c] = FALSE]
    /\ UNCHANGED <<up, idle, kind, pc, reused, sent, orphans, handled, answer,
                   cancelled, result>>

(* The daemon closes an idle connection; later the transport notices.      *)
IdleClosed ==
    /\ \/ idle.live > 0 /\ idle' = [live |-> idle.live - 1, stale |-> idle.stale + 1]
       \/ idle.stale > 0 /\ idle' = [idle EXCEPT !.stale = @ - 1]
    /\ UNCHANGED <<up, crashes, kind, pc, alive, reused, sent, orphans, handled,
                   answer, cancelled, result>>

-----------------------------------------------------------------------------
Init ==
    /\ up \in BOOLEAN
    /\ crashes = 0
    /\ idle = [live |-> 0, stale |-> 0]
    /\ kind = [c \in Calls |-> "none"]
    /\ pc = [c \in Calls |-> "idle"]
    /\ alive = [c \in Calls |-> FALSE]
    /\ reused = [c \in Calls |-> FALSE]
    /\ sent = [c \in Calls |-> FALSE]
    /\ orphans = [c \in Calls |-> 0]
    /\ handled = [c \in Calls |-> 0]
    /\ answer = [c \in Calls |-> "none"]
    /\ cancelled = [c \in Calls |-> FALSE]
    /\ result = [c \in Calls |-> "none"]

(* What the calling goroutine, its timer and the transport do without the  *)
(* daemon's help, and what needs an answer from it.                        *)
Local(c) ==
    \/ TakeIdle(c, "live") \/ TakeIdle(c, "stale") \/ Dial(c) \/ Write(c) \/ Broken(c)
    \/ Truncated(c) \/ Timeout(c) \/ Abort(c)

Answered(c) == ReadHeader(c) \/ ReadBody(c)

Environment ==
    \/ Crash \/ Restart \/ IdleClosed
    \/ \E c \in Calls : Handle(c) \/ DropConnection(c) \/ CancelContext(c)

Next ==
    \/ Environment
    \/ \E c \in Calls : Local(c) \/ Answered(c) \/ \E k \in Kinds : Do(c, k)

Spec == Init /\ [][Next]_vars

(* Goroutines and timers run; the daemon may hang for ever, in the middle  *)
(* of an answer too.                                                       *)
FairSpec == Spec /\ \A c \in Calls : WF_vars(Local(c))

-----------------------------------------------------------------------------
TypeOK ==
    /\ up \in BOOLEAN
    /\ crashes \in 0..MaxCrashes
    /\ idle \in [live : Nat, stale : Nat]
    /\ idle.live + idle.stale <= MaxIdle
    /\ kind \in [Calls -> Kinds \cup {"none"}]
    /\ pc \in [Calls -> {"idle", "conn", "write", "wait", "body", "done"}]
    /\ alive \in [Calls -> BOOLEAN]
    /\ reused \in [Calls -> BOOLEAN]
    /\ sent \in [Calls -> BOOLEAN]
    /\ orphans \in [Calls -> Nat]
    /\ handled \in [Calls -> Nat]
    /\ answer \in [Calls -> Answers \cup {"none"}]
    /\ cancelled \in [Calls -> BOOLEAN]
    /\ result \in [Calls -> Results]

(* Copies of the request that the daemon handled or may still handle.      *)
Copies(c) == handled[c] + orphans[c] + (IF sent[c] THEN 1 ELSE 0)

(* A call that changes the daemon's state and carries no idempotency key   *)
(* reaches the daemon at most once, whatever connections it is tried on,   *)
(* and when its method returns what the daemon answered, exactly once.     *)
AtMostOnce ==
    \A c \in Calls : ~Replayable(c) =>
        /\ Copies(c) <= 1
        /\ result[c] \in {"ok", "api", "decode"} => handled[c] = 1

(* ErrDaemonUnreachable (isUnreachable: a failed dial) means that a call   *)
(* which is not replayable had no effect and will have none later, so the  *)
(* caller may safely make it again.  It does not for a replayable one,     *)
(* whose second attempt may be the one that fails to dial.                 *)
UnreachableMeansUnsent ==
    \A c \in Calls : result[c] = "unreachable" /\ ~Replayable(c) => Copies(c) = 0

(* The call ended because of an answer, its connection or its context,     *)
(* and not because of http.Client.Timeout.                                 *)
EndsForCause(c) ==
    pc[c] = "done" =>
        cancelled[c] \/ answer[c] # "none" \/ result[c] \in {"unreachable", "neterr"}

(* The dispatcher's Request "blocks until the daemon returns a matching    *)
(* response or ctx expires" (messaging_store.go).                          *)
RequestWaits == \A c \in Calls : kind[c] = "request" => EndsForCause(c)

(* Every call on the plain client returns even if the daemon hangs or      *)
(* keeps crashing, and every long-lived one does once cancelled.           *)
Returns ==
    \A c \in Calls : (Busy(c) /\ (~LongLived(c) \/ cancelled[c])) ~> pc[c] = "done"
=============================================================================
