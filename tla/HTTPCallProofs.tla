--------------------------- MODULE HTTPCallProofs ---------------------------
(***************************************************************************)
(* Proofs about HTTPCall, for any set of calls, any size of the pool and   *)
(* any number of crashes: what a call that is not replayable, and what an  *)
(* error that says the daemon is unreachable, tell its caller.             *)
(***************************************************************************)
EXTENDS HTTPCall, TLAPS

(* What holds of a call that the transport may not send twice.  Its        *)
(* request leaves the process in one step, Write, from a state in which    *)
(* the daemon has never had it; whatever ends the call before that step    *)
(* leaves nothing behind, and only the one copy can bring an answer.       *)
Careful(c) ==
    /\ pc[c] \in {"idle", "conn", "write"} => Copies(c) = 0 /\ answer[c] = "none"
    /\ Copies(c) <= 1
    /\ answer[c] # "none" => handled[c] = 1
    /\ pc[c] = "body" => answer[c] # "none"
    /\ pc[c] # "done" => result[c] = "none"
    /\ result[c] \in {"ok", "api", "decode"} => answer[c] # "none"
    /\ result[c] = "unreachable" => Copies(c) = 0

IndInv ==
    /\ TypeOK
    /\ \A c \in Calls : pc[c] = "idle" => kind[c] = "none"
    /\ \A c \in Calls : ~Replayable(c) => Careful(c)

-----------------------------------------------------------------------------
(* The initial states have types, and no call has begun.                   *)
LEMMA InitInv == Init => IndInv
  BY CallAssumption DEF Init, IndInv, TypeOK, Careful, Copies, Replayable, Answers, Results

(* Type correctness alone is inductive.                                    *)
LEMMA TypeStep == TypeOK /\ [Next]_vars => TypeOK'
<1> SUFFICES ASSUME TypeOK, [Next]_vars PROVE TypeOK'
  OBVIOUS
<1> USE CallAssumption DEF TypeOK, Answers, Results
<1>1. CASE Crash
  <2>1. alive' \in [Calls -> BOOLEAN] /\ sent' \in [Calls -> BOOLEAN]
    BY <1>1, Zenon DEF Crash
  <2>2. orphans' \in [Calls -> Nat]
        /\ idle' \in [live : Nat, stale : Nat] /\ idle'.live + idle'.stale <= MaxIdle
    BY <1>1 DEF Crash
  <2>3. up' \in BOOLEAN
    BY <1>1, Zenon DEF Crash
  <2>4. crashes' \in 0..MaxCrashes
    BY <1>1 DEF Crash
  <2>5. UNCHANGED <<kind, pc, reused, handled, answer, cancelled, result>>
    BY <1>1 DEF Crash
  <2> QED
    BY <2>1, <2>2, <2>3, <2>4, <2>5
<1>2. CASE Restart
  BY <1>2 DEF Restart
<1>3. CASE IdleClosed
  BY <1>3 DEF IdleClosed
<1>4. ASSUME NEW c \in Calls, Handle(c) PROVE TypeOK'
  <2>1. handled' \in [Calls -> Nat] /\ orphans' \in [Calls -> Nat]
    BY <1>4 DEF Handle
  <2>2. answer' \in [Calls -> Answers \cup {"none"}]
    BY <1>4 DEF Handle
  <2>3. sent' \in [Calls -> BOOLEAN]
    BY <1>4 DEF Handle
  <2> QED
    BY <1>4, <2>1, <2>2, <2>3 DEF Handle
<1>5. ASSUME NEW c \in Calls, DropConnection(c) PROVE TypeOK'
  BY <1>5 DEF DropConnection
<1>6. ASSUME NEW c \in Calls, CancelContext(c) PROVE TypeOK'
  BY <1>6 DEF CancelContext
<1>7. ASSUME NEW c \in Calls, NEW s \in {"live", "stale"}, TakeIdle(c, s) PROVE TypeOK'
  BY <1>7 DEF TakeIdle
<1>8. ASSUME NEW c \in Calls, Dial(c) PROVE TypeOK'
  BY <1>8 DEF Dial, Finish
<1>9. ASSUME NEW c \in Calls, Write(c) PROVE TypeOK'
  BY <1>9 DEF Write
<1>10. ASSUME NEW c \in Calls, Broken(c) PROVE TypeOK'
  <2>1. orphans' \in [Calls -> Nat]
    BY <1>10 DEF Broken, Resend, Finish
  <2>2. sent' \in [Calls -> BOOLEAN] /\ answer' \in [Calls -> Answers \cup {"none"}]
    BY <1>10 DEF Broken, Resend, Finish
  <2>3. pc' \in [Calls -> {"idle", "conn", "write", "wait", "body", "done"}]
        /\ result' \in [Calls -> Results]
    BY <1>10 DEF Broken, Resend, Finish
  <2> QED
    BY <1>10, <2>1, <2>2, <2>3 DEF Broken
<1>11. ASSUME NEW c \in Calls, NEW res \in {"timeout", "ctx", "neterr"}, CutShort(c, res)
       PROVE  TypeOK'
  BY <1>11 DEF CutShort, Finish
<1>12. ASSUME NEW c \in Calls, ReadHeader(c) PROVE TypeOK'
  BY <1>12 DEF ReadHeader
<1>13. ASSUME NEW c \in Calls, ReadBody(c) PROVE TypeOK'
  BY <1>13 DEF ReadBody, Finish
<1>14. ASSUME NEW c \in Calls, NEW k \in Kinds, Do(c, k) PROVE TypeOK'
  BY <1>14 DEF Do
<1>15. CASE UNCHANGED vars
  BY <1>15 DEF vars
<1> QED
  BY <1>1, <1>2, <1>3, <1>4, <1>5, <1>6, <1>7, <1>8, <1>9, <1>10, <1>11, <1>12, <1>13,
     <1>14, <1>15
     DEF Next, Environment, Local, Answered, Truncated, Timeout, Abort

(* What a call is, is decided once, when it begins.                        *)
LEMMA KindStep ==
    ASSUME IndInv, [Next]_vars, NEW d \in Calls
    PROVE  /\ pc'[d] = "idle" => pc[d] = "idle" /\ kind'[d] = kind[d]
           /\ pc[d] # "idle" => kind'[d] = kind[d]
<1> USE DEF TypeOK, IndInv
<1>1. CASE Environment
  BY <1>1 DEF Environment, Crash, Restart, IdleClosed, Handle, DropConnection, CancelContext
<1>2. ASSUME NEW c \in Calls, Answered(c)
      PROVE  kind' = kind /\ (pc'[d] = "idle" => pc[d] = "idle")
  BY <1>2 DEF Answered, ReadHeader, ReadBody, Finish
<1>3. ASSUME NEW c \in Calls, Local(c)
      PROVE  kind' = kind /\ (pc'[d] = "idle" => pc[d] = "idle")
  BY <1>3 DEF Local, TakeIdle, Dial, Write, Broken, Resend, Truncated, Timeout, Abort,
              CutShort, Finish
<1>4. ASSUME NEW c \in Calls, NEW k \in Kinds, Do(c, k)
      PROVE  /\ pc'[d] = "idle" => pc[d] = "idle" /\ kind'[d] = kind[d]
             /\ pc[d] # "idle" => kind'[d] = kind[d]
  BY <1>4 DEF Do
<1>5. CASE UNCHANGED vars
  BY <1>5 DEF vars
<1> QED
  BY <1>1, <1>2, <1>3, <1>4, <1>5 DEF Next

(* Every step keeps what holds of a call that is not replayable, the steps *)
(* of other calls and of the daemon included.                              *)
LEMMA CarefulStep ==
    ASSUME IndInv, TypeOK', [Next]_vars, NEW d \in Calls, ~Replayable(d)'
    PROVE  Careful(d)'
<1> USE DEF TypeOK, IndInv, Careful, Copies, Replayable, Answers
<1>1. CASE Crash
  BY <1>1 DEF Crash
<1>2. CASE Restart
  BY <1>2 DEF Restart
<1>3. CASE IdleClosed
  BY <1>3 DEF IdleClosed
<1>4. ASSUME NEW c \in Calls, Handle(c) PROVE Careful(d)'
  BY <1>4 DEF Handle
<1>5. ASSUME NEW c \in Calls, DropConnection(c) PROVE Careful(d)'
  BY <1>5 DEF DropConnection
<1>6. ASSUME NEW c \in Calls, CancelContext(c) PROVE Careful(d)'
  BY <1>6 DEF CancelContext
<1>7. ASSUME NEW c \in Calls, NEW s \in {"live", "stale"}, TakeIdle(c, s)
      PROVE  Careful(d)'
  BY <1>7 DEF TakeIdle
<1>8. ASSUME NEW c \in Calls, Dial(c) PROVE Careful(d)'
  BY <1>8 DEF Dial, Finish
<1>9. ASSUME NEW c \in Calls, Write(c) PROVE Careful(d)'
  <2>1. Careful(d) /\ (c = d => Copies(d) = 0)
    BY <1>9 DEF Write
  <2>2. handled' = handled /\ orphans' = orphans /\ answer' = answer /\ result' = result
    BY <1>9 DEF Write
  <2>3. (c # d => sent'[d] = sent[d]) /\ pc' = [pc EXCEPT ![c] = "wait"]
    BY <1>9 DEF Write
  <2> QED
    BY <1>9, <2>1, <2>2, <2>3 DEF Write
<1>10. ASSUME NEW c \in Calls, Broken(c) PROVE Careful(d)'
  <2>1. Careful(d) /\ handled' = handled /\ kind' = kind
    BY <1>10 DEF Broken
  <2>2. CASE c # d
    <3>1. /\ pc'[d] = pc[d] /\ sent'[d] = sent[d] /\ orphans'[d] = orphans[d]
          /\ answer'[d] = answer[d] /\ result'[d] = result[d]
      BY <1>10, <2>2 DEF Broken, Resend, Finish
    <3> QED
      BY <2>1, <3>1
  <2>3. CASE c = d /\ Resend(d)
    BY <1>10, <2>1, <2>3 DEF Broken, Resend, Finish
  <2>4. CASE c = d /\ Finish(d, "neterr") /\ UNCHANGED <<orphans, sent, answer>>
    BY <2>1, <2>4 DEF Finish
  <2> QED
    BY <1>10, <2>2, <2>3, <2>4 DEF Broken
<1>11. ASSUME NEW c \in Calls, NEW res \in {"timeout", "ctx", "neterr"}, CutShort(c, res)
       PROVE  Careful(d)'
  BY <1>11 DEF CutShort, Finish
<1>12. ASSUME NEW c \in Calls, ReadHeader(c) PROVE Careful(d)'
  BY <1>12 DEF ReadHeader
<1>13. ASSUME NEW c \in Calls, ReadBody(c) PROVE Careful(d)'
  BY <1>13 DEF ReadBody, Finish
<1>14. ASSUME NEW c \in Calls, NEW k \in Kinds, Do(c, k) PROVE Careful(d)'
  BY <1>14 DEF Do
<1>15. CASE UNCHANGED vars
  BY <1>15 DEF vars
<1> QED
  BY <1>1, <1>2, <1>3, <1>4, <1>5, <1>6, <1>7, <1>8, <1>9, <1>10, <1>11, <1>12, <1>13,
     <1>14, <1>15
     DEF Next, Environment, Local, Answered, Truncated, Timeout, Abort

(* The inductive invariant holds in every reachable state, with any        *)
(* scheduling of calls, daemon and network.                                *)
THEOREM Invariance == Spec => []IndInv
<1>1. IndInv /\ [Next]_vars => IndInv'
  BY TypeStep, KindStep, CarefulStep DEF IndInv
<1> QED
  BY InitInv, <1>1, PTL DEF Spec

(* A call that changes the daemon's state and carries no idempotency key   *)
(* reaches the daemon at most once, and exactly once when its method       *)
(* returns the daemon's answer (doJSONAccept over net/http's own retries). *)
THEOREM ReachesAtMostOnce == Spec => []AtMostOnce
<1>1. IndInv => AtMostOnce
  BY DEF IndInv, Careful, AtMostOnce
<1> QED
  BY Invariance, <1>1, PTL

(* ErrDaemonUnreachable means that such a call had no effect and will have *)
(* none (isUnreachable).                                                   *)
THEOREM UnreachableIsSafe == Spec => []UnreachableMeansUnsent
<1>1. IndInv => UnreachableMeansUnsent
  BY DEF IndInv, Careful, UnreachableMeansUnsent
<1> QED
  BY Invariance, <1>1, PTL
=============================================================================
