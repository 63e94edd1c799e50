--------------------------- MODULE MailboxProofs ---------------------------
(***************************************************************************)
(* Proofs about Mailbox, for any number of hosts, any leases and any       *)
(* number of faults: a host that believes it has time left owns the        *)
(* message it works on, and the mailbox keeps the promises of Custody.     *)
(* Who knows the thread's ID does not matter to either, and knows has no   *)
(* part in the invariant.                                                  *)
(***************************************************************************)
EXTENDS Mailbox, TLAPS

Labels == {"new", "inbox", "thread", "found", "done", "accept", "work", "answered", "failed"}

States == {"open", "leased", "accepted", "consumed", "dead", "cancelled"}

EnvelopeSet ==
    [to : {"agent", "asker"}, inReplyTo : Nat, delivered : BOOLEAN,
     state : States, attempt : Nat, holder : Hosts \cup {None},
     left : Nat]

TypeOK ==
    /\ store \in Seq(EnvelopeSet)
    /\ pc \in [Callers -> Labels]
    /\ cur \in [Callers -> Nat]
    /\ lease \in [Callers -> Nat]
    /\ budget \in [Callers -> Int]
    /\ journal \in [Callers -> Nat]

(* Requests and answers in the store; message i has been answered.         *)
StoreOK == \A i \in 1..Len(store) : store[i].to = "agent" <=> store[i].inReplyTo = 0
Answered(i) == \E j \in 1..Len(store) : store[j].inReplyTo = i /\ store[j].to = "asker"

(* Host h is between its claim and the end of its cycle.                   *)
Claimed(h) == pc[h] \in {"accept", "work", "answered", "failed"}

(* The message a host is concerned with, and its belief about time.        *)
HostOK(h) ==
    /\ journal[h] <= Len(store)
    /\ InCycle(h) => cur[h] \in 1..Len(store)
    /\ ~InCycle(h) => budget[h] = 0
    /\ pc[h] = "found" => budget[h] <= 0
    /\ Claimed(h) => lease[h] <= store[cur[h]].attempt
    /\ pc[h] = "answered" => Answered(cur[h])

(* A claim is numbered once.                                               *)
LeasesDiffer ==
    \A g, h \in Hosts : g # h /\ Claimed(g) /\ Claimed(h) /\ cur[g] = cur[h] => lease[g] # lease[h]

(* LeaseCoversWork, with what it takes to survive an operator's redrive:   *)
(* a message under a live lease is not a dead letter.                      *)
Covered(h) ==
    pc[h] \in {"accept", "work", "answered"} /\ budget[h] > 0 =>
        LET e == store[cur[h]] IN
        \/ e.state \in {"consumed", "cancelled"}
        \/ /\ e.state \in {"leased", "accepted"}
           /\ e.holder = h /\ e.attempt = lease[h] /\ e.left >= budget[h]

AskerOK ==
    /\ pc[Asker] = "new" => cur[Asker] = 0
    /\ pc[Asker] # "new" => cur[Asker] \in 1..Len(store)
    /\ pc[Asker] \in {"inbox", "thread"} => IsRequest(cur[Asker])
    /\ pc[Asker] = "found" => ~IsRequest(cur[Asker])

(* What is known of a request when it is sent, and as long as it may be    *)
(* handled late.                                                           *)
Valid(r) ==
    /\ r.op \in {"send", "inbox", "thread", "get", "claim", "ack", "nack", "consumed", "cancelled"}
    /\ r.op = "send" =>
          \/ r.env = Envelope("agent", 0)
          \/ \E k \in Nat \ {0} : r.env = Envelope("asker", k)
    /\ r.op \in {"claim", "ack", "nack", "consumed", "cancelled"} => r.id \in 1..Len(store)
    /\ r.op = "claim" => r.holder \in Hosts /\ r.asked \in Nat
    /\ r.op = "ack" /\ r.stage = "consumed" => Answered(r.id)
    /\ r.op = "nack" => r.lease <= store[r.id].attempt /\ r.lease \in Nat /\ r.delay \in Nat
    /\ r.op = "consumed" =>
          r.id = cur[Asker] /\ ~IsRequest(r.id) /\ pc[Asker] \in {"found", "done"}

(* No host works under the lease that a request hands back.                *)
Foreign(r, h) ==
    r.op = "nack" => ~(Claimed(h) /\ cur[h] = r.id /\ lease[h] = r.lease)

LateOK == \A l \in late : Valid(l.request) /\ \A h \in Hosts : Foreign(l.request, h)

IndInv ==
    /\ TypeOK
    /\ StoreOK
    /\ \A h \in Hosts : HostOK(h) /\ Covered(h)
    /\ LeasesDiffer
    /\ AskerOK
    /\ LateOK

-----------------------------------------------------------------------------
(* The daemon. *)

(* Request r was handled: granted or refused.                              *)
Did(r) == store' = IF Granted(r) THEN Effect(r) ELSE store

Evolves ==
    /\ store' \in Seq(EnvelopeSet)
    /\ Len(store) <= Len(store')
    /\ \A i \in 1..Len(store) :
          /\ i \in 1..Len(store')
          /\ store'[i].to = store[i].to /\ store'[i].inReplyTo = store[i].inReplyTo
          /\ store[i].attempt <= store'[i].attempt

Untouched(i) ==
    /\ store'[i].state = store[i].state /\ store'[i].attempt = store[i].attempt
    /\ store'[i].holder = store[i].holder /\ store'[i].left = store[i].left

(* What a granted request does to its message, from e to f.                *)
Touches(r, e, f) ==
    \/ /\ r.op = "claim" /\ Claimable(e)
       /\ f.state = "leased" /\ f.holder = r.holder
       /\ f.attempt = e.attempt + 1 /\ f.left = Grant(r.asked)
    \/ /\ r.op # "claim" /\ f.holder = e.holder /\ f.attempt = e.attempt
       /\ \/ /\ r.op = "ack" /\ r.stage = "consumed" /\ Current(e, r.lease)
             /\ f.state = "consumed" /\ f.left = 0
          \/ /\ r.op = "ack" /\ r.stage # "consumed" /\ Current(e, r.lease)
             /\ f.state = "accepted" /\ f.left = e.left
          \/ /\ r.op = "nack" /\ Current(e, r.lease)
             /\ f.state = "open" \/ (f.state = "dead" /\ f.left = 0)
          \/ /\ r.op \in {"consumed", "cancelled"}
             /\ f.state = IF e.state \in {"consumed", "dead", "cancelled"} THEN e.state ELSE r.op
             /\ f.left = 0

(* A lease is granted for some time, never for more than the maximum.      *)
LEMMA GrantFacts == \A asked \in Nat : Grant(asked) \in Nat \ {0}
  BY MailboxAssumption DEF Grant

(* A message as it is sent.                                                *)
LEMMA EnvelopeFacts ==
    ASSUME NEW to \in {"agent", "asker"}, NEW k \in Nat
    PROVE  /\ Envelope(to, k) \in EnvelopeSet
           /\ Envelope(to, k).to = to /\ Envelope(to, k).inReplyTo = k
           /\ Envelope(to, k).state = "open"
  BY DEF Envelope, EnvelopeSet, States

(* Updating the fields of an envelope.                                     *)
MovedTo(e, s, n) == [e EXCEPT !.state = s, !.left = n]
LeasedTo(e, h, n) == [e EXCEPT !.state = "leased", !.holder = h, !.attempt = @ + 1, !.left = n]

(* What an acknowledgement, a nack or an end leaves of an envelope.        *)
LEMMA Moved ==
    ASSUME NEW e \in EnvelopeSet, NEW s \in States, NEW n \in Nat, NEW f, f = MovedTo(e, s, n)
    PROVE  /\ f \in EnvelopeSet /\ f.to = e.to /\ f.inReplyTo = e.inReplyTo
           /\ f.state = s /\ f.holder = e.holder /\ f.attempt = e.attempt /\ f.left = n
           /\ e.attempt <= f.attempt
<1>1. f \in EnvelopeSet
  BY DEF EnvelopeSet, MovedTo
<1> QED
  BY <1>1 DEF EnvelopeSet, MovedTo

(* What a claim leaves of an envelope.                                     *)
LEMMA Leased ==
    ASSUME NEW e \in EnvelopeSet, NEW h \in Hosts, NEW n \in Nat, NEW f, f = LeasedTo(e, h, n)
    PROVE  /\ f \in EnvelopeSet /\ f.to = e.to /\ f.inReplyTo = e.inReplyTo
           /\ f.state = "leased" /\ f.holder = h /\ f.attempt = e.attempt + 1 /\ f.left = n
           /\ e.attempt <= f.attempt
<1>0. e.attempt \in Nat /\ e.attempt + 1 \in Nat /\ e.attempt <= e.attempt + 1
  BY DEF EnvelopeSet
<1>1. f \in EnvelopeSet
  BY <1>0 DEF EnvelopeSet, States, LeasedTo
<1> QED
  BY <1>0, <1>1 DEF EnvelopeSet, LeasedTo

(* One message is replaced.                                                *)
LEMMA Replaced ==
    ASSUME TypeOK, NEW j \in 1..Len(store), NEW f \in EnvelopeSet, store' = [store EXCEPT ![j] = f],
           f.to = store[j].to, f.inReplyTo = store[j].inReplyTo, store[j].attempt <= f.attempt
    PROVE  /\ Evolves /\ Len(store') = Len(store) /\ store'[j] = f
           /\ \A i \in 1..Len(store) : i # j => Untouched(i)
<1>1. store \in Seq(EnvelopeSet)
  BY DEF TypeOK
<1>2. store' \in Seq(EnvelopeSet) /\ Len(store') = Len(store) /\ store'[j] = f
  BY <1>1
<1>3. \A i \in 1..Len(store) : i # j => store'[i] = store[i]
  BY <1>1
<1>4. \A i \in 1..Len(store) : store[i] \in EnvelopeSet
  BY <1>1
<1>5. \A i \in 1..Len(store) : store[i].attempt <= store'[i].attempt
  BY <1>2, <1>3, <1>4 DEF EnvelopeSet
<1> QED
  BY <1>2, <1>3, <1>5 DEF Evolves, Untouched

(* The whole effect of a handled request.                                  *)
LEMMA Daemon ==
    ASSUME TypeOK, NEW r, Valid(r), Did(r)
    PROVE  /\ Evolves
           /\ IF r.op = "send"
              THEN Len(store') = Len(store) + 1 /\ store'[Len(store) + 1] = r.env
              ELSE Len(store') = Len(store)
           /\ \A i \in 1..Len(store) :
                 \/ Untouched(i)
                 \/ r.op # "send" /\ r.id = i /\ Touches(r, store[i], store'[i])
<1>0. /\ store \in Seq(EnvelopeSet) /\ Len(store) \in Nat
      /\ \A i \in 1..Len(store) : store[i] \in EnvelopeSet
  BY DEF TypeOK
<1>00. \A i \in 1..Len(store) : store[i].attempt \in Nat
  BY <1>0 DEF EnvelopeSet
<1>1. CASE r.op = "send"
  <2>1. store' = Append(store, r.env) /\ r.env \in EnvelopeSet
    BY <1>1, EnvelopeFacts DEF Did, Granted, Effect, Valid
  <2>2. /\ store' \in Seq(EnvelopeSet) /\ Len(store') = Len(store) + 1 /\ store'[Len(store) + 1] = r.env
        /\ \A i \in 1..Len(store) : store'[i] = store[i]
    BY <1>0, <2>1
  <2> QED
    BY <1>0, <1>00, <1>1, <2>2 DEF Evolves, Untouched
<1>2. CASE r.op = "inbox"
  <2> DEFINE new(i) == [store[i] EXCEPT !.delivered = @ \/ i \in Undelivered(r.to)]
  <2>1. store' = [i \in DOMAIN store |-> new(i)]
    BY <1>2 DEF Did, Granted, Effect
  <2>2. \A i \in 1..Len(store) :
           /\ new(i) \in EnvelopeSet
           /\ new(i).to = store[i].to /\ new(i).inReplyTo = store[i].inReplyTo
           /\ new(i).state = store[i].state /\ new(i).attempt = store[i].attempt
           /\ new(i).holder = store[i].holder /\ new(i).left = store[i].left
    BY <1>0 DEF EnvelopeSet
  <2> HIDE DEF new
  <2>3. /\ store' \in Seq(EnvelopeSet) /\ Len(store') = Len(store)
        /\ \A i \in 1..Len(store) : store'[i] = new(i)
    BY <1>0, <2>1, <2>2
  <2> QED
    BY <1>0, <1>00, <1>2, <2>2, <2>3 DEF Evolves, Untouched
<1>3. CASE store' = store
  BY <1>0, <1>00, <1>1, <1>3 DEF Evolves, Untouched
<1>4. CASE r.op \in {"claim", "ack", "nack", "consumed", "cancelled"} /\ store' # store
  <2> DEFINE e == store[r.id]
  <2>0. r.id \in 1..Len(store) /\ Granted(r) /\ store' = Effect(r) /\ e \in EnvelopeSet
    BY <1>0, <1>4 DEF Valid, Did
  <2> SUFFICES \E f \in EnvelopeSet :
                 /\ store' = [store EXCEPT ![r.id] = f]
                 /\ f.to = e.to /\ f.inReplyTo = e.inReplyTo /\ e.attempt <= f.attempt
                 /\ Touches(r, e, f)
    <3>1. PICK f \in EnvelopeSet :
                 /\ store' = [store EXCEPT ![r.id] = f]
                 /\ f.to = e.to /\ f.inReplyTo = e.inReplyTo /\ e.attempt <= f.attempt
                 /\ Touches(r, e, f)
      OBVIOUS
    <3>2. /\ Evolves /\ Len(store') = Len(store) /\ store'[r.id] = f
          /\ \A i \in 1..Len(store) : i # r.id => Untouched(i)
      BY <2>0, <3>1, Replaced
    <3> QED
      BY <1>4, <3>1, <3>2
  <2> HIDE DEF e
  <2>1. CASE r.op = "claim"
    <3> DEFINE n == Grant(r.asked)
               f == LeasedTo(e, r.holder, n)
    <3>1. r.holder \in Hosts /\ n \in Nat
      BY <2>1, GrantFacts DEF Valid
    <3>2. store' = [store EXCEPT ![r.id] = f]
      BY <1>0, <2>0, <2>1 DEF Effect, LeasedTo, e
    <3> HIDE DEF n
    <3>3. /\ f \in EnvelopeSet /\ f.to = e.to /\ f.inReplyTo = e.inReplyTo /\ e.attempt <= f.attempt
          /\ f.state = "leased" /\ f.holder = r.holder /\ f.attempt = e.attempt + 1 /\ f.left = n
      BY <2>0, <3>1, Leased
    <3> HIDE DEF f
    <3> QED
      BY <2>0, <2>1, <3>2, <3>3 DEF Touches, Granted, n, e
  <2>2. CASE r.op = "ack"
    <3> DEFINE s == IF r.stage = "consumed" THEN r.stage ELSE "accepted"
               n == IF r.stage = "consumed" THEN 0 ELSE e.left
               f == MovedTo(e, s, n)
    <3>1. s \in States /\ n \in Nat
      BY <2>0 DEF EnvelopeSet, States
    <3>2. store' = [store EXCEPT ![r.id] = f]
      BY <1>0, <2>0, <2>2 DEF Effect, MovedTo, e
    <3> HIDE DEF s, n
    <3>3. /\ f \in EnvelopeSet /\ f.to = e.to /\ f.inReplyTo = e.inReplyTo /\ e.attempt <= f.attempt
          /\ f.holder = e.holder /\ f.attempt = e.attempt /\ f.state = s /\ f.left = n
      BY <2>0, <3>1, Moved
    <3> HIDE DEF f
    <3> QED
      BY <2>0, <2>2, <3>2, <3>3 DEF Touches, Granted, s, n, e
  <2>3. CASE r.op = "nack"
    <3> DEFINE s == IF r.retryable THEN "open" ELSE "dead"
               n == IF r.retryable THEN r.delay ELSE 0
               f == MovedTo(e, s, n)
    <3>1. s \in States /\ n \in Nat /\ (s = "open" \/ (s = "dead" /\ n = 0))
      BY <2>3 DEF Valid, States
    <3>2. store' = [store EXCEPT ![r.id] = f]
      BY <1>0, <2>0, <2>3 DEF Effect, MovedTo, e
    <3> HIDE DEF s, n
    <3>3. /\ f \in EnvelopeSet /\ f.to = e.to /\ f.inReplyTo = e.inReplyTo /\ e.attempt <= f.attempt
          /\ f.holder = e.holder /\ f.attempt = e.attempt /\ f.state = s /\ f.left = n
      BY <2>0, <3>1, Moved
    <3> HIDE DEF f
    <3> QED
      BY <2>0, <2>3, <3>1, <3>2, <3>3 DEF Touches, Granted, e
  <2>4. CASE r.op \in {"consumed", "cancelled"}
    <3> DEFINE s == IF Settled(r.id) THEN e.state ELSE r.op
               f == MovedTo(e, s, 0)
    <3>1. s \in States
      BY <2>0, <2>4 DEF EnvelopeSet, States
    <3>2. store' = [store EXCEPT ![r.id] = f]
      BY <1>0, <2>0, <2>4 DEF Effect, MovedTo, e
    <3>3. s = IF e.state \in {"consumed", "dead", "cancelled"} THEN e.state ELSE r.op
      BY DEF Settled, e
    <3> HIDE DEF s
    <3>4. /\ f \in EnvelopeSet /\ f.to = e.to /\ f.inReplyTo = e.inReplyTo /\ e.attempt <= f.attempt
          /\ f.holder = e.holder /\ f.attempt = e.attempt /\ f.state = s /\ f.left = 0
      BY <2>0, <3>1, Moved
    <3> HIDE DEF f
    <3> QED
      BY <2>0, <2>4, <3>2, <3>3, <3>4 DEF Touches
  <2> QED
    BY <1>4, <2>1, <2>2, <2>3, <2>4
<1>5. CASE r.op \in {"thread", "get"}
  <2>1. store' = store
    BY <1>5 DEF Did, Granted, Effect
  <2> QED
    BY <1>3, <1>5, <2>1
<1> QED
  BY <1>1, <1>2, <1>3, <1>4, <1>5 DEF Valid

-----------------------------------------------------------------------------
(* What an evolving store keeps.                                           *)

(* The types of a stored envelope's fields.                                *)
LEMMA EnvelopeTypes ==
    ASSUME NEW s \in Seq(EnvelopeSet)
    PROVE  /\ Len(s) \in Nat
           /\ \A i \in 1..Len(s) :
                 /\ s[i].to \in {"agent", "asker"} /\ s[i].inReplyTo \in Nat
                 /\ s[i].state \in States /\ s[i].attempt \in Nat
                 /\ s[i].holder \in Hosts \cup {None} /\ s[i].left \in Nat
<1>1. \A i \in 1..Len(s) : s[i] \in EnvelopeSet
  OBVIOUS
<1> QED
  BY <1>1 DEF EnvelopeSet

(* The types of a host's variables.                                        *)
LEMMA HostTypes ==
    ASSUME TypeOK, NEW h \in Hosts
    PROVE  /\ h \in Callers /\ pc[h] \in Labels /\ cur[h] \in Nat /\ lease[h] \in Nat
           /\ budget[h] \in Int /\ journal[h] \in Nat
  BY DEF TypeOK, Callers

Idle(c) ==
    /\ pc'[c] = pc[c] /\ cur'[c] = cur[c] /\ lease'[c] = lease[c]
    /\ budget'[c] = budget[c] /\ journal'[c] = journal[c]

(* An answer is never taken out of the store.                              *)
LEMMA AnsweredKept == ASSUME Evolves, NEW i, Answered(i) PROVE Answered(i)'
  BY DEF Evolves, Answered

(* A host that does nothing stays in order, whatever the daemon does.      *)
LEMMA HostKept ==
    ASSUME TypeOK, Evolves, NEW h \in Hosts, HostOK(h), Idle(h)
    PROVE  HostOK(h)'
<1>1. pc'[h] = "answered" => \E j \in 1..Len(store') : store'[j].inReplyTo = cur'[h] /\ store'[j].to = "asker"
  BY DEF HostOK, Idle, Answered, Evolves
<1>2. \A i \in 1..Len(store) : store[i].attempt \in Nat /\ store'[i].attempt \in Nat
  BY EnvelopeTypes DEF TypeOK, Evolves
<1>3. Len(store) \in Nat /\ Len(store') \in Nat /\ lease[h] \in Nat /\ journal[h] \in Nat
  BY EnvelopeTypes, HostTypes DEF TypeOK, Evolves
<1>4. /\ journal'[h] <= Len(store')
      /\ InCycle(h)' => cur'[h] \in 1..Len(store')
      /\ ~InCycle(h)' => budget'[h] = 0
      /\ pc'[h] = "found" => budget'[h] <= 0
      /\ Claimed(h)' => lease'[h] <= store'[cur'[h]].attempt
  BY <1>2, <1>3 DEF HostOK, Idle, InCycle, Claimed, Evolves
<1> QED
  BY <1>1, <1>4 DEF HostOK, Answered

(* A request keeps its validity, wherever the asker goes from there.       *)
LEMMA ValidKept ==
    ASSUME TypeOK, Evolves, NEW r, Valid(r),
           pc[Asker] \in {"found", "done"} =>
              pc'[Asker] \in {"found", "done"} /\ cur'[Asker] = cur[Asker]
    PROVE  Valid(r)'
<1>1. r.op = "ack" /\ r.stage = "consumed" => Answered(r.id)'
  BY AnsweredKept DEF Valid
<1>2. r.op = "nack" => r.lease <= store'[r.id].attempt
  <2>1. \A i \in 1..Len(store) : store[i].attempt \in Nat /\ store'[i].attempt \in Nat
    BY EnvelopeTypes DEF TypeOK, Evolves
  <2> QED
    BY <2>1 DEF Valid, Evolves
<1>3. r.op = "consumed" => ~IsRequest(r.id)'
  BY DEF Valid, IsRequest, Evolves
<1> QED
  BY <1>1, <1>2, <1>3 DEF Valid, Evolves, Envelope

(* The asker never goes back from its answer.                              *)
AskerStays ==
    pc[Asker] \in {"found", "done"} =>
       pc'[Asker] \in {"found", "done"} /\ cur'[Asker] = cur[Asker]

(* So does the asker.                                                      *)
LEMMA AskerKept ==
    ASSUME IndInv, Evolves, Asker \in Callers => Idle(Asker)
    PROVE  AskerOK' /\ AskerStays
<1>1. Idle(Asker)
  BY DEF Callers
<1>2. cur[Asker] \in 1..Len(store) => cur[Asker] \in 1..Len(store') /\ store'[cur[Asker]].to = store[cur[Asker]].to
  BY DEF Evolves
<1> QED
  BY <1>1, <1>2 DEF IndInv, AskerOK, AskerStays, Idle, IsRequest

(* A host's lease survives whatever the daemon does for others, and the    *)
(* host's own steps within its cycle.                                      *)
LEMMA CoveredKept ==
    ASSUME IndInv, NEW r, Valid(r), Did(r), NEW h \in Hosts, Foreign(r, h),
           pc'[h] \in {"accept", "work", "answered"} => pc[h] \in {"accept", "work", "answered"},
           cur'[h] = cur[h], lease'[h] = lease[h], budget'[h] = budget[h]
    PROVE  Covered(h)'
<1> SUFFICES ASSUME pc[h] \in {"accept", "work", "answered"}, budget[h] > 0
             PROVE  LET f == store'[cur[h]] IN
                    \/ f.state \in {"consumed", "cancelled"}
                    \/ /\ f.state \in {"leased", "accepted"}
                       /\ f.holder = h /\ f.attempt = lease[h] /\ f.left >= budget[h]
  BY DEF Covered
<1> DEFINE e == store[cur[h]]
           f == store'[cur[h]]
<1>1. cur[h] \in 1..Len(store) /\ budget[h] \in Int /\ e.left \in Nat /\ Claimed(h)
  <2>1. cur[h] \in 1..Len(store) /\ Claimed(h)
    BY DEF IndInv, HostOK, InCycle, Claimed
  <2> QED
    BY <2>1, EnvelopeTypes, HostTypes DEF IndInv, TypeOK
<1>2. \/ e.state \in {"consumed", "cancelled"}
      \/ /\ e.state \in {"leased", "accepted"}
         /\ e.holder = h /\ e.attempt = lease[h] /\ e.left >= budget[h]
  BY DEF IndInv, Covered
<1>3. Untouched(cur[h]) \/ (r.id = cur[h] /\ Touches(r, e, f))
  BY <1>1, Daemon DEF IndInv
<1>4. Foreign(r, h) /\ r.id = cur[h] => ~(r.op = "nack" /\ r.lease = lease[h])
  BY <1>1 DEF Foreign
<1> QED
  BY <1>1, <1>2, <1>3, <1>4 DEF Untouched, Touches, Claimable, Current

-----------------------------------------------------------------------------
(* One caller takes a step, with or without the daemon.                    *)

Outcome(r) ==
    \/ Did(r) /\ late' \subseteq late
    \/ store' = store /\ late' \subseteq late \cup {[request |-> r, nth |-> faults]}

CallersOK ==
    /\ pc \in [Callers -> Labels]
    /\ cur \in [Callers -> Nat]
    /\ lease \in [Callers -> Nat]
    /\ budget \in [Callers -> Int]
    /\ journal \in [Callers -> Nat]

(* A host in a cycle has the claim it had, or a new one.                   *)
ClaimKept(h) ==
    Claimed(h)' =>
       \/ Claimed(h) /\ cur'[h] = cur[h] /\ lease'[h] = lease[h]
       \/ cur'[h] \in 1..Len(store) /\ lease'[h] = store[cur'[h]].attempt + 1

(* A call that shows something is valid, and changes nothing that matters. *)
LEMMA Looking ==
    ASSUME store' = store
    PROVE  Valid([op |-> "thread"]) /\ Did([op |-> "thread"])
  BY DEF Valid, Did, Granted, Effect

(* A request changes no address and takes no attempt back, handled or not. *)
LEMMA OutcomeEvolves ==
    ASSUME TypeOK, NEW r, Valid(r), Outcome(r)
    PROVE  Evolves
<1>1. CASE Did(r)
  BY <1>1, Daemon
<1>2. CASE store' = store
  <2>1. Valid([op |-> "thread"]) /\ Did([op |-> "thread"])
    BY <1>2, Looking
  <2> QED
    BY <2>1, Daemon
<1> QED
  BY <1>1, <1>2 DEF Outcome

(* CoveredKept for a request that is handled now, later or never.          *)
LEMMA CoveredOnward ==
    ASSUME IndInv, NEW r, Valid(r), Outcome(r), NEW h \in Hosts, Foreign(r, h),
           pc'[h] \in {"accept", "work", "answered"} => pc[h] \in {"accept", "work", "answered"},
           cur'[h] = cur[h], lease'[h] = lease[h], budget'[h] = budget[h]
    PROVE  Covered(h)'
<1>1. CASE Did(r)
  BY <1>1, CoveredKept
<1>2. CASE store' = store
  <2>1. Valid([op |-> "thread"]) /\ Did([op |-> "thread"])
    BY <1>2, Looking
  <2>2. Foreign([op |-> "thread"], h)
    BY DEF Foreign
  <2> QED
    BY <2>1, <2>2, CoveredKept
<1> QED
  BY <1>1, <1>2 DEF Outcome

(* What is sent is a request, or an answer to something.                   *)
LEMMA StoreKept ==
    ASSUME TypeOK, StoreOK, NEW r, Valid(r), Outcome(r)
    PROVE  StoreOK'
<1>1. CASE Did(r)
  <2>1. /\ Evolves
        /\ IF r.op = "send"
           THEN Len(store') = Len(store) + 1 /\ store'[Len(store) + 1] = r.env
           ELSE Len(store') = Len(store)
    BY <1>1, Daemon
  <2>2. Len(store) \in Nat
    BY EnvelopeTypes DEF TypeOK
  <2>3. r.op = "send" => (r.env.to = "agent" <=> r.env.inReplyTo = 0)
    BY EnvelopeFacts DEF Valid
  <2> QED
    BY <2>1, <2>2, <2>3 DEF Evolves, StoreOK
<1>2. CASE store' = store
  BY <1>2 DEF StoreOK
<1> QED
  BY <1>1, <1>2 DEF Outcome

(* A step of caller m with request r keeps the invariant, if m itself goes *)
(* on in order and nobody else works under the lease that r hands back.    *)
LEMMA StepInv ==
    ASSUME IndInv, NEW r, Valid(r), Outcome(r), NEW m,
           \A c \in Callers : c # m => Idle(c),
           CallersOK', AskerOK', AskerStays,
           \A h \in Hosts : h # m => Foreign(r, h),
           m \in Hosts => HostOK(m)' /\ Covered(m)' /\ ClaimKept(m) /\ (r.op = "nack" => ~Claimed(m)')
    PROVE  IndInv'
<1>0. Hosts \subseteq Callers
  BY DEF Callers
<1>1. Evolves
  BY OutcomeEvolves DEF IndInv
<1>2. TypeOK'
  BY <1>1 DEF TypeOK, CallersOK, Evolves
<1>3. StoreOK'
  BY StoreKept DEF IndInv
<1>4. ASSUME NEW h \in Hosts PROVE HostOK(h)' /\ Covered(h)'
  <2>1. CASE h = m
    BY <2>1
  <2>2. CASE h # m
    <3>1. Idle(h) /\ HostOK(h) /\ Foreign(r, h)
      BY <1>0, <2>2 DEF IndInv
    <3>2. HostOK(h)'
      BY <1>1, <3>1, HostKept DEF IndInv
    <3>3. Covered(h)'
      BY <3>1, CoveredOnward DEF Idle
    <3> QED
      BY <3>2, <3>3
  <2> QED
    BY <2>1, <2>2
<1>5. ASSUME NEW h \in Hosts PROVE ClaimKept(h)
  <2>1. CASE h # m
    BY <1>0, <2>1 DEF Idle, ClaimKept, Claimed
  <2> QED
    BY <2>1
<1>6. \A i \in 1..Len(store) : store[i].attempt \in Nat
  BY EnvelopeTypes DEF IndInv, TypeOK
<1>7. LeasesDiffer'
  <2> SUFFICES ASSUME NEW g \in Hosts, NEW h \in Hosts, g # h, Claimed(g)', Claimed(h)', cur'[g] = cur'[h],
                      g # m
               PROVE  lease'[g] # lease'[h]
    BY DEF LeasesDiffer
  <2>1. Claimed(g) /\ cur'[g] = cur[g] /\ lease'[g] = lease[g]
    BY <1>0 DEF Idle, Claimed
  <2>2. lease[g] \in Nat /\ cur[g] \in 1..Len(store) /\ lease[g] <= store[cur[g]].attempt
    BY <2>1, HostTypes DEF IndInv, HostOK, InCycle, Claimed
  <2>3. CASE Claimed(h) /\ cur'[h] = cur[h] /\ lease'[h] = lease[h]
    BY <2>1, <2>3 DEF IndInv, LeasesDiffer
  <2>4. CASE lease'[h] = store[cur'[h]].attempt + 1
    <3>1. lease'[h] = store[cur[g]].attempt + 1 /\ lease'[g] = lease[g]
      BY <2>1, <2>4
    <3>2. store[cur[g]].attempt \in Nat
      BY <1>6, <2>2
    <3> QED
      BY <2>2, <3>1, <3>2
  <2> QED
    BY <1>5, <2>3, <2>4 DEF ClaimKept
<1>8. LateOK'
  <2> SUFFICES ASSUME NEW l \in late' PROVE Valid(l.request)' /\ \A h \in Hosts : Foreign(l.request, h)'
    BY DEF LateOK
  <2> DEFINE q == l.request
  <2>1. CASE l \in late
    <3>1. Valid(q) /\ \A h \in Hosts : Foreign(q, h)
      BY <2>1 DEF IndInv, LateOK
    <3> HIDE DEF q
    <3>2. Valid(q)'
      BY <1>1, <3>1, ValidKept DEF IndInv, AskerStays, q
    <3>3. ASSUME NEW h \in Hosts, q.op = "nack", Claimed(h)', cur'[h] = q.id, lease'[h] = q.lease PROVE FALSE
      <4>1. q.lease <= store[q.id].attempt /\ q.id \in 1..Len(store) /\ q.lease \in Nat
        BY <3>1, <3>3 DEF Valid
      <4>2. CASE Claimed(h) /\ cur'[h] = cur[h] /\ lease'[h] = lease[h]
        BY <3>1, <3>3, <4>2 DEF Foreign
      <4>3. CASE lease'[h] = store[cur'[h]].attempt + 1
        BY <1>6, <3>3, <4>1, <4>3
      <4> QED
        BY <1>5, <3>3, <4>2, <4>3 DEF ClaimKept
    <3> QED
      BY <3>2, <3>3 DEF Foreign, q
  <2>2. CASE l = [request |-> r, nth |-> faults]
    <3>1. q = r
      BY <2>2
    <3> HIDE DEF q
    <3>2. Valid(r)'
      BY <1>1, ValidKept DEF IndInv, AskerStays
    <3>3. \A h \in Hosts : Foreign(r, h)'
      BY <1>0 DEF Foreign, Idle, Claimed
    <3> QED
      BY <3>1, <3>2, <3>3 DEF q
  <2> QED
    BY <2>1, <2>2 DEF Outcome
<1> QED
  BY <1>2, <1>3, <1>4, <1>7, <1>8 DEF IndInv

-----------------------------------------------------------------------------
(* The mailbox implements Custody.                                         *)

Refines == [CustodyOf!Next]_CustodyOf!vars

(* Custody's steps, told by what becomes of each message.                  *)
LEMMA Submits ==
    ASSUME NEW k \in Ids, State(k) = "absent", State(k)' = "free",
           \A i \in Ids : HeldBy(i)' = HeldBy(i) /\ (i # k => State(i)' = State(i)),
           Handled \subseteq Handled'
    PROVE  Refines
<1>1. Handled' \subseteq Ids
  BY DEF Handled
<1>2. CustodyOf!Submit(k)
  BY <1>1 DEF CustodyOf!Submit
<1> QED
  BY <1>2 DEF CustodyOf!Next, Refines

(* A free message is taken.                                                *)
LEMMA Takes ==
    ASSUME NEW k \in Ids, NEW h \in Hosts, State(k) = "free", HeldBy(k) = None, HeldBy(k)' = h,
           \A i \in Ids : State(i)' = State(i) /\ (i # k => HeldBy(i)' = HeldBy(i)),
           Handled' = Handled
    PROVE  Refines
<1>1. CustodyOf!Take(k, h)
  BY DEF CustodyOf!Take
<1> QED
  BY <1>1 DEF CustodyOf!Next, Refines

(* Messages are let go of, none is taken.                                  *)
LEMMA Releases ==
    ASSUME \A i \in Ids : State(i)' = State(i) /\ HeldBy(i)' \in {HeldBy(i), None},
           \A i \in Ids : HeldBy(i)' \in Hosts \cup {None},
           Handled' = Handled
    PROVE  Refines
<1>1. CustodyOf!Release
  BY DEF CustodyOf!Release
<1> QED
  BY <1>1 DEF CustodyOf!Next, Refines

(* A message is handled.                                                   *)
LEMMA Handles ==
    ASSUME NEW k \in Ids, Handled' = Handled \cup {k},
           \A i \in Ids : State(i)' = State(i) /\ HeldBy(i)' = HeldBy(i)
    PROVE  Refines
<1>1. CustodyOf!Handle(k)
  BY DEF CustodyOf!Handle
<1> QED
  BY <1>1 DEF CustodyOf!Next, Refines

(* A free message is settled, having been handled, or dropped.             *)
LEMMA Ends ==
    ASSUME NEW k \in Ids, State(k) = "free", HeldBy(k)' = None,
           (State(k)' = "settled" /\ k \in Handled) \/ State(k)' = "dropped",
           \A i \in Ids : i # k => State(i)' = State(i) /\ HeldBy(i)' = HeldBy(i),
           Handled' = Handled
    PROVE  Refines
<1>1. CustodyOf!Settle(k) \/ CustodyOf!Drop(k)
  BY DEF CustodyOf!Settle, CustodyOf!Drop
<1> QED
  BY <1>1 DEF CustodyOf!Next, Refines

(* A dropped message is free again.                                        *)
LEMMA Redrives ==
    ASSUME NEW k \in Ids, State(k) = "dropped", State(k)' = "free",
           \A i \in Ids : HeldBy(i)' = HeldBy(i) /\ (i # k => State(i)' = State(i)),
           Handled' = Handled
    PROVE  Refines
<1>1. CustodyOf!Redrive(k)
  BY DEF CustodyOf!Redrive
<1> QED
  BY <1>1 DEF CustodyOf!Next, Refines

(* Nothing happens to any message.                                         *)
LEMMA Stutters ==
    ASSUME \A i \in Ids : State(i)' = State(i) /\ HeldBy(i)' = HeldBy(i), Handled' = Handled
    PROVE  Refines
  BY DEF CustodyOf!vars, Refines

(* How Custody sees an envelope, in the state before and after a step.     *)
StateOf(e) ==
    CASE e.state = "consumed" -> "settled"
      [] e.state \in {"dead", "cancelled"} -> "dropped"
      [] OTHER -> "free"
HolderOf(e) == IF e.state \in {"leased", "accepted"} /\ e.left > 0 THEN e.holder ELSE None

(* State and HeldBy, by the envelope.                                      *)
LEMMA Views ==
    ASSUME store \in Seq(EnvelopeSet), store' \in Seq(EnvelopeSet), NEW i \in Ids
    PROVE  /\ i \in Nat \ {0}
           /\ i \in 1..Len(store) => State(i) = StateOf(store[i]) /\ HeldBy(i) = HolderOf(store[i])
           /\ i \notin 1..Len(store) => State(i) = "absent" /\ HeldBy(i) = None
           /\ i \in 1..Len(store') => State(i)' = StateOf(store'[i]) /\ HeldBy(i)' = HolderOf(store'[i])
           /\ i \notin 1..Len(store') => State(i)' = "absent" /\ HeldBy(i)' = None
<1>1. i \in Nat \ {0} /\ Len(store) \in Nat /\ Len(store') \in Nat
  BY MailboxAssumption
<1>2. /\ i \in 1..Len(store) <=> ~(i > Len(store))
      /\ i \in 1..Len(store') <=> ~(i > Len(store'))
      /\ i \in 1..Len(store) <=> i <= Len(store)
      /\ i \in 1..Len(store') <=> i <= Len(store')
  BY <1>1
<1> QED
  BY <1>1, <1>2 DEF State, HeldBy, StateOf, HolderOf

(* A message that is not touched looks as before.                          *)
LEMMA SameView ==
    ASSUME TypeOK, Evolves, NEW i \in Ids,
           i \in 1..Len(store) => Untouched(i),
           i \in 1..Len(store') => i \in 1..Len(store)
    PROVE  State(i)' = State(i) /\ HeldBy(i)' = HeldBy(i)
<1>1. store \in Seq(EnvelopeSet) /\ store' \in Seq(EnvelopeSet)
  BY DEF TypeOK, Evolves
<1>2. CASE i \in 1..Len(store)
  BY <1>1, <1>2, Views DEF Evolves, Untouched, StateOf, HolderOf
<1>3. CASE i \notin 1..Len(store)
  BY <1>1, <1>3, Views
<1> QED
  BY <1>2, <1>3

(* What is handled changes only when something is stored or the asker      *)
(* finds something.                                                        *)
LEMMA SameHandled ==
    ASSUME TypeOK, Evolves, Len(store') = Len(store), cur'[Asker] = cur[Asker]
    PROVE  Handled' = Handled
<1>1. \A i \in 1..Len(store) :
         store'[i].to = store[i].to /\ store'[i].inReplyTo = store[i].inReplyTo /\ i \in 1..Len(store')
  BY DEF Evolves
<1> QED
  BY <1>1 DEF Handled, IsRequest

(* The daemon handles a request that sends nothing.                        *)
LEMMA RequestRefines ==
    ASSUME IndInv, NEW r, Valid(r), Did(r), r.op # "send", cur'[Asker] = cur[Asker]
    PROVE  Refines
<1>1. /\ Evolves /\ Len(store') = Len(store)
      /\ \A i \in 1..Len(store) : Untouched(i) \/ (r.id = i /\ Touches(r, store[i], store'[i]))
  BY Daemon DEF IndInv
<1>2. store \in Seq(EnvelopeSet) /\ store' \in Seq(EnvelopeSet) /\ TypeOK
  BY <1>1 DEF IndInv, TypeOK, Evolves
<1>3. Handled' = Handled
  BY <1>1, <1>2, SameHandled
<1>4. CASE \A i \in 1..Len(store) : i \in Ids => Untouched(i)
  <2>1. \A i \in Ids : State(i)' = State(i) /\ HeldBy(i)' = HeldBy(i)
    BY <1>1, <1>2, <1>4, SameView
  <2> QED
    BY <1>3, <2>1, Stutters
<1>5. CASE r.id \in Ids /\ r.id \in 1..Len(store) /\ Touches(r, store[r.id], store'[r.id])
  <2> DEFINE k == r.id
             e == store[k]
             f == store'[k]
  <2>1. k \in Ids /\ k \in 1..Len(store) /\ k \in 1..Len(store') /\ Touches(r, e, f)
    BY <1>1, <1>5
  <2>2. \A i \in Ids : i # k => State(i)' = State(i) /\ HeldBy(i)' = HeldBy(i)
    BY <1>1, <1>2, SameView
  <2>3. /\ State(k) = StateOf(e) /\ HeldBy(k) = HolderOf(e)
        /\ State(k)' = StateOf(f) /\ HeldBy(k)' = HolderOf(f)
    BY <1>2, <2>1, Views
  <2>4. e.left \in Nat /\ f.holder \in Hosts \cup {None} /\ e.state \in States /\ f.state \in States
    BY <1>2, <2>1, EnvelopeTypes
  <2>5. Answered(k) => k \in Handled
    BY <2>1 DEF Answered, Handled
  <2>6. r.op = "consumed" => k \in Handled
    BY <2>1 DEF Valid, Handled
  <2>7. CASE r.op = "claim"
    <3>1. Grant(r.asked) \in Nat \ {0} /\ r.holder \in Hosts
      BY <2>7, GrantFacts DEF Valid
    <3>2. /\ StateOf(e) = "free" /\ HolderOf(e) = None
          /\ StateOf(f) = "free" /\ HolderOf(f) = r.holder
      BY <2>1, <2>4, <2>7, <3>1 DEF Touches, Claimable, StateOf, HolderOf
    <3> QED
      BY <1>3, <2>1, <2>2, <2>3, <3>1, <3>2, Takes
  <2>8. CASE r.op = "ack" /\ r.stage = "consumed"
    <3>1. Answered(k)
      BY <2>8 DEF Valid
    <3>2. StateOf(e) = "free" /\ StateOf(f) = "settled" /\ HolderOf(f) = None
      BY <2>1, <2>8 DEF Touches, Current, StateOf, HolderOf
    <3> QED
      BY <1>3, <2>1, <2>2, <2>3, <2>5, <3>1, <3>2, Ends
  <2>9. CASE r.op = "ack" /\ r.stage # "consumed"
    <3>1. StateOf(e) = StateOf(f) /\ HolderOf(f) = HolderOf(e)
      BY <2>1, <2>9 DEF Touches, Current, StateOf, HolderOf
    <3> QED
      BY <1>3, <2>2, <2>3, <3>1, Stutters
  <2>10. CASE r.op = "nack"
    <3>1. /\ StateOf(e) = "free" /\ HolderOf(f) = None
          /\ StateOf(f) \in {"free", "dropped"}
      BY <2>1, <2>10 DEF Touches, Current, StateOf, HolderOf
    <3>2. CASE StateOf(f) = "dropped"
      BY <1>3, <2>1, <2>2, <2>3, <3>1, <3>2, Ends
    <3>3. CASE StateOf(f) = "free"
      <4>1. \A i \in Ids : HeldBy(i)' \in Hosts \cup {None}
        BY <1>2, Views, EnvelopeTypes DEF HolderOf
      <4> QED
        BY <1>3, <2>2, <2>3, <3>1, <3>3, <4>1, Releases
    <3> QED
      BY <3>1, <3>2, <3>3
  <2>11. CASE r.op \in {"consumed", "cancelled"}
    <3>1. CASE e.state \in {"consumed", "dead", "cancelled"}
      <4>1. StateOf(f) = StateOf(e) /\ HolderOf(f) = HolderOf(e)
        BY <2>1, <2>11, <3>1 DEF Touches, StateOf, HolderOf
      <4> QED
        BY <1>3, <2>2, <2>3, <4>1, Stutters
    <3>2. CASE e.state \notin {"consumed", "dead", "cancelled"}
      <4>1. /\ StateOf(e) = "free" /\ HolderOf(f) = None
            /\ StateOf(f) = IF r.op = "consumed" THEN "settled" ELSE "dropped"
        BY <2>1, <2>11, <3>2 DEF Touches, StateOf, HolderOf
      <4> QED
        BY <1>3, <2>1, <2>2, <2>3, <2>6, <4>1, Ends
    <3> QED
      BY <3>1, <3>2
  <2> QED
    BY <2>1, <2>7, <2>8, <2>9, <2>10, <2>11 DEF Touches
<1> QED
  BY <1>1, <1>4, <1>5

(* A message is stored: submitted, if its custody is followed, and what it *)
(* answers is handled.                                                     *)
LEMMA SendRefines ==
    ASSUME IndInv, NEW r, Valid(r), Did(r), r.op = "send",
           \/ cur'[Asker] = cur[Asker]
           \/ cur[Asker] = 0 /\ cur'[Asker] = Len(store) + 1 /\ r.env = Envelope("agent", 0)
    PROVE  Refines
<1> DEFINE n == Len(store) + 1
<1>1. /\ Evolves /\ Len(store') = n /\ store'[n] = r.env
      /\ \A i \in 1..Len(store) : Untouched(i)
  BY Daemon DEF IndInv
<1>2. /\ store \in Seq(EnvelopeSet) /\ store' \in Seq(EnvelopeSet) /\ TypeOK
      /\ Len(store) \in Nat /\ n \in Nat
  BY <1>1, EnvelopeTypes DEF IndInv, TypeOK, Evolves
<1>3. /\ n \in 1..Len(store') /\ n \notin 1..Len(store)
      /\ \A i \in 1..Len(store') : i = n \/ i \in 1..Len(store)
  BY <1>1, <1>2
<1>4. \A i \in Ids : i # n => State(i)' = State(i) /\ HeldBy(i)' = HeldBy(i)
  BY <1>1, <1>2, <1>3, SameView
<1>5. \A i \in 1..Len(store) :
         store'[i].to = store[i].to /\ store'[i].inReplyTo = store[i].inReplyTo /\ i \in 1..Len(store')
  BY <1>1 DEF Evolves
<1> HIDE DEF n
<1>6. Handled \subseteq Handled'
  <2> SUFFICES ASSUME NEW i \in Handled PROVE i \in Handled'
    OBVIOUS
  <2>1. i \in Ids /\ i \in 1..Len(store) /\ i \in 1..Len(store') /\ i # 0
    BY <1>2, <1>5 DEF Handled
  <2>2. \/ \E j \in 1..Len(store) : store[j].inReplyTo = i /\ store[j].to = "asker"
        \/ i = cur[Asker] /\ store[i].to # "agent"
    BY DEF Handled, IsRequest
  <2>3. \/ \E j \in 1..Len(store') : store'[j].inReplyTo = i /\ store'[j].to = "asker"
        \/ i = cur'[Asker] /\ store'[i].to # "agent"
    BY <1>5, <2>1, <2>2
  <2> QED
    BY <2>1, <2>3 DEF Handled, IsRequest
<1>7. CASE n \in Ids
  <2>0. PICK k \in Ids : k = n
    BY <1>7
  <2>1. r.env.state = "open" /\ store'[k] = r.env /\ k \in 1..Len(store') /\ k \notin 1..Len(store)
    BY <1>1, <1>3, <2>0, EnvelopeFacts DEF Valid
  <2>2. State(k) = "absent" /\ HeldBy(k) = None
    BY <1>2, <2>1, Views
  <2>3. State(k)' = "free" /\ HeldBy(k)' = None
    BY <1>2, <2>1, Views DEF StateOf, HolderOf
  <2>4. \A i \in Ids : HeldBy(i)' = HeldBy(i) /\ (i # k => State(i)' = State(i))
    BY <1>4, <2>0, <2>2, <2>3
  <2> QED
    BY <1>6, <2>2, <2>3, <2>4, Submits
<1>8. CASE n \notin Ids
  <2>1. \A i \in Ids : State(i)' = State(i) /\ HeldBy(i)' = HeldBy(i)
    BY <1>4, <1>8
  <2>2. ASSUME NEW i \in Handled', i \notin Handled
        PROVE  r.env.inReplyTo = i /\ r.env.to = "asker"
    <3>1. i \in Ids /\ i \in 1..Len(store) /\ i # n
      BY <1>3, <1>8, <2>2 DEF Handled
    <3>2. CASE \E j \in 1..Len(store') : store'[j].inReplyTo = i /\ store'[j].to = "asker"
      BY <1>1, <1>3, <1>5, <2>2, <3>1, <3>2 DEF Handled
    <3>3. CASE i = cur'[Asker] /\ ~IsRequest(i)'
      BY <1>3, <1>5, <2>2, <3>1, <3>3 DEF Handled, IsRequest, n
    <3> QED
      BY <2>2, <3>2, <3>3 DEF Handled
  <2>3. CASE Handled' = Handled
    BY <2>1, <2>3, Stutters
  <2>4. CASE Handled' # Handled
    <3> DEFINE k == r.env.inReplyTo
    <3>1. Handled' = Handled \cup {k} /\ k \in Ids
      BY <1>6, <2>2, <2>4 DEF Handled
    <3> QED
      BY <2>1, <3>1, Handles
  <2> QED
    BY <2>3, <2>4
<1> QED
  BY <1>7, <1>8

(* The asker has found its answer.                                         *)
LEMMA FindRefines ==
    ASSUME IndInv, NEW r, Valid(r), Did(r), r.op \in {"inbox", "thread"},
           IsRequest(cur[Asker]), NEW i \in 1..Len(store), ~IsRequest(i), cur'[Asker] = i
    PROVE  Refines
<1>1. Evolves /\ Len(store') = Len(store) /\ \A j \in 1..Len(store) : Untouched(j)
  BY Daemon DEF IndInv, Touches
<1>2. \A j \in Ids : State(j)' = State(j) /\ HeldBy(j)' = HeldBy(j)
  BY <1>1, SameView DEF IndInv
<1>3. \A j \in 1..Len(store) :
         store'[j].to = store[j].to /\ store'[j].inReplyTo = store[j].inReplyTo /\ j \in 1..Len(store')
  BY <1>1 DEF Evolves
<1>4. Handled' = Handled \cup ({i} \cap Ids)
  BY <1>1, <1>3 DEF Handled, IsRequest
<1>5. CASE i \in Ids
  <2>1. Handled' = Handled \cup {i}
    BY <1>4, <1>5
  <2> QED
    BY <1>2, <1>5, <2>1, Handles
<1>6. CASE i \notin Ids
  <2>1. Handled' = Handled
    BY <1>4, <1>6
  <2> QED
    BY <1>2, <2>1, Stutters
<1> QED
  BY <1>5, <1>6

(* Steps in which the asker's message stays the same.                      *)
LEMMA OutcomeRefines ==
    ASSUME IndInv, NEW r, Valid(r), Outcome(r), cur'[Asker] = cur[Asker]
    PROVE  Refines
<1>1. CASE Did(r)
  BY <1>1, RequestRefines, SendRefines
<1>2. CASE store' = store
  <2> DEFINE q == [op |-> "thread"]
  <2>1. Valid(q) /\ Did(q) /\ q.op # "send"
    BY <1>2, Looking
  <2> QED
    BY <2>1, RequestRefines
<1> QED
  BY <1>1, <1>2 DEF Outcome

-----------------------------------------------------------------------------
(* The steps callers are made of.                                          *)

(* A host gives up its round, whatever it was doing.                       *)
LEMMA HostRestarts ==
    ASSUME IndInv, NEW r, Valid(r), Outcome(r), NEW h \in Hosts, Round(h, "inbox"),
           \/ UNCHANGED journal
           \/ journal' = [journal EXCEPT ![h] = 0],
           \A g \in Hosts : g # h => Foreign(r, g)
    PROVE  IndInv' /\ Refines
<1>1. h \in Callers /\ h # Asker /\ CallersOK
  BY MailboxAssumption DEF Callers, IndInv, TypeOK, CallersOK
<1>2. /\ pc' = [pc EXCEPT ![h] = "inbox"] /\ cur' = [cur EXCEPT ![h] = 0]
      /\ lease' = [lease EXCEPT ![h] = 0] /\ budget' = [budget EXCEPT ![h] = 0]
  BY <1>1 DEF Round
<1>3. \A c \in Callers : c # h => Idle(c)
  BY <1>1, <1>2 DEF Idle, CallersOK
<1>4. CallersOK'
  BY <1>1, <1>2 DEF CallersOK, Labels
<1>5. pc'[h] = "inbox" /\ budget'[h] = 0 /\ (journal'[h] = journal[h] \/ journal'[h] = 0)
  BY <1>1, <1>2 DEF CallersOK
<1>6. Evolves
  BY OutcomeEvolves DEF IndInv
<1>7. HostOK(h)' /\ Covered(h)' /\ ClaimKept(h) /\ ~Claimed(h)'
  <2>1. Len(store) \in Nat /\ Len(store') \in Nat /\ journal[h] \in Nat /\ journal[h] <= Len(store)
    BY <1>6, EnvelopeTypes, HostTypes DEF IndInv, TypeOK, Evolves, HostOK
  <2>2. journal'[h] <= Len(store')
    BY <1>5, <1>6, <2>1 DEF Evolves
  <2> QED
    BY <1>5, <2>2 DEF HostOK, Covered, ClaimKept, Claimed, InCycle
<1>8. AskerOK' /\ AskerStays
  BY <1>1, <1>3, <1>6, AskerKept
<1>9. Refines
  BY <1>1, <1>3, OutcomeRefines DEF Idle, Callers
<1> QED
  BY <1>3, <1>4, <1>7, <1>8, <1>9, StepInv

(* A host goes on, with nothing but its place changed.                     *)
LEMMA HostGoes ==
    ASSUME IndInv, NEW r, Valid(r), Outcome(r), r.op # "nack",
           NEW h \in Hosts, NEW label, Move(h, label),
           \/ pc[h] \in {"inbox", "thread"} /\ label \in {"inbox", "thread"}
           \/ pc[h] = "accept" /\ label = "work"
           \/ pc[h] = "work" /\ label = "failed"
           \/ /\ pc[h] = "work" /\ label = "answered"
              /\ \E j \in 1..Len(store') : store'[j].inReplyTo = cur[h] /\ store'[j].to = "asker"
    PROVE  IndInv' /\ Refines
<1>1. h \in Callers /\ h # Asker /\ CallersOK
  BY MailboxAssumption DEF Callers, IndInv, TypeOK, CallersOK
<1>2. /\ pc' = [pc EXCEPT ![h] = label] /\ cur' = cur /\ lease' = lease
      /\ budget' = budget /\ journal' = journal
  BY DEF Move
<1>3. \A c \in Callers : c # h => Idle(c)
  BY <1>1, <1>2 DEF Idle, CallersOK
<1>4. CallersOK'
  BY <1>1, <1>2 DEF CallersOK, Labels
<1>5. pc'[h] = label /\ \A g \in Hosts : Foreign(r, g)
  BY <1>1, <1>2 DEF CallersOK, Foreign
<1>6. Evolves
  BY OutcomeEvolves DEF IndInv
<1>7. HostOK(h)'
  <2>1. /\ Len(store) \in Nat /\ Len(store') \in Nat /\ journal[h] \in Nat /\ lease[h] \in Nat
        /\ \A i \in 1..Len(store) : store[i].attempt \in Nat /\ store'[i].attempt \in Nat
    BY <1>6, EnvelopeTypes, HostTypes DEF IndInv, TypeOK, Evolves
  <2>2. HostOK(h)
    BY DEF IndInv
  <2>3. journal'[h] <= Len(store')
    BY <1>2, <1>6, <2>1, <2>2 DEF Evolves, HostOK
  <2>4. InCycle(h)' => InCycle(h) /\ cur'[h] \in 1..Len(store')
    BY <1>2, <1>5, <1>6, <2>2 DEF Evolves, HostOK, InCycle
  <2>5. (~InCycle(h)' => budget'[h] = 0) /\ label # "found"
    BY <1>2, <1>5, <2>2 DEF HostOK, InCycle
  <2>6. Claimed(h)' => lease'[h] <= store'[cur'[h]].attempt
    <3>1. Claimed(h)' => Claimed(h) /\ cur[h] \in 1..Len(store) /\ lease[h] <= store[cur[h]].attempt
      BY <1>5, <2>2 DEF HostOK, Claimed, InCycle
    <3> QED
      BY <1>2, <1>6, <2>1, <3>1 DEF Evolves
  <2>7. pc'[h] = "answered" =>
           \E j \in 1..Len(store') : store'[j].inReplyTo = cur'[h] /\ store'[j].to = "asker"
    BY <1>2, <1>5
  <2> QED
    BY <1>5, <2>3, <2>4, <2>5, <2>6, <2>7 DEF HostOK, Answered
<1>8. Covered(h)'
  BY <1>2, <1>5, CoveredOnward
<1>9. ClaimKept(h)
  BY <1>2, <1>5 DEF ClaimKept, Claimed
<1>10. AskerOK' /\ AskerStays
  BY <1>1, <1>3, <1>6, AskerKept
<1>11. Refines
  BY <1>2, OutcomeRefines
<1> QED
  BY <1>3, <1>4, <1>5, <1>7, <1>8, <1>9, <1>10, <1>11, StepInv

(* A host outside a cycle takes up a message.                              *)
LEMMA HostFinds ==
    ASSUME IndInv, NEW r, Valid(r), Outcome(r), r.op # "nack",
           NEW h \in Hosts, pc[h] \in {"inbox", "thread"}, NEW i \in 1..Len(store),
           cur' = [cur EXCEPT ![h] = i], pc' = [pc EXCEPT ![h] = "found"],
           UNCHANGED <<lease, budget, journal>>
    PROVE  IndInv' /\ Refines
<1>1. h \in Callers /\ h # Asker /\ CallersOK
  BY MailboxAssumption DEF Callers, IndInv, TypeOK, CallersOK
<1>3. \A c \in Callers : c # h => Idle(c)
  BY <1>1 DEF Idle, CallersOK
<1>4. CallersOK'
  <2>1. i \in Nat
    BY EnvelopeTypes DEF IndInv, TypeOK
  <2> QED
    BY <1>1, <2>1 DEF CallersOK, Labels
<1>5. pc'[h] = "found" /\ cur'[h] = i /\ \A g \in Hosts : Foreign(r, g)
  BY <1>1 DEF CallersOK, Foreign
<1>6. Evolves
  BY OutcomeEvolves DEF IndInv
<1>7. HostOK(h)' /\ Covered(h)' /\ ClaimKept(h)
  <2>1. Len(store) \in Nat /\ Len(store') \in Nat /\ journal[h] \in Nat
    BY <1>6, EnvelopeTypes, HostTypes DEF IndInv, TypeOK, Evolves
  <2>2. HostOK(h)
    BY DEF IndInv
  <2>3. journal'[h] <= Len(store') /\ budget'[h] = 0 /\ cur'[h] \in 1..Len(store')
    BY <1>5, <1>6, <2>1, <2>2 DEF Evolves, HostOK, InCycle
  <2> QED
    BY <1>5, <2>3 DEF HostOK, Covered, ClaimKept, Claimed, InCycle
<1>8. AskerOK' /\ AskerStays
  BY <1>1, <1>3, <1>6, AskerKept
<1>9. Refines
  BY <1>1, <1>3, OutcomeRefines DEF Idle, Callers
<1> QED
  BY <1>3, <1>4, <1>5, <1>7, <1>8, <1>9, StepInv

(* The asker goes on.                                                      *)
LEMMA AskerMoves ==
    ASSUME IndInv, NEW r, Valid(r), Outcome(r), r.op # "nack",
           NEW label \in Labels, NEW i \in Nat,
           pc' = [pc EXCEPT ![Asker] = label], cur' = [cur EXCEPT ![Asker] = i],
           UNCHANGED <<lease, budget, journal>>,
           label = "new" => i = 0,
           label # "new" => i \in 1..Len(store'),
           label \in {"inbox", "thread"} => store'[i].to = "agent",
           label = "found" => store'[i].to # "agent",
           pc[Asker] \in {"found", "done"} => label \in {"found", "done"} /\ i = cur[Asker]
    PROVE  IndInv'
<1>1. Asker \in Callers /\ Asker \notin Hosts /\ CallersOK
  BY MailboxAssumption DEF Callers, IndInv, TypeOK, CallersOK
<1>2. \A c \in Callers : c # Asker => Idle(c)
  BY <1>1 DEF Idle, CallersOK
<1>3. CallersOK'
  BY <1>1 DEF CallersOK
<1>4. pc'[Asker] = label /\ cur'[Asker] = i /\ \A g \in Hosts : Foreign(r, g)
  BY <1>1 DEF CallersOK, Foreign
<1>5. AskerOK' /\ AskerStays
  BY <1>4 DEF AskerOK, AskerStays, IsRequest
<1> QED
  BY <1>1, <1>2, <1>3, <1>4, <1>5, StepInv

(* A host is granted its claim.                                            *)
LEMMA HostClaims ==
    ASSUME IndInv, NEW h \in Hosts, NEW asked \in Nat, NEW r, Valid(r), pc[h] = "found",
           r = [op |-> "claim", id |-> cur[h], holder |-> h, asked |-> asked],
           Granted(r), store' = Effect(r), UNCHANGED rpcVars,
           pc' = [pc EXCEPT ![h] = "accept"],
           lease' = [lease EXCEPT ![h] = store[cur[h]].attempt + 1],
           budget' = [budget EXCEPT ![h] = @ + ExpiresIn(asked)],
           journal' = [journal EXCEPT ![h] = cur[h]],
           UNCHANGED cur
    PROVE  IndInv' /\ Refines
<1>1. h \in Callers /\ h # Asker /\ CallersOK
  BY MailboxAssumption DEF Callers, IndInv, TypeOK, CallersOK
<1> DEFINE i == cur[h]
           e == store[i]
           f == store'[i]
<1>2. /\ i \in 1..Len(store) /\ i \in Nat /\ e.attempt \in Nat /\ e.left \in Nat
      /\ budget[h] \in Int /\ budget[h] <= 0 /\ Grant(asked) \in Nat
  <2>1. i \in 1..Len(store) /\ budget[h] <= 0
    BY DEF IndInv, HostOK, InCycle
  <2> QED
    BY <2>1, EnvelopeTypes, HostTypes, GrantFacts DEF IndInv, TypeOK
<1>3. Did(r) /\ Outcome(r)
  BY DEF Did, Outcome, rpcVars
<1>4. /\ Evolves /\ Len(store') = Len(store) /\ r.op = "claim" /\ r.id = i
      /\ Untouched(i) \/ Touches(r, e, f)
  BY <1>2, <1>3, Daemon DEF IndInv
<1>5. \A c \in Callers : c # h => Idle(c)
  BY <1>1 DEF Idle, CallersOK
<1>6. /\ pc'[h] = "accept" /\ lease'[h] = e.attempt + 1 /\ budget'[h] = budget[h] + Grant(asked)
      /\ journal'[h] = i /\ cur'[h] = i
  BY <1>1 DEF CallersOK, ExpiresIn
<1>7. CallersOK'
  <2>1. e.attempt + 1 \in Nat /\ budget[h] + Grant(asked) \in Int
    BY <1>2
  <2> QED
    BY <1>1, <1>2, <2>1 DEF CallersOK, ExpiresIn, Labels
<1>8. f.state = "leased" /\ f.holder = h /\ f.attempt = e.attempt + 1 /\ f.left = Grant(asked)
  <2> DEFINE n == Grant(asked)
  <2>1. store \in Seq(EnvelopeSet) /\ e \in EnvelopeSet
    BY <1>2 DEF IndInv, TypeOK
  <2>2. store' = [store EXCEPT ![i].state = "leased", ![i].holder = h,
                               ![i].attempt = @ + 1, ![i].left = n]
    BY DEF Effect
  <2>3. store' = [store EXCEPT ![i] = LeasedTo(e, h, n)]
    BY <1>2, <2>1, <2>2 DEF LeasedTo
  <2>4. n \in Nat
    BY <1>2
  <2>5. f = LeasedTo(e, h, n)
    BY <1>2, <2>1, <2>3
  <2> HIDE DEF e, f, n
  <2>6. f.state = "leased" /\ f.holder = h /\ f.attempt = e.attempt + 1 /\ f.left = n
    BY <2>1, <2>4, <2>5, Leased
  <2> QED
    BY <2>6 DEF n
<1>9. HostOK(h)'
  <2>1. /\ journal'[h] <= Len(store') /\ cur'[h] \in 1..Len(store')
        /\ lease'[h] <= store'[cur'[h]].attempt
    BY <1>2, <1>4, <1>6, <1>8
  <2> QED
    BY <1>6, <2>1 DEF HostOK, InCycle, Claimed
<1>10. Covered(h)'
  <2>1. f.left >= budget'[h]
    BY <1>2, <1>6, <1>8
  <2> QED
    BY <1>6, <1>8, <2>1 DEF Covered
<1>11. ClaimKept(h)
  BY <1>2, <1>6 DEF ClaimKept
<1>12. AskerOK' /\ AskerStays
  BY <1>1, <1>4, <1>5, AskerKept
<1>13. \A g \in Hosts : Foreign(r, g)
  BY <1>4 DEF Foreign
<1>14. Refines
  BY <1>3, OutcomeRefines
<1> QED
  BY <1>3, <1>4, <1>5, <1>7, <1>9, <1>10, <1>11, <1>12, <1>13, <1>14, StepInv

(* The asker goes on with the same message.                                *)
LEMMA AskerGoes ==
    ASSUME IndInv, NEW r, Valid(r), Outcome(r), r.op # "nack", NEW label, Move(Asker, label),
           \/ pc[Asker] = "new" /\ label = "new"
           \/ pc[Asker] \in {"inbox", "thread"} /\ label \in {"inbox", "thread", "done"}
           \/ pc[Asker] = "found" /\ label \in {"found", "done"}
    PROVE  IndInv' /\ Refines
<1>1. Asker \in Callers /\ CallersOK
  BY DEF Callers, IndInv, TypeOK, CallersOK
<1> DEFINE i == cur[Asker]
<1>2. /\ pc' = [pc EXCEPT ![Asker] = label] /\ cur' = [cur EXCEPT ![Asker] = i]
      /\ UNCHANGED <<lease, budget, journal>> /\ label \in Labels /\ i \in Nat
  BY <1>1 DEF Move, CallersOK, Labels
<1>3. Evolves /\ AskerOK
  BY OutcomeEvolves DEF IndInv
<1>4. /\ label = "new" => i = 0
      /\ label # "new" => i \in 1..Len(store')
      /\ label \in {"inbox", "thread"} => store'[i].to = "agent"
      /\ label = "found" => store'[i].to # "agent"
  BY <1>3 DEF AskerOK, IsRequest, Evolves
<1>5. Refines
  BY OutcomeRefines DEF Move
<1> QED
  BY <1>2, <1>4, <1>5, AskerMoves

(* Looking for a message, in Inbox or Thread.                              *)
LEMMA Searches ==
    ASSUME IndInv, NEW r, Valid(r), r.op \in {"inbox", "thread"}, Outcome(r),
           NEW c \in Callers, pc[c] \in {"inbox", "thread"},
           NEW shown \in SUBSET (1..Len(store)), NEW label \in {"inbox", "thread"},
           Move(c, label) \/ (Did(r) /\ Found(c, shown, Move(c, label)))
    PROVE  IndInv' /\ Refines
<1>1. CASE Move(c, label)
  <2>1. CASE c \in Hosts
    BY <1>1, <2>1, HostGoes
  <2>2. CASE c = Asker
    BY <1>1, <2>2, AskerGoes
  <2> QED
    BY <2>1, <2>2 DEF Callers
<1>2. CASE ~Move(c, label)
  <2>1. PICK i \in shown : /\ Wanted(c, i) /\ cur' = [cur EXCEPT ![c] = i]
                           /\ pc' = [pc EXCEPT ![c] = "found"] /\ UNCHANGED <<lease, budget, journal>>
    BY <1>2 DEF Found
  <2>2. i \in 1..Len(store)
    OBVIOUS
  <2>3. CASE c \in Hosts
    BY <2>1, <2>2, <2>3, HostFinds
  <2>4. CASE c = Asker
    <3>1. Evolves /\ Len(store) \in Nat /\ StoreOK /\ AskerOK
      BY OutcomeEvolves, EnvelopeTypes DEF IndInv, TypeOK
    <3>2. cur[Asker] \in 1..Len(store) /\ store[i].inReplyTo = cur[Asker]
      BY <2>1, <2>4, <3>1 DEF AskerOK, Wanted
    <3>3. store[i].to # "agent"
      BY <2>2, <3>1, <3>2 DEF StoreOK
    <3>4. i \in Nat /\ i \in 1..Len(store') /\ store'[i].to # "agent"
      BY <2>2, <3>1, <3>3 DEF Evolves
    <3>5. IndInv'
      BY <2>1, <2>4, <3>4, AskerMoves DEF Labels
    <3>6. Refines
      <4>1. IsRequest(cur[Asker]) /\ ~IsRequest(i) /\ cur'[Asker] = i
        BY <2>1, <2>4, <3>1, <3>3 DEF AskerOK, IsRequest, IndInv, TypeOK, Callers
      <4> QED
        BY <1>2, <2>2, <4>1, FindRefines
    <3> QED
      BY <3>5, <3>6
  <2> QED
    BY <2>3, <2>4 DEF Callers
<1> QED
  BY <1>1, <1>2

(* A host gives its round up, or dies; its journal stays.                  *)
Abandons(h) == Round(h, "inbox") /\ UNCHANGED journal

(* A host's call that failed: it goes on as after an error, or dies.       *)
Failing(r) == CallFails(r) /\ UNCHANGED store
Refused(r) == ~Granted(r) /\ UNCHANGED <<store, rpcVars>>
Answering(r) == Granted(r) /\ store' = Effect(r) /\ UNCHANGED rpcVars

(* The three ways a call can go.                                           *)
LEMMA Outcomes ==
    ASSUME NEW r, Failing(r) \/ Refused(r) \/ Answering(r)
    PROVE  Outcome(r)
  BY DEF Failing, Refused, Answering, Outcome, CallFails, rpcVars, Did

(* One lemma for each action: it keeps the invariant and refines Custody.  *)
LEMMA InboxStep == ASSUME IndInv, NEW c \in Callers, Inbox(c) PROVE IndInv' /\ Refines
<1> DEFINE r == [op |-> "inbox", to |-> Address(c)]
<1>1. Valid(r) /\ r.op = "inbox" /\ \A g \in Hosts : Foreign(r, g)
  BY DEF Valid, Foreign
<1>2. \/ Answering(r) /\ Found(c, Undelivered(Address(c)), Move(c, "thread"))
      \/ Refused(r) /\ Move(c, "thread")
      \/ Failing(r) /\ (Move(c, "thread") \/ (c \in Hosts /\ Restart(c)))
  BY DEF Inbox, Goto, Call, Answering, Refused, Failing
<1> HIDE DEF r
<1>3. Outcome(r)
  BY <1>2, Outcomes
<1>4. Undelivered(Address(c)) \in SUBSET (1..Len(store)) /\ pc[c] \in {"inbox", "thread"}
  BY DEF Undelivered, Inbox
<1>5. CASE c \in Hosts /\ Restart(c)
  BY <1>1, <1>3, <1>5, HostRestarts DEF Restart
<1>6. Answering(r) => Did(r)
  BY DEF Answering, Did
<1> QED
  BY <1>1, <1>2, <1>3, <1>4, <1>5, <1>6, Searches

(* Thread, or ErrSelfURNRequired.                                          *)
LEMMA ThreadStep == ASSUME IndInv, NEW c \in Callers, Thread(c) PROVE IndInv' /\ Refines
<1> DEFINE r == [op |-> "thread"]
<1>1. Valid(r) /\ r.op = "thread" /\ \A g \in Hosts : Foreign(r, g)
  BY DEF Valid, Foreign
<1>2. \/ Answering(r) /\ Found(c, 1..Len(store), Move(c, "inbox"))
      \/ Refused(r) /\ Move(c, "inbox")
      \/ Failing(r) /\ (Move(c, "inbox") \/ (c \in Hosts /\ Restart(c)))
      \/ Move(c, "inbox") /\ UNCHANGED <<store, rpcVars>>
  BY DEF Thread, Goto, Call, Answering, Refused, Failing
<1>3. Outcome(r)
  <2>1. CASE UNCHANGED <<store, rpcVars>>
    BY <2>1, Looking DEF Outcome, rpcVars
  <2> QED
    BY <1>2, <2>1, Outcomes
<1> HIDE DEF r
<1>4. 1..Len(store) \in SUBSET (1..Len(store)) /\ pc[c] \in {"inbox", "thread"}
  BY DEF Thread
<1>5. CASE c \in Hosts /\ Restart(c)
  BY <1>1, <1>3, <1>5, HostRestarts DEF Restart
<1>6. Answering(r) => Did(r)
  BY DEF Answering, Did
<1> QED
  BY <1>1, <1>2, <1>3, <1>4, <1>5, <1>6, Searches

(* Get, of what the journal names.                                         *)
LEMMA GetStep == ASSUME IndInv, NEW h \in Hosts, Get(h) PROVE IndInv' /\ Refines
<1> DEFINE r == [op |-> "get"]
<1>1. Valid(r) /\ r.op # "nack" /\ \A g \in Hosts : Foreign(r, g)
  BY DEF Valid, Foreign
<1>2. \/ Answering(r) /\ Found(h, {journal[h]}, Forget(h))
      \/ Refused(r) /\ Move(h, "inbox")
      \/ Failing(r) /\ (Move(h, "inbox") \/ Restart(h))
      \/ Forget(h) /\ UNCHANGED <<store, rpcVars>>
  BY DEF Get, Goto, Call, Answering, Refused, Failing
<1>3. Outcome(r)
  <2>1. CASE UNCHANGED <<store, rpcVars>>
    BY <2>1 DEF Outcome, rpcVars, Did, Granted, Effect
  <2> QED
    BY <1>2, <2>1, Outcomes
<1> HIDE DEF r
<1>4. journal[h] \in 1..Len(store) /\ pc[h] \in {"inbox", "thread"}
  <2>1. journal[h] \in Nat /\ journal[h] # 0 /\ journal[h] <= Len(store) /\ Len(store) \in Nat
    BY EnvelopeTypes, HostTypes DEF IndInv, TypeOK, HostOK, Get
  <2> QED
    BY <2>1 DEF Get
<1>5. CASE Restart(h)
  BY <1>1, <1>3, <1>5, HostRestarts DEF Restart
<1>6. CASE Forget(h)
  BY <1>1, <1>3, <1>6, HostRestarts DEF Forget
<1>7. CASE Move(h, "inbox")
  BY <1>1, <1>3, <1>4, <1>7, HostGoes
<1>8. CASE Found(h, {journal[h]}, Forget(h)) /\ ~Forget(h)
  BY <1>1, <1>3, <1>4, <1>8, HostFinds DEF Found
<1> QED
  BY <1>2, <1>5, <1>6, <1>7, <1>8

(* The asker's request is stored, or not, or later.                        *)
LEMMA SendStep == ASSUME IndInv, Send PROVE IndInv' /\ Refines
<1> DEFINE r == [op |-> "send", env |-> Envelope("agent", 0)]
<1>1. Valid(r) /\ r.op = "send" /\ r.env = Envelope("agent", 0)
  BY DEF Valid
<1>2. \/ /\ Answering(r) /\ pc' = [pc EXCEPT ![Asker] = "inbox"]
         /\ cur' = [cur EXCEPT ![Asker] = Len(store) + 1] /\ UNCHANGED <<lease, budget, journal>>
      \/ (Refused(r) \/ Failing(r)) /\ Move(Asker, "new")
  BY MailboxAssumption DEF Send, Goto, Call, Answering, Refused, Failing
<1> HIDE DEF r
<1>3. Outcome(r)
  BY <1>2, Outcomes
<1>4. CASE Move(Asker, "new")
  BY <1>1, <1>3, <1>4, AskerGoes DEF Send
<1>5. CASE Answering(r) /\ ~Move(Asker, "new")
  <2>1. Did(r)
    BY <1>5 DEF Answering, Did
  <2>2. Len(store') = Len(store) + 1 /\ store'[Len(store) + 1] = r.env /\ Len(store) \in Nat
    BY <1>1, <2>1, Daemon, EnvelopeTypes DEF IndInv, TypeOK
  <2>3. Len(store) + 1 \in 1..Len(store') /\ Len(store) + 1 \in Nat /\ store'[Len(store) + 1].to = "agent"
    BY <1>1, <2>2, EnvelopeFacts
  <2>4. IndInv'
    BY <1>1, <1>2, <1>3, <1>5, <2>3, AskerMoves DEF Send, Labels
  <2>5. cur[Asker] = 0 /\ cur'[Asker] = Len(store) + 1
    BY <1>2, <1>5 DEF Send, IndInv, AskerOK, TypeOK, Callers
  <2> QED
    BY <1>1, <2>1, <2>4, <2>5, SendRefines
<1> QED
  BY <1>2, <1>4, <1>5

(* The asker consumes the answer it found.                                 *)
LEMMA ConsumeStep == ASSUME IndInv, Consume PROVE IndInv' /\ Refines
<1> DEFINE r == [op |-> "consumed", id |-> cur[Asker]]
<1>1. Valid(r) /\ r.op # "nack"
  BY DEF Valid, Consume, IndInv, AskerOK
<1>2. (Answering(r) \/ Refused(r) \/ Failing(r)) /\ (Move(Asker, "done") \/ Move(Asker, "found"))
  BY MailboxAssumption DEF Consume, Goto, Call, Answering, Refused, Failing
<1> HIDE DEF r
<1>3. Outcome(r)
  BY <1>2, Outcomes
<1> QED
  BY <1>1, <1>2, <1>3, AskerGoes DEF Consume

(* The asker gives up its request.                                         *)
LEMMA CancelStep == ASSUME IndInv, Cancel PROVE IndInv' /\ Refines
<1> DEFINE r == [op |-> "cancelled", id |-> cur[Asker]]
<1>1. Valid(r) /\ r.op # "nack"
  BY DEF Valid, Cancel, IndInv, AskerOK
<1>2. (Answering(r) \/ Refused(r) \/ Failing(r)) /\ (Move(Asker, "done") \/ Move(Asker, "inbox"))
  BY MailboxAssumption DEF Cancel, Goto, Call, Answering, Refused, Failing
<1> HIDE DEF r
<1>3. Outcome(r)
  BY <1>2, Outcomes
<1> QED
  BY <1>1, <1>2, <1>3, AskerGoes DEF Cancel

(* A host claims what it found.                                            *)
LEMMA ClaimStep ==
    ASSUME IndInv, NEW h \in Hosts, NEW asked \in LeaseSeconds, ClaimMessage(h, asked) PROVE IndInv' /\ Refines
<1> DEFINE r == [op |-> "claim", id |-> cur[h], holder |-> h, asked |-> asked]
<1>0. asked \in Nat /\ cur[h] \in 1..Len(store) /\ pc[h] = "found"
  BY MailboxAssumption DEF IndInv, HostOK, InCycle, ClaimMessage
<1>1. Valid(r) /\ \A g \in Hosts : Foreign(r, g)
  BY <1>0 DEF Valid, Foreign
<1>2. \/ /\ Answering(r)
         /\ pc' = [pc EXCEPT ![h] = "accept"]
         /\ lease' = [lease EXCEPT ![h] = store[cur[h]].attempt + 1]
         /\ budget' = [budget EXCEPT ![h] = @ + ExpiresIn(asked)]
         /\ journal' = [journal EXCEPT ![h] = cur[h]]
         /\ UNCHANGED cur
      \/ (Refused(r) \/ Failing(r)) /\ Abandons(h)
  BY DEF ClaimMessage, Abandons, GiveUp, Restart, Call, Answering, Refused, Failing
<1>3. CASE Answering(r) /\ ~Abandons(h)
  BY <1>0, <1>1, <1>2, <1>3, HostClaims DEF Answering
<1> HIDE DEF r
<1>4. CASE Abandons(h)
  BY <1>1, <1>2, <1>4, Outcomes, HostRestarts DEF Abandons
<1> QED
  BY <1>2, <1>3, <1>4

(* The first acknowledgement: custody, not work.                           *)
LEMMA AcceptStep == ASSUME IndInv, NEW h \in Hosts, Accept(h) PROVE IndInv' /\ Refines
<1> DEFINE r == AckMessage(h, "host_accepted")
<1>0. cur[h] \in 1..Len(store) /\ pc[h] = "accept"
  BY DEF IndInv, HostOK, InCycle, Accept
<1>1. Valid(r) /\ r.op # "nack" /\ \A g \in Hosts : Foreign(r, g)
  BY <1>0 DEF Valid, Foreign, AckMessage
<1>2. (Answering(r) \/ Refused(r) \/ Failing(r)) /\ (Move(h, "work") \/ Abandons(h))
  BY DEF Accept, Abandons, GiveUp, Restart, Goto, Call, Answering, Refused, Failing
<1> HIDE DEF r
<1>3. Outcome(r)
  BY <1>2, Outcomes
<1>4. CASE Abandons(h)
  BY <1>1, <1>3, <1>4, HostRestarts DEF Abandons
<1>5. CASE Move(h, "work")
  BY <1>0, <1>1, <1>3, <1>5, HostGoes
<1> QED
  BY <1>2, <1>4, <1>5

(* The answer is stored before its request can be acknowledged.            *)
LEMMA ReplyStep == ASSUME IndInv, NEW h \in Hosts, Reply(h) PROVE IndInv' /\ Refines
<1> DEFINE r == [op |-> "send", env |-> Envelope("asker", cur[h])]
<1>0. cur[h] \in 1..Len(store) /\ pc[h] = "work" /\ Len(store) \in Nat
  BY EnvelopeTypes DEF IndInv, HostOK, InCycle, Reply, TypeOK
<1>1. Valid(r) /\ r.op = "send" /\ r.env = Envelope("asker", cur[h]) /\ \A g \in Hosts : Foreign(r, g)
  BY <1>0 DEF Valid, Foreign
<1>2. \/ Answering(r) /\ Move(h, "answered")
      \/ (Refused(r) \/ Failing(r)) /\ (Move(h, "failed") \/ Abandons(h))
      \/ Abandons(h) /\ UNCHANGED <<store, rpcVars>>
  BY DEF Reply, Abandons, GiveUp, Restart, Goto, Call, Answering, Refused, Failing
<1> HIDE DEF r
<1>3. Answering(r) \/ Refused(r) \/ Failing(r) => Outcome(r)
  BY Outcomes
<1>4. CASE Abandons(h) /\ Outcome(r)
  BY <1>1, <1>4, HostRestarts DEF Abandons
<1>5. CASE Abandons(h) /\ UNCHANGED <<store, rpcVars>>
  <2>1. /\ Valid([op |-> "thread"]) /\ Outcome([op |-> "thread"])
        /\ \A g \in Hosts : Foreign([op |-> "thread"], g)
    BY <1>5, Looking DEF Outcome, rpcVars, Foreign
  <2> QED
    BY <1>5, <2>1, HostRestarts DEF Abandons
<1>6. CASE Move(h, "failed") /\ Outcome(r)
  BY <1>0, <1>1, <1>6, HostGoes
<1>7. CASE Answering(r) /\ Move(h, "answered")
  <2>1. Did(r)
    BY <1>7 DEF Answering, Did
  <2>2. Len(store') = Len(store) + 1 /\ store'[Len(store) + 1] = Envelope("asker", cur[h])
    BY <1>1, <2>1, Daemon DEF IndInv
  <2>3. \E j \in 1..Len(store') : store'[j].inReplyTo = cur[h] /\ store'[j].to = "asker"
    <3>1. /\ Len(store) + 1 \in 1..Len(store')
          /\ store'[Len(store) + 1].inReplyTo = cur[h] /\ store'[Len(store) + 1].to = "asker"
      BY <1>0, <2>2, EnvelopeFacts
    <3> QED
      BY <3>1
  <2> QED
    BY <1>0, <1>1, <1>3, <1>7, <2>3, HostGoes
<1> QED
  BY <1>2, <1>3, <1>4, <1>5, <1>6, <1>7

(* The second acknowledgement: the work is done.                           *)
LEMMA AcknowledgeStep == ASSUME IndInv, NEW h \in Hosts, Acknowledge(h) PROVE IndInv' /\ Refines
<1> DEFINE r == AckMessage(h, "consumed")
<1>0. cur[h] \in 1..Len(store) /\ pc[h] = "answered" /\ Answered(cur[h])
  BY DEF IndInv, HostOK, InCycle, Acknowledge
<1>1. Valid(r) /\ r.op # "nack" /\ \A g \in Hosts : Foreign(r, g)
  BY <1>0 DEF Valid, Foreign, AckMessage
<1>2. (Answering(r) \/ Refused(r) \/ Failing(r)) /\ (Forget(h) \/ Abandons(h))
  BY DEF Acknowledge, Abandons, GiveUp, Restart, Call, Answering, Refused, Failing
<1> HIDE DEF r
<1>3. Outcome(r)
  BY <1>2, Outcomes
<1> QED
  BY <1>1, <1>2, <1>3, HostRestarts DEF Abandons, Forget

(* Whoever hands a message back has the only claim to that lease.          *)
LEMMA NackStep ==
    ASSUME IndInv, NEW h \in Hosts, NEW retryable \in BOOLEAN, NEW delay \in {1},
           NackMessage(h, retryable, delay)
    PROVE  IndInv' /\ Refines
<1> DEFINE r == [op |-> "nack", id |-> cur[h], lease |-> lease[h], retryable |-> retryable, delay |-> delay]
<1>0. /\ cur[h] \in 1..Len(store) /\ Claimed(h) /\ lease[h] \in Nat
      /\ lease[h] <= store[cur[h]].attempt
  BY HostTypes DEF IndInv, HostOK, InCycle, Claimed, NackMessage
<1>1. Valid(r)
  BY <1>0 DEF Valid
<1>2. \A g \in Hosts : g # h => Foreign(r, g)
  BY <1>0 DEF Foreign, IndInv, LeasesDiffer
<1>3. (Answering(r) \/ Refused(r) \/ Failing(r)) /\ (Forget(h) \/ Abandons(h))
  BY DEF NackMessage, Abandons, GiveUp, Restart, Call, Answering, Refused, Failing
<1> HIDE DEF r
<1>4. Outcome(r)
  BY <1>3, Outcomes
<1> QED
  BY <1>1, <1>2, <1>3, <1>4, HostRestarts DEF Abandons, Forget

(* A crash loses everything but the journal.                               *)
LEMMA CrashStep == ASSUME IndInv, NEW h \in Hosts, Crash(h) PROVE IndInv' /\ Refines
<1>1. /\ Valid([op |-> "thread"]) /\ Outcome([op |-> "thread"])
      /\ \A g \in Hosts : Foreign([op |-> "thread"], g)
  BY Looking DEF Crash, Outcome, Foreign
<1> QED
  BY <1>1, HostRestarts DEF Crash, Restart

(* A request is handled after its caller gave it up.                       *)
LEMMA LateStep == ASSUME IndInv, NEW l \in late, Late(l) PROVE IndInv' /\ Refines
<1> DEFINE r == l.request
<1>1. Valid(r) /\ \A g \in Hosts : Foreign(r, g)
  BY DEF IndInv, LateOK
<1>2. Outcome(r)
  BY DEF Late, HandledLate, Outcome, Did
<1> HIDE DEF r
<1>3. \A c \in Callers : Idle(c)
  BY DEF Late, Idle
<1>4. CallersOK' /\ Asker \notin Hosts
  BY MailboxAssumption DEF Late, IndInv, TypeOK, CallersOK
<1>5. AskerOK' /\ AskerStays
  BY <1>1, <1>2, <1>3, OutcomeEvolves, AskerKept DEF IndInv
<1>6. Refines
  BY <1>1, <1>2, <1>3, OutcomeRefines DEF Idle, Callers
<1> QED
  BY <1>1, <1>2, <1>3, <1>4, <1>5, <1>6, StepInv

-----------------------------------------------------------------------------
(* The operator and the clock.                                             *)

(* Steps that no caller takes.                                             *)
LEMMA Passes ==
    ASSUME IndInv, Evolves, Len(store') = Len(store), UNCHANGED <<late, pc, cur, lease, journal>>,
           budget' \in [Callers -> Int],
           \A h \in Hosts : HostOK(h)' /\ Covered(h)'
    PROVE  IndInv'
<1>1. TypeOK'
  BY DEF IndInv, TypeOK, Evolves
<1>2. StoreOK'
  BY DEF IndInv, StoreOK, Evolves
<1>3. LeasesDiffer'
  BY DEF IndInv, LeasesDiffer, Claimed
<1>4. AskerOK'
  BY DEF IndInv, AskerOK, IsRequest, Evolves
<1>5. LateOK'
  <2> SUFFICES ASSUME NEW l \in late PROVE Valid(l.request)' /\ \A h \in Hosts : Foreign(l.request, h)'
    BY DEF LateOK
  <2> DEFINE q == l.request
  <2>1. Valid(q) /\ \A h \in Hosts : Foreign(q, h)
    BY DEF IndInv, LateOK
  <2> HIDE DEF q
  <2>2. Valid(q)'
    BY <2>1, ValidKept DEF IndInv, q
  <2>3. \A h \in Hosts : Foreign(q, h)'
    BY <2>1 DEF Foreign, Claimed, q
  <2> QED
    BY <2>2, <2>3 DEF q
<1> QED
  BY <1>1, <1>2, <1>3, <1>4, <1>5 DEF IndInv

(* An operator's redrive takes nothing from a host with time left.         *)
LEMMA RedriveInv == ASSUME IndInv, NEW i \in DOMAIN store, Redrive(i) PROVE IndInv'
<1>0. store \in Seq(EnvelopeSet) /\ i \in 1..Len(store) /\ store[i] \in EnvelopeSet /\ store[i].state = "dead"
  BY DEF IndInv, TypeOK, Redrive
<1> DEFINE e == store[i]
           n == e.left
           f == MovedTo(e, "open", n)
<1>1. n \in Nat /\ "open" \in States
  BY <1>0 DEF EnvelopeSet, States
<1>2. store' = [store EXCEPT ![i] = f]
  BY <1>0, <1>1 DEF Redrive, MovedTo, EnvelopeSet
<1> HIDE DEF n
<1>3. /\ f \in EnvelopeSet /\ f.to = e.to /\ f.inReplyTo = e.inReplyTo /\ e.attempt <= f.attempt
  BY <1>0, <1>1, Moved
<1> HIDE DEF f
<1>4. /\ Evolves /\ Len(store') = Len(store)
      /\ \A j \in 1..Len(store) : j # i => Untouched(j)
  BY <1>0, <1>2, <1>3, Replaced DEF IndInv
<1>5. UNCHANGED <<late, pc, cur, lease, budget, journal>>
  BY DEF Redrive
<1>6. ASSUME NEW h \in Hosts PROVE HostOK(h)' /\ Covered(h)'
  <2>1. HostOK(h)'
    BY <1>4, <1>5, HostKept DEF IndInv, Idle
  <2>2. Covered(h)'
    <3> SUFFICES ASSUME pc[h] \in {"accept", "work", "answered"}, budget[h] > 0
                 PROVE  LET g == store'[cur[h]] IN
                    \/ g.state \in {"consumed", "cancelled"}
                    \/ /\ g.state \in {"leased", "accepted"}
                       /\ g.holder = h /\ g.attempt = lease[h] /\ g.left >= budget[h]
      BY <1>5 DEF Covered
    <3>1. cur[h] \in 1..Len(store) /\ Covered(h)
      BY DEF IndInv, HostOK, InCycle
    <3>2. cur[h] # i
      BY <1>0, <3>1 DEF Covered
    <3> QED
      BY <1>4, <3>1, <3>2 DEF Covered, Untouched
  <2> QED
    BY <2>1, <2>2
<1> QED
  BY <1>4, <1>5, <1>6, Passes DEF IndInv, TypeOK

(* A second on the daemon's clock.                                         *)
Older(e) == [e EXCEPT !.left = IF @ > 0 THEN @ - 1 ELSE 0]

(* What a second does to the store.                                        *)
LEMMA Ages ==
    ASSUME IndInv, NEW free \in BOOLEAN, Tick(free)
    PROVE  /\ Evolves /\ Len(store') = Len(store)
           /\ \A i \in 1..Len(store) :
                 /\ store'[i].state = store[i].state /\ store'[i].attempt = store[i].attempt
                 /\ store'[i].holder = store[i].holder
                 /\ store'[i].left = IF store[i].left > 0 THEN store[i].left - 1 ELSE 0
<1>1. store \in Seq(EnvelopeSet) /\ \A i \in 1..Len(store) : store[i] \in EnvelopeSet
  BY DEF IndInv, TypeOK
<1>2. store' = [i \in DOMAIN store |-> Older(store[i])]
  BY DEF Tick, Older
<1>3. ASSUME NEW e \in EnvelopeSet
      PROVE  /\ Older(e) \in EnvelopeSet /\ Older(e).to = e.to /\ Older(e).inReplyTo = e.inReplyTo
             /\ Older(e).state = e.state /\ Older(e).attempt = e.attempt /\ Older(e).holder = e.holder
             /\ Older(e).left = IF e.left > 0 THEN e.left - 1 ELSE 0
             /\ e.attempt <= e.attempt
  <2>1. (IF e.left > 0 THEN e.left - 1 ELSE 0) \in Nat /\ e.attempt <= e.attempt
    BY DEF EnvelopeSet
  <2> QED
    BY <2>1 DEF Older, EnvelopeSet
<1>4. /\ store' \in Seq(EnvelopeSet) /\ Len(store') = Len(store) /\ Len(store) \in Nat
      /\ \A i \in 1..Len(store) : store'[i] = Older(store[i])
  BY <1>1, <1>2, <1>3
<1> QED
  BY <1>1, <1>3, <1>4 DEF Evolves

(* The daemon's clock is no faster than the host's.                        *)
LEMMA TickInv == ASSUME IndInv, NEW free \in BOOLEAN, Tick(free) PROVE IndInv'
<1>1. /\ Evolves /\ Len(store') = Len(store)
      /\ \A i \in 1..Len(store) :
            /\ store'[i].state = store[i].state /\ store'[i].attempt = store[i].attempt
            /\ store'[i].holder = store[i].holder
            /\ store'[i].left = IF store[i].left > 0 THEN store[i].left - 1 ELSE 0
  BY Ages
<1>2. /\ UNCHANGED <<late, pc, cur, lease, journal>>
      /\ budget' = [c \in Callers |-> IF c \in Hosts /\ InCycle(c) THEN budget[c] - 1 ELSE 0]
  BY DEF Tick
<1>3. budget' \in [Callers -> Int]
  BY <1>2 DEF IndInv, TypeOK
<1>4. ASSUME NEW h \in Hosts PROVE HostOK(h)' /\ Covered(h)'
  <2>1. /\ h \in Callers /\ budget[h] \in Int /\ HostOK(h) /\ Covered(h)
        /\ budget'[h] = IF InCycle(h) THEN budget[h] - 1 ELSE 0
    BY <1>2, HostTypes DEF IndInv
  <2>2. HostOK(h)'
    <3>1. pc'[h] = "answered" =>
             \E j \in 1..Len(store') : store'[j].inReplyTo = cur'[h] /\ store'[j].to = "asker"
      BY <1>1, <1>2, <2>1 DEF HostOK, Answered, Evolves
    <3>2. /\ journal'[h] <= Len(store')
          /\ InCycle(h)' => cur'[h] \in 1..Len(store')
          /\ Claimed(h)' => lease'[h] <= store'[cur'[h]].attempt
      BY <1>1, <1>2, <2>1 DEF HostOK, InCycle, Claimed
    <3>3. (~InCycle(h)' => budget'[h] = 0) /\ (pc'[h] = "found" => budget'[h] <= 0)
      BY <1>2, <2>1 DEF HostOK, InCycle
    <3> QED
      BY <3>1, <3>2, <3>3 DEF HostOK, Answered
  <2>3. Covered(h)'
    <3> SUFFICES ASSUME pc[h] \in {"accept", "work", "answered"}, budget'[h] > 0
                 PROVE  LET g == store'[cur[h]] IN
                    \/ g.state \in {"consumed", "cancelled"}
                    \/ /\ g.state \in {"leased", "accepted"}
                       /\ g.holder = h /\ g.attempt = lease[h] /\ g.left >= budget'[h]
      BY <1>2 DEF Covered
    <3> DEFINE e == store[cur[h]]
    <3>1. cur[h] \in 1..Len(store) /\ InCycle(h)
      BY <2>1 DEF HostOK, InCycle
    <3>2. budget'[h] = budget[h] - 1 /\ budget[h] > 0 /\ e.left \in Nat
      BY <2>1, <3>1, EnvelopeTypes DEF IndInv, TypeOK
    <3>3. \/ e.state \in {"consumed", "cancelled"}
          \/ /\ e.state \in {"leased", "accepted"}
             /\ e.holder = h /\ e.attempt = lease[h] /\ e.left >= budget[h]
      BY <2>1, <3>2 DEF Covered
    <3> QED
      BY <1>1, <2>1, <3>1, <3>2, <3>3
  <2> QED
    BY <2>2, <2>3
<1> QED
  BY <1>1, <1>2, <1>3, <1>4, Passes

(* A redrive is Custody's.                                                 *)
LEMMA RedriveRefines ==
    ASSUME IndInv, NEW k \in DOMAIN store, Redrive(k)
    PROVE  Refines
<1>0. store \in Seq(EnvelopeSet) /\ k \in 1..Len(store) /\ store[k] \in EnvelopeSet /\ store[k].state = "dead"
  BY DEF IndInv, TypeOK, Redrive
<1> DEFINE e == store[k]
           n == e.left
           f == MovedTo(e, "open", n)
<1>1. n \in Nat /\ "open" \in States
  BY <1>0 DEF EnvelopeSet, States
<1>2. store' = [store EXCEPT ![k] = f]
  BY <1>0, <1>1 DEF Redrive, MovedTo, EnvelopeSet
<1> HIDE DEF n
<1>3. /\ f \in EnvelopeSet /\ f.to = e.to /\ f.inReplyTo = e.inReplyTo /\ e.attempt <= f.attempt
      /\ f.state = "open"
  BY <1>0, <1>1, Moved
<1> HIDE DEF f
<1>4. /\ Evolves /\ Len(store') = Len(store) /\ store'[k] = f
      /\ \A j \in 1..Len(store) : j # k => Untouched(j)
  BY <1>0, <1>2, <1>3, Replaced DEF IndInv
<1>5. Handled' = Handled
  BY <1>4, SameHandled DEF IndInv, Redrive
<1>6. \A i \in Ids : i # k => State(i)' = State(i) /\ HeldBy(i)' = HeldBy(i)
  BY <1>4, SameView DEF IndInv
<1>7. CASE k \in Ids
  <2>1. /\ State(k) = StateOf(e) /\ HeldBy(k) = HolderOf(e)
        /\ State(k)' = StateOf(f) /\ HeldBy(k)' = HolderOf(f)
    BY <1>0, <1>4, <1>7, Views DEF Evolves
  <2>2. State(k) = "dropped" /\ State(k)' = "free" /\ HeldBy(k)' = HeldBy(k)
    BY <1>0, <1>3, <2>1 DEF StateOf, HolderOf
  <2> QED
    BY <1>5, <1>6, <1>7, <2>2, Redrives
<1>8. CASE k \notin Ids
  BY <1>5, <1>6, <1>8, Stutters
<1> QED
  BY <1>7, <1>8

(* Leases that run out are released.                                       *)
LEMMA TickRefines ==
    ASSUME IndInv, NEW free \in BOOLEAN, Tick(free)
    PROVE  Refines
<1>1. /\ Evolves /\ Len(store') = Len(store)
      /\ \A i \in 1..Len(store) :
            /\ store'[i].state = store[i].state /\ store'[i].attempt = store[i].attempt
            /\ store'[i].holder = store[i].holder
            /\ store'[i].left = IF store[i].left > 0 THEN store[i].left - 1 ELSE 0
  BY Ages
<1>2. store \in Seq(EnvelopeSet) /\ store' \in Seq(EnvelopeSet) /\ TypeOK
  BY <1>1 DEF IndInv, TypeOK, Evolves
<1>3. Handled' = Handled
  BY <1>1, <1>2, SameHandled DEF Tick
<1>4. ASSUME NEW i \in Ids
      PROVE  State(i)' = State(i) /\ HeldBy(i)' \in {HeldBy(i), None} /\ HeldBy(i)' \in Hosts \cup {None}
  <2>1. CASE i \in 1..Len(store)
    <3>1. store[i].left \in Nat /\ store[i].holder \in Hosts \cup {None}
      BY <1>2, <2>1, EnvelopeTypes
    <3>2. /\ StateOf(store'[i]) = StateOf(store[i])
          /\ HolderOf(store'[i]) \in {HolderOf(store[i]), None}
          /\ HolderOf(store'[i]) \in Hosts \cup {None}
      BY <1>1, <2>1, <3>1 DEF StateOf, HolderOf
    <3> QED
      BY <1>1, <1>2, <2>1, <3>2, Views
  <2>2. CASE i \notin 1..Len(store)
    BY <1>1, <1>2, <2>2, Views
  <2> QED
    BY <2>1, <2>2
<1> QED
  BY <1>3, <1>4, Releases

(* The invariant holds at first.                                           *)
LEMMA InitInv == Init => IndInv
<1> SUFFICES ASSUME Init PROVE IndInv
  OBVIOUS
<1>1. TypeOK
  BY DEF Init, TypeOK, Labels
<1>2. StoreOK /\ LateOK
  BY DEF Init, RPCInit, StoreOK, LateOK
<1>3. \A h \in Hosts : pc[h] = "inbox" /\ budget[h] = 0 /\ journal[h] = 0
  BY MailboxAssumption DEF Init, Callers
<1>4. \A h \in Hosts : HostOK(h) /\ Covered(h) /\ ~Claimed(h)
  BY <1>3 DEF HostOK, Covered, Claimed, InCycle, Init
<1>5. AskerOK
  BY DEF Init, Callers, AskerOK
<1> QED
  BY <1>1, <1>2, <1>4, <1>5 DEF IndInv, LeasesDiffer

(* Every step keeps the invariant and refines Custody.                     *)
LEMMA NextStep == IndInv /\ [Next]_vars => IndInv' /\ Refines
<1> SUFFICES ASSUME IndInv, [Next]_vars PROVE IndInv' /\ Refines
  OBVIOUS
<1>1. CASE UNCHANGED vars
  <2>1. Evolves
    <3>1. Valid([op |-> "thread"]) /\ Did([op |-> "thread"])
      BY <1>1, Looking DEF vars
    <3> QED
      BY <3>1, Daemon DEF IndInv
  <2>2. \A h \in Hosts : HostOK(h)' /\ Covered(h)'
    BY <1>1 DEF vars, IndInv, HostOK, Covered, InCycle, Claimed, Answered
  <2>3. IndInv'
    BY <1>1, <2>1, <2>2, Passes DEF vars, rpcVars, IndInv, TypeOK
  <2>4. Refines
    BY <1>1, Stutters DEF vars, State, HeldBy, Handled, IsRequest
  <2> QED
    BY <2>3, <2>4
<1>2. Asker \in Callers /\ Hosts \subseteq Callers
  BY DEF Callers
<1>3. CASE AskerStep
  BY <1>2, <1>3, SendStep, InboxStep, ThreadStep, ConsumeStep DEF AskerStep
<1>4. ASSUME NEW h \in Hosts, HostStep(h) PROVE IndInv' /\ Refines
  BY <1>2, <1>4, InboxStep, ThreadStep, GetStep, ClaimStep, AcceptStep, ReplyStep, AcknowledgeStep, NackStep
     DEF HostStep
<1> QED
  BY <1>1, <1>3, <1>4, CancelStep, CrashStep, LateStep, RedriveInv, RedriveRefines, TickInv, TickRefines
     DEF Next

-----------------------------------------------------------------------------
(* Messages, hosts and late requests stay as they should, for any number   *)
(* of hosts, leases and faults.                                            *)
THEOREM Invariance == Spec => []IndInv
  BY InitInv, NextStep, PTL DEF Spec

(* The exclusive work of a lease: while the time ClaimMessage told a host  *)
(* is not used up, the daemon still honours that host's very lease.        *)
THEOREM LeasesCoverWork == Spec => []LeaseCoversWork
<1>1. IndInv => LeaseCoversWork
  BY DEF IndInv, Covered, LeaseCoversWork, Settled
<1> QED
  BY <1>1, Invariance, PTL

(* No two hosts with time left work on one unsettled message.              *)
Alone ==
    \A g, h \in Hosts :
        /\ pc[g] \in {"accept", "work", "answered"} /\ budget[g] > 0
        /\ pc[h] \in {"accept", "work", "answered"} /\ budget[h] > 0
        /\ cur[g] = cur[h] /\ ~Settled(cur[g])
        => g = h

(* What LeaseCoversWork is for: two hosts that both have time left on a    *)
(* claim work on different messages, unless theirs is settled already.     *)
THEOREM WorkAlone == Spec => []Alone
<1>1. LeaseCoversWork => Alone
  BY DEF LeaseCoversWork, Alone
<1> QED
  BY <1>1, LeasesCoverWork, PTL

(* The mailbox implements Custody: whoever crashes, whatever call is lost  *)
(* or handled late and whenever a lease runs out, a message has at most    *)
(* one holder, nobody takes it from a holder, and it is settled only after *)
(* its answer is stored, or, an answer, after the asker has it.            *)
THEOREM KeepsCustody == Spec => CustodySpec
<1>1. ASSUME Init PROVE CustodyOf!Init
  <2>1. Len(store) = 0 /\ 1..Len(store) = {}
    BY <1>1 DEF Init
  <2>2. \A i \in Ids : i > Len(store) /\ ~(i <= Len(store))
    BY <2>1, MailboxAssumption
  <2>3. \A i \in Ids : State(i) = "absent" /\ HeldBy(i) = None
    BY <2>2 DEF State, HeldBy
  <2>4. Handled = {}
    BY <2>1 DEF Handled
  <2> QED
    BY <2>3, <2>4 DEF CustodyOf!Init
<1>2. IndInv /\ [Next]_vars => [CustodyOf!Next]_CustodyOf!vars
  BY NextStep DEF Refines
<1> QED
  BY <1>1, <1>2, Invariance, PTL DEF Spec, CustodySpec, CustodyOf!Spec
=============================================================================
