------------------------------ MODULE Mailbox ------------------------------
(***************************************************************************)
(* The messaging store and durable delivery at work: an asker sends a      *)
(* request with Send and waits for the answer in its Inbox; the hosts of   *)
(* one recipient find the request, claim it, accept it durably, answer it  *)
(* with Reply and acknowledge it, in the cycle documented in               *)
(* delivery_claims.go.  Calls fail before or after they took effect,       *)
(* hosts crash, leases run out.                                            *)
(*                                                                         *)
(* All envelopes are in one thread: the asker chooses its ID, which Send   *)
(* leaves alone, and Reply takes it over.  A host learns it only from an   *)
(* envelope that it is shown.                                              *)
(*                                                                         *)
(* The daemon is external: it keeps the envelopes, marks what Inbox        *)
(* returns as delivered, and honours a lease for the time it granted.      *)
(***************************************************************************)
EXTENDS RoundTrip, Integers, Sequences

CONSTANTS
    Hosts,          \* processes that serve the recipient
    Asker,          \* the process that sends a request
    None,           \* no holder
    SelfURN,        \* callers whose Client was made WithSelfURN
    LeaseSeconds,   \* what hosts may ask for; 0 leaves it to the daemon
    DefaultLease,
    MaxLease,       \* the daemon's own maximum
    Ids             \* the messages whose custody is followed

ASSUME MailboxAssumption ==
    /\ Asker \notin Hosts
    /\ SelfURN \subseteq Hosts \cup {Asker}
    /\ LeaseSeconds \subseteq Nat
    /\ MaxLease \in Nat \ {0}
    /\ DefaultLease \in 1..MaxLease
    /\ Ids \subseteq Nat \ {0}

VARIABLES
    store,      \* the daemon's envelopes; an ID is a position
    pc,         \* the call each caller makes next
    cur,        \* the message it is concerned with, or 0
    lease,      \* the LeaseRef of a host's last claim
    budget,     \* the time the host believes is left of it, counted from the claim's sending
    journal,    \* what the host accepted durably; survives a crash
    knows       \* the callers that have the thread's ID in memory

vars == <<rpcVars, store, pc, cur, lease, budget, journal, knows>>

Callers == Hosts \cup {Asker}
Address(c) == IF c = Asker THEN "asker" ELSE "agent"

Envelope(to, inReplyTo) ==
    [to |-> to, inReplyTo |-> inReplyTo, delivered |-> FALSE, state |-> "open",
     attempt |-> 0, holder |-> None, left |-> 0]

IsRequest(i) == store[i].to = "agent"
Settled(i) == store[i].state \in {"consumed", "dead", "cancelled"}

-----------------------------------------------------------------------------
(* The daemon (external): what a request does, and whether it is granted.  *)

Grant(asked) == IF asked = 0 THEN DefaultLease ELSE IF asked < MaxLease THEN asked ELSE MaxLease

(* An open message waits out the delay of its last nack; a leased one is   *)
(* free when the lease has run out.                                        *)
Claimable(e) == e.state \in {"open", "leased", "accepted"} /\ e.left = 0
Current(e, ref) == e.state \in {"leased", "accepted"} /\ e.attempt = ref /\ e.left > 0

Granted(r) ==
    CASE r.op = "claim" -> Claimable(store[r.id])
      [] r.op \in {"ack", "nack"} -> Current(store[r.id], r.lease)
      [] OTHER -> TRUE

Undelivered(to) == {i \in 1..Len(store) : store[i].to = to /\ ~store[i].delivered}

Effect(r) ==
    CASE r.op = "send"  -> Append(store, r.env)
      [] r.op = "inbox" -> [i \in DOMAIN store |->
                              [store[i] EXCEPT !.delivered = @ \/ i \in Undelivered(r.to)]]
      [] r.op = "claim" -> [store EXCEPT ![r.id].state = "leased", ![r.id].holder = r.holder,
                                         ![r.id].attempt = @ + 1, ![r.id].left = Grant(r.asked)]
      [] r.op = "ack"   -> [store EXCEPT ![r.id].state = IF r.stage = "consumed" THEN r.stage ELSE "accepted",
                                         ![r.id].left = IF r.stage = "consumed" THEN 0 ELSE @]
      [] r.op = "nack"  -> [store EXCEPT ![r.id].state = IF r.retryable THEN "open" ELSE "dead",
                                         ![r.id].left = IF r.retryable THEN r.delay ELSE 0]
      [] r.op \in {"consumed", "cancelled"} ->
                           [store EXCEPT ![r.id].state = IF Settled(r.id) THEN @ ELSE r.op,
                                         ![r.id].left = 0]
      [] OTHER -> store

Late(l) ==
    /\ HandledLate(l)
    /\ store' = IF Granted(l.request) THEN Effect(l.request) ELSE store
    /\ UNCHANGED <<pc, cur, lease, budget, journal, knows>>

-----------------------------------------------------------------------------
Move(c, label) ==
    /\ pc' = [pc EXCEPT ![c] = label]
    /\ UNCHANGED <<cur, lease, budget, journal>>

Goto(c, label) == Move(c, label) /\ UNCHANGED knows

(* A host begins a new round; the variables of its last cycle are gone.    *)
Round(c, label) ==
    /\ pc' = [pc EXCEPT ![c] = label]
    /\ cur' = IF c = Asker THEN cur ELSE [cur EXCEPT ![c] = 0]
    /\ lease' = [lease EXCEPT ![c] = 0]
    /\ budget' = [budget EXCEPT ![c] = 0]

GiveUp(h) == Round(h, "inbox") /\ UNCHANGED <<journal, knows>>

(* A host that died comes back with its journal alone.                     *)
Restart(h) == Round(h, "inbox") /\ knows' = knows \ {h} /\ UNCHANGED journal

(* A method of caller c with request r: how it goes on after a success and *)
(* after an error.  A host may also die waiting.                           *)
Call(c, r, success, error) ==
    \/ Granted(r) /\ store' = Effect(r) /\ UNCHANGED rpcVars /\ success
    \/ ~Granted(r) /\ UNCHANGED <<store, rpcVars>> /\ error
    \/ CallFails(r) /\ UNCHANGED store /\ (error \/ (c \in Hosts /\ Restart(c)))

-----------------------------------------------------------------------------
(* Finding a message. *)

(* A host takes up any unsettled request it is shown, the asker the answer *)
(* to its own.                                                             *)
Wanted(c, i) ==
    IF c = Asker THEN store[i].inReplyTo = cur[c] ELSE IsRequest(i) /\ ~Settled(i)

(* Every envelope tells its ThreadID.                                      *)
Found(c, shown, otherwise) ==
    /\ knows' = IF shown = {} THEN knows ELSE knows \cup {c}
    /\ \/ \E i \in shown :
             /\ Wanted(c, i)
             /\ cur' = [cur EXCEPT ![c] = i]
             /\ pc' = [pc EXCEPT ![c] = "found"]
             /\ UNCHANGED <<lease, budget, journal>>
       \/ (\A i \in shown : ~Wanted(c, i)) /\ otherwise

Inbox(c) ==
    /\ pc[c] = "inbox"
    /\ journal[c] = 0
    /\ Call(c, [op |-> "inbox", to |-> Address(c)],
            Found(c, Undelivered(Address(c)), Move(c, "thread")), Goto(c, "thread"))

(* Mutant: the undelivered part of the thread, as Inbox filters it.        *)
ThreadUndelivered(c) ==
    /\ pc[c] = "thread"
    /\ IF c \in SelfURN \cap knows
       THEN Call(c, [op |-> "thread"],
                 Found(c, Undelivered(Address(c)), Move(c, "inbox")), Goto(c, "inbox"))
       ELSE Goto(c, "inbox") /\ UNCHANGED <<store, rpcVars>>

(* After Inbox has shown nothing, or failed with what it showed already    *)
(* marked, only Thread can show it, to a caller that knows the thread's    *)
(* ID.  Without a self URN, Thread and Get return ErrSelfURNRequired.      *)
Thread(c) ==
    /\ pc[c] = "thread"
    /\ IF c \in SelfURN \cap knows
       THEN Call(c, [op |-> "thread"], Found(c, 1..Len(store), Move(c, "inbox")), Goto(c, "inbox"))
       ELSE Goto(c, "inbox") /\ UNCHANGED <<store, rpcVars>>

(* A host with something in its journal looks that up first.               *)
Forget(h) == Round(h, "inbox") /\ journal' = [journal EXCEPT ![h] = 0]

Get(h) ==
    /\ pc[h] = "inbox"
    /\ journal[h] # 0
    /\ IF h \in SelfURN
       THEN Call(h, [op |-> "get"], Found(h, {journal[h]}, Forget(h)), Goto(h, "inbox"))
       ELSE Forget(h) /\ UNCHANGED <<store, rpcVars, knows>>

-----------------------------------------------------------------------------
(* The asker. *)

Send ==
    /\ pc[Asker] = "new"
    /\ Call(Asker, [op |-> "send", env |-> Envelope("agent", 0)],
            /\ pc' = [pc EXCEPT ![Asker] = "inbox"]
            /\ cur' = [cur EXCEPT ![Asker] = Len(store) + 1]
            /\ UNCHANGED <<lease, budget, journal, knows>>,
            Goto(Asker, "new"))

Consume ==
    /\ pc[Asker] = "found"
    /\ Call(Asker, [op |-> "consumed", id |-> cur[Asker]], Goto(Asker, "done"), Goto(Asker, "found"))

Cancel ==
    /\ pc[Asker] = "inbox"
    /\ Call(Asker, [op |-> "cancelled", id |-> cur[Asker]], Goto(Asker, "done"), Goto(Asker, "inbox"))

-----------------------------------------------------------------------------
(* A host's cycle. *)

(* Mutant: the duration asked for is returned, not the one granted.        *)
LeaseAsAsked(asked) == IF asked = 0 THEN DefaultLease ELSE asked

(* The third result of ClaimMessage.                                       *)
ExpiresIn(asked) == Grant(asked)

ClaimMessage(h, asked) ==
    /\ pc[h] = "found"
    /\ Call(h, [op |-> "claim", id |-> cur[h], holder |-> h, asked |-> asked],
            /\ pc' = [pc EXCEPT ![h] = "accept"]
            /\ lease' = [lease EXCEPT ![h] = store[cur[h]].attempt + 1]
            /\ budget' = [budget EXCEPT ![h] = @ + ExpiresIn(asked)]
            /\ journal' = [journal EXCEPT ![h] = cur[h]]
            /\ UNCHANGED <<cur, knows>>,
            GiveUp(h))

(* Mutant: one stage for every acknowledgement.                            *)
AckMessageConsumed(h, stage) == [op |-> "ack", id |-> cur[h], lease |-> lease[h], stage |-> "consumed"]

AckMessage(h, stage) == [op |-> "ack", id |-> cur[h], lease |-> lease[h], stage |-> stage]

(* Custody is durable: journal was written after the claim.                *)
Accept(h) ==
    /\ pc[h] = "accept"
    /\ Call(h, AckMessage(h, "host_accepted"), Goto(h, "work"), GiveUp(h))

(* The work is the answer; a host whose lease has run out leaves it.       *)
Reply(h) ==
    /\ pc[h] = "work"
    /\ IF budget[h] > 0
       THEN Call(h, [op |-> "send", env |-> Envelope("asker", cur[h])], Goto(h, "answered"), Goto(h, "failed"))
       ELSE GiveUp(h) /\ UNCHANGED <<store, rpcVars>>

Acknowledge(h) ==
    /\ pc[h] = "answered"
    /\ Call(h, AckMessage(h, "consumed"), Forget(h) /\ UNCHANGED knows, GiveUp(h))

NackMessage(h, retryable, delay) ==
    /\ pc[h] = "failed"
    /\ Call(h, [op |-> "nack", id |-> cur[h], lease |-> lease[h], retryable |-> retryable, delay |-> delay],
            Forget(h) /\ UNCHANGED knows, GiveUp(h))

Crash(h) == Fault /\ Restart(h) /\ UNCHANGED <<store, late>>

-----------------------------------------------------------------------------
(* An operator's redrive of a dead letter (external).                      *)
Redrive(i) ==
    /\ store[i].state = "dead"
    /\ Fault
    /\ store' = [store EXCEPT ![i].state = "open"]
    /\ UNCHANGED <<late, pc, cur, lease, budget, journal, knows>>

(* A second passes, for the daemon and for the hosts.  It passes freely    *)
(* while no host is in a cycle; in one, where calls and work are shorter   *)
(* than a lease, it is a delay and counts as a fault.                      *)
InCycle(h) == pc[h] \in {"found", "accept", "work", "answered", "failed"}

Tick(free) ==
    /\ \E i \in DOMAIN store : store[i].left > 0
    /\ IF free THEN (\A h \in Hosts : ~InCycle(h)) /\ UNCHANGED faults ELSE Fault
    /\ store' = [i \in DOMAIN store |-> [store[i] EXCEPT !.left = IF @ > 0 THEN @ - 1 ELSE 0]]
    /\ budget' = [c \in Callers |-> IF c \in Hosts /\ InCycle(c) THEN budget[c] - 1 ELSE 0]
    /\ UNCHANGED <<late, pc, cur, lease, journal, knows>>

-----------------------------------------------------------------------------
Init ==
    /\ RPCInit
    /\ store = <<>>
    /\ pc = [c \in Callers |-> IF c = Asker THEN "new" ELSE "inbox"]
    /\ cur = [c \in Callers |-> 0]
    /\ lease = [c \in Callers |-> 0]
    /\ budget = [c \in Callers |-> 0]
    /\ journal = [c \in Callers |-> 0]
    /\ knows = {Asker}

AskerStep == Send \/ Inbox(Asker) \/ Thread(Asker) \/ Consume

HostStep(h) ==
    \/ Inbox(h) \/ Thread(h) \/ Get(h)
    \/ (\E asked \in LeaseSeconds : ClaimMessage(h, asked))
    \/ Accept(h) \/ Reply(h) \/ Acknowledge(h)
    \/ \E retryable \in BOOLEAN, delay \in {1} : NackMessage(h, retryable, delay)

Next ==
    \/ AskerStep \/ Cancel
    \/ \E h \in Hosts : HostStep(h) \/ Crash(h)
    \/ \E l \in late : Late(l)
    \/ \E i \in DOMAIN store : Redrive(i)
    \/ \E free \in BOOLEAN : Tick(free)

(* Processes run and are restarted, the daemon answers, time passes.       *)
Fairness ==
    /\ WF_vars(AskerStep)
    /\ \A h \in Hosts : WF_vars(HostStep(h))
    /\ SF_vars(Tick(TRUE))

Spec == Init /\ [][Next]_vars /\ Fairness

-----------------------------------------------------------------------------
(* While a host believes it has time left, the message it claimed is its   *)
(* own: the daemon honours this very lease at least as long, unless the    *)
(* message is settled.  So no two hosts work on one message at once,       *)
(* although ClaimMessage tells a duration and not a time, and may grant    *)
(* less than was asked for.                                                *)
LeaseCoversWork ==
    \A h \in Hosts : pc[h] \in {"accept", "work", "answered"} /\ budget[h] > 0 =>
        LET e == store[cur[h]] IN
        \/ Settled(cur[h])
        \/ e.holder = h /\ e.attempt = lease[h] /\ e.left >= budget[h]

(* The mailbox keeps the promises of Custody.  A request is handled when   *)
(* its answer is stored, addressed to the asker; an answer, when the asker *)
(* has it.                                                                 *)
State(i) ==
    IF i > Len(store) THEN "absent"
    ELSE CASE store[i].state = "consumed" -> "settled"
           [] store[i].state \in {"dead", "cancelled"} -> "dropped"
           [] OTHER -> "free"

HeldBy(i) ==
    IF i <= Len(store) /\ store[i].state \in {"leased", "accepted"} /\ store[i].left > 0
    THEN store[i].holder ELSE None

Handled ==
    {i \in Ids \cap 1..Len(store) :
        \/ \E j \in 1..Len(store) : store[j].inReplyTo = i /\ store[j].to = "asker"
        \/ i = cur[Asker] /\ ~IsRequest(i)}

CustodyOf == INSTANCE Custody WITH
    Ids <- Ids, Holders <- Hosts, Nobody <- None,
    state <- [i \in Ids |-> State(i)], holder <- [i \in Ids |-> HeldBy(i)], handled <- Handled

CustodySpec == CustodyOf!Spec

(* No Inbox shows the message again, and no host can look it up: whoever   *)
(* had its thread's ID has died, or never had an answer, and what is in a  *)
(* journal cannot be read without a self URN.                              *)
OutOfSight(i) ==
    /\ store[i].delivered
    /\ \A h \in Hosts \cap SelfURN : h \notin knows /\ journal[h] = 0

(* Inbox returns "undelivered envelopes", "atomically marking them         *)
(* delivered", so a lost answer can hide a request.  Every request that    *)
(* does not end out of every host's sight is consumed or dropped in the    *)
(* end, and the asker of an answered one has its answer, unless it         *)
(* cancelled the request or the request is a dead letter: one host that    *)
(* can look is enough, and one that wrote its journal can.                 *)
Settles ==
    <>[](/\ \A i \in DOMAIN store : IsRequest(i) => Settled(i) \/ OutOfSight(i)
         /\ \/ pc[Asker] = "done"
            \/ cur[Asker] # 0 /\ State(cur[Asker]) = "dropped"
            \/ cur[Asker] # 0 /\ cur[Asker] \notin Handled /\ OutOfSight(cur[Asker]))
=============================================================================
