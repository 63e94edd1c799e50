------------------------------ MODULE Custody ------------------------------
(***************************************************************************)
(* What the mailbox promises about a message, whoever crashes and whatever *)
(* call is lost: at most one holder has it, nobody takes it from a holder, *)
(* and it is settled only when it has been handled, so that whatever was   *)
(* not handled is still there for somebody to take.                        *)
(***************************************************************************)
CONSTANTS Ids, Holders, Nobody

VARIABLES
    state,      \* "absent", "free", "settled" or "dropped"
    holder,     \* who has it, or Nobody
    handled     \* the messages whose purpose is served

vars == <<state, holder, handled>>

Init ==
    /\ state = [i \in Ids |-> "absent"]
    /\ holder = [i \in Ids |-> Nobody]
    /\ handled = {}

(* Sending a message that is an answer serves the one it answers.          *)
Submit(i) ==
    /\ state[i] = "absent"
    /\ state' = [state EXCEPT ![i] = "free"]
    /\ handled \subseteq handled'
    /\ handled' \subseteq Ids
    /\ UNCHANGED holder

Take(i, h) ==
    /\ state[i] = "free"
    /\ holder[i] = Nobody
    /\ holder' = [holder EXCEPT ![i] = h]
    /\ UNCHANGED <<state, handled>>

(* Handed back, or the holder's time is up; several at once.               *)
Release ==
    /\ holder' \in [Ids -> Holders \cup {Nobody}]
    /\ \A i \in Ids : holder'[i] \in {holder[i], Nobody}
    /\ UNCHANGED <<state, handled>>

Handle(i) ==
    /\ handled' = handled \cup {i}
    /\ UNCHANGED <<state, holder>>

Settle(i) ==
    /\ state[i] = "free"
    /\ i \in handled
    /\ state' = [state EXCEPT ![i] = "settled"]
    /\ holder' = [holder EXCEPT ![i] = Nobody]
    /\ UNCHANGED handled

(* Dead-lettered or cancelled; an operator may bring it back.              *)
Drop(i) ==
    /\ state[i] = "free"
    /\ state' = [state EXCEPT ![i] = "dropped"]
    /\ holder' = [holder EXCEPT ![i] = Nobody]
    /\ UNCHANGED handled

Redrive(i) ==
    /\ state[i] = "dropped"
    /\ state' = [state EXCEPT ![i] = "free"]
    /\ UNCHANGED <<holder, handled>>

Next ==
    \/ \E i \in Ids : Submit(i) \/ Handle(i) \/ Settle(i) \/ Drop(i) \/ Redrive(i)
    \/ \E i \in Ids, h \in Holders : Take(i, h)
    \/ Release

Spec == Init /\ [][Next]_vars
=============================================================================
