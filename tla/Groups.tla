------------------------------- MODULE Groups -------------------------------
(***************************************************************************)
(* Group messaging by the agents of the registry: an owner creates a group *)
(* and invites the others, members post messages that mention somebody by  *)
(* name, and the devices of a member page through the log and move its     *)
(* read cursor.  Members leave and are removed, the group is archived,     *)
(* devices restart and calls fail.                                         *)
(*                                                                         *)
(* The daemon is external.  It resolves a mention against the registry's   *)
(* active entries and refuses one that matches several.  A group whose     *)
(* creation failed for its owner is one that nobody knows of.              *)
(***************************************************************************)
EXTENDS Registry

CONSTANTS
    Owner,      \* the agent that creates the group
    Posters,    \* the agents that have something to post
    Devices,    \* processes that read for a member
    Reader,     \* the member each device reads for
    Limit       \* messages in a page

ASSUME GroupsAssumption ==
    /\ Owner \in Agents /\ Posters \subseteq Agents
    /\ Reader \in [Devices -> Agents]
    /\ Limit \in Nat \ {0}

VARIABLES
    room,       \* the daemon's group: status, role and read cursor of each agent, log of senders
    post,       \* where an agent is with its message
    retries,    \* how often an agent's Send failed without an answer
    device,     \* what a device does next, with its SinceSeq and its upToSeq
    fetched     \* the messages the devices of an agent have got

vars == <<registryVars, room, post, retries, device, fetched>>

Member(a) == room.role[a] # "none"

-----------------------------------------------------------------------------
(* The daemon (external). *)

(* Entries a short mention of a's name may mean.                           *)
Candidates(a) == {i \in DOMAIN entries : Active(i) /\ Name[entries[i].agent] = Name[a]}
Ambiguous(r) == r.mention = "short" /\ Cardinality(Candidates(r.by)) > 1

Status(r) ==
    IF r.op = "create" THEN 201
    ELSE IF r.op \notin {"list", "read"} /\ room.status = "archived" THEN 423
    ELSE IF r.op # "add" /\ ~Member(r.by) THEN 403
    ELSE IF r.op = "post" /\ Ambiguous(r) THEN 400
    ELSE IF r.op \in {"add", "post"} THEN 201
    ELSE 200

RoomEffect(r) ==
    IF Status(r) \notin {200, 201} THEN room ELSE
    CASE r.op = "create"  -> [room EXCEPT !.status = "open", !.role[r.by] = "owner"]
      [] r.op = "archive" -> [room EXCEPT !.status = "archived"]
      [] r.op = "add"     -> IF Member(r.by) THEN room
                             ELSE [room EXCEPT !.role[r.by] = r.role, !.read[r.by] = 0]
      [] r.op \in {"role", "leave"} -> [room EXCEPT !.role[r.by] = r.role]
      [] r.op = "post"    -> [room EXCEPT !.log = Append(@, r.by)]
      [] r.op = "read"    -> [room EXCEPT !.read[r.by] = IF @ < r.upTo THEN r.upTo ELSE @]
      [] OTHER -> room

Page(since) == {s \in DOMAIN room.log : since <= s /\ s < since + Limit}

GroupLate(l) == HandledLate(l) /\ room' = RoomEffect(l.request) /\ UNCHANGED <<post, retries, device, fetched>>

-----------------------------------------------------------------------------
(* The one status that a method takes for a success.                       *)
Ok(r) == IF r.op \in {"create", "add", "post"} THEN 201 ELSE 200

(* gc.do: the answer, an error the daemon answered with, or neither.       *)
Do(r, success, error, failed) ==
    \/ Status(r) = Ok(r) /\ room' = RoomEffect(r) /\ UNCHANGED rpcVars /\ success
    \/ Status(r) # Ok(r) /\ room' = RoomEffect(r) /\ UNCHANGED rpcVars /\ error
    \/ CallFails(r) /\ UNCHANGED room /\ failed

Same == UNCHANGED <<post, retries, device, fetched>>

Create ==
    /\ Onboarded(Owner)
    /\ room.status = "none"
    /\ \/ room' = RoomEffect([op |-> "create", by |-> Owner]) /\ UNCHANGED faults
       \/ Fault /\ UNCHANGED room
    /\ UNCHANGED late
    /\ Same

(* Changes of membership, by the owner or the member itself; the same call *)
(* again when one failed.                                                  *)
AddMember(a) ==
    /\ room.status = "open" /\ Onboarded(a) /\ ~Member(a)
    /\ Do([op |-> "add", by |-> a, role |-> "member"], Same, Same, Same)

SetMemberRole(a) ==
    /\ room.status = "open" /\ room.role[a] = "member"
    /\ Do([op |-> "role", by |-> a, role |-> "moderator"], Same, Same, Same)

(* RemoveMember and Leave: the member's row is gone.  Counted as faults.   *)
RemoveMember(a) ==
    /\ room.status = "open" /\ a # Owner /\ Member(a)
    /\ Fault
    /\ \/ room' = RoomEffect([op |-> "leave", by |-> a, role |-> "none"]) /\ UNCHANGED late
       \/ late' = late \cup {[request |-> [op |-> "leave", by |-> a, role |-> "none"], nth |-> faults]}
          /\ UNCHANGED room
    /\ Same

Archive ==
    /\ room.status = "open"
    /\ Fault
    /\ room' = RoomEffect([op |-> "archive", by |-> Owner])
    /\ UNCHANGED late
    /\ Same

-----------------------------------------------------------------------------
(* Posting. *)

(* Mutant: every error answer is an *APIError.                             *)
readAPIErrorOnly(r) == "api"

(* A 400 with candidates is a *GroupAmbiguousMentionError.                 *)
readGroupError(r) == IF Status(r) = 400 /\ Candidates(r.by) # {} THEN "ambiguous" ELSE "api"

Posting(a, label) == post' = [post EXCEPT ![a] = label] /\ UNCHANGED <<device, fetched>>

(* A member re-sends with the full URN of a candidate, or after no answer. *)
(* A FanoutError in the result is no error: the room post succeeded.       *)
Send(a) ==
    /\ post[a] \in {"short", "full"}
    /\ LET r == [op |-> "post", by |-> a, mention |-> post[a]] IN
       Do(r, Posting(a, "sent") /\ UNCHANGED retries,
             Posting(a, IF readGroupError(r) = "ambiguous" THEN "full" ELSE "refused") /\ UNCHANGED retries,
             retries' = [retries EXCEPT ![a] = @ + 1] /\ UNCHANGED <<post, device, fetched>>)

BeginPost(a) ==
    /\ a \in Posters /\ Member(a)
    /\ post[a] = "none"
    /\ Posting(a, "short")
    /\ UNCHANGED <<rpcVars, room, retries>>

-----------------------------------------------------------------------------
(* Reading. *)

(* Mutant: the cursor is left out of the query.                            *)
SinceOmitted(since) == 1

(* Mutant: since_seq taken for the last message read, not the next one.    *)
SinceExclusive(since) == since + 1

(* since_seq is left out when it is zero, and the log starts at one.       *)
SinceParam(since) == IF since = 0 THEN 1 ELSE since

Device(d, what, since, upTo) ==
    /\ device' = [device EXCEPT ![d] = [what |-> what, since |-> since, upTo |-> upTo]]
    /\ UNCHANGED <<post, retries>>

(* A device that starts asks ListMembers for the member's LastReadSeq.     *)
ListMembers(d) ==
    /\ device[d].what = "start" /\ Member(Reader[d])
    /\ LET seq == room.read[Reader[d]] IN
       Do([op |-> "list", by |-> Reader[d]],
          Device(d, "list", IF seq = 0 THEN 0 ELSE seq + 1, 0) /\ UNCHANGED fetched, Same, Same)

(* The next page starts at NextSeq.                                        *)
ListMessages(d) ==
    /\ device[d].what = "list"
    /\ LET page == Page(SinceParam(device[d].since))
           last == CHOOSE s \in page : \A t \in page : t <= s IN
       Do([op |-> "list", by |-> Reader[d]],
          /\ fetched' = [fetched EXCEPT ![Reader[d]] = @ \cup page]
          /\ IF page = {} THEN UNCHANGED <<device, post, retries>> ELSE Device(d, "mark", last + 1, last),
          Device(d, "start", 0, 0) /\ UNCHANGED fetched,
          Same)

MarkRead(d) ==
    /\ device[d].what = "mark"
    /\ Do([op |-> "read", by |-> Reader[d], upTo |-> device[d].upTo],
          Device(d, "list", device[d].since, 0) /\ UNCHANGED fetched,
          Device(d, "start", 0, 0) /\ UNCHANGED fetched,
          Same)

RestartDevice(d) ==
    /\ Fault
    /\ Device(d, "start", 0, 0)
    /\ UNCHANGED <<late, room, fetched>>

-----------------------------------------------------------------------------
Init ==
    /\ RegistryInit
    /\ room = [status |-> "none", role |-> [a \in Agents |-> "none"],
               read |-> [a \in Agents |-> 0], log |-> <<>>]
    /\ post = [a \in Agents |-> "none"]
    /\ retries = [a \in Agents |-> 0]
    /\ device = [d \in Devices |-> [what |-> "start", since |-> 0, upTo |-> 0]]
    /\ fetched = [a \in Agents |-> {}]

InRegistry(l) == l.request.op \in {"register", "update", "status"}

RegistryStep ==
    \/ \E a \in Agents : Registering(a) \/ Restart(a)
    \/ Curator
    \/ \E l \in late : InRegistry(l) /\ RegistryLate(l)

GroupStep ==
    \/ Create \/ Archive
    \/ \E a \in Agents :
          AddMember(a) \/ SetMemberRole(a) \/ RemoveMember(a) \/ BeginPost(a) \/ Send(a)
    \/ \E d \in Devices : ListMembers(d) \/ ListMessages(d) \/ MarkRead(d) \/ RestartDevice(d)
    \/ \E l \in late : ~InRegistry(l) /\ GroupLate(l)

Next ==
    \/ RegistryStep /\ UNCHANGED <<room, post, retries, device, fetched>>
    \/ GroupStep /\ UNCHANGED <<entries, pc, urn, curated, unsure>>

(* Agents, posters and devices go on, and the daemon answers.              *)
Fairness ==
    /\ \A a \in Agents : WF_vars(Registering(a) /\ UNCHANGED <<room, post, retries, device, fetched>>)
    /\ \A a \in Agents : WF_vars((AddMember(a) \/ BeginPost(a) \/ Send(a))
                                 /\ UNCHANGED <<entries, pc, urn, curated, unsure>>)
    /\ WF_vars(Create /\ UNCHANGED <<entries, pc, urn, curated, unsure>>)
    /\ \A d \in Devices : WF_vars((ListMembers(d) \/ ListMessages(d) \/ MarkRead(d))
                                  /\ UNCHANGED <<entries, pc, urn, curated, unsure>>)

Spec == Init /\ [][Next]_vars /\ Fairness

-----------------------------------------------------------------------------
(* A member's read cursor never passes a message that none of its devices  *)
(* has got, however pages, marks and restarts of several devices overlap.  *)
ReadMeansFetched == \A a \in Agents : 1..room.read[a] \subseteq fetched[a]

(* A message is in the log once, and once more for each Send that failed   *)
(* without an answer.  A Send that returned has posted it; one that was    *)
(* refused met an archived group or came from somebody who may have been   *)
(* removed: never because a mention was ambiguous.                         *)
Copies(a) == Cardinality({s \in DOMAIN room.log : room.log[s] = a})

SendsHonest ==
    \A a \in Agents :
        /\ Copies(a) <= 1 + retries[a]
        /\ post[a] = "sent" => Copies(a) > 0
        /\ post[a] = "refused" => room.status = "archived" \/ a # Owner

(* In the end every message is posted or refused, and every member with a  *)
(* device has got the whole log.                                           *)
CatchesUp ==
    <>[](/\ \A a \in Posters : Member(a) => post[a] \in {"sent", "refused"}
         /\ \A d \in Devices : Member(Reader[d]) => DOMAIN room.log \subseteq fetched[Reader[d]])
=============================================================================
