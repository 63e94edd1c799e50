------------------------------ MODULE Registry ------------------------------
(***************************************************************************)
(* The agent registry as its users see it.  An agent that starts looks for *)
(* its entry with Search, registers when it finds none, resolves a         *)
(* registration whose answer it did not get with LookupBy, and publishes   *)
(* its capabilities with UpdateSelf.  A curator updates, merges and        *)
(* deregisters entries at the same time.                                   *)
(*                                                                         *)
(* The daemon is external: it keeps the entries, merges patches into them  *)
(* and wraps its lists in objects keyed by segment or by kind.             *)
(***************************************************************************)
EXTENDS RoundTrip, Sequences

CONSTANTS
    Agents,     \* the processes that register
    Kind,       \* the RegistryKind of each
    Name        \* its DisplayName, which need not be unique

ASSUME RegistryAssumption == Kind \in [Agents -> {"agent", "project"}]

VARIABLES
    entries,    \* the daemon's entries; a URN is a position
    pc,         \* the call each agent makes next
    urn,        \* the URN an agent knows as its own, or 0
    curated,    \* entries the curator's update of which returned
    unsure      \* how many registrations of an agent failed without an answer

registryVars == <<rpcVars, entries, pc, urn, curated, unsure>>

-----------------------------------------------------------------------------
(* Segments, envelope keys and patches. *)

registryPluralSegment(kind) ==
    CASE kind = "agent" -> "agents" [] kind = "project" -> "projects" [] kind = "group" -> "groups"

(* From the prefix of the URN, which the daemon minted for the kind.       *)
registryKindSegmentFromURN(prefix) ==
    CASE prefix = "agt_" -> "agents" [] prefix = "prj_" -> "projects" [] OTHER -> "error"

(* Mutant: the list is looked up under the singular kind.                  *)
SearchKeySingular(kind) == kind

(* The key under which Search and LookupBy find their answer.  A missing   *)
(* key is an empty list to Search and an error to LookupBy.                *)
SearchKey(kind) == registryPluralSegment(kind)
LookupByKey(kind) == kind

(* RegistryArrayPatch on the wire: an object; a bare array means replace.  *)
(* Mutant: the bare array, which loses the mode.                           *)
MarshalBare(patch) == [shape |-> "array", mode |-> "none", value |-> patch.value]

Marshal(patch) == [shape |-> "object", mode |-> patch.mode, value |-> patch.value]

UnmarshalJSON(wire) ==
    [mode |-> IF wire.shape = "array" THEN "replace" ELSE wire.mode, value |-> wire.value]

Patched(list, patch) ==
    CASE patch.mode = "replace" -> patch.value
      [] patch.mode = "append"  -> list \cup patch.value
      [] patch.mode = "remove"  -> list \ patch.value

-----------------------------------------------------------------------------
(* The daemon (external). *)

Plural == [agent |-> "agents", project |-> "projects", group |-> "groups"]
Prefix == [agent |-> "agt_", project |-> "prj_", group |-> "grp_"]

Active(i) == entries[i].status = "active"
EntriesOf(a) == {i \in DOMAIN entries : entries[i].agent = a /\ Active(i)}

(* A nil scalar of a patch leaves the field alone.                         *)
Effect(r) ==
    CASE r.op = "register" ->
           Append(entries, [agent |-> r.agent, kind |-> r.kind, status |-> "active",
                            title |-> "", capabilities |-> {}])
      [] r.op = "update" ->
           [entries EXCEPT ![r.urn].capabilities = Patched(@, UnmarshalJSON(r.capabilities)),
                           ![r.urn].title = IF r.title = "nil" THEN @ ELSE r.title]
      [] r.op = "status" -> [entries EXCEPT ![r.urn].status = r.status]

RegistryLate(l) == HandledLate(l) /\ entries' = Effect(l.request) /\ UNCHANGED <<pc, urn, curated, unsure>>

-----------------------------------------------------------------------------
(* The agents. *)

Goto(a, label) == pc' = [pc EXCEPT ![a] = label] /\ UNCHANGED <<urn, unsure>>
Own(a, i) == urn' = [urn EXCEPT ![a] = i] /\ pc' = [pc EXCEPT ![a] = "update"] /\ UNCHANGED unsure

(* A method that only reads: its answer, or an error.                      *)
Read(answer, error) ==
    \/ answer /\ UNCHANGED <<rpcVars, entries, curated>>
    \/ Fault /\ error /\ UNCHANGED <<late, entries, curated>>

Search(a) ==
    /\ pc[a] = "search"
    /\ Read(LET found == IF SearchKey(Kind[a]) = Plural[Kind[a]] THEN EntriesOf(a) ELSE {} IN
            \/ found = {} /\ Goto(a, "register")
            \/ \E i \in found : Own(a, i),
            Goto(a, "search"))

LookupBy(a) ==
    /\ pc[a] = "lookup"
    /\ Read(\/ LookupByKey(Kind[a]) # Kind[a] /\ Goto(a, "lookup")
            \/ EntriesOf(a) = {} /\ Goto(a, "register")
            \/ \E i \in EntriesOf(a) : Own(a, i),
            Goto(a, "lookup"))

Register(a) ==
    /\ pc[a] = "register"
    /\ LET r == [op |-> "register", agent |-> a, kind |-> Kind[a]] IN
       \/ entries' = Effect(r) /\ Own(a, Len(entries) + 1) /\ UNCHANGED rpcVars
       \/ /\ CallFails(r)
          /\ unsure' = [unsure EXCEPT ![a] = @ + 1]
          /\ pc' = [pc EXCEPT ![a] = "lookup"]
          /\ UNCHANGED <<entries, urn>>
    /\ UNCHANGED curated

(* The request of UpdateSelf.  It has an effect only under the segment the *)
(* entry is served from; for a group's URN there is none.                  *)
Update(i, patch, title) ==
    [op |-> "update", urn |-> i, capabilities |-> Marshal(patch), title |-> title]
Routed(i) == registryKindSegmentFromURN(Prefix[entries[i].kind]) = Plural[entries[i].kind]

UpdateSelf(a) ==
    /\ pc[a] = "update"
    /\ LET r == Update(urn[a], [mode |-> "append", value |-> {"own"}], "nil") IN
       \/ Routed(urn[a]) /\ entries' = Effect(r) /\ Goto(a, "ready") /\ UNCHANGED rpcVars
       \/ CallFails(r) /\ Goto(a, "update") /\ UNCHANGED entries
    /\ UNCHANGED curated

Restart(a) ==
    /\ Fault
    /\ pc' = [pc EXCEPT ![a] = "search"]
    /\ urn' = [urn EXCEPT ![a] = 0]
    /\ UNCHANGED <<late, entries, curated, unsure>>

-----------------------------------------------------------------------------
(* The curator. *)

Curate(i) ==
    /\ i \notin curated
    /\ LET r == Update(i, [mode |-> "append", value |-> {"vetted"}], "expert") IN
       \/ Routed(i) /\ entries' = Effect(r) /\ curated' = curated \cup {i} /\ UNCHANGED rpcVars
       \/ CallFails(r) /\ UNCHANGED <<entries, curated>>
    /\ UNCHANGED <<pc, urn, unsure>>

(* A second active entry of an agent is merged into the first.             *)
Merge(i, j) ==
    /\ Active(i) /\ Active(j) /\ i < j
    /\ entries[i].agent = entries[j].agent
    /\ entries' = Effect([op |-> "status", urn |-> j, status |-> "merged"])
    /\ UNCHANGED <<rpcVars, pc, urn, curated, unsure>>

Deregister(i) ==
    /\ Active(i)
    /\ Fault
    /\ entries' = Effect([op |-> "status", urn |-> i, status |-> "deprecated"])
    /\ UNCHANGED <<late, pc, urn, curated, unsure>>

RegistryInit ==
    /\ RPCInit
    /\ entries = <<>>
    /\ pc = [a \in Agents |-> "search"]
    /\ urn = [a \in Agents |-> 0]
    /\ curated = {}
    /\ unsure = [a \in Agents |-> 0]

Onboarded(a) == pc[a] = "ready"

Registering(a) == Search(a) \/ LookupBy(a) \/ Register(a) \/ UpdateSelf(a)

Curator == \E i \in DOMAIN entries :
    Curate(i) \/ Deregister(i) \/ \E j \in DOMAIN entries : Merge(i, j)

-----------------------------------------------------------------------------
(* However often an agent restarts, it has one active entry and one more   *)
(* for each registration whose answer it never got: Search and LookupBy    *)
(* find what is there, also when an answer is wrapped in an object.        *)
RegisteredOnce ==
    \A a \in Agents : Cardinality(EntriesOf(a)) <= 1 + unsure[a]

(* An update is a partial merge: what an agent and the curator changed is  *)
(* there after both, although neither knows of the other.                  *)
UpdatesKept ==
    /\ \A a \in Agents : Onboarded(a) => "own" \in entries[urn[a]].capabilities
    /\ \A i \in curated : "vetted" \in entries[i].capabilities /\ entries[i].title = "expert"
=============================================================================
