---------------------------- MODULE GroupsProofs ----------------------------
(***************************************************************************)
(* Proofs about Registry and Groups, for any number of agents and devices, *)
(* any page limit and any number of faults: an agent registers once, no    *)
(* update is lost, a read cursor passes nothing unseen, and Send says what *)
(* became of the message.                                                  *)
(***************************************************************************)
EXTENDS Groups, FiniteSetTheorems, TLAPS

EntrySet ==
    [agent : Agents, kind : {"agent", "project"}, status : {"active", "merged", "deprecated"},
     title : {"", "expert"}, capabilities : SUBSET {"own", "vetted"}]

RegistryOK ==
    /\ entries \in Seq(EntrySet)
    /\ pc \in [Agents -> {"search", "register", "lookup", "update", "ready"}]
    /\ urn \in [Agents -> Nat]
    /\ unsure \in [Agents -> Nat]
    /\ curated \subseteq DOMAIN entries
    /\ \A a \in Agents : pc[a] \in {"update", "ready"} => urn[a] \in DOMAIN entries

Roles == {"none", "member", "moderator", "owner"}

RoomOK ==
    /\ room \in [status : {"none", "open", "archived"}, role : [Agents -> Roles],
                 read : [Agents -> Nat], log : Seq(Agents)]
    /\ post \in [Agents -> {"none", "short", "full", "sent", "refused"}]
    /\ retries \in [Agents -> Nat]
    /\ device \in [Devices -> [what : {"start", "list", "mark"}, since : Nat, upTo : Nat]]
    /\ fetched \in [Agents -> SUBSET Nat]

(* Requests on their way to the registry, and to the group.                *)
RegistryRequest(r) ==
    \/ r.op = "register" /\ r.agent \in Agents /\ r.kind \in {"agent", "project"}
    \/ /\ r.op = "update" /\ r.urn \in DOMAIN entries
       /\ \E value \in SUBSET {"own", "vetted"} :
             r.capabilities = Marshal([mode |-> "append", value |-> value])
       /\ r.title \in {"nil", "expert"}

GroupRequest(r) ==
    /\ r.op \in {"add", "role", "leave", "post", "read", "list"}
    /\ r.by \in Agents
    /\ room.status # "none"
    /\ r.op \in {"add", "role"} => r.role \in Roles \ {"none"}
    /\ r.op = "leave" => r.by # Owner /\ r.role = "none"
    /\ r.op = "read" => r.upTo \in Nat /\ 1..r.upTo \subseteq fetched[r.by]

LateOK ==
    /\ IsFiniteSet(late)
    /\ \A l \in late : RegistryRequest(l.request) \/ GroupRequest(l.request)

(* An agent about to register has an entry or one on its way only for a    *)
(* registration whose answer it never got.                                 *)
LateRegisters(a) == {l \in late : l.request.op = "register" /\ l.request.agent = a}

Registrations(a) == Cardinality(EntriesOf(a)) + Cardinality(LateRegisters(a))

OnceOK(a) ==
    /\ Registrations(a) <= 1 + unsure[a]
    /\ Cardinality(LateRegisters(a)) <= unsure[a]
    /\ pc[a] = "register" => Registrations(a) <= unsure[a]

(* A device has got everything below the page it asks for, and everything  *)
(* up to the mark it sets.                                                 *)
DeviceOK(d) ==
    /\ 1..device[d].upTo \subseteq fetched[Reader[d]]
    /\ device[d].since > 0 => 1..(device[d].since - 1) \subseteq fetched[Reader[d]]

(* A message is in the log or on its way once for each Send.               *)
LatePosts(a) == {l \in late : l.request.op = "post" /\ l.request.by = a}

Posts(a) == Copies(a) + Cardinality(LatePosts(a))

PostOK(a) ==
    /\ Posts(a) <= retries[a] + (IF post[a] = "sent" THEN 1 ELSE 0)
    /\ post[a] = "sent" => Copies(a) > 0
    /\ post[a] = "refused" => room.status = "archived" \/ a # Owner
    /\ post[a] # "none" \/ Member(a) => room.status # "none"

OwnerStays == room.status # "none" => Member(Owner)

(* A device that reads has found the group.                                *)
DevicesJoined == \A d \in Devices : device[d].what # "start" => room.status # "none"

RegistryInv ==
    /\ RegistryOK
    /\ \A a \in Agents : OnceOK(a)
    /\ UpdatesKept

RoomInv ==
    /\ RoomOK
    /\ \A a \in Agents : PostOK(a)
    /\ ReadMeansFetched
    /\ \A d \in Devices : DeviceOK(d)
    /\ OwnerStays
    /\ DevicesJoined

IndInv == RegistryInv /\ RoomInv /\ LateOK

-----------------------------------------------------------------------------
(* Counting. *)

(* At most one more than before.                                           *)
LEMMA CountAdd ==
    ASSUME NEW S, IsFiniteSet(S), NEW x, NEW T \in SUBSET (S \cup {x})
    PROVE  /\ IsFiniteSet(T) /\ Cardinality(T) \in Nat /\ Cardinality(S) \in Nat
           /\ Cardinality(T) <= Cardinality(S) + 1
<1>1. IsFiniteSet(S \cup {x}) /\ Cardinality(S \cup {x}) <= Cardinality(S) + 1 /\ Cardinality(S) \in Nat
  BY FS_AddElement, FS_CardinalityType
<1>2. IsFiniteSet(T) /\ Cardinality(T) <= Cardinality(S \cup {x}) /\ Cardinality(T) \in Nat
  BY <1>1, FS_Subset, FS_CardinalityType
<1>3. Cardinality(S \cup {x}) \in Nat
  BY <1>1, FS_CardinalityType
<1> QED
  BY <1>1, <1>2, <1>3

(* No more than before.                                                    *)
LEMMA CountSubset ==
    ASSUME NEW S, IsFiniteSet(S), NEW T \in SUBSET S
    PROVE  /\ IsFiniteSet(T) /\ Cardinality(T) \in Nat /\ Cardinality(S) \in Nat
           /\ Cardinality(T) <= Cardinality(S)
  BY FS_Subset, FS_CardinalityType

(* One less than before.                                                   *)
LEMMA CountRemove ==
    ASSUME NEW S, IsFiniteSet(S), NEW x \in S, NEW T \in SUBSET (S \ {x})
    PROVE  /\ IsFiniteSet(T) /\ Cardinality(T) \in Nat /\ Cardinality(S) \in Nat
           /\ Cardinality(T) <= Cardinality(S) - 1
<1>1. IsFiniteSet(S \ {x}) /\ Cardinality(S \ {x}) = Cardinality(S) - 1 /\ Cardinality(S) \in Nat
  BY FS_RemoveElement, FS_CardinalityType
<1> QED
  BY <1>1, CountSubset

(* What is counted is finite.                                              *)
LEMMA Finite ==
    ASSUME RegistryOK, RoomOK, LateOK, NEW a
    PROVE  /\ IsFiniteSet(EntriesOf(a)) /\ IsFiniteSet(LateRegisters(a)) /\ IsFiniteSet(LatePosts(a))
           /\ IsFiniteSet({s \in DOMAIN room.log : room.log[s] = a})
<1>1. DOMAIN entries = 1..Len(entries) /\ Len(entries) \in Int
  BY DEF RegistryOK
<1>2. DOMAIN room.log = 1..Len(room.log) /\ Len(room.log) \in Int
  BY DEF RoomOK
<1>3. IsFiniteSet(DOMAIN entries) /\ IsFiniteSet(DOMAIN room.log) /\ 1 \in Int
  BY <1>1, <1>2, FS_Interval
<1> QED
  BY <1>3, FS_Subset DEF EntriesOf, LateRegisters, LatePosts, LateOK

-----------------------------------------------------------------------------
(* The registry. *)

(* No entry loses a capability or a title, or comes back.                  *)
Grows ==
    /\ entries' \in Seq(EntrySet)
    /\ \A i \in DOMAIN entries :
          /\ i \in DOMAIN entries'
          /\ entries'[i].agent = entries[i].agent
          /\ Active(i)' => Active(i)
          /\ entries[i].capabilities \subseteq entries'[i].capabilities
          /\ entries[i].title = "expert" => entries'[i].title = "expert"

(* One entry is replaced.                                                  *)
LEMMA EntryReplaced ==
    ASSUME RegistryOK, NEW j \in DOMAIN entries, NEW f \in EntrySet, entries' = [entries EXCEPT ![j] = f],
           f.agent = entries[j].agent, f.status = "active" => Active(j),
           entries[j].capabilities \subseteq f.capabilities, entries[j].title = "expert" => f.title = "expert"
    PROVE  Grows /\ DOMAIN entries' = DOMAIN entries /\ entries'[j] = f
<1>1. entries \in Seq(EntrySet)
  BY DEF RegistryOK
<1>2. entries' \in Seq(EntrySet) /\ DOMAIN entries' = DOMAIN entries /\ entries'[j] = f
  BY <1>1
<1>3. \A i \in DOMAIN entries : i # j => entries'[i] = entries[i]
  BY <1>1
<1> QED
  BY <1>2, <1>3 DEF Grows, Active

(* An update merges.                                                       *)
LEMMA Updates ==
    ASSUME RegistryOK, NEW r, r.op = "update", r.urn \in DOMAIN entries,
           NEW value \in SUBSET {"own", "vetted"},
           r.capabilities = Marshal([mode |-> "append", value |-> value]),
           r.title \in {"nil", "expert"}, entries' = Effect(r)
    PROVE  /\ Grows /\ DOMAIN entries' = DOMAIN entries
           /\ value \subseteq entries'[r.urn].capabilities
           /\ r.title = "expert" => entries'[r.urn].title = "expert"
<1> DEFINE j == r.urn
           e == entries[j]
           t == IF r.title = "nil" THEN e.title ELSE r.title
           f == [e EXCEPT !.capabilities = e.capabilities \cup value, !.title = t]
<1>1. entries \in Seq(EntrySet) /\ e \in EntrySet /\ j \in DOMAIN entries
  BY DEF RegistryOK
<1>2. \A list : Patched(list, UnmarshalJSON(r.capabilities)) = list \cup value
  BY DEF Patched, UnmarshalJSON, Marshal
<1>3. entries' = [entries EXCEPT ![j] = f]
  <2>1. entries' = [entries EXCEPT ![j].capabilities = Patched(@, UnmarshalJSON(r.capabilities)),
                                   ![j].title = IF r.title = "nil" THEN @ ELSE r.title]
    BY DEF Effect
  <2> QED
    BY <1>1, <1>2, <2>1 DEF EntrySet
<1>4. /\ e.capabilities \cup value \in SUBSET {"own", "vetted"} /\ t \in {"", "expert"}
      /\ e.title = "expert" => t = "expert"
      /\ r.title = "expert" => t = "expert"
  BY <1>1 DEF EntrySet
<1> HIDE DEF t
<1>5. /\ f \in EntrySet /\ f.agent = e.agent /\ f.status = e.status
      /\ f.capabilities = e.capabilities \cup value /\ f.title = t
  BY <1>1, <1>4 DEF EntrySet
<1> HIDE DEF f
<1>6. f.status = "active" => Active(j)
  BY <1>5 DEF Active
<1>7. Grows /\ DOMAIN entries' = DOMAIN entries /\ entries'[j] = f
  BY <1>1, <1>3, <1>4, <1>5, <1>6, EntryReplaced
<1> QED
  BY <1>4, <1>5, <1>7

(* A new entry.                                                            *)
LEMMA Registers ==
    ASSUME RegistryOK, NEW r, r.op = "register", r.agent \in Agents, r.kind \in {"agent", "project"},
           entries' = Effect(r)
    PROVE  /\ Grows /\ DOMAIN entries' = DOMAIN entries \cup {Len(entries) + 1}
           /\ entries'[Len(entries) + 1].agent = r.agent
<1> DEFINE f == [agent |-> r.agent, kind |-> r.kind, status |-> "active",
                 title |-> "", capabilities |-> {}]
<1>1. entries' = Append(entries, f) /\ f \in EntrySet /\ f.agent = r.agent
  BY DEF Effect, EntrySet
<1> HIDE DEF f
<1>2. entries \in Seq(EntrySet) /\ Len(entries) \in Nat
  BY DEF RegistryOK
<1>3. /\ entries' \in Seq(EntrySet) /\ DOMAIN entries' = DOMAIN entries \cup {Len(entries) + 1}
      /\ entries'[Len(entries) + 1] = f /\ \A i \in DOMAIN entries : entries'[i] = entries[i]
  BY <1>1, <1>2
<1> QED
  BY <1>1, <1>3 DEF Grows, Active

(* Only a registration adds to an agent's active entries.                  *)
LEMMA SameEntries ==
    ASSUME Grows, DOMAIN entries' = DOMAIN entries, NEW a
    PROVE  EntriesOf(a)' \subseteq EntriesOf(a)
  BY DEF Grows, EntriesOf

(* What OnceOK survives: nothing new; an entry for the agent that asked;   *)
(* a registration without answer; and one handled late.                    *)
LEMMA OnceKept ==
    ASSUME RegistryOK, RoomOK, LateOK, NEW a \in Agents, OnceOK(a), NEW x, NEW y,
           \/ /\ EntriesOf(a)' \subseteq EntriesOf(a) /\ LateRegisters(a)' \subseteq LateRegisters(a)
              /\ unsure'[a] = unsure[a] /\ (pc'[a] = "register" => pc[a] = "register" \/ EntriesOf(a) = {})
           \/ /\ EntriesOf(a)' \subseteq EntriesOf(a) \cup {x} /\ LateRegisters(a)' \subseteq LateRegisters(a)
              /\ unsure'[a] = unsure[a] /\ pc[a] = "register" /\ pc'[a] # "register"
           \/ /\ EntriesOf(a)' \subseteq EntriesOf(a) /\ LateRegisters(a)' \subseteq LateRegisters(a) \cup {y}
              /\ unsure'[a] = unsure[a] + 1 /\ pc[a] = "register" /\ pc'[a] # "register"
           \/ /\ EntriesOf(a)' \subseteq EntriesOf(a) \cup {x}
              /\ y \in LateRegisters(a) /\ LateRegisters(a)' \subseteq LateRegisters(a) \ {y}
              /\ unsure'[a] = unsure[a] /\ pc'[a] = pc[a]
    PROVE  OnceOK(a)'
<1> DEFINE E == Cardinality(EntriesOf(a))
           F == Cardinality(EntriesOf(a)')
           L == Cardinality(LateRegisters(a))
           M == Cardinality(LateRegisters(a)')
           u == unsure[a]
<1>1. IsFiniteSet(EntriesOf(a)) /\ IsFiniteSet(LateRegisters(a)) /\ u \in Nat
  BY Finite DEF RegistryOK
<1>2. E \in Nat /\ L \in Nat
  BY <1>1, FS_CardinalityType
<1>3. E + L <= 1 + u /\ L <= u /\ (pc[a] = "register" => E + L <= u)
  BY DEF OnceOK, Registrations
<1>4. EntriesOf(a) = {} => E = 0
  BY FS_EmptySet
<1>5. EntriesOf(a)' \subseteq EntriesOf(a) => F \in Nat /\ F <= E
  BY <1>1, CountSubset
<1>6. EntriesOf(a)' \subseteq EntriesOf(a) \cup {x} => F \in Nat /\ F <= E + 1
  BY <1>1, CountAdd
<1>7. LateRegisters(a)' \subseteq LateRegisters(a) => M \in Nat /\ M <= L
  BY <1>1, CountSubset
<1>8. LateRegisters(a)' \subseteq LateRegisters(a) \cup {y} => M \in Nat /\ M <= L + 1
  BY <1>1, CountAdd
<1>9. y \in LateRegisters(a) /\ LateRegisters(a)' \subseteq LateRegisters(a) \ {y} => M \in Nat /\ M <= L - 1
  BY <1>1, CountRemove
<1> HIDE DEF E, F, L, M, u
<1>10. F + M <= 1 + unsure'[a] /\ M <= unsure'[a] /\ (pc'[a] = "register" => F + M <= unsure'[a])
  BY <1>1, <1>2, <1>3, <1>4, <1>5, <1>6, <1>7, <1>8, <1>9 DEF u
<1> QED
  BY <1>10 DEF OnceOK, Registrations, F, M

-----------------------------------------------------------------------------
(* What the registry and the group leave of each other.                    *)

(* A step in the group leaves what holds of the registry.                  *)
LEMMA RegistryFrame ==
    ASSUME IndInv, UNCHANGED <<entries, pc, urn, curated, unsure>>,
           \A a \in Agents : LateRegisters(a)' \subseteq LateRegisters(a)
    PROVE  RegistryInv'
<1>1. RegistryOK'
  BY DEF IndInv, RegistryInv, RegistryOK
<1>2. UpdatesKept'
  BY DEF IndInv, RegistryInv, UpdatesKept, Onboarded
<1>3. ASSUME NEW a \in Agents PROVE OnceOK(a)'
  <2>1. EntriesOf(a)' = EntriesOf(a)
    BY DEF EntriesOf, Active
  <2> QED
    BY <2>1, OnceKept DEF IndInv, RegistryInv, RoomInv
<1> QED
  BY <1>1, <1>2, <1>3 DEF RegistryInv

(* A step in the registry leaves what holds of the group.                  *)
LEMMA RoomFrame ==
    ASSUME IndInv, UNCHANGED <<room, post, retries, device, fetched>>,
           \A a \in Agents : LatePosts(a)' \subseteq LatePosts(a)
    PROVE  RoomInv'
<1>1. RoomOK' /\ ReadMeansFetched' /\ OwnerStays' /\ DevicesJoined'
  BY DEF IndInv, RoomInv, RoomOK, ReadMeansFetched, OwnerStays, Member, DevicesJoined
<1>2. \A d \in Devices : DeviceOK(d)'
  BY DEF IndInv, RoomInv, DeviceOK
<1>3. ASSUME NEW a \in Agents PROVE PostOK(a)'
  <2>1. /\ IsFiniteSet(LatePosts(a)) /\ IsFiniteSet({s \in DOMAIN room.log : room.log[s] = a})
        /\ retries[a] \in Nat
    BY Finite DEF IndInv, RegistryInv, RoomInv, RoomOK
  <2>2. /\ Cardinality(LatePosts(a)) \in Nat /\ Cardinality(LatePosts(a)') \in Nat
        /\ Cardinality(LatePosts(a)') <= Cardinality(LatePosts(a))
    BY <2>1, CountSubset
  <2>3. Copies(a)' = Copies(a) /\ Copies(a) \in Nat
    BY <2>1, FS_CardinalityType DEF Copies
  <2>4. PostOK(a)
    BY DEF IndInv, RoomInv
  <2>5. Posts(a)' <= retries[a] + (IF post[a] = "sent" THEN 1 ELSE 0)
    BY <2>1, <2>2, <2>3, <2>4 DEF PostOK, Posts
  <2> QED
    BY <2>3, <2>4, <2>5 DEF PostOK, Member
<1> QED
  BY <1>1, <1>2, <1>3 DEF RoomInv

(* Requests on their way stay well-formed, and so is one that is given up  *)
(* now.                                                                    *)
LEMMA LateKept ==
    ASSUME IndInv, DOMAIN entries \subseteq DOMAIN entries', room.status # "none" => room'.status # "none",
           \A a \in Agents : fetched[a] \subseteq fetched'[a], NEW r,
           \/ late' \subseteq late
           \/ /\ late' \subseteq late \cup {[request |-> r, nth |-> faults]}
              /\ RegistryRequest(r)' \/ GroupRequest(r)'
    PROVE  LateOK'
<1>1. IsFiniteSet(late) /\ \A l \in late : RegistryRequest(l.request) \/ GroupRequest(l.request)
  BY DEF IndInv, LateOK
<1>2. late' \subseteq late \cup {[request |-> r, nth |-> faults]}
  OBVIOUS
<1>3. IsFiniteSet(late')
  BY <1>1, <1>2, CountAdd
<1>4. ASSUME NEW q, RegistryRequest(q) PROVE RegistryRequest(q)'
  BY <1>4 DEF RegistryRequest
<1>5. ASSUME NEW q, GroupRequest(q) PROVE GroupRequest(q)'
  BY <1>5 DEF GroupRequest
<1>6. \A l \in late' : RegistryRequest(l.request)' \/ GroupRequest(l.request)'
  <2> SUFFICES ASSUME NEW l \in late' PROVE RegistryRequest(l.request)' \/ GroupRequest(l.request)'
    OBVIOUS
  <2>1. CASE l \in late
    BY <1>1, <1>4, <1>5, <2>1
  <2>2. CASE l \notin late
    <3>1. l.request = r /\ (RegistryRequest(r)' \/ GroupRequest(r)')
      BY <2>2
    <3> QED
      BY <3>1
  <2> QED
    BY <2>1, <2>2
<1> QED
  BY <1>3, <1>6 DEF LateOK

(* A request that fails, or is handled late, and whose it is.              *)
LEMMA LateCounts ==
    ASSUME NEW r, late' \subseteq late \cup {[request |-> r, nth |-> faults]}, NEW a
    PROVE  /\ LateRegisters(a)' \subseteq LateRegisters(a) \cup {[request |-> r, nth |-> faults]}
           /\ ~(r.op = "register" /\ r.agent = a) => LateRegisters(a)' \subseteq LateRegisters(a)
           /\ LatePosts(a)' \subseteq LatePosts(a) \cup {[request |-> r, nth |-> faults]}
           /\ ~(r.op = "post" /\ r.by = a) => LatePosts(a)' \subseteq LatePosts(a)
<1> DEFINE x == [request |-> r, nth |-> faults]
<1>2. x.request = r
  OBVIOUS
<1> HIDE DEF x
<1>3. late' \subseteq late \cup {x}
  BY DEF x
<1>4. /\ LateRegisters(a)' \subseteq LateRegisters(a) \cup {x}
      /\ ~(r.op = "register" /\ r.agent = a) => LateRegisters(a)' \subseteq LateRegisters(a)
      /\ LatePosts(a)' \subseteq LatePosts(a) \cup {x}
      /\ ~(r.op = "post" /\ r.by = a) => LatePosts(a)' \subseteq LatePosts(a)
  BY <1>2, <1>3 DEF LateRegisters, LatePosts
<1> QED
  BY <1>4 DEF x

-----------------------------------------------------------------------------
(* Steps in the registry. *)

RegistryOnly == UNCHANGED <<room, post, retries, device, fetched>>

(* What is left to show of such a step.                                    *)
LEMMA RegistryCloses ==
    ASSUME IndInv, RegistryOnly, RegistryInv', DOMAIN entries \subseteq DOMAIN entries', NEW r,
           \/ late' \subseteq late
           \/ late' \subseteq late \cup {[request |-> r, nth |-> faults]} /\ RegistryRequest(r)'
    PROVE  IndInv'
<1>1. LateOK'
  BY LateKept DEF RegistryOnly
<1>2. ASSUME NEW a \in Agents PROVE LatePosts(a)' \subseteq LatePosts(a)
  <2>1. CASE late' \subseteq late
    BY <2>1 DEF LatePosts
  <2>2. CASE late' \subseteq late \cup {[request |-> r, nth |-> faults]} /\ r.op # "post"
    BY <2>2, LateCounts
  <2> QED
    BY <2>1, <2>2 DEF RegistryRequest
<1>3. RoomInv'
  BY <1>2, RoomFrame DEF RegistryOnly
<1> QED
  BY <1>1, <1>3 DEF IndInv

(* UpdatesKept, where entries grow and nobody becomes ready.               *)
LEMMA UpdatesGrow ==
    ASSUME IndInv, Grows,
           \A a \in Agents : Onboarded(a)' =>
              \/ Onboarded(a) /\ urn'[a] = urn[a]
              \/ "own" \in entries'[urn'[a]].capabilities,
           \A i \in curated' :
              \/ i \in curated
              \/ "vetted" \in entries'[i].capabilities /\ entries'[i].title = "expert"
    PROVE  UpdatesKept'
<1>1. ASSUME NEW a \in Agents, Onboarded(a)' PROVE "own" \in entries'[urn'[a]].capabilities
  <2>1. CASE Onboarded(a) /\ urn'[a] = urn[a]
    <3>1. urn[a] \in DOMAIN entries /\ "own" \in entries[urn[a]].capabilities
      BY <2>1 DEF IndInv, RegistryInv, RegistryOK, UpdatesKept, Onboarded
    <3> QED
      BY <2>1, <3>1 DEF Grows
  <2> QED
    BY <1>1, <2>1
<1>2. ASSUME NEW i \in curated' PROVE "vetted" \in entries'[i].capabilities /\ entries'[i].title = "expert"
  <2>1. CASE i \in curated
    <3>1. i \in DOMAIN entries /\ "vetted" \in entries[i].capabilities /\ entries[i].title = "expert"
      BY <2>1 DEF IndInv, RegistryInv, RegistryOK, UpdatesKept
    <3> QED
      BY <3>1 DEF Grows
  <2> QED
    BY <1>2, <2>1
<1> QED
  BY <1>1, <1>2 DEF UpdatesKept

(* Entries that stay the same have lost nothing.                           *)
LEMMA SameGrows == ASSUME IndInv, entries' = entries PROVE Grows /\ DOMAIN entries' = DOMAIN entries
  BY DEF IndInv, RegistryInv, RegistryOK, Grows, Active

(* An agent learns something, or starts over.                              *)
LEMMA AgentReads ==
    ASSUME IndInv, RegistryOnly, UNCHANGED <<entries, late, curated, unsure>>, NEW m \in Agents,
           NEW label \in {"search", "register", "lookup", "update"}, NEW i \in Nat,
           pc' = [pc EXCEPT ![m] = label], urn' = [urn EXCEPT ![m] = i],
           label = "register" => EntriesOf(m) = {}, label = "update" => i \in DOMAIN entries
    PROVE  IndInv'
<1>0. RegistryOK
  BY DEF IndInv, RegistryInv
<1>1. RegistryOK'
  BY <1>0 DEF RegistryOK
<1>2. UpdatesKept'
  <2>1. \A a \in Agents : Onboarded(a)' => Onboarded(a) /\ urn'[a] = urn[a]
    BY <1>0 DEF RegistryOK, Onboarded
  <2> QED
    BY <2>1, SameGrows, UpdatesGrow
<1>3. ASSUME NEW a \in Agents PROVE OnceOK(a)'
  <2>1. EntriesOf(a)' = EntriesOf(a) /\ LateRegisters(a)' = LateRegisters(a) /\ unsure'[a] = unsure[a]
    BY DEF EntriesOf, Active, LateRegisters
  <2>2. pc'[a] = "register" => pc[a] = "register" \/ EntriesOf(a) = {}
    BY <1>0 DEF RegistryOK
  <2> QED
    BY <2>1, <2>2, OnceKept DEF IndInv, RegistryInv, RoomInv
<1>4. RegistryInv'
  BY <1>1, <1>2, <1>3 DEF RegistryInv
<1> QED
  BY <1>4, RegistryCloses

(* Search and LookupBy find what is there; Restart forgets it.             *)
LEMMA ReadStep ==
    ASSUME IndInv, RegistryOnly, NEW m \in Agents, Search(m) \/ LookupBy(m) \/ Restart(m)
    PROVE  IndInv'
<1>0. RegistryOK /\ UNCHANGED <<entries, late, curated, unsure>> /\ urn[m] \in Nat
  BY DEF IndInv, RegistryInv, RegistryOK, Search, LookupBy, Restart, Read, Goto, Own, rpcVars
<1>1. Goto(m, "search") \/ Goto(m, "lookup") => IndInv'
  <2>1. \A label : Goto(m, label) => pc' = [pc EXCEPT ![m] = label] /\ urn' = [urn EXCEPT ![m] = urn[m]]
    BY <1>0 DEF Goto, RegistryOK
  <2> QED
    BY <1>0, <2>1, AgentReads
<1>2. EntriesOf(m) = {} /\ Goto(m, "register") => IndInv'
  <2>1. Goto(m, "register") => pc' = [pc EXCEPT ![m] = "register"] /\ urn' = [urn EXCEPT ![m] = urn[m]]
    BY <1>0 DEF Goto, RegistryOK
  <2> QED
    BY <1>0, <2>1, AgentReads
<1>3. ASSUME NEW i \in EntriesOf(m), Own(m, i) PROVE IndInv'
  <2>1. i \in DOMAIN entries /\ i \in Nat
    BY <1>0 DEF EntriesOf, RegistryOK
  <2> QED
    BY <1>0, <1>3, <2>1, AgentReads DEF Own
<1>4. CASE Search(m)
  <2>1. SearchKey(Kind[m]) = Plural[Kind[m]]
    BY RegistryAssumption DEF SearchKey, registryPluralSegment, Plural
  <2> QED
    BY <1>1, <1>2, <1>3, <1>4, <2>1 DEF Search, Read
<1>5. CASE LookupBy(m)
  BY <1>1, <1>2, <1>3, <1>5 DEF LookupBy, LookupByKey, Read
<1>6. CASE Restart(m)
  BY <1>0, <1>6, AgentReads DEF Restart
<1> QED
  BY <1>4, <1>5, <1>6

(* A registration that is answered, and one that is not.                   *)
LEMMA RegisterStep ==
    ASSUME IndInv, RegistryOnly, NEW m \in Agents, Register(m)
    PROVE  IndInv'
<1> DEFINE r == [op |-> "register", agent |-> m, kind |-> Kind[m]]
           x == [request |-> r, nth |-> faults]
           n == Len(entries) + 1
<1>0. RegistryOK /\ pc[m] = "register" /\ curated' = curated /\ n \in Nat
  BY DEF IndInv, RegistryInv, RegistryOK, Register
<1>1. r.op = "register" /\ r.agent = m /\ r.kind \in {"agent", "project"} /\ RegistryRequest(r)'
  BY RegistryAssumption DEF RegistryRequest
<1>2. \/ entries' = Effect(r) /\ Own(m, n) /\ UNCHANGED rpcVars
      \/ /\ CallFails(r) /\ unsure' = [unsure EXCEPT ![m] = @ + 1]
         /\ pc' = [pc EXCEPT ![m] = "lookup"] /\ UNCHANGED <<entries, urn>>
  BY DEF Register
<1> HIDE DEF r
<1>3. CASE entries' = Effect(r) /\ Own(m, n) /\ UNCHANGED rpcVars
  <2>1. Grows /\ DOMAIN entries' = DOMAIN entries \cup {n} /\ entries'[n].agent = m
    BY <1>0, <1>1, <1>3, Registers
  <2>2. /\ pc' = [pc EXCEPT ![m] = "update"] /\ urn' = [urn EXCEPT ![m] = n]
        /\ unsure' = unsure /\ late' = late
    BY <1>3 DEF Own, rpcVars
  <2> HIDE DEF n
  <2>3. RegistryOK'
    BY <1>0, <2>1, <2>2 DEF RegistryOK, Grows
  <2>4. UpdatesKept'
    <3>1. \A a \in Agents : Onboarded(a)' => Onboarded(a) /\ urn'[a] = urn[a]
      BY <1>0, <2>2 DEF RegistryOK, Onboarded
    <3> QED
      BY <1>0, <2>1, <3>1, UpdatesGrow
  <2>5. ASSUME NEW a \in Agents PROVE OnceOK(a)'
    <3>1. /\ EntriesOf(a)' \subseteq EntriesOf(a) \cup {n} /\ LateRegisters(a)' = LateRegisters(a)
          /\ unsure'[a] = unsure[a]
      BY <2>1, <2>2 DEF EntriesOf, Grows, LateRegisters
    <3>2. CASE a = m
      <4>1. pc'[a] # "register" /\ pc[a] = "register"
        BY <1>0, <2>2, <3>2 DEF RegistryOK
      <4> QED
        BY <3>1, <4>1, OnceKept DEF IndInv, RegistryInv, RoomInv
    <3>3. CASE a # m
      <4>1. EntriesOf(a)' \subseteq EntriesOf(a) /\ pc'[a] = pc[a]
        BY <1>0, <2>1, <2>2, <3>3 DEF EntriesOf, Grows, RegistryOK
      <4> QED
        BY <3>1, <4>1, OnceKept DEF IndInv, RegistryInv, RoomInv
    <3> QED
      BY <3>2, <3>3
  <2>6. RegistryInv'
    BY <2>3, <2>4, <2>5 DEF RegistryInv
  <2> QED
    BY <2>1, <2>2, <2>6, RegistryCloses
<1>4. CASE /\ CallFails(r) /\ unsure' = [unsure EXCEPT ![m] = @ + 1]
           /\ pc' = [pc EXCEPT ![m] = "lookup"] /\ UNCHANGED <<entries, urn>>
  <2>1. late' \subseteq late \cup {x}
    BY <1>4 DEF CallFails
  <2>2. RegistryOK'
    BY <1>0, <1>4 DEF RegistryOK
  <2>3. UpdatesKept'
    <3>1. \A a \in Agents : Onboarded(a)' => Onboarded(a) /\ urn'[a] = urn[a]
      BY <1>0, <1>4 DEF RegistryOK, Onboarded
    <3> QED
      BY <1>0, <1>4, <3>1, SameGrows, UpdatesGrow
  <2>4. ASSUME NEW a \in Agents PROVE OnceOK(a)'
    <3>1. EntriesOf(a)' = EntriesOf(a)
      BY <1>4 DEF EntriesOf, Active
    <3>2. CASE a = m
      <4>1. pc'[a] # "register" /\ pc[a] = "register" /\ unsure'[a] = unsure[a] + 1
        BY <1>0, <1>4, <3>2 DEF RegistryOK
      <4>2. LateRegisters(a)' \subseteq LateRegisters(a) \cup {x}
        BY <2>1, LateCounts
      <4> HIDE DEF x
      <4> QED
        BY <3>1, <4>1, <4>2, OnceKept DEF IndInv, RegistryInv, RoomInv
    <3>3. CASE a # m
      <4>1. pc'[a] = pc[a] /\ unsure'[a] = unsure[a]
        BY <1>0, <1>4, <3>3 DEF RegistryOK
      <4>2. LateRegisters(a)' \subseteq LateRegisters(a)
        BY <1>1, <2>1, <3>3, LateCounts
      <4> QED
        BY <3>1, <4>1, <4>2, OnceKept DEF IndInv, RegistryInv, RoomInv
    <3> QED
      BY <3>2, <3>3
  <2>5. RegistryInv'
    BY <2>2, <2>3, <2>4 DEF RegistryInv
  <2> QED
    BY <1>1, <1>4, <2>1, <2>5, RegistryCloses
<1> QED
  BY <1>2, <1>3, <1>4

(* The registry goes on without registering anybody.                       *)
LEMMA NobodyRegisters ==
    ASSUME IndInv, RegistryOnly, Grows, DOMAIN entries' = DOMAIN entries, NEW r,
           \/ late' \subseteq late
           \/ /\ late' \subseteq late \cup {[request |-> r, nth |-> faults]}
              /\ RegistryRequest(r)' /\ r.op # "register",
           UNCHANGED <<urn, unsure>>, curated' \subseteq DOMAIN entries,
           pc' \in [Agents -> {"search", "register", "lookup", "update", "ready"}],
           \A a \in Agents : pc'[a] = pc[a] \/ (pc[a] = "update" /\ pc'[a] = "ready"),
           UpdatesKept'
    PROVE  IndInv'
<1>1. RegistryOK'
  BY DEF IndInv, RegistryInv, RegistryOK, Grows
<1>2. ASSUME NEW a \in Agents PROVE OnceOK(a)'
  <2>1. EntriesOf(a)' \subseteq EntriesOf(a)
    BY SameEntries
  <2>2. LateRegisters(a)' \subseteq LateRegisters(a)
    <3>1. CASE late' \subseteq late
      BY <3>1 DEF LateRegisters
    <3>2. CASE late' \subseteq late \cup {[request |-> r, nth |-> faults]} /\ r.op # "register"
      BY <3>2, LateCounts
    <3> QED
      BY <3>1, <3>2
  <2> QED
    BY <2>1, <2>2, OnceKept DEF IndInv, RegistryInv, RoomInv
<1>3. RegistryInv'
  BY <1>1, <1>2 DEF RegistryInv
<1> QED
  BY <1>3, RegistryCloses

(* An agent publishes its capabilities, or tries to.                       *)
LEMMA UpdateSelfStep ==
    ASSUME IndInv, RegistryOnly, NEW m \in Agents, UpdateSelf(m)
    PROVE  IndInv'
<1>u. PICK r : r = Update(urn[m], [mode |-> "append", value |-> {"own"}], "nil")
  OBVIOUS
<1>0. /\ RegistryOK /\ pc[m] = "update" /\ curated' = curated /\ urn[m] \in DOMAIN entries
      /\ curated \subseteq DOMAIN entries
  BY DEF IndInv, RegistryInv, RegistryOK, UpdateSelf
<1>1. /\ r.op = "update" /\ r.urn = urn[m] /\ r.title = "nil"
      /\ r.capabilities = Marshal([mode |-> "append", value |-> {"own"}])
  BY <1>u DEF Update
<1>2. \/ entries' = Effect(r) /\ Goto(m, "ready") /\ UNCHANGED rpcVars
      \/ CallFails(r) /\ Goto(m, "update") /\ UNCHANGED entries
  BY <1>u DEF UpdateSelf
<1>3. CASE entries' = Effect(r) /\ Goto(m, "ready") /\ UNCHANGED rpcVars
  <2>1. {"own"} \in SUBSET {"own", "vetted"} /\ r.title \in {"nil", "expert"} /\ r.urn \in DOMAIN entries
    BY <1>0, <1>1
  <2>2. Grows /\ DOMAIN entries' = DOMAIN entries /\ {"own"} \subseteq entries'[urn[m]].capabilities
    BY <1>0, <1>1, <1>3, <2>1, Updates
  <2>3. pc' = [pc EXCEPT ![m] = "ready"] /\ UNCHANGED <<urn, unsure, late>>
    BY <1>3 DEF Goto, rpcVars
  <2>4. /\ pc' \in [Agents -> {"search", "register", "lookup", "update", "ready"}]
        /\ \A a \in Agents : pc'[a] = pc[a] \/ (pc[a] = "update" /\ pc'[a] = "ready")
    BY <1>0, <2>3 DEF RegistryOK
  <2>5. UpdatesKept'
    <3>1. \A a \in Agents : Onboarded(a)' => Onboarded(a) \/ a = m
      BY <1>0, <2>3 DEF RegistryOK, Onboarded
    <3> QED
      BY <1>0, <2>2, <2>3, <3>1, UpdatesGrow
  <2> QED
    BY <1>0, <2>2, <2>3, <2>4, <2>5, NobodyRegisters
<1>4. CASE CallFails(r) /\ Goto(m, "update") /\ UNCHANGED entries
  <2>1. late' \subseteq late \cup {[request |-> r, nth |-> faults]}
    BY <1>4 DEF CallFails
  <2>2. RegistryRequest(r)' /\ r.op # "register"
    BY <1>0, <1>1, <1>4 DEF RegistryRequest
  <2>3. UNCHANGED <<pc, urn, unsure>>
    BY <1>0, <1>4 DEF Goto, RegistryOK
  <2>4. UpdatesKept'
    BY <1>0, <1>4, <2>3 DEF IndInv, RegistryInv, UpdatesKept, Onboarded
  <2> QED
    BY <1>0, <1>4, <2>1, <2>2, <2>3, <2>4, SameGrows, NobodyRegisters DEF RegistryOK
<1> QED
  BY <1>2, <1>3, <1>4

(* The curator's update, answered or not.                                  *)
LEMMA CurateStep ==
    ASSUME IndInv, RegistryOnly, NEW i \in DOMAIN entries, Curate(i)
    PROVE  IndInv'
<1> DEFINE r == Update(i, [mode |-> "append", value |-> {"vetted"}], "expert")
<1>0. RegistryOK /\ UNCHANGED <<pc, urn, unsure>> /\ curated \subseteq DOMAIN entries
  BY DEF IndInv, RegistryInv, RegistryOK, Curate
<1>1. /\ r.op = "update" /\ r.urn = i /\ r.title = "expert"
      /\ r.capabilities = Marshal([mode |-> "append", value |-> {"vetted"}])
  BY DEF Update
<1>2. \/ entries' = Effect(r) /\ curated' = curated \cup {i} /\ UNCHANGED rpcVars
      \/ CallFails(r) /\ UNCHANGED <<entries, curated>>
  BY DEF Curate
<1> HIDE DEF r
<1>3. CASE entries' = Effect(r) /\ curated' = curated \cup {i} /\ UNCHANGED rpcVars
  <2>1. {"vetted"} \in SUBSET {"own", "vetted"} /\ r.title \in {"nil", "expert"} /\ r.urn \in DOMAIN entries
    BY <1>0, <1>1
  <2>2. /\ Grows /\ DOMAIN entries' = DOMAIN entries /\ {"vetted"} \subseteq entries'[i].capabilities
        /\ entries'[i].title = "expert"
    BY <1>0, <1>1, <1>3, <2>1, Updates
  <2>3. UpdatesKept'
    BY <1>0, <1>3, <2>2, UpdatesGrow DEF Onboarded
  <2> QED
    BY <1>0, <1>3, <2>2, <2>3, NobodyRegisters DEF RegistryOK, rpcVars
<1>4. CASE CallFails(r) /\ UNCHANGED <<entries, curated>>
  <2>1. late' \subseteq late \cup {[request |-> r, nth |-> faults]}
    BY <1>4 DEF CallFails
  <2>2. RegistryRequest(r)' /\ r.op # "register"
    BY <1>0, <1>1, <1>4 DEF RegistryRequest
  <2>3. UpdatesKept'
    BY <1>0, <1>4 DEF IndInv, RegistryInv, UpdatesKept, Onboarded
  <2> QED
    BY <1>0, <1>4, <2>1, <2>2, <2>3, SameGrows, NobodyRegisters DEF RegistryOK
<1> QED
  BY <1>2, <1>3, <1>4

(* The curator's Merge and Deregister.                                     *)
LEMMA StatusStep ==
    ASSUME IndInv, RegistryOnly, NEW i \in DOMAIN entries,
           Deregister(i) \/ \E k \in DOMAIN entries : Merge(k, i)
    PROVE  IndInv'
<1>0. RegistryOK /\ UNCHANGED <<late, pc, urn, curated, unsure>> /\ curated \subseteq DOMAIN entries
  BY DEF IndInv, RegistryInv, RegistryOK, Deregister, Merge, rpcVars
<1>1. PICK status \in {"merged", "deprecated"} : entries' = [entries EXCEPT ![i].status = status]
  BY DEF Deregister, Merge, Effect
<1> DEFINE e == entries[i]
           f == [e EXCEPT !.status = status]
<1>2. entries \in Seq(EntrySet) /\ e \in EntrySet
  BY <1>0 DEF RegistryOK
<1>3. /\ f \in EntrySet /\ f.agent = e.agent /\ f.status = status
      /\ f.capabilities = e.capabilities /\ f.title = e.title
  BY <1>2 DEF EntrySet
<1>4. entries' = [entries EXCEPT ![i] = f]
  BY <1>1, <1>2
<1> HIDE DEF f
<1>5. Grows /\ DOMAIN entries' = DOMAIN entries
  BY <1>0, <1>3, <1>4, EntryReplaced
<1>6. UpdatesKept'
  BY <1>0, <1>5, UpdatesGrow DEF Onboarded
<1> QED
  BY <1>0, <1>5, <1>6, NobodyRegisters DEF RegistryOK

(* A registration or an update that its caller gave up.                    *)
LEMMA RegistryLateStep ==
    ASSUME IndInv, RegistryOnly, NEW l \in late, InRegistry(l), RegistryLate(l)
    PROVE  IndInv'
<1> DEFINE r == l.request
<1>0. /\ RegistryOK /\ UNCHANGED <<pc, urn, curated, unsure>> /\ curated \subseteq DOMAIN entries
      /\ entries' = Effect(r) /\ late' = late \ {l}
  BY DEF IndInv, RegistryInv, RegistryOK, RegistryLate, HandledLate
<1>1. RegistryRequest(r)
  BY DEF InRegistry, IndInv, LateOK, GroupRequest
<1>2. CASE r.op = "update"
  <2>1. PICK value \in SUBSET {"own", "vetted"} :
            r.capabilities = Marshal([mode |-> "append", value |-> value])
    BY <1>1, <1>2 DEF RegistryRequest
  <2>2. r.urn \in DOMAIN entries /\ r.title \in {"nil", "expert"}
    BY <1>1, <1>2 DEF RegistryRequest
  <2> HIDE DEF r
  <2>3. Grows /\ DOMAIN entries' = DOMAIN entries
    BY <1>0, <1>2, <2>1, <2>2, Updates
  <2>4. UpdatesKept'
    BY <1>0, <2>3, UpdatesGrow DEF Onboarded
  <2> QED
    BY <1>0, <2>3, <2>4, NobodyRegisters DEF RegistryOK
<1>3. CASE r.op = "register"
  <2> DEFINE n == Len(entries) + 1
  <2>0. r.agent \in Agents /\ r.kind \in {"agent", "project"}
    BY <1>1, <1>3 DEF RegistryRequest
  <2>1. Grows /\ DOMAIN entries' = DOMAIN entries \cup {n} /\ entries'[n].agent = r.agent
    BY <1>0, <1>3, <2>0, Registers
  <2> HIDE DEF n
  <2>2. RegistryOK'
    BY <1>0, <2>1 DEF RegistryOK, Grows
  <2>3. UpdatesKept'
    BY <1>0, <2>1, UpdatesGrow DEF Onboarded
  <2>4. ASSUME NEW a \in Agents PROVE OnceOK(a)'
    <3>1. CASE a = r.agent
      <4>1. /\ EntriesOf(a)' \subseteq EntriesOf(a) \cup {n}
            /\ l \in LateRegisters(a) /\ LateRegisters(a)' \subseteq LateRegisters(a) \ {l}
        BY <1>0, <1>3, <2>1, <3>1 DEF EntriesOf, Grows, LateRegisters
      <4> QED
        BY <1>0, <4>1, OnceKept DEF IndInv, RegistryInv, RoomInv
    <3>2. CASE a # r.agent
      <4>1. EntriesOf(a)' \subseteq EntriesOf(a) /\ LateRegisters(a)' \subseteq LateRegisters(a)
        BY <1>0, <2>1, <3>2 DEF EntriesOf, Grows, LateRegisters
      <4> QED
        BY <1>0, <4>1, OnceKept DEF IndInv, RegistryInv, RoomInv
    <3> QED
      BY <3>1, <3>2
  <2>5. RegistryInv'
    BY <2>2, <2>3, <2>4 DEF RegistryInv
  <2> QED
    BY <1>0, <2>1, <2>5, RegistryCloses
<1> QED
  BY <1>1, <1>2, <1>3 DEF RegistryRequest

-----------------------------------------------------------------------------
(* The group. *)

GroupOnly == UNCHANGED <<entries, pc, urn, curated, unsure>>

RoomSet ==
    [status : {"none", "open", "archived"}, role : [Agents -> Roles],
     read : [Agents -> Nat], log : Seq(Agents)]

LogOf(a) == {s \in DOMAIN room.log : room.log[s] = a}

(* What is left to show of a step in the group.                            *)
LEMMA GroupCloses ==
    ASSUME IndInv, GroupOnly, RoomInv', room.status # "none" => room'.status # "none",
           \A a \in Agents : fetched[a] \subseteq fetched'[a], NEW r,
           \/ late' \subseteq late
           \/ late' \subseteq late \cup {[request |-> r, nth |-> faults]} /\ GroupRequest(r)'
    PROVE  IndInv'
<1>1. LateOK'
  BY LateKept DEF GroupOnly
<1>2. ASSUME NEW a \in Agents PROVE LateRegisters(a)' \subseteq LateRegisters(a)
  <2>1. CASE late' \subseteq late
    BY <2>1 DEF LateRegisters
  <2>2. CASE late' \subseteq late \cup {[request |-> r, nth |-> faults]} /\ r.op # "register"
    BY <2>2, LateCounts
  <2> QED
    BY <2>1, <2>2 DEF GroupRequest
<1>3. RegistryInv'
  BY <1>2, RegistryFrame DEF GroupOnly
<1> QED
  BY <1>1, <1>3 DEF IndInv

(* How a message and its requests are counted: nothing new; a post that    *)
(* was answered; one that was not; and one handled late.                   *)
LEMMA PostKept ==
    ASSUME IndInv, NEW a \in Agents, NEW x, NEW y,
           \/ /\ LogOf(a)' = LogOf(a) /\ LatePosts(a)' \subseteq LatePosts(a)
              /\ retries'[a] = retries[a] /\ (post'[a] = "sent" <=> post[a] = "sent")
           \/ /\ LogOf(a)' = LogOf(a) \cup {x} /\ LatePosts(a)' \subseteq LatePosts(a)
              /\ retries'[a] = retries[a] /\ post[a] # "sent" /\ post'[a] = "sent"
           \/ /\ LogOf(a)' = LogOf(a) /\ LatePosts(a)' \subseteq LatePosts(a) \cup {y}
              /\ retries'[a] = retries[a] + 1 /\ post'[a] = post[a]
           \/ /\ LogOf(a)' = LogOf(a) \cup {x}
              /\ y \in LatePosts(a) /\ LatePosts(a)' \subseteq LatePosts(a) \ {y}
              /\ retries'[a] = retries[a] /\ post'[a] = post[a]
    PROVE  /\ Posts(a)' <= retries'[a] + (IF post'[a] = "sent" THEN 1 ELSE 0)
           /\ post'[a] = "sent" => Copies(a)' > 0
<1> DEFINE C == Cardinality(LogOf(a))
           D == Cardinality(LogOf(a)')
           L == Cardinality(LatePosts(a))
           M == Cardinality(LatePosts(a)')
           n == retries[a]
<1>1. IsFiniteSet(LogOf(a)) /\ IsFiniteSet(LatePosts(a)) /\ n \in Nat
  BY Finite DEF IndInv, RegistryInv, RoomInv, RoomOK, LogOf
<1>2. C \in Nat /\ L \in Nat
  BY <1>1, FS_CardinalityType
<1>3. C = Copies(a) /\ D = Copies(a)' /\ C + L = Posts(a) /\ D + M = Posts(a)'
  BY DEF Copies, LogOf, Posts
<1>4. C + L <= n + (IF post[a] = "sent" THEN 1 ELSE 0) /\ (post[a] = "sent" => C > 0)
  BY <1>3 DEF IndInv, RoomInv, PostOK
<1>5. LogOf(a)' = LogOf(a) => D = C
  OBVIOUS
<1>6. LogOf(a)' = LogOf(a) \cup {x} => D \in Nat /\ D <= C + 1 /\ D > 0
  <2> SUFFICES ASSUME LogOf(a)' = LogOf(a) \cup {x} PROVE D \in Nat /\ D <= C + 1 /\ D > 0
    OBVIOUS
  <2>1. IsFiniteSet(LogOf(a)') /\ D \in Nat /\ D <= C + 1
    BY <1>1, CountAdd
  <2>2. D # 0
    BY <2>1, FS_EmptySet
  <2> QED
    BY <2>1, <2>2
<1>7. LatePosts(a)' \subseteq LatePosts(a) => M \in Nat /\ M <= L
  BY <1>1, CountSubset
<1>8. LatePosts(a)' \subseteq LatePosts(a) \cup {y} => M \in Nat /\ M <= L + 1
  BY <1>1, CountAdd
<1>9. y \in LatePosts(a) /\ LatePosts(a)' \subseteq LatePosts(a) \ {y} => M \in Nat /\ M <= L - 1
  BY <1>1, CountRemove
<1> HIDE DEF C, D, L, M, n
<1>10. D + M <= retries'[a] + (IF post'[a] = "sent" THEN 1 ELSE 0) /\ (post'[a] = "sent" => D > 0)
  BY <1>1, <1>2, <1>4, <1>5, <1>6, <1>7, <1>8, <1>9 DEF n
<1> QED
  BY <1>3, <1>10

(* A field of the room is replaced: the roles.                             *)
LEMMA RoleReplaced ==
    ASSUME NEW R \in RoomSet, NEW role \in [Agents -> Roles], NEW S, S = [R EXCEPT !.role = role]
    PROVE  /\ S \in RoomSet /\ S.status = R.status /\ S.role = role
           /\ S.read = R.read /\ S.log = R.log
  BY DEF RoomSet

(* A cursor.                                                               *)
LEMMA ReadReplaced ==
    ASSUME NEW R \in RoomSet, NEW read \in [Agents -> Nat], NEW S, S = [R EXCEPT !.read = read]
    PROVE  /\ S \in RoomSet /\ S.status = R.status /\ S.role = R.role
           /\ S.read = read /\ S.log = R.log
  BY DEF RoomSet

(* The log.                                                                *)
LEMMA LogReplaced ==
    ASSUME NEW R \in RoomSet, NEW log \in Seq(Agents), NEW S, S = [R EXCEPT !.log = log]
    PROVE  /\ S \in RoomSet /\ S.status = R.status /\ S.role = R.role
           /\ S.read = R.read /\ S.log = log
  BY DEF RoomSet

(* The status.                                                             *)
LEMMA StatusReplaced ==
    ASSUME NEW R \in RoomSet, NEW status \in {"open", "archived"}, NEW S, S = [R EXCEPT !.status = status]
    PROVE  /\ S \in RoomSet /\ S.status = status /\ S.role = R.role
           /\ S.read = R.read /\ S.log = R.log
  BY DEF RoomSet

(* The alternatives of RoomEffect for a request of the group.              *)
Adds(r) ==
    r.op = "add" /\ room' = [room EXCEPT !.role = [room.role EXCEPT ![r.by] = r.role],
                                        !.read = [room.read EXCEPT ![r.by] = 0]]
Changes(r) ==
    r.op \in {"role", "leave"} /\ room' = [room EXCEPT !.role = [room.role EXCEPT ![r.by] = r.role]]
Appends(r) == r.op = "post" /\ room' = [room EXCEPT !.log = Append(room.log, r.by)]
Raises(r) ==
    /\ r.op = "read"
    /\ room' = [room EXCEPT !.read =
                    [room.read EXCEPT ![r.by] = IF room.read[r.by] < r.upTo THEN r.upTo ELSE room.read[r.by]]]
Ignores(r) == room' = room /\ ~(r.op = "post" /\ Status(r) = 201)

(* An answer other than a success leaves the room alone.                   *)
LEMMA OnlyOk ==
    ASSUME NEW r, r.op \in {"add", "role", "leave", "post", "read", "list"}
    PROVE  /\ Status(r) = Ok(r) <=> Status(r) \in {200, 201}
           /\ Status(r) # Ok(r) => RoomEffect(r) = room
<1>1. Status(r) = Ok(r) <=> Status(r) \in {200, 201}
  BY DEF Status, Ok
<1> QED
  BY <1>1 DEF RoomEffect

(* The daemon handles a request in one of these ways.                      *)
LEMMA HandledAs ==
    ASSUME NEW r, r.op \in {"add", "role", "leave", "post", "read", "list"}, room' = RoomEffect(r)
    PROVE  Adds(r) \/ Changes(r) \/ Appends(r) \/ Raises(r) \/ Ignores(r)
<1> DEFINE st == Status(r)
<1>0. r.op \notin {"create", "archive"}
  OBVIOUS
<1>1. CASE st \notin {200, 201}
  <2>1. room' = room
    BY <1>1 DEF RoomEffect
  <2> QED
    BY <1>1, <2>1 DEF Ignores
<1>2. CASE st \in {200, 201}
  <2>1. r.op = "add" => Adds(r) \/ Ignores(r)
    BY <1>0, <1>2 DEF RoomEffect, Ignores, Adds
  <2>2. r.op \in {"role", "leave"} => Changes(r)
    BY <1>0, <1>2 DEF RoomEffect, Changes
  <2>3. r.op = "post" => Appends(r)
    BY <1>0, <1>2 DEF RoomEffect, Appends
  <2>4. r.op = "read" => Raises(r)
    BY <1>0, <1>2 DEF RoomEffect, Raises
  <2>5. r.op = "list" => Ignores(r)
    BY <1>0, <1>2 DEF RoomEffect, Ignores
  <2> QED
    BY <2>1, <2>2, <2>3, <2>4, <2>5
<1> QED
  BY <1>1, <1>2

(* What the daemon does to the room for a request.                         *)
LEMMA Handled ==
    ASSUME IndInv, NEW r, GroupRequest(r), room' = RoomEffect(r)
    PROVE  /\ room' \in RoomSet /\ room'.status = room.status
           /\ room'.role[Owner] # "none"
           /\ \A a \in Agents : 1..room'.read[a] \subseteq fetched[a]
           /\ room'.log = room.log \/ (r.op = "post" /\ room'.log = Append(room.log, r.by))
           /\ r.op = "post" /\ Status(r) = 201 => room'.log = Append(room.log, r.by)
<1>0. /\ room \in RoomSet /\ r.by \in Agents /\ room.status # "none" /\ Owner \in Agents
      /\ room.role[Owner] # "none" /\ \A a \in Agents : 1..room.read[a] \subseteq fetched[a]
      /\ r.op \in {"add", "role", "leave", "post", "read", "list"}
  BY GroupsAssumption
     DEF IndInv, RoomInv, RoomOK, RoomSet, GroupRequest, OwnerStays, Member, ReadMeansFetched
<1>1. room.role \in [Agents -> Roles] /\ room.read \in [Agents -> Nat] /\ room.log \in Seq(Agents)
  BY <1>0 DEF RoomSet
<1>2. CASE Adds(r)
  <2> DEFINE role == [room.role EXCEPT ![r.by] = r.role]
             read == [room.read EXCEPT ![r.by] = 0]
  <2>1. r.role \in Roles /\ r.role # "none" /\ r.op = "add"
    BY <1>2 DEF GroupRequest, Adds
  <2>2. /\ role \in [Agents -> Roles] /\ read \in [Agents -> Nat] /\ role[Owner] # "none"
        /\ \A a \in Agents : 1..read[a] \subseteq fetched[a]
    BY <1>0, <1>1, <2>1
  <2>3. PICK R : R = [room EXCEPT !.role = role] /\ room' = [R EXCEPT !.read = read]
    BY <1>2 DEF Adds
  <2> HIDE DEF role, read
  <2>4. room' \in RoomSet /\ room'.status = room.status /\ room'.role = role /\ room'.read = read
        /\ room'.log = room.log
    <3>1. R \in RoomSet /\ R.status = room.status /\ R.role = role /\ R.read = room.read
          /\ R.log = room.log
      BY <1>0, <2>2, <2>3, RoleReplaced
    <3>2. read \in [Agents -> Nat] /\ room' = [R EXCEPT !.read = read]
      BY <2>2, <2>3
    <3>3. room' \in RoomSet /\ room'.status = R.status /\ room'.role = R.role /\ room'.read = read
          /\ room'.log = R.log
      BY <3>1, <3>2, ReadReplaced
    <3> QED
      BY <3>1, <3>3
  <2> QED
    BY <2>1, <2>2, <2>4
<1>3. CASE Changes(r)
  <2> DEFINE role == [room.role EXCEPT ![r.by] = r.role]
  <2>1. r.role \in Roles /\ (r.role # "none" \/ r.by # Owner) /\ r.op # "post"
    BY <1>3 DEF GroupRequest, Roles, Changes
  <2>2. role \in [Agents -> Roles] /\ role[Owner] # "none"
    BY <1>0, <1>1, <2>1
  <2>3. room' = [room EXCEPT !.role = role]
    BY <1>3 DEF Changes
  <2> HIDE DEF role
  <2>4. room' \in RoomSet /\ room'.status = room.status /\ room'.role = role /\ room'.read = room.read
        /\ room'.log = room.log
    BY <1>0, <2>2, <2>3, RoleReplaced
  <2> QED
    BY <1>0, <2>1, <2>2, <2>4
<1>4. CASE Appends(r)
  <2> DEFINE log == Append(room.log, r.by)
  <2>1. log \in Seq(Agents) /\ r.op = "post" /\ room' = [room EXCEPT !.log = log]
    BY <1>0, <1>1, <1>4 DEF Appends
  <2> HIDE DEF log
  <2>2. room' \in RoomSet /\ room'.status = room.status /\ room'.role = room.role
        /\ room'.read = room.read /\ room'.log = log
    BY <1>0, <2>1, LogReplaced
  <2> QED
    BY <1>0, <2>1, <2>2 DEF log
<1>5. CASE Raises(r)
  <2> DEFINE seq == IF room.read[r.by] < r.upTo THEN r.upTo ELSE room.read[r.by]
             read == [room.read EXCEPT ![r.by] = seq]
  <2>1. r.upTo \in Nat /\ 1..r.upTo \subseteq fetched[r.by] /\ r.op = "read"
    BY <1>5 DEF GroupRequest, Raises
  <2>2. seq \in Nat /\ 1..seq \subseteq fetched[r.by]
    BY <1>0, <1>1, <2>1
  <2>3. room' = [room EXCEPT !.read = read]
    BY <1>5 DEF Raises
  <2> HIDE DEF seq
  <2>4. read \in [Agents -> Nat] /\ \A a \in Agents : 1..read[a] \subseteq fetched[a]
    BY <1>0, <1>1, <2>2
  <2> HIDE DEF read
  <2>5. room' \in RoomSet /\ room'.status = room.status /\ room'.role = room.role
        /\ room'.read = read /\ room'.log = room.log
    BY <1>0, <2>3, <2>4, ReadReplaced
  <2> QED
    BY <1>0, <2>1, <2>4, <2>5
<1>6. CASE Ignores(r)
  BY <1>0, <1>6 DEF Ignores
<1>7. Adds(r) \/ Changes(r) \/ Appends(r) \/ Raises(r) \/ Ignores(r)
  BY <1>0, HandledAs
<1> QED
  BY <1>2, <1>3, <1>4, <1>5, <1>6, <1>7
(* PostOK of everybody, where nothing is posted.                           *)
LEMMA NobodyPosts ==
    ASSUME IndInv, UNCHANGED <<post, retries>>, room'.log = room.log,
           \A a \in Agents : LatePosts(a)' \subseteq LatePosts(a),
           room.status = "archived" => room'.status = "archived",
           room.status # "none" => room'.status # "none",
           \A a \in Agents : room'.role[a] # "none" => room.role[a] # "none" \/ room'.status # "none"
    PROVE  \A a \in Agents : PostOK(a)'
<1> SUFFICES ASSUME NEW a \in Agents PROVE PostOK(a)'
  OBVIOUS
<1>1. LogOf(a)' = LogOf(a)
  BY DEF LogOf
<1>2. /\ Posts(a)' <= retries'[a] + (IF post'[a] = "sent" THEN 1 ELSE 0)
      /\ post'[a] = "sent" => Copies(a)' > 0
  BY <1>1, PostKept
<1>3. PostOK(a)
  BY DEF IndInv, RoomInv
<1> QED
  BY <1>2, <1>3 DEF PostOK, Member

(* A request that posts nothing: handled, failed or neither.               *)
LEMMA RequestStep ==
    ASSUME IndInv, GroupOnly, UNCHANGED <<post, retries>>, NEW r,
           \/ UNCHANGED <<room, late>>
           \/ GroupRequest(r) /\ r.op # "post" /\ room' = RoomEffect(r) /\ late' \subseteq late
           \/ GroupRequest(r) /\ r.op # "post" /\ UNCHANGED room
              /\ late' \subseteq late \cup {[request |-> r, nth |-> faults]},
           device' \in [Devices -> [what : {"start", "list", "mark"}, since : Nat, upTo : Nat]],
           fetched' \in [Agents -> SUBSET Nat],
           \A a \in Agents : fetched[a] \subseteq fetched'[a],
           \A d \in Devices : DeviceOK(d)',
           room.status # "none" \/ \A d \in Devices : device'[d].what # "start" => device[d].what # "start"
    PROVE  IndInv'
<1>0. /\ room \in RoomSet /\ \A a \in Agents : 1..room.read[a] \subseteq fetched[a]
      /\ room.status # "none" => room.role[Owner] # "none"
  BY DEF IndInv, RoomInv, RoomOK, RoomSet, ReadMeansFetched, OwnerStays, Member
<1>1. /\ room' \in RoomSet /\ room'.status = room.status /\ room'.log = room.log
      /\ \A a \in Agents : 1..room'.read[a] \subseteq fetched[a]
      /\ room.status # "none" => room'.role[Owner] # "none"
      /\ room' = room \/ room.status # "none"
  <2>1. CASE room' = room
    BY <1>0, <2>1
  <2>2. CASE GroupRequest(r) /\ r.op # "post" /\ room' = RoomEffect(r)
    BY <2>2, Handled DEF GroupRequest
  <2> QED
    BY <2>1, <2>2
<1>2. RoomOK'
  BY <1>1 DEF IndInv, RoomInv, RoomOK, RoomSet
<1>3. ReadMeansFetched' /\ OwnerStays' /\ DevicesJoined'
  <2>1. \A a \in Agents : 1..room'.read[a] \subseteq fetched'[a]
    BY <1>1
  <2>2. \A d \in Devices : device[d].what # "start" => room.status # "none"
    BY DEF IndInv, RoomInv, DevicesJoined
  <2>3. \A d \in Devices : device'[d].what # "start" => room'.status # "none"
    BY <1>1, <2>2
  <2> QED
    BY <1>1, <2>1, <2>3 DEF ReadMeansFetched, OwnerStays, Member, DevicesJoined
<1>4. ASSUME NEW a \in Agents PROVE LatePosts(a)' \subseteq LatePosts(a)
  <2>1. CASE late' \subseteq late
    BY <2>1 DEF LatePosts
  <2>2. CASE late' \subseteq late \cup {[request |-> r, nth |-> faults]} /\ r.op # "post"
    BY <2>2, LateCounts
  <2> QED
    BY <2>1, <2>2
<1>5. \A a \in Agents : PostOK(a)'
  BY <1>1, <1>4, NobodyPosts
<1>6. RoomInv'
  BY <1>2, <1>3, <1>5 DEF RoomInv
<1>7. GroupRequest(r) => GroupRequest(r)'
  BY <1>1 DEF GroupRequest
<1>8. \/ late' \subseteq late
      \/ late' \subseteq late \cup {[request |-> r, nth |-> faults]} /\ GroupRequest(r)'
  BY <1>7
<1> QED
  BY <1>1, <1>6, <1>8, GroupCloses

(* The devices stay as they are.                                           *)
LEMMA DevicesStay ==
    ASSUME IndInv, UNCHANGED <<device, fetched>>
    PROVE  /\ device' \in [Devices -> [what : {"start", "list", "mark"}, since : Nat, upTo : Nat]]
           /\ fetched' \in [Agents -> SUBSET Nat]
           /\ \A a \in Agents : fetched[a] \subseteq fetched'[a]
           /\ \A d \in Devices : DeviceOK(d)'
<1>1. \A d \in Devices : DeviceOK(d)'
  BY DEF IndInv, RoomInv, DeviceOK
<1> QED
  BY <1>1 DEF IndInv, RoomInv, RoomOK

(* AddMember, SetMemberRole, RemoveMember and Leave.                       *)
LEMMA MemberStep ==
    ASSUME IndInv, GroupOnly, NEW m \in Agents, AddMember(m) \/ SetMemberRole(m) \/ RemoveMember(m)
    PROVE  IndInv'
<1>0. /\ UNCHANGED <<post, retries, device, fetched>> /\ room.status # "none"
  BY DEF AddMember, SetMemberRole, RemoveMember, Do, Same
<1>1. CASE AddMember(m)
  <2>1. PICK r : r = [op |-> "add", by |-> m, role |-> "member"]
    OBVIOUS
  <2>2. GroupRequest(r) /\ r.op # "post"
    BY <1>0, <2>1 DEF GroupRequest, Roles
  <2>3. Do(r, Same, Same, Same)
    BY <1>1, <2>1 DEF AddMember
  <2>4. \/ room' = RoomEffect(r) /\ late' \subseteq late
        \/ UNCHANGED <<room, late>>
        \/ UNCHANGED room /\ late' \subseteq late \cup {[request |-> r, nth |-> faults]}
    BY <2>1, <2>3, OnlyOk DEF Do, CallFails, rpcVars
  <2> QED
    BY <1>0, <2>2, <2>4, DevicesStay, RequestStep
<1>2. CASE SetMemberRole(m)
  <2>1. PICK r : r = [op |-> "role", by |-> m, role |-> "moderator"]
    OBVIOUS
  <2>2. GroupRequest(r) /\ r.op # "post"
    BY <1>0, <2>1 DEF GroupRequest, Roles
  <2>3. Do(r, Same, Same, Same)
    BY <1>2, <2>1 DEF SetMemberRole
  <2>4. \/ room' = RoomEffect(r) /\ late' \subseteq late
        \/ UNCHANGED <<room, late>>
        \/ UNCHANGED room /\ late' \subseteq late \cup {[request |-> r, nth |-> faults]}
    BY <2>1, <2>3, OnlyOk DEF Do, CallFails, rpcVars
  <2> QED
    BY <1>0, <2>2, <2>4, DevicesStay, RequestStep
<1>3. CASE RemoveMember(m)
  <2>1. PICK r : r = [op |-> "leave", by |-> m, role |-> "none"]
    OBVIOUS
  <2>2. GroupRequest(r) /\ r.op # "post"
    BY <1>0, <1>3, <2>1 DEF GroupRequest, RemoveMember
  <2>3. \/ room' = RoomEffect(r) /\ late' \subseteq late
        \/ UNCHANGED room /\ late' \subseteq late \cup {[request |-> r, nth |-> faults]}
    BY <1>3, <2>1 DEF RemoveMember
  <2> QED
    BY <1>0, <2>2, <2>3, DevicesStay, RequestStep
<1> QED
  BY <1>1, <1>2, <1>3
(* Create and Archive.                                                     *)
LEMMA CreateStep ==
    ASSUME IndInv, GroupOnly, Create \/ Archive
    PROVE  IndInv'
<1>0. UNCHANGED <<post, retries, device, fetched, late>>
  BY DEF Create, Archive, Same
<1>1. /\ room \in RoomSet /\ \A a \in Agents : 1..room.read[a] \subseteq fetched[a]
      /\ room.status # "none" => room.role[Owner] # "none"
      /\ room.role \in [Agents -> Roles] /\ Owner \in Agents
  BY GroupsAssumption DEF IndInv, RoomInv, RoomOK, RoomSet, ReadMeansFetched, OwnerStays, Member
<1>2. CASE room' = room
  BY <1>0, <1>2, DevicesStay, RequestStep
<1>3. ASSUME room' \in RoomSet, room'.status # "none", room'.read = room.read, room'.log = room.log,
             room'.role[Owner] # "none", room.status = "archived" => room'.status = "archived"
      PROVE  IndInv'
  <2>1. RoomOK' /\ ReadMeansFetched' /\ OwnerStays' /\ DevicesJoined'
    BY <1>0, <1>1, <1>3
       DEF IndInv, RoomInv, RoomOK, RoomSet, ReadMeansFetched, OwnerStays, Member, DevicesJoined
  <2>2. \A a \in Agents : LatePosts(a)' \subseteq LatePosts(a)
    BY <1>0 DEF LatePosts
  <2>3. \A a \in Agents : PostOK(a)'
    BY <1>0, <1>3, <2>2, NobodyPosts
  <2>4. RoomInv'
    BY <1>0, <2>1, <2>3, DevicesStay DEF RoomInv
  <2> QED
    BY <1>0, <1>3, <2>4, GroupCloses
<1>4. CASE Create /\ room' # room
  <2>1. PICK r : r = [op |-> "create", by |-> Owner]
    OBVIOUS
  <2>2. r.op = "create" /\ r.by = Owner
    BY <2>1
  <2>3. room' = RoomEffect(r) /\ room.status = "none"
    BY <1>4, <2>1 DEF Create
  <2> DEFINE role == [room.role EXCEPT ![Owner] = "owner"]
  <2>4. role \in [Agents -> Roles] /\ role[Owner] = "owner"
    BY <1>1 DEF Roles
  <2>5. Status(r) = 201
    BY <2>2 DEF Status
  <2>6. room' = [room EXCEPT !.status = "open", !.role[Owner] = "owner"]
    BY <2>2, <2>3, <2>5 DEF RoomEffect
  <2>7. PICK R : R = [room EXCEPT !.status = "open"] /\ room' = [R EXCEPT !.role = [R.role EXCEPT ![Owner] = "owner"]]
    BY <2>6
  <2>8. R \in RoomSet /\ R.status = "open" /\ R.role = room.role /\ R.read = room.read /\ R.log = room.log
    BY <1>1, <2>7, StatusReplaced
  <2>9. room' = [R EXCEPT !.role = role]
    BY <2>7, <2>8
  <2> HIDE DEF role
  <2>10. /\ room' \in RoomSet /\ room'.status = R.status /\ room'.role = role
         /\ room'.read = R.read /\ room'.log = R.log
    BY <2>4, <2>8, <2>9, RoleReplaced
  <2> QED
    BY <1>3, <2>3, <2>4, <2>8, <2>10
<1>5. CASE Archive /\ room' # room
  <2>1. PICK r : r = [op |-> "archive", by |-> Owner]
    OBVIOUS
  <2>2. r.op = "archive" /\ room' = RoomEffect(r) /\ room.status = "open"
    BY <1>5, <2>1 DEF Archive
  <2>3. room' = [room EXCEPT !.status = "archived"]
    BY <1>5, <2>2 DEF RoomEffect
  <2>4. /\ room' \in RoomSet /\ room'.status = "archived" /\ room'.role = room.role
        /\ room'.read = room.read /\ room'.log = room.log
    BY <1>1, <2>3, StatusReplaced
  <2> QED
    BY <1>1, <1>3, <2>2, <2>4
<1> QED
  BY <1>2, <1>4, <1>5

(* One device goes on.                                                     *)
LEMMA DeviceGoesOn ==
    ASSUME IndInv, NEW d \in Devices, NEW what \in {"start", "list", "mark"}, NEW since \in Nat, NEW upTo \in Nat,
           device' = [device EXCEPT ![d] = [what |-> what, since |-> since, upTo |-> upTo]],
           \A a \in Agents : fetched[a] \subseteq fetched'[a],
           1..upTo \subseteq fetched'[Reader[d]],
           since > 0 => 1..(since - 1) \subseteq fetched'[Reader[d]]
    PROVE  /\ device' \in [Devices -> [what : {"start", "list", "mark"}, since : Nat, upTo : Nat]]
           /\ \A e \in Devices : DeviceOK(e)'
           /\ \A e \in Devices : e # d => device'[e] = device[e]
           /\ device'[d].what = what
<1> DEFINE D == [what : {"start", "list", "mark"}, since : Nat, upTo : Nat]
           n == [what |-> what, since |-> since, upTo |-> upTo]
<1>1. device \in [Devices -> D] /\ n \in D /\ n.what = what /\ n.since = since /\ n.upTo = upTo
  BY DEF IndInv, RoomInv, RoomOK
<1>2. device' = [device EXCEPT ![d] = n]
  OBVIOUS
<1> HIDE DEF D, n
<1>3. device' \in [Devices -> D] /\ device'[d] = n /\ \A e \in Devices : e # d => device'[e] = device[e]
  BY <1>1, <1>2
<1>4. ASSUME NEW e \in Devices PROVE DeviceOK(e)'
  <2>1. CASE e = d
    BY <1>1, <1>3, <2>1 DEF DeviceOK
  <2>2. CASE e # d
    <3>1. DeviceOK(e) /\ device'[e] = device[e] /\ Reader[e] \in Agents
      BY <1>3, <2>2, GroupsAssumption DEF IndInv, RoomInv
    <3> QED
      BY <3>1 DEF DeviceOK
  <2> QED
    BY <2>1, <2>2
<1> QED
  BY <1>1, <1>3, <1>4 DEF D
(* A device asks for something or restarts: the request, and what becomes  *)
(* of the device.                                                          *)
LEMMA DeviceStep ==
    ASSUME IndInv, GroupOnly, NEW d \in Devices, NEW r,
           \/ UNCHANGED <<room, late>>
           \/ GroupRequest(r) /\ r.op # "post" /\ room' = RoomEffect(r) /\ late' \subseteq late
           \/ GroupRequest(r) /\ r.op # "post" /\ UNCHANGED room
              /\ late' \subseteq late \cup {[request |-> r, nth |-> faults]},
           fetched' \in [Agents -> SUBSET Nat],
           \A a \in Agents : fetched[a] \subseteq fetched'[a],
           NEW what \in {"start", "list", "mark"}, NEW since \in Nat, NEW upTo \in Nat,
           Device(d, what, since, upTo),
           room.status # "none" \/ what = "start",
           1..upTo \subseteq fetched'[Reader[d]],
           since > 0 => 1..(since - 1) \subseteq fetched'[Reader[d]]
    PROVE  IndInv'
<1>1. /\ device' = [device EXCEPT ![d] = [what |-> what, since |-> since, upTo |-> upTo]]
      /\ UNCHANGED <<post, retries>>
  BY DEF Device
<1>2. /\ device' \in [Devices -> [what : {"start", "list", "mark"}, since : Nat, upTo : Nat]]
      /\ \A e \in Devices : DeviceOK(e)'
      /\ \A e \in Devices : e # d => device'[e] = device[e]
      /\ device'[d].what = what
  BY <1>1, DeviceGoesOn
<1>3. room.status # "none" \/ \A e \in Devices : device'[e].what # "start" => device[e].what # "start"
  BY <1>2
<1> QED
  BY <1>1, <1>2, <1>3, RequestStep

(* A device learns the member's cursor and starts behind it.               *)
LEMMA ListMembersStep ==
    ASSUME IndInv, GroupOnly, NEW d \in Devices, ListMembers(d)
    PROVE  IndInv'
<1> DEFINE seq == room.read[Reader[d]]
           since == IF seq = 0 THEN 0 ELSE seq + 1
<1>1. Reader[d] \in Agents /\ room.status # "none" /\ seq \in Nat /\ 1..seq \subseteq fetched[Reader[d]]
  BY GroupsAssumption DEF IndInv, RoomInv, RoomOK, PostOK, ReadMeansFetched, ListMembers
<1>2. PICK r : r = [op |-> "list", by |-> Reader[d]]
  OBVIOUS
<1>3. GroupRequest(r) /\ r.op # "post"
  BY <1>1, <1>2 DEF GroupRequest
<1>4. Do(r, Device(d, "list", since, 0) /\ UNCHANGED fetched, Same, Same)
  BY <1>2 DEF ListMembers
<1>5. since \in Nat /\ (since > 0 => 1..(since - 1) \subseteq fetched[Reader[d]])
  BY <1>1
<1>6. PICK k \in Nat : k = since
  BY <1>5
<1> HIDE DEF since
<1>7. \/ room' = RoomEffect(r) /\ late' = late /\ Device(d, "list", k, 0) /\ UNCHANGED fetched
      \/ UNCHANGED <<room, late>> /\ Same
      \/ UNCHANGED room /\ late' \subseteq late \cup {[request |-> r, nth |-> faults]} /\ Same
  BY <1>1, <1>2, <1>4, <1>6, OnlyOk DEF Do, CallFails, rpcVars
<1>8. CASE Same
  BY <1>3, <1>7, <1>8, DevicesStay, RequestStep DEF Same
<1>9. CASE room' = RoomEffect(r) /\ late' = late /\ Device(d, "list", k, 0) /\ UNCHANGED fetched
  <2>1. /\ fetched' \in [Agents -> SUBSET Nat] /\ \A a \in Agents : fetched[a] \subseteq fetched'[a]
        /\ k > 0 => 1..(k - 1) \subseteq fetched'[Reader[d]]
        /\ 1..0 \subseteq fetched'[Reader[d]]
    BY <1>5, <1>6, <1>9 DEF IndInv, RoomInv, RoomOK
  <2> QED
    BY <1>1, <1>3, <1>9, <2>1, DeviceStep
<1> QED
  BY <1>7, <1>8, <1>9

(* A page is what follows the messages that the device has, without a gap. *)
LEMMA PageFollows ==
    ASSUME IndInv, NEW d \in Devices, NEW last, Page(SinceParam(device[d].since)) # {},
           last = CHOOSE s \in Page(SinceParam(device[d].since)) :
                      \A t \in Page(SinceParam(device[d].since)) : t <= s
    PROVE  last \in Nat /\ 1..last \subseteq fetched[Reader[d]] \cup Page(SinceParam(device[d].since))
<1> DEFINE since == SinceParam(device[d].since)
           n == Len(room.log)
<1>1. /\ since \in Nat \ {0} /\ n \in Nat /\ DOMAIN room.log = 1..n
      /\ Limit \in Nat \ {0} /\ 1..(since - 1) \subseteq fetched[Reader[d]]
  <2>1. /\ device[d].since \in Nat /\ room.log \in Seq(Agents)
        /\ device[d].since > 0 => 1..(device[d].since - 1) \subseteq fetched[Reader[d]]
    BY DEF IndInv, RoomInv, RoomOK, DeviceOK
  <2>2. since \in Nat \ {0} /\ 1..(since - 1) \subseteq fetched[Reader[d]]
    BY <2>1 DEF SinceParam
  <2>3. n \in Nat /\ DOMAIN room.log = 1..n
    BY <2>1
  <2> QED
    BY <2>2, <2>3, GroupsAssumption
<1>2. Page(since) = {s \in 1..n : since <= s /\ s < since + Limit}
  BY <1>1 DEF Page
<1> HIDE DEF since, n
<1>3. Page(since) # {} /\ last = CHOOSE s \in Page(since) : \A t \in Page(since) : t <= s
  BY DEF since
<1>4. \E s \in Page(since) : \A t \in Page(since) : t <= s
  <2>1. CASE since + Limit - 1 <= n
    <3>1. since + Limit - 1 \in Page(since)
      BY <1>1, <1>2, <2>1
    <3>2. \A t \in Page(since) : t <= since + Limit - 1
      BY <1>1, <1>2
    <3> QED
      BY <3>1, <3>2
  <2>2. CASE ~(since + Limit - 1 <= n)
    <3>1. n \in Page(since)
      BY <1>1, <1>2, <1>3, <2>2
    <3>2. \A t \in Page(since) : t <= n
      BY <1>1, <1>2
    <3> QED
      BY <3>1, <3>2
  <2> QED
    BY <2>1, <2>2
<1>5. last \in Page(since)
  BY <1>3, <1>4
<1>6. ASSUME NEW s \in 1..last PROVE s \in fetched[Reader[d]] \cup Page(since)
  <2>1. CASE s < since
    BY <1>1, <1>2, <1>5, <2>1
  <2>2. CASE s >= since
    BY <1>1, <1>2, <1>5, <2>2
  <2> QED
    BY <1>1, <1>2, <1>5, <2>1, <2>2
<1>7. last \in Nat
  BY <1>1, <1>2, <1>5
<1>8. 1..last \subseteq fetched[Reader[d]] \cup Page(since)
  BY <1>6
<1> QED
  BY <1>7, <1>8 DEF since

(* A device gets a page, an empty page, a refusal or no answer.            *)
LEMMA ListMessagesStep ==
    ASSUME IndInv, GroupOnly, NEW d \in Devices, ListMessages(d)
    PROVE  IndInv'
<1> DEFINE q == Page(SinceParam(device[d].since))
           z == CHOOSE s \in q : \A t \in q : t <= s
<1>1. Reader[d] \in Agents /\ room.status # "none"
  BY GroupsAssumption DEF IndInv, RoomInv, DevicesJoined, ListMessages
<1>2. PICK r : r = [op |-> "list", by |-> Reader[d]]
  OBVIOUS
<1>3. GroupRequest(r) /\ r.op # "post"
  BY <1>1, <1>2 DEF GroupRequest
<1>4. Do(r, /\ fetched' = [fetched EXCEPT ![Reader[d]] = @ \cup q]
            /\ IF q = {} THEN UNCHANGED <<device, post, retries>> ELSE Device(d, "mark", z + 1, z),
            Device(d, "start", 0, 0) /\ UNCHANGED fetched, Same)
  BY <1>2 DEF ListMessages
<1>5. PICK page : page = q
  OBVIOUS
<1>6. PICK last : last = z
  OBVIOUS
<1>7. page # {} => last \in Nat /\ 1..last \subseteq fetched[Reader[d]] \cup page
  BY <1>5, <1>6, PageFollows
<1>8. page \subseteq Nat
  BY <1>5 DEF Page, IndInv, RoomInv, RoomOK
<1> HIDE DEF q, z
<1>9. \/ /\ room' = RoomEffect(r) /\ late' = late
         /\ fetched' = [fetched EXCEPT ![Reader[d]] = @ \cup page]
         /\ IF page = {} THEN UNCHANGED <<device, post, retries>> ELSE Device(d, "mark", last + 1, last)
      \/ UNCHANGED <<room, late>> /\ Device(d, "start", 0, 0) /\ UNCHANGED fetched
      \/ UNCHANGED room /\ late' \subseteq late \cup {[request |-> r, nth |-> faults]} /\ Same
  BY <1>2, <1>4, <1>5, <1>6, OnlyOk DEF Do, CallFails, rpcVars
<1>10. CASE Same /\ UNCHANGED room /\ late' \subseteq late \cup {[request |-> r, nth |-> faults]}
  BY <1>3, <1>10, DevicesStay, RequestStep DEF Same
<1>11. CASE UNCHANGED <<room, late>> /\ Device(d, "start", 0, 0) /\ UNCHANGED fetched
  <2>1. /\ fetched' \in [Agents -> SUBSET Nat] /\ \A a \in Agents : fetched[a] \subseteq fetched'[a]
        /\ 1..0 \subseteq fetched'[Reader[d]]
    BY <1>11 DEF IndInv, RoomInv, RoomOK
  <2> QED
    BY <1>11, <2>1, DeviceStep
<1>12. CASE /\ room' = RoomEffect(r) /\ late' = late
            /\ fetched' = [fetched EXCEPT ![Reader[d]] = @ \cup page]
            /\ IF page = {} THEN UNCHANGED <<device, post, retries>> ELSE Device(d, "mark", last + 1, last)
  <2>1. fetched \in [Agents -> SUBSET Nat]
    BY DEF IndInv, RoomInv, RoomOK
  <2>2. /\ fetched' \in [Agents -> SUBSET Nat] /\ \A a \in Agents : fetched[a] \subseteq fetched'[a]
        /\ fetched'[Reader[d]] = fetched[Reader[d]] \cup page
    BY <1>1, <1>8, <1>12, <2>1
  <2>3. CASE page = {}
    <3>1. fetched' = fetched
      BY <1>1, <1>12, <2>1, <2>3
    <3>2. UNCHANGED <<device, post, retries>>
      BY <1>12, <2>3
    <3> QED
      BY <1>3, <1>12, <3>1, <3>2, DevicesStay, RequestStep
  <2>4. CASE page # {}
    <3>1. Device(d, "mark", last + 1, last) /\ last \in Nat /\ last + 1 \in Nat /\ (last + 1) - 1 = last
      BY <1>7, <1>12, <2>4
    <3>2. 1..last \subseteq fetched'[Reader[d]]
      BY <1>7, <2>2, <2>4
    <3>3. PICK k \in Nat : k = last + 1
      BY <3>1
    <3> QED
      BY <1>1, <1>3, <1>12, <2>2, <3>1, <3>2, <3>3, DeviceStep
  <2> QED
    BY <2>3, <2>4
<1> QED
  BY <1>9, <1>10, <1>11, <1>12
(* The cursor is raised to what the device has got, at once or late.       *)
LEMMA MarkReadStep ==
    ASSUME IndInv, GroupOnly, NEW d \in Devices, MarkRead(d)
    PROVE  IndInv'
<1>1. /\ Reader[d] \in Agents /\ room.status # "none" /\ device[d].since \in Nat /\ device[d].upTo \in Nat
      /\ 1..device[d].upTo \subseteq fetched[Reader[d]]
      /\ device[d].since > 0 => 1..(device[d].since - 1) \subseteq fetched[Reader[d]]
  BY GroupsAssumption DEF IndInv, RoomInv, RoomOK, DeviceOK, DevicesJoined, MarkRead
<1>2. PICK r : r = [op |-> "read", by |-> Reader[d], upTo |-> device[d].upTo]
  OBVIOUS
<1>3. GroupRequest(r) /\ r.op # "post"
  BY <1>1, <1>2 DEF GroupRequest
<1>4. PICK k \in Nat : k = device[d].since
  BY <1>1
<1>5. Do(r, Device(d, "list", k, 0) /\ UNCHANGED fetched, Device(d, "start", 0, 0) /\ UNCHANGED fetched, Same)
  BY <1>2, <1>4 DEF MarkRead
<1>6. \/ room' = RoomEffect(r) /\ late' = late /\ Device(d, "list", k, 0) /\ UNCHANGED fetched
      \/ UNCHANGED <<room, late>> /\ Device(d, "start", 0, 0) /\ UNCHANGED fetched
      \/ UNCHANGED room /\ late' \subseteq late \cup {[request |-> r, nth |-> faults]} /\ Same
  BY <1>2, <1>5, OnlyOk DEF Do, CallFails, rpcVars
<1>7. CASE Same /\ UNCHANGED room /\ late' \subseteq late \cup {[request |-> r, nth |-> faults]}
  BY <1>3, <1>7, DevicesStay, RequestStep DEF Same
<1>8. CASE UNCHANGED fetched
  <2>1. /\ fetched' \in [Agents -> SUBSET Nat] /\ \A a \in Agents : fetched[a] \subseteq fetched'[a]
        /\ 1..0 \subseteq fetched'[Reader[d]] /\ (k > 0 => 1..(k - 1) \subseteq fetched'[Reader[d]])
    BY <1>1, <1>4, <1>8 DEF IndInv, RoomInv, RoomOK
  <2>2. CASE room' = RoomEffect(r) /\ late' = late /\ Device(d, "list", k, 0)
    BY <1>1, <1>3, <2>1, <2>2, DeviceStep
  <2>3. CASE UNCHANGED <<room, late>> /\ Device(d, "start", 0, 0)
    BY <2>1, <2>3, DeviceStep
  <2> QED
    BY <1>6, <1>7, <2>2, <2>3
<1> QED
  BY <1>6, <1>7, <1>8

(* A device forgets where it was.                                          *)
LEMMA RestartDeviceStep ==
    ASSUME IndInv, GroupOnly, NEW d \in Devices, RestartDevice(d)
    PROVE  IndInv'
<1>1. UNCHANGED <<late, room, fetched>> /\ Device(d, "start", 0, 0)
  BY DEF RestartDevice
<1>2. /\ fetched' \in [Agents -> SUBSET Nat] /\ \A a \in Agents : fetched[a] \subseteq fetched'[a]
      /\ 1..0 \subseteq fetched'[Reader[d]]
  BY <1>1 DEF IndInv, RoomInv, RoomOK
<1> QED
  BY <1>1, <1>2, DeviceStep

(* What is left to show of a step of a poster.                             *)
LEMMA PosterCloses ==
    ASSUME IndInv, GroupOnly, UNCHANGED <<device, fetched>>,
           room' \in RoomSet, room'.status = room.status,
           room.status # "none" => room'.role[Owner] # "none",
           \A a \in Agents : 1..room'.read[a] \subseteq fetched[a],
           post' \in [Agents -> {"none", "short", "full", "sent", "refused"}],
           retries' \in [Agents -> Nat],
           \A a \in Agents : PostOK(a)', NEW r,
           \/ late' \subseteq late
           \/ late' \subseteq late \cup {[request |-> r, nth |-> faults]} /\ GroupRequest(r)'
    PROVE  IndInv'
<1>1. RoomOK'
  BY DEF IndInv, RoomInv, RoomOK, RoomSet
<1>2. ReadMeansFetched' /\ OwnerStays' /\ DevicesJoined'
  BY DEF IndInv, RoomInv, ReadMeansFetched, OwnerStays, Member, DevicesJoined
<1>3. RoomInv'
  BY <1>1, <1>2, DevicesStay DEF RoomInv
<1> QED
  BY <1>3, GroupCloses

(* A message is appended to the log.                                       *)
LEMMA LogGrows ==
    ASSUME RoomOK, NEW m \in Agents, room'.log = Append(room.log, m)
    PROVE  /\ LogOf(m)' = LogOf(m) \cup {Len(room.log) + 1}
           /\ \A a \in Agents : a # m => LogOf(a)' = LogOf(a)
<1> DEFINE n == Len(room.log)
<1>1. room.log \in Seq(Agents) /\ n \in Nat /\ DOMAIN room.log = 1..n
  BY DEF RoomOK
<1>2. /\ DOMAIN room'.log = 1..(n + 1) /\ room'.log[n + 1] = m
      /\ \A i \in 1..n : room'.log[i] = room.log[i]
  BY <1>1
<1> HIDE DEF n
<1>3. \A a : LogOf(a) = {s \in 1..n : room.log[s] = a} /\ LogOf(a)' = {s \in 1..(n + 1) : room'.log[s] = a}
  BY <1>1, <1>2 DEF LogOf
<1>4. LogOf(m)' = LogOf(m) \cup {n + 1}
  <2>1. \A s : s \in LogOf(m)' <=> s \in 1..(n + 1) /\ room'.log[s] = m
    BY <1>3
  <2>2. \A s : s \in LogOf(m) <=> s \in 1..n /\ room.log[s] = m
    BY <1>3
  <2>3. \A s : s \in 1..(n + 1) <=> s \in 1..n \/ s = n + 1
    BY <1>1
  <2> QED
    BY <1>2, <2>1, <2>2, <2>3
<1>5. ASSUME NEW a \in Agents, a # m PROVE LogOf(a)' = LogOf(a)
  <2>1. \A s : s \in LogOf(a)' <=> s \in 1..(n + 1) /\ room'.log[s] = a
    BY <1>3
  <2>2. \A s : s \in LogOf(a) <=> s \in 1..n /\ room.log[s] = a
    BY <1>3
  <2>3. \A s : s \in 1..(n + 1) <=> s \in 1..n \/ s = n + 1
    BY <1>1
  <2> QED
    BY <1>2, <1>5, <2>1, <2>2, <2>3
<1> QED
  BY <1>4, <1>5 DEF n

(* Whoever is not concerned.                                               *)
LEMMA OthersPost ==
    ASSUME IndInv, NEW a \in Agents, LogOf(a)' = LogOf(a), LatePosts(a)' \subseteq LatePosts(a),
           retries'[a] = retries[a], post'[a] = post[a], room'.status = room.status,
           room'.role[a] # "none" => room.status # "none"
    PROVE  PostOK(a)'
<1>1. /\ Posts(a)' <= retries'[a] + (IF post'[a] = "sent" THEN 1 ELSE 0)
      /\ post'[a] = "sent" => Copies(a)' > 0
  BY PostKept
<1>2. PostOK(a)
  BY DEF IndInv, RoomInv
<1> QED
  BY <1>1, <1>2 DEF PostOK, Member

(* The group exists for whoever posts to it.                               *)
LEMMA PosterJoined ==
    ASSUME IndInv, NEW a \in Agents, post[a] # "none" \/ Member(a)
    PROVE  room.status # "none"
  BY DEF IndInv, RoomInv, PostOK

(* A member has something to post.                                         *)
LEMMA BeginPostStep ==
    ASSUME IndInv, GroupOnly, NEW m \in Agents, BeginPost(m)
    PROVE  IndInv'
<1>1. /\ post[m] = "none" /\ post' = [post EXCEPT ![m] = "short"]
      /\ UNCHANGED <<device, fetched, late, room, retries>> /\ room.status # "none"
  BY PosterJoined DEF BeginPost, Posting, rpcVars
<1>2. /\ room \in RoomSet /\ (room.status # "none" => room.role[Owner] # "none")
      /\ \A a \in Agents : 1..room.read[a] \subseteq fetched[a]
      /\ post \in [Agents -> {"none", "short", "full", "sent", "refused"}] /\ retries \in [Agents -> Nat]
  BY DEF IndInv, RoomInv, RoomOK, RoomSet, OwnerStays, Member, ReadMeansFetched
<1>3. /\ post' \in [Agents -> {"none", "short", "full", "sent", "refused"}] /\ post'[m] = "short"
      /\ \A a \in Agents : a # m => post'[a] = post[a]
  BY <1>1, <1>2
<1>4. ASSUME NEW a \in Agents PROVE PostOK(a)'
  <2>1. LogOf(a)' = LogOf(a) /\ LatePosts(a)' \subseteq LatePosts(a) /\ retries'[a] = retries[a]
    BY <1>1 DEF LogOf, LatePosts
  <2>2. CASE a # m
    BY <1>1, <1>3, <2>1, <2>2, OthersPost
  <2>3. CASE a = m
    <3>1. /\ Posts(a)' <= retries'[a] + (IF post'[a] = "sent" THEN 1 ELSE 0)
      BY <1>1, <1>3, <2>1, <2>3, PostKept
    <3> QED
      BY <1>1, <1>3, <2>3, <3>1 DEF PostOK
  <2> QED
    BY <2>2, <2>3
<1> QED
  BY <1>1, <1>2, <1>3, <1>4, PosterCloses
(* Who is refused: never the owner of an open group.                       *)
LEMMA RefusedFor ==
    ASSUME IndInv, NEW r, r.op = "post", r.by \in Agents, Status(r) \notin {200, 201},
           readGroupError(r) # "ambiguous", room.status # "none"
    PROVE  room.status = "archived" \/ r.by # Owner
<1> SUFFICES ASSUME room.status # "archived", r.by = Owner PROVE FALSE
  OBVIOUS
<1>1. Member(Owner)
  BY DEF IndInv, RoomInv, OwnerStays
<1>2. Status(r) = 400 /\ Ambiguous(r)
  BY <1>1 DEF Status
<1>3. Cardinality(Candidates(r.by)) > 1
  BY <1>2 DEF Ambiguous
<1>4. Candidates(r.by) # {}
  <2> SUFFICES ASSUME Candidates(r.by) = {} PROVE FALSE
    OBVIOUS
  <2>1. Cardinality(Candidates(r.by)) = 0
    BY FS_EmptySet
  <2> QED
    BY <1>3, <2>1
<1> QED
  BY <1>2, <1>4 DEF readGroupError

(* A Send that returned, that was refused, and that got no answer.         *)
LEMMA SendStep ==
    ASSUME IndInv, GroupOnly, NEW m \in Agents, Send(m)
    PROVE  IndInv'
<1>1. post[m] \in {"short", "full"} /\ room.status # "none"
  BY PosterJoined DEF Send
<1>2. PICK r : r = [op |-> "post", by |-> m, mention |-> post[m]]
  OBVIOUS
<1>3. r.op = "post" /\ r.by = m /\ GroupRequest(r)
  BY <1>1, <1>2 DEF GroupRequest
<1>4. Do(r, Posting(m, "sent") /\ UNCHANGED retries,
            Posting(m, IF readGroupError(r) = "ambiguous" THEN "full" ELSE "refused") /\ UNCHANGED retries,
            retries' = [retries EXCEPT ![m] = @ + 1] /\ UNCHANGED <<post, device, fetched>>)
  BY <1>2 DEF Send
<1>5. UNCHANGED <<device, fetched>>
  BY <1>4 DEF Do, Posting
<1>6. /\ room \in RoomSet /\ room.role[Owner] # "none"
      /\ \A a \in Agents : 1..room.read[a] \subseteq fetched[a]
      /\ post \in [Agents -> {"none", "short", "full", "sent", "refused"}] /\ retries \in [Agents -> Nat]
  BY <1>1 DEF IndInv, RoomInv, RoomOK, RoomSet, OwnerStays, Member, ReadMeansFetched
<1>7. CASE Status(r) \in {200, 201} /\ room' = RoomEffect(r) /\ UNCHANGED rpcVars
           /\ Posting(m, "sent") /\ UNCHANGED retries
  <2>1. post' = [post EXCEPT ![m] = "sent"] /\ late' = late
    BY <1>7 DEF Posting, rpcVars
  <2>2. /\ post' \in [Agents -> {"none", "short", "full", "sent", "refused"}] /\ post'[m] = "sent"
        /\ \A a \in Agents : a # m => post'[a] = post[a]
    BY <1>6, <2>1
  <2>3. Status(r) = 201
    BY <1>3, <1>7 DEF Status
  <2>4. /\ room' \in RoomSet /\ room'.status = room.status /\ room'.role[Owner] # "none"
        /\ \A a \in Agents : 1..room'.read[a] \subseteq fetched[a]
        /\ room'.log = Append(room.log, m)
    BY <1>3, <1>7, <2>3, Handled
  <2>5. /\ LogOf(m)' = LogOf(m) \cup {Len(room.log) + 1}
        /\ \A a \in Agents : a # m => LogOf(a)' = LogOf(a)
    BY <2>4, LogGrows DEF IndInv, RoomInv
  <2>6. ASSUME NEW a \in Agents PROVE PostOK(a)'
    <3>1. LatePosts(a)' \subseteq LatePosts(a)
      BY <2>1 DEF LatePosts
    <3>2. CASE a # m
      BY <1>1, <1>7, <2>2, <2>4, <2>5, <3>1, <3>2, OthersPost
    <3>3. CASE a = m
      <4>0. PICK x : LogOf(a)' = LogOf(a) \cup {x}
        BY <2>5, <3>3
      <4>2. retries'[a] = retries[a] /\ post[a] # "sent" /\ post'[a] = "sent"
        BY <1>1, <1>7, <2>2, <3>3
      <4>1. /\ Posts(a)' <= retries'[a] + (IF post'[a] = "sent" THEN 1 ELSE 0)
            /\ post'[a] = "sent" => Copies(a)' > 0
        BY <3>1, <4>0, <4>2, PostKept
      <4> QED
        BY <1>1, <2>2, <2>4, <3>3, <4>1 DEF PostOK
    <3> QED
      BY <3>2, <3>3
  <2> QED
    BY <1>5, <1>6, <1>7, <2>1, <2>2, <2>4, <2>6, PosterCloses
<1>8. CASE /\ Status(r) \notin {200, 201} /\ UNCHANGED <<room, rpcVars>>
           /\ Posting(m, IF readGroupError(r) = "ambiguous" THEN "full" ELSE "refused") /\ UNCHANGED retries
  <2>1. PICK label : label = IF readGroupError(r) = "ambiguous" THEN "full" ELSE "refused"
    OBVIOUS
  <2>2. post' = [post EXCEPT ![m] = label] /\ late' = late /\ room' = room
    BY <1>8, <2>1 DEF Posting, rpcVars
  <2>3. label \in {"full", "refused"} /\ (label = "refused" => room.status = "archived" \/ m # Owner)
    BY <1>1, <1>3, <1>8, <2>1, RefusedFor
  <2>4. /\ post' \in [Agents -> {"none", "short", "full", "sent", "refused"}] /\ post'[m] = label
        /\ \A a \in Agents : a # m => post'[a] = post[a]
    BY <1>6, <2>2, <2>3
  <2>5. ASSUME NEW a \in Agents PROVE PostOK(a)'
    <3>1. LatePosts(a)' \subseteq LatePosts(a) /\ LogOf(a)' = LogOf(a) /\ retries'[a] = retries[a]
      BY <1>8, <2>2 DEF LatePosts, LogOf
    <3>2. CASE a # m
      BY <1>1, <2>2, <2>4, <3>1, <3>2, OthersPost
    <3>3. CASE a = m
      <4>1. Posts(a)' <= retries'[a] + (IF post'[a] = "sent" THEN 1 ELSE 0)
        BY <1>1, <2>3, <2>4, <3>1, <3>3, PostKept
      <4>2. post'[a] # "sent" /\ (post'[a] = "refused" => room'.status = "archived" \/ a # Owner)
        BY <2>2, <2>3, <2>4, <3>3
      <4>3. room'.status # "none"
        BY <1>1, <2>2
      <4> QED
        BY <4>1, <4>2, <4>3 DEF PostOK
    <3> QED
      BY <3>2, <3>3
  <2> QED
    BY <1>5, <1>6, <1>8, <2>2, <2>4, <2>5, PosterCloses
<1>9. CASE /\ CallFails(r) /\ UNCHANGED <<room, post>>
           /\ retries' = [retries EXCEPT ![m] = @ + 1]
  <2>1. late' \subseteq late \cup {[request |-> r, nth |-> faults]}
    BY <1>9 DEF CallFails
  <2>2. /\ retries' \in [Agents -> Nat] /\ retries'[m] = retries[m] + 1
        /\ \A a \in Agents : a # m => retries'[a] = retries[a]
    BY <1>6, <1>9
  <2>3. ASSUME NEW a \in Agents PROVE PostOK(a)'
    <3>1. LogOf(a)' = LogOf(a)
      BY <1>9 DEF LogOf
    <3>2. CASE a # m
      <4>1. LatePosts(a)' \subseteq LatePosts(a)
        BY <1>3, <2>1, <3>2, LateCounts
      <4> QED
        BY <1>1, <1>9, <2>2, <3>1, <3>2, <4>1, OthersPost
    <3>3. CASE a = m
      <4>1. PICK y : y = [request |-> r, nth |-> faults]
        OBVIOUS
      <4>2. LatePosts(a)' \subseteq LatePosts(a) \cup {y}
        BY <2>1, <4>1, LateCounts
      <4>3. /\ Posts(a)' <= retries'[a] + (IF post'[a] = "sent" THEN 1 ELSE 0)
            /\ post'[a] = "sent" => Copies(a)' > 0
        BY <1>9, <2>2, <3>1, <3>3, <4>2, PostKept
      <4> QED
        BY <1>1, <1>9, <3>3, <4>3 DEF PostOK
    <3> QED
      BY <3>2, <3>3
  <2>4. GroupRequest(r)'
    BY <1>3, <1>5, <1>9 DEF GroupRequest
  <2>5. post' \in [Agents -> {"none", "short", "full", "sent", "refused"}]
    BY <1>6, <1>9
  <2> QED
    BY <1>5, <1>6, <1>9, <2>1, <2>2, <2>3, <2>4, <2>5, PosterCloses
<1> QED
  BY <1>3, <1>4, <1>7, <1>8, <1>9, OnlyOk DEF Do
(* A request of the group that its caller gave up.                         *)
LEMMA GroupLateStep ==
    ASSUME IndInv, GroupOnly, NEW l \in late, ~InRegistry(l), GroupLate(l)
    PROVE  IndInv'
<1>1. PICK r : r = l.request
  OBVIOUS
<1>2. /\ UNCHANGED <<post, retries, device, fetched>> /\ room' = RoomEffect(r) /\ late' = late \ {l}
  BY <1>1 DEF GroupLate, HandledLate
<1>3. GroupRequest(r)
  BY <1>1 DEF InRegistry, IndInv, LateOK, RegistryRequest
<1>4. CASE r.op # "post"
  <2>1. late' \subseteq late
    BY <1>2
  <2> QED
    BY <1>2, <1>3, <1>4, <2>1, DevicesStay, RequestStep
<1>5. CASE r.op = "post"
  <2>1. /\ room' \in RoomSet /\ room'.status = room.status /\ room'.role[Owner] # "none"
        /\ \A a \in Agents : 1..room'.read[a] \subseteq fetched[a]
        /\ room'.log = room.log \/ room'.log = Append(room.log, r.by)
    BY <1>2, <1>3, Handled
  <2>2. r.by \in Agents /\ room.status # "none"
    BY <1>3 DEF GroupRequest
  <2>3. ASSUME NEW a \in Agents PROVE PostOK(a)'
    <3>1. LatePosts(a)' \subseteq LatePosts(a)
      BY <1>2 DEF LatePosts
    <3>2. CASE LogOf(a)' = LogOf(a)
      BY <1>2, <2>1, <2>2, <3>1, <3>2, OthersPost
    <3>3. CASE LogOf(a)' # LogOf(a)
      <4>1. room'.log # room.log
        BY <3>3 DEF LogOf
      <4>2. a = r.by /\ \E x : LogOf(a)' = LogOf(a) \cup {x}
        BY <2>1, <2>2, <3>3, <4>1, LogGrows DEF IndInv, RoomInv
      <4>3. PICK x : LogOf(a)' = LogOf(a) \cup {x}
        BY <4>2
      <4>4. l \in LatePosts(a) /\ LatePosts(a)' \subseteq LatePosts(a) \ {l}
        BY <1>1, <1>2, <1>5, <4>2 DEF LatePosts
      <4>5. /\ Posts(a)' <= retries'[a] + (IF post'[a] = "sent" THEN 1 ELSE 0)
            /\ post'[a] = "sent" => Copies(a)' > 0
        BY <1>2, <4>3, <4>4, PostKept
      <4>6. PostOK(a)
        BY DEF IndInv, RoomInv
      <4> QED
        BY <1>2, <2>1, <2>2, <4>5, <4>6 DEF PostOK
    <3> QED
      BY <3>2, <3>3
  <2>4. /\ post' \in [Agents -> {"none", "short", "full", "sent", "refused"}]
        /\ retries' \in [Agents -> Nat] /\ late' \subseteq late
    BY <1>2 DEF IndInv, RoomInv, RoomOK
  <2> QED
    BY <1>2, <2>1, <2>3, <2>4, PosterCloses
<1> QED
  BY <1>4, <1>5

-----------------------------------------------------------------------------
(* The invariant. *)

(* The invariant holds before anybody registers.                           *)
LEMMA InitInv == Init => IndInv
<1> SUFFICES ASSUME Init PROVE IndInv
  OBVIOUS
<1>1. /\ late = {} /\ entries = <<>> /\ curated = {} /\ DOMAIN entries = {}
      /\ pc = [a \in Agents |-> "search"] /\ urn = [a \in Agents |-> 0] /\ unsure = [a \in Agents |-> 0]
  BY DEF Init, RegistryInit, RPCInit
<1>2. /\ room = [status |-> "none", role |-> [a \in Agents |-> "none"],
                 read |-> [a \in Agents |-> 0], log |-> <<>>]
      /\ post = [a \in Agents |-> "none"] /\ retries = [a \in Agents |-> 0]
      /\ device = [d \in Devices |-> [what |-> "start", since |-> 0, upTo |-> 0]]
      /\ fetched = [a \in Agents |-> {}]
  BY DEF Init
<1>3. Cardinality({}) = 0 /\ IsFiniteSet({})
  BY FS_EmptySet
<1>4. RegistryOK /\ LateOK
  BY <1>1, <1>3 DEF RegistryOK, LateOK
<1>5. UpdatesKept
  BY <1>1 DEF UpdatesKept, Onboarded
<1>6. ASSUME NEW a \in Agents PROVE OnceOK(a)
  <2>1. EntriesOf(a) = {} /\ LateRegisters(a) = {}
    BY <1>1 DEF EntriesOf, LateRegisters
  <2>2. pc[a] = "search" /\ unsure[a] = 0
    BY <1>1
  <2> QED
    BY <1>3, <2>1, <2>2 DEF OnceOK, Registrations
<1>7. /\ room.status = "none" /\ room.role = [a \in Agents |-> "none"]
      /\ room.read = [a \in Agents |-> 0] /\ room.log = <<>> /\ room \in RoomSet
  BY <1>2 DEF RoomSet, Roles
<1>8. RoomOK
  BY <1>2, <1>7 DEF RoomOK, RoomSet
<1>9. ReadMeansFetched /\ OwnerStays
  BY <1>7 DEF ReadMeansFetched, OwnerStays
<1>10. DevicesJoined
  BY <1>2 DEF DevicesJoined
<1>11. ASSUME NEW d \in Devices PROVE DeviceOK(d)
  BY <1>2 DEF DeviceOK
<1>12. ASSUME NEW a \in Agents PROVE PostOK(a)
  <2>1. LatePosts(a) = {} /\ {s \in DOMAIN room.log : room.log[s] = a} = {}
    BY <1>1, <1>7 DEF LatePosts
  <2>2. Copies(a) = 0 /\ Posts(a) = 0
    BY <1>3, <2>1 DEF Copies, Posts
  <2>3. post[a] = "none" /\ retries[a] = 0 /\ ~Member(a)
    BY <1>2, <1>7 DEF Member
  <2> QED
    BY <2>2, <2>3 DEF PostOK
<1> QED
  BY <1>4, <1>5, <1>6, <1>8, <1>9, <1>10, <1>11, <1>12 DEF IndInv, RegistryInv, RoomInv

(* The invariant is preserved by every step.                               *)
LEMMA NextInv == IndInv /\ [Next]_vars => IndInv'
<1> SUFFICES ASSUME IndInv, [Next]_vars PROVE IndInv'
  OBVIOUS
<1>1. CASE RegistryStep /\ UNCHANGED <<room, post, retries, device, fetched>>
  <2>0. RegistryOnly
    BY <1>1 DEF RegistryOnly
  <2>1. CASE \E a \in Agents : Registering(a) \/ Restart(a)
    BY <2>0, <2>1, ReadStep, RegisterStep, UpdateSelfStep DEF Registering
  <2>2. CASE Curator
    BY <2>0, <2>2, CurateStep, StatusStep DEF Curator
  <2>3. CASE \E l \in late : InRegistry(l) /\ RegistryLate(l)
    BY <2>0, <2>3, RegistryLateStep
  <2> QED
    BY <1>1, <2>1, <2>2, <2>3 DEF RegistryStep
<1>2. CASE GroupStep /\ UNCHANGED <<entries, pc, urn, curated, unsure>>
  <2>0. GroupOnly
    BY <1>2 DEF GroupOnly
  <2>1. CASE Create \/ Archive
    BY <2>0, <2>1, CreateStep
  <2>2. CASE \E a \in Agents :
                AddMember(a) \/ SetMemberRole(a) \/ RemoveMember(a) \/ BeginPost(a) \/ Send(a)
    BY <2>0, <2>2, MemberStep, BeginPostStep, SendStep
  <2>3. CASE \E d \in Devices : ListMembers(d) \/ ListMessages(d) \/ MarkRead(d) \/ RestartDevice(d)
    BY <2>0, <2>3, ListMembersStep, ListMessagesStep, MarkReadStep, RestartDeviceStep
  <2>4. CASE \E l \in late : ~InRegistry(l) /\ GroupLate(l)
    BY <2>0, <2>4, GroupLateStep
  <2> QED
    BY <1>2, <2>1, <2>2, <2>3, <2>4 DEF GroupStep
<1>3. CASE UNCHANGED vars
  <2>1. RegistryOnly /\ GroupOnly /\ late' = late
    BY <1>3 DEF vars, registryVars, rpcVars, RegistryOnly, GroupOnly
  <2>2. RegistryInv'
    BY <2>1, RegistryFrame DEF GroupOnly, LateRegisters
  <2> QED
    BY <2>1, <2>2, RegistryCloses DEF GroupOnly
<1> QED
  BY <1>1, <1>2, <1>3 DEF Next

(* IndInv holds in every reachable state, whatever fails and restarts.     *)
THEOREM Invariance == Spec => []IndInv
  BY InitInv, NextInv, PTL DEF Spec

(* However often it restarts, an agent has one active entry and one more   *)
(* for each registration whose answer it never got.                        *)
THEOREM RegistersOnce == Spec => []RegisteredOnce
<1>1. IndInv => RegisteredOnce
  <2> SUFFICES ASSUME IndInv, NEW a \in Agents PROVE Cardinality(EntriesOf(a)) <= 1 + unsure[a]
    BY DEF RegisteredOnce
  <2>1. IsFiniteSet(EntriesOf(a)) /\ IsFiniteSet(LateRegisters(a))
    BY Finite DEF IndInv, RegistryInv, RoomInv
  <2>2. Cardinality(EntriesOf(a)) \in Nat /\ Cardinality(LateRegisters(a)) \in Nat /\ unsure[a] \in Nat
    BY <2>1, FS_CardinalityType DEF IndInv, RegistryInv, RegistryOK
  <2>3. Cardinality(EntriesOf(a)) + Cardinality(LateRegisters(a)) <= 1 + unsure[a]
    BY DEF IndInv, RegistryInv, OnceOK, Registrations
  <2> QED
    BY <2>2, <2>3
<1> QED
  BY <1>1, Invariance, PTL

(* What an agent and the curator published of an entry is there after      *)
(* both, whoever was first and whatever was handled late.                  *)
THEOREM KeepsUpdates == Spec => []UpdatesKept
<1>1. IndInv => UpdatesKept
  BY DEF IndInv, RegistryInv
<1> QED
  BY <1>1, Invariance, PTL

(* A read cursor never passes a message that no device of the member got.  *)
THEOREM ReadIsFetched == Spec => []ReadMeansFetched
<1>1. IndInv => ReadMeansFetched
  BY DEF IndInv, RoomInv
<1> QED
  BY <1>1, Invariance, PTL

(* A message is posted once and once more for each Send without an answer; *)
(* a Send that returned has posted it, and the owner of an open group is   *)
(* never refused.                                                          *)
THEOREM SendIsHonest == Spec => []SendsHonest
<1>1. IndInv => SendsHonest
  <2> SUFFICES ASSUME IndInv, NEW a \in Agents
               PROVE  /\ Copies(a) <= 1 + retries[a]
                      /\ post[a] = "sent" => Copies(a) > 0
                      /\ post[a] = "refused" => room.status = "archived" \/ a # Owner
    BY DEF SendsHonest
  <2>1. IsFiniteSet({s \in DOMAIN room.log : room.log[s] = a}) /\ IsFiniteSet(LatePosts(a))
    BY Finite DEF IndInv, RegistryInv, RoomInv
  <2>2. Copies(a) \in Nat /\ Cardinality(LatePosts(a)) \in Nat /\ retries[a] \in Nat
    BY <2>1, FS_CardinalityType DEF IndInv, RoomInv, RoomOK, Copies
  <2>3. PostOK(a)
    BY DEF IndInv, RoomInv
  <2>4. Copies(a) + Cardinality(LatePosts(a)) <= retries[a] + (IF post[a] = "sent" THEN 1 ELSE 0)
    BY <2>3 DEF PostOK, Posts
  <2> QED
    BY <2>2, <2>3, <2>4 DEF PostOK
<1> QED
  BY <1>1, Invariance, PTL
=============================================================================
