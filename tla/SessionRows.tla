---------------------------- MODULE SessionRows ----------------------------
(***************************************************************************)
(* The sessions the daemon knows and what they continue, next to the line  *)
(* of work the launcher runs them for.  Ids are numbers in the order of    *)
(* their minting; 0 is the empty string.                                   *)
(***************************************************************************)
EXTENDS Integers

CONSTANT MaxSessions    \* bound: ids minted

ASSUME SessionsAssumption == MaxSessions \in Nat \ {0}

VARIABLES
    rows,       \* the daemon's sessions
    line        \* the parent of each id the launcher ran under; other ids are their own

Ids == 1..MaxSessions

(* A row's `how' is history: how the session got its workstream, "cut"     *)
(* when the daemon did not know then that it continues another one.        *)
NoRow == [known |-> FALSE, intent |-> "", parent |-> 0, native |-> FALSE, work |-> 0, how |-> ""]

(* A session continues the one its row names.                              *)
Continues(i) == rows[i].known /\ rows[i].parent # 0

(* The sessions that a chain of continuations connects with one: those in  *)
(* every set that has it and never just one side of a continuation.        *)
Linked(S) == \A i \in Ids : Continues(i) => (i \in S <=> rows[i].parent \in S)

Lineage(id) ==
    LET linked == {S \in SUBSET Ids : id \in S /\ Linked(S)}
    IN  {i \in Ids : rows[i].known /\ \A S \in linked : i \in S}

(* The workstreams the lineage has.                                        *)
WorksOf(id) == {rows[i].work : i \in Lineage(id)} \ {0}

-----------------------------------------------------------------------------
(* The daemon knows no identity but those a launcher runs under, with the  *)
(* parent they have there: every process of the tree resolves to the id it *)
(* was started with, offline, late, or after a compaction changed it.      *)
OneIdentity ==
    \A i \in Ids : rows[i].known => line[i] # i /\ rows[i].parent \in {0, line[i]}

(* The sessions of a line of work share one workstream, however often a    *)
(* call was repeated or handled late, unless one of them was placed while  *)
(* the daemon did not know yet what it continues, or was assigned          *)
(* elsewhere.                                                              *)
OneWorkstream ==
    \A i \in Ids : LET sessions == Lineage(i) IN
        (\A j \in sessions : rows[j].how \notin {"cut", "moved"})
        => \A j, k \in sessions : rows[j].work # 0 /\ rows[k].work # 0 => rows[j].work = rows[k].work
=============================================================================
