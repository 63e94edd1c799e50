----------------------------- MODULE Bootstrap -----------------------------
(***************************************************************************)
(* Session identity without an online daemon, and the workstream the       *)
(* sessions of one line of work share.  A launcher resolves the canonical  *)
(* id of its session, starts hooks with that id as their SESSION variable  *)
(* whether or not the daemon could be told, asks again until the daemon    *)
(* knows, and puts the session into a workstream.  A compaction continues  *)
(* it under a new id whose parent is the old one, while hooks of the old   *)
(* session still run.                                                      *)
(*                                                                         *)
(* The daemon is external: a repeated bootstrap fills in what the row does *)
(* not have yet, and a workstream is ensured for a whole lineage of rows.  *)
(***************************************************************************)
EXTENDS RoundTrip, SessionRows

CONSTANT Hooks  \* processes the launcher starts

VARIABLES
    works,      \* how many workstreams it has
    minted,     \* how many ids exist
    preset,     \* SESSION as the launcher itself was started with
    pc,         \* the launcher's next call
    session,    \* its SessionID, Intent, ParentSessionID and workstream
    env         \* SESSION of each hook that runs, or 0

daemonVars == <<rows, works>>
vars == <<rpcVars, daemonVars, minted, preset, pc, session, line, env>>

-----------------------------------------------------------------------------
(* The daemon (external). *)

Refused(r) == r.op \in {"ensure", "assign"} /\ ~rows[r.id].known

Effect(r) ==
    IF Refused(r) THEN UNCHANGED daemonVars ELSE
    CASE r.op = "bootstrap" ->
           LET row == rows[r.id] IN
           /\ rows' = [rows EXCEPT ![r.id] =
                [row EXCEPT !.known = TRUE,
                            !.intent = IF row.known THEN @ ELSE r.intent,
                            !.parent = IF row.parent = 0 THEN r.parent ELSE @,
                            !.native = @ \/ r.native]]
           /\ UNCHANGED works
      [] r.op = "create" -> works' = works + 1 /\ UNCHANGED rows
      [] r.op = "assign" ->
           LET placed == \E i \in Lineage(r.id) \ {r.id} : rows[i].work # 0 IN
           /\ rows' = [rows EXCEPT ![r.id].work = r.work, ![r.id].how = IF placed THEN "moved" ELSE "assigned"]
           /\ UNCHANGED works
      [] r.op = "ensure" ->
           LET has == WorksOf(r.id)
               cut(i) == line[i] # 0 /\ (rows[i].parent = 0 \/ ~rows[line[i]].known) IN
           \E w \in IF has = {} THEN {works + 1} ELSE has :
           /\ works' = IF has = {} THEN w ELSE works
           /\ rows' = [i \in Ids |->
                IF i \in Lineage(r.id) /\ rows[i].work = 0 /\ (i = r.id \/ has = {})
                THEN [rows[i] EXCEPT !.work = w, !.how = IF cut(i) THEN "cut" ELSE "lineage"] ELSE rows[i]]

Late(l) ==
    /\ HandledLate(l)
    /\ Effect(l.request)
    /\ UNCHANGED <<minted, preset, pc, session, line, env>>

-----------------------------------------------------------------------------
(* Resolution. *)

(* Mutant: SESSION is not read.                                            *)
ResolvedOptsOnly(opt, variable) == opt

(* The id that needs no minting: the option, then SESSION.                 *)
Resolved(opt, variable) == IF opt # 0 THEN opt ELSE variable

Minted(given) == IF given = 0 THEN minted + 1 ELSE given

IntentOf(intent, given) ==
    IF intent # "" THEN intent ELSE IF given = 0 THEN "fresh" ELSE "preassigned"

(* The wire call.  Mutant: the parent is not forwarded.                    *)
RequestOrphan(id, intent, parent, native) ==
    [op |-> "bootstrap", id |-> id, intent |-> intent, parent |-> 0, native |-> native]

SessionBootstrapRequest(id, intent, parent, native) ==
    [op |-> "bootstrap", id |-> id, intent |-> intent, parent |-> parent, native |-> native]

(* One request: handled and answered, refused, or failed.                  *)
Call(r, success, failure) ==
    \/ ~Refused(r) /\ Effect(r) /\ UNCHANGED rpcVars /\ success
    \/ Refused(r) /\ UNCHANGED <<rpcVars, daemonVars>> /\ failure
    \/ CallFails(r) /\ UNCHANGED daemonVars /\ failure

(* How the caller goes on when Registered is true, and when it is false.   *)
ResolveSessionBootstrap(client, opts, variable, registered, unregistered) ==
    LET given == Resolved(opts.id, variable)
        id == Minted(given) IN
    /\ id <= MaxSessions
    /\ minted' = IF id > minted THEN id ELSE minted
    /\ \/ ~client /\ unregistered /\ UNCHANGED <<rpcVars, daemonVars>>
       \/ client /\ Call(SessionBootstrapRequest(id, IntentOf(opts.intent, given), opts.parent, opts.native),
                         registered, unregistered)

-----------------------------------------------------------------------------
(* The launcher. *)

Launched(given, label) ==
    /\ session' = [session EXCEPT !.id = Minted(given), !.intent = IntentOf(@, given)]
    /\ line' = [line EXCEPT ![Minted(given)] = session.parent]
    /\ pc' = label

Launch ==
    LET opts == [id |-> session.id, intent |-> session.intent, parent |-> session.parent, native |-> FALSE]
        given == Resolved(session.id, preset) IN
    /\ pc = "resolve"
    /\ ResolveSessionBootstrap(TRUE, opts, preset, Launched(given, "place"), Launched(given, "resolve"))
    /\ UNCHANGED <<preset, env>>

Launcher(label, work) ==
    pc' = label /\ session' = [session EXCEPT !.work = work] /\ UNCHANGED <<minted, preset, line, env>>

(* The session joins its lineage's workstream.  Mutant: a new workstream   *)
(* for the session.                                                        *)
EnsureCreates(id) ==
    /\ works' = works + 1
    /\ rows' = [rows EXCEPT ![id].work = works + 1, ![id].how = "lineage"]
    /\ Launcher("work", 0) /\ UNCHANGED rpcVars

EnsureSessionWorkstream(id) == Call([op |-> "ensure", id |-> id], Launcher("work", 0), Launcher("place", 0))

(* Or a workstream of its own, in two calls.                               *)
CreateWorkstream == Call([op |-> "create"], Launcher("assign", works + 1), Launcher("place", 0))

AssignSessionWorkstream(id, w) ==
    Call([op |-> "assign", id |-> id, work |-> w], Launcher("work", 0), Launcher("assign", w))

Place ==
    \/ pc = "place" /\ EnsureSessionWorkstream(session.id)
    \/ pc = "place" /\ session.parent = 0 /\ CreateWorkstream
    \/ pc = "assign" /\ AssignSessionWorkstream(session.id, session.work)

(* The line of work goes on under a new id, registered or not.             *)
Compact ==
    /\ session.id # 0 /\ minted < MaxSessions
    /\ minted' = minted + 1
    /\ session' = [id |-> minted + 1, intent |-> "compact", parent |-> session.id, work |-> 0]
    /\ line' = [line EXCEPT ![minted + 1] = session.id]
    /\ pc' = "resolve"
    /\ UNCHANGED <<rpcVars, daemonVars, preset, env>>

Restart ==
    /\ minted < MaxSessions \/ preset # 0
    /\ Fault
    /\ session' = [id |-> 0, intent |-> "", parent |-> 0, work |-> 0]
    /\ pc' = "resolve"
    /\ UNCHANGED <<late, daemonVars, minted, preset, line, env>>

-----------------------------------------------------------------------------
(* The hooks: each resolves once, with a *Client or nil, and supplies the  *)
(* provider's native session id.                                           *)

Spawn(h) ==
    /\ env[h] = 0 /\ session.id # 0
    /\ env' = [env EXCEPT ![h] = session.id]
    /\ UNCHANGED <<rpcVars, daemonVars, minted, preset, pc, session, line>>

Hook(h, client) ==
    LET opts == [id |-> 0, intent |-> "", parent |-> 0, native |-> TRUE]
        ended == env' = [env EXCEPT ![h] = 0] IN
    /\ env[h] # 0
    /\ ResolveSessionBootstrap(client, opts, env[h], ended, ended)
    /\ UNCHANGED <<preset, pc, session, line>>

-----------------------------------------------------------------------------
Init ==
    /\ RPCInit
    /\ rows = [i \in Ids |-> NoRow]
    /\ works = 0
    /\ preset \in {0, 1}
    /\ minted = preset
    /\ pc = "resolve"
    /\ session = [id |-> 0, intent |-> "", parent |-> 0, work |-> 0]
    /\ line = [i \in Ids |-> i]
    /\ env = [h \in Hooks |-> 0]

Next ==
    \/ Launch \/ Place \/ Compact \/ Restart
    \/ \E h \in Hooks : Spawn(h) \/ \E client \in BOOLEAN : Hook(h, client)
    \/ \E l \in late : Late(l)

(* The launcher asks until it is answered, hooks are started again and     *)
(* again, and one that has a client now and then makes its call.           *)
Fairness ==
    /\ WF_vars(Launch) /\ WF_vars(Place)
    /\ \A h \in Hooks : WF_vars(Spawn(h)) /\ SF_vars(Hook(h, TRUE))

Spec == Init /\ [][Next]_vars /\ Fairness

-----------------------------------------------------------------------------
(* Whatever failed, in the end the daemon knows the launcher's session,    *)
(* its parent, its native id and its workstream.                           *)
Rejoins ==
    <>[](/\ session.id # 0
         /\ LET row == rows[session.id] IN
            row.known /\ row.parent = session.parent /\ row.native /\ row.work # 0)
=============================================================================
