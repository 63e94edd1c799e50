---------------------------- MODULE KeyedLaunch ----------------------------
(***************************************************************************)
(* Launching and resuming sessions with an idempotency key, by several     *)
(* workers that try again after every error.  LaunchWithInput is two       *)
(* calls, create and launch, and forgets what it created when the second   *)
(* fails; ResumeLogicalAgent is one.  A call that failed for its caller    *)
(* may still reach the daemon later, also after the caller's next attempt. *)
(*                                                                         *)
(* The daemon is external: it binds a key to the first request that        *)
(* carries it and answers every later one from that session.               *)
(***************************************************************************)
EXTENDS Integers, Sequences, FiniteSets

CONSTANTS
    Workers,    \* callers, each with one job it wants done
    NoKey,      \* the job has no IdempotencyKey
    Jobs,       \* what the workers may be asking for: operation, key, launch or agent id
    MaxFaults   \* bound: failed calls, refusals and stopped sessions

Ops == {"launch", "resume"}

ASSUME JobAssumption ==
    /\ MaxFaults \in Nat
    /\ \A j \in Jobs, w \in Workers : j[w].op \in Ops

VARIABLES
    job,        \* what each worker asks for, every time it tries
    sessions,   \* the daemon's sessions, in the order they were created
    inflight,   \* requests on their way to the daemon
    reply,      \* the answer each waiting worker has got
    pc,         \* "idle", the route it waits for, "failed", "conflict" or "ok"
    try,        \* the number of the worker's attempt
    result,     \* the LaunchResponse of a successful call
    faults

vars == <<job, sessions, inflight, reply, pc, try, result, faults>>

Routes == {"create", "launch", "resume"}
Waiting(w) == pc[w] \in Routes

NoReply == [status |-> 0, id |-> 0, replayed |-> FALSE]
Answer(status, id, replayed) == [status |-> status, id |-> id, replayed |-> replayed]

Fault == faults < MaxFaults /\ faults' = faults + 1

-----------------------------------------------------------------------------
(* The client. *)

(* Success statuses: two for the idempotent routes, one for launch.        *)
Accepted(route, status) ==
    status \in IF route = "launch" THEN {200} ELSE {201, 200}

Request(w, route, key, id) ==
    [w |-> w, try |-> try[w], route |-> route, key |-> key, op |-> job[w].op,
     what |-> job[w].what, id |-> id]

Send(w, request) ==
    /\ inflight' = inflight \cup {request}
    /\ pc' = [pc EXCEPT ![w] = request.route]
    /\ reply' = [reply EXCEPT ![w] = NoReply]
    /\ UNCHANGED <<job, sessions, try, result, faults>>

Return(w, response) ==
    /\ pc' = [pc EXCEPT ![w] = "ok"]
    /\ result' = [result EXCEPT ![w] = [id |-> response.id, replayed |-> response.replayed]]
    /\ UNCHANGED <<job, sessions, inflight, reply, try, faults>>

(* Mutant: the key is left out of the request.                             *)
CreateWithoutKey(w) ==
    /\ pc[w] = "idle"
    /\ job[w].op = "launch"
    /\ Send(w, Request(w, "create", NoKey, 0))

CreateSessionWithInput(w) ==
    /\ pc[w] = "idle"
    /\ job[w].op = "launch"
    /\ Send(w, Request(w, "create", job[w].key, 0))

(* Mutant: a replayed session is taken to be launched already.             *)
LaunchOnlyFresh(w) ==
    /\ pc[w] = "create"
    /\ Accepted("create", reply[w].status)
    /\ IF reply[w].replayed
       THEN Return(w, reply[w])
       ELSE Send(w, Request(w, "launch", NoKey, reply[w].id))

(* LaunchWithInput goes on to LaunchSession with the created id, fresh or  *)
(* replayed, and returns what LaunchSession returns.                       *)
LaunchSession(w) ==
    /\ pc[w] = "create"
    /\ Accepted("create", reply[w].status)
    /\ Send(w, Request(w, "launch", NoKey, reply[w].id))

ResumeLogicalAgent(w) ==
    /\ pc[w] = "idle"
    /\ job[w].op = "resume"
    /\ Send(w, Request(w, "resume", job[w].key, 0))

(* Mutant: the replayed field of the answer is not decoded.                *)
SucceedFresh(w) ==
    /\ pc[w] \in {"launch", "resume"}
    /\ Accepted(pc[w], reply[w].status)
    /\ Return(w, [reply[w] EXCEPT !.replayed = FALSE])

Succeed(w) ==
    /\ pc[w] \in {"launch", "resume"}
    /\ Accepted(pc[w], reply[w].status)
    /\ Return(w, reply[w])

(* Mutant: only a conflict is an error.                                    *)
RefusedConflict(w) ==
    /\ Waiting(w)
    /\ reply[w].status = 409
    /\ pc' = [pc EXCEPT ![w] = "conflict"]
    /\ UNCHANGED <<job, sessions, inflight, reply, try, result, faults>>

(* An *APIError: an idempotency conflict is final, anything else is worth  *)
(* another attempt.                                                        *)
Refused(w) ==
    /\ Waiting(w)
    /\ reply[w] # NoReply
    /\ ~Accepted(pc[w], reply[w].status)
    /\ pc' = [pc EXCEPT ![w] = IF reply[w].status = 409 THEN "conflict" ELSE "failed"]
    /\ UNCHANGED <<job, sessions, inflight, reply, try, result, faults>>

(* The 5 second timeout of create, a cancelled context, a crash of the     *)
(* worker or a broken connection; the request is lost or is handled later. *)
CallFails(w) ==
    /\ Waiting(w)
    /\ Fault
    /\ pc' = [pc EXCEPT ![w] = "failed"]
    /\ \/ inflight' = {r \in inflight : r.w # w \/ r.try # try[w]}
       \/ UNCHANGED inflight
    /\ UNCHANGED <<job, sessions, reply, try, result>>

(* The caller makes the same call again; it has nothing but its key.       *)
Retry(w) ==
    /\ pc[w] = "failed"
    /\ pc' = [pc EXCEPT ![w] = "idle"]
    /\ try' = [try EXCEPT ![w] = @ + 1]
    /\ UNCHANGED <<job, sessions, inflight, reply, result, faults>>

-----------------------------------------------------------------------------
(* The daemon (external). *)

(* Only a worker still waiting for this very request sees the answer.      *)
Respond(r, answer) ==
    /\ inflight' = inflight \ {r}
    /\ reply' = IF pc[r.w] = r.route /\ try[r.w] = r.try
                THEN [reply EXCEPT ![r.w] = answer] ELSE reply
    /\ UNCHANGED <<job, pc, try, result>>

Bound(key) == {i \in 1..Len(sessions) : key # NoKey /\ sessions[i].key = key}

(* A create leaves the session to be launched; a resume starts it.  Who    *)
(* started a session is history; attempt 0 is nobody's.                    *)
NewSession(r) ==
    [key |-> r.key, op |-> r.op, what |-> r.what,
     state |-> IF r.route = "create" THEN "created" ELSE "running",
     starter |-> <<r.w, IF r.route = "create" THEN 0 ELSE r.try>>]

HandleKeyed(r) ==
    /\ r.route \in {"create", "resume"}
    /\ IF Bound(r.key) = {}
       THEN /\ sessions' = Append(sessions, NewSession(r))
            /\ Respond(r, Answer(201, Len(sessions) + 1, FALSE))
       ELSE LET i == CHOOSE j \in Bound(r.key) : TRUE IN
            /\ Respond(r, IF sessions[i].op = r.op /\ sessions[i].what = r.what
                          THEN Answer(200, i, TRUE) ELSE Answer(409, 0, FALSE))
            /\ UNCHANGED sessions
    /\ UNCHANGED faults

HandleLaunch(r) ==
    /\ r.route = "launch"
    /\ IF sessions[r.id].state = "created"
       THEN /\ sessions' = [sessions EXCEPT ![r.id].state = "running",
                                            ![r.id].starter = <<r.w, r.try>>]
            /\ Respond(r, Answer(200, r.id, FALSE))
       ELSE /\ Respond(r, Answer(200, r.id, TRUE))
            /\ UNCHANGED sessions
    /\ UNCHANGED faults

HandleRefuses(r) ==
    /\ Fault
    /\ Respond(r, Answer(503, 0, FALSE))
    /\ UNCHANGED sessions

Stop(i) ==
    /\ sessions[i].state = "running"
    /\ Fault
    /\ sessions' = [sessions EXCEPT ![i].state = "stopped"]
    /\ UNCHANGED <<job, inflight, reply, pc, try, result>>

-----------------------------------------------------------------------------
Init ==
    /\ job \in Jobs
    /\ sessions = <<>>
    /\ inflight = {}
    /\ reply = [w \in Workers |-> NoReply]
    /\ pc = [w \in Workers |-> "idle"]
    /\ try = [w \in Workers |-> 1]
    /\ result = [w \in Workers |-> [id |-> 0, replayed |-> FALSE]]
    /\ faults = 0

Worker(w) ==
    \/ CreateSessionWithInput(w) \/ LaunchSession(w) \/ ResumeLogicalAgent(w)
    \/ Succeed(w) \/ Refused(w) \/ Retry(w)

Handle(r) == HandleKeyed(r) \/ HandleLaunch(r)

Next ==
    \/ \E w \in Workers : Worker(w) \/ CallFails(w)
    \/ \E r \in inflight : Handle(r) \/ HandleRefuses(r)
    \/ \E i \in 1..Len(sessions) : Stop(i)

(* Workers try again until they succeed; the daemon handles what reaches   *)
(* it.                                                                     *)
Fairness ==
    /\ \A w \in Workers : WF_vars(Worker(w))
    /\ \A w \in Workers : WF_vars(\E r \in inflight : r.w = w /\ Handle(r))

Spec == Init /\ [][Next]_vars /\ Fairness

-----------------------------------------------------------------------------
Succeeded(w) == pc[w] = "ok"
Mine(w) == sessions[result[w].id]

(* "a retry returns the session already bound to that key instead of       *)
(* starting a second one" (README): whatever attempts of whichever workers *)
(* reach the daemon and in whatever order, one session exists for a key,   *)
(* and every caller that succeeds with the key got that session.           *)
OneSessionPerKey ==
    /\ \A i, j \in 1..Len(sessions) :
          sessions[i].key = sessions[j].key /\ sessions[i].key # NoKey => i = j
    /\ \A w \in Workers : Succeeded(w) =>
          /\ Mine(w).key = job[w].key
          /\ Mine(w).op = job[w].op
          /\ Mine(w).what = job[w].what

(* A launch or resume that returned without error refers to a session that *)
(* was started, also when create was a replay of an attempt that died      *)
(* before its launch.                                                      *)
SuccessMeansStarted ==
    \A w \in Workers : Succeeded(w) =>
        result[w].id \in 1..Len(sessions) /\ Mine(w).state # "created"

(* Replayed (types.go): "the daemon answered from an earlier request [...] *)
(* rather than doing the work again": false exactly for the attempt that   *)
(* started the session.                                                    *)
ReplayedTellsApart ==
    \A w \in Workers : Succeeded(w) =>
        (result[w].replayed <=> Mine(w).starter # <<w, try[w]>>)

(* A worker that keeps trying gets its session, or learns that its key     *)
(* belongs to a different request.                                         *)
Converges == \A w \in Workers : <>(pc[w] \in {"ok", "conflict"})

Keys  == {j[w].key : j \in Jobs, w \in Workers} \cup {NoKey}
Whats == {j[w].what : j \in Jobs, w \in Workers}

SessionSet == [key : Keys, op : Ops, what : Whats, state : {"created", "running", "stopped"},
               starter : Workers \X Nat]
RequestSet == [w : Workers, try : Nat \ {0}, route : Routes, key : Keys, op : Ops,
               what : Whats, id : Nat]
AnswerSet  == [status : Nat, id : Nat, replayed : BOOLEAN]

TypeOK ==
    /\ job \in Jobs
    /\ sessions \in Seq(SessionSet)
    /\ inflight \subseteq RequestSet
    /\ reply \in [Workers -> AnswerSet]
    /\ pc \in [Workers -> Routes \cup {"idle", "failed", "conflict", "ok"}]
    /\ try \in [Workers -> Nat \ {0}]
    /\ result \in [Workers -> [id : Nat, replayed : BOOLEAN]]
    /\ faults \in 0..MaxFaults
=============================================================================
