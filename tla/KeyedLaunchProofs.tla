------------------------- MODULE KeyedLaunchProofs -------------------------
(***************************************************************************)
(* How sessions come to be.  Proofs about KeyedLaunch, for any number of   *)
(* workers, any jobs and any number of failed calls: one session per key,  *)
(* and what a LaunchResponse tells its caller.  And, in the second half,   *)
(* about Bootstrap, for any number of ids, hooks, failed and late calls:   *)
(* one identity, and one workstream for a line of work.                    *)
(***************************************************************************)
EXTENDS KeyedLaunch, SessionRows, TLAPS

(* Session i is what worker w asks for.                                    *)
Matches(w, i) ==
    /\ i \in 1..Len(sessions)
    /\ sessions[i].key = job[w].key
    /\ sessions[i].op = job[w].op
    /\ sessions[i].what = job[w].what

(* An answer that worker w may take for a started session.                 *)
Good(w, answer) ==
    /\ Matches(w, answer.id)
    /\ sessions[answer.id].state # "created"
    /\ answer.replayed <=> sessions[answer.id].starter # <<w, try[w]>>

Unique ==
    \A i, j \in 1..Len(sessions) :
        sessions[i].key = sessions[j].key /\ sessions[i].key # NoKey => i = j

(* A resume starts the session it makes.                                   *)
Resumed ==
    \A i \in 1..Len(sessions) : sessions[i].op = "resume" => sessions[i].state # "created"

(* A request in flight asks for its worker's job, and a launch names a     *)
(* session of that job.                                                    *)
RequestsHonest ==
    \A r \in inflight :
        /\ r.try <= try[r.w]
        /\ r.op = job[r.w].op /\ r.what = job[r.w].what
        /\ r.route = "resume" <=> r.op = "resume"
        /\ r.route # "launch" => r.key = job[r.w].key
        /\ r.route = "launch" => Matches(r.w, r.id)

(* An attempt sends a route once, and what may start a session is not in   *)
(* flight any more when a session was started by that attempt.             *)
SentOnce ==
    \A r, s \in inflight : r.w = s.w /\ r.try = s.try /\ r.route = s.route => r = s

NotStarted ==
    \A r \in inflight, i \in 1..Len(sessions) :
        r.route # "create" => sessions[i].starter # <<r.w, r.try>>

(* An attempt that has not sent its launch or resume has started nothing.  *)
BeforeStart(w) ==
    pc[w] \in {"idle", "create"} =>
        /\ pc[w] = "create" => job[w].op = "launch"
        /\ \A r \in inflight : r.w = w /\ r.try = try[w] => pc[w] = "create" /\ r.route = "create"
        /\ \A i \in 1..Len(sessions) : sessions[i].starter # <<w, try[w]>>

StartersPast ==
    \A i \in 1..Len(sessions) : sessions[i].starter[2] <= try[sessions[i].starter[1]]

(* What a worker has been answered, and what it returned.                  *)
AnswersGood(w) ==
    /\ pc[w] = "create" /\ Accepted("create", reply[w].status) => Matches(w, reply[w].id)
    /\ pc[w] \in {"launch", "resume"} /\ Accepted(pc[w], reply[w].status) => Good(w, reply[w])
    /\ pc[w] = "ok" => Good(w, result[w])

IndInv ==
    /\ TypeOK
    /\ Unique
    /\ Resumed
    /\ RequestsHonest
    /\ SentOnce
    /\ NotStarted
    /\ StartersPast
    /\ \A w \in Workers : BeforeStart(w) /\ AnswersGood(w)

-----------------------------------------------------------------------------
(* What every step keeps of a session: what it was made for, and, once it  *)
(* was started, by whom.                                                   *)
Kept ==
    \A i \in 1..Len(sessions) :
        /\ i \in 1..Len(sessions')
        /\ sessions'[i].key = sessions[i].key
        /\ sessions'[i].op = sessions[i].op
        /\ sessions'[i].what = sessions[i].what
        /\ sessions[i].state # "created" =>
              sessions'[i].state # "created" /\ sessions'[i].starter = sessions[i].starter

(* The types of a worker's job.                                            *)
LEMMA JobTypes == ASSUME TypeOK, NEW w \in Workers
                  PROVE  job[w].op \in Ops /\ job[w].key \in Keys /\ job[w].what \in Whats
  BY JobAssumption DEF TypeOK, Keys, Whats

(* The types of a session's fields.                                        *)
LEMMA SessionTypes ==
    ASSUME TypeOK, NEW i \in 1..Len(sessions)
    PROVE  /\ sessions[i] \in SessionSet
           /\ sessions[i].starter[1] \in Workers
           /\ sessions[i].starter[2] \in Nat
<1>1. sessions[i] \in SessionSet
  BY DEF TypeOK
<1> QED
  BY <1>1 DEF SessionSet

(* The initial states satisfy the invariant.                               *)
LEMMA InitInv == Init => IndInv
<1> SUFFICES ASSUME Init PROVE IndInv
  OBVIOUS
<1>1. TypeOK
  BY JobAssumption DEF Init, TypeOK, NoReply, AnswerSet, Routes
<1>2. Unique /\ Resumed /\ RequestsHonest /\ SentOnce /\ NotStarted /\ StartersPast
  BY DEF Init, Unique, Resumed, RequestsHonest, SentOnce, NotStarted, StartersPast
<1>3. \A w \in Workers : BeforeStart(w) /\ AnswersGood(w)
  BY DEF Init, BeforeStart, AnswersGood
<1> QED
  BY <1>1, <1>2, <1>3 DEF IndInv

-----------------------------------------------------------------------------
(* A request that worker w may send now.                                   *)
Sendable(w, r) ==
    /\ r \in RequestSet
    /\ r.w = w /\ r.try = try[w] /\ r.op = job[w].op /\ r.what = job[w].what
    /\ r.route = "resume" <=> r.op = "resume"
    /\ r.route # "launch" => r.key = job[w].key /\ pc[w] = "idle"
    /\ r.route = "launch" => Matches(w, r.id) /\ pc[w] = "create"

(* What an action of a worker sends.                                       *)
LEMMA WorkerSends ==
    ASSUME IndInv, NEW w \in Workers,
           CreateSessionWithInput(w) \/ LaunchSession(w) \/ ResumeLogicalAgent(w)
    PROVE  \E r : Sendable(w, r) /\ Send(w, r)
<1>1. job[w].op \in Ops /\ job[w].key \in Keys /\ job[w].what \in Whats
  BY JobTypes DEF IndInv
<1>2. try[w] \in Nat \ {0} /\ NoKey \in Keys /\ reply[w].id \in Nat
  BY DEF IndInv, TypeOK, AnswerSet, Keys
<1>3. CASE CreateSessionWithInput(w)
  <2> DEFINE r == Request(w, "create", job[w].key, 0)
  <2>1. Sendable(w, r)
    BY <1>1, <1>2, <1>3 DEF CreateSessionWithInput, Sendable, Request, RequestSet, Routes
  <2> QED
    BY <1>3, <2>1 DEF CreateSessionWithInput
<1>4. CASE LaunchSession(w)
  <2> DEFINE r == Request(w, "launch", NoKey, reply[w].id)
  <2>1. Matches(w, reply[w].id) /\ job[w].op = "launch" /\ pc[w] = "create"
    BY <1>4 DEF LaunchSession, IndInv, AnswersGood, BeforeStart
  <2>2. Sendable(w, r)
    BY <1>1, <1>2, <2>1 DEF Sendable, Request, RequestSet, Routes
  <2> QED
    BY <1>4, <2>2 DEF LaunchSession
<1>5. CASE ResumeLogicalAgent(w)
  <2> DEFINE r == Request(w, "resume", job[w].key, 0)
  <2>1. Sendable(w, r)
    BY <1>1, <1>2, <1>5 DEF ResumeLogicalAgent, Sendable, Request, RequestSet, Routes
  <2> QED
    BY <1>5, <2>1 DEF ResumeLogicalAgent
<1> QED
  BY <1>3, <1>4, <1>5

(* Sending a request keeps the invariant.                                  *)
LEMMA SendInv ==
    ASSUME IndInv, NEW w \in Workers, NEW r, Sendable(w, r), Send(w, r)
    PROVE  IndInv'
<1> USE DEF IndInv, Sendable, RequestSet
<1>0. job' = job /\ sessions' = sessions /\ try' = try /\ result' = result /\ faults' = faults
  BY DEF Send
<1>1. TypeOK'
  BY <1>0 DEF Send, TypeOK, NoReply, AnswerSet
<1>2. Unique' /\ Resumed' /\ StartersPast'
  BY <1>0 DEF Unique, Resumed, StartersPast
<1>3. RequestsHonest'
  BY <1>0 DEF Send, RequestsHonest, TypeOK, Matches
<1>4. SentOnce'
  BY DEF Send, SentOnce, BeforeStart, TypeOK, Routes
<1>5. NotStarted'
  BY <1>0 DEF Send, NotStarted, BeforeStart
<1>6. ASSUME NEW v \in Workers PROVE BeforeStart(v)' /\ AnswersGood(v)'
  <2>1. CASE v = w
    <3>1. pc'[v] \in Routes /\ pc'[v] = r.route /\ reply'[v].status = 0
      BY <2>1 DEF Send, TypeOK, NoReply
    <3>2. AnswersGood(v)'
      BY <3>1 DEF AnswersGood, Accepted, Routes
    <3>3. BeforeStart(v)'
      BY <1>0, <2>1, <3>1 DEF Send, BeforeStart, Ops, Routes
    <3> QED
      BY <3>2, <3>3
  <2>2. CASE v # w
    <3>1. pc'[v] = pc[v] /\ reply'[v] = reply[v] /\ inflight' = inflight \cup {r}
      BY <2>2 DEF Send, TypeOK
    <3> QED
      BY <1>0, <2>2, <3>1 DEF BeforeStart, AnswersGood, Good, Matches, Accepted
  <2> QED
    BY <2>1, <2>2
<1> QED
  BY <1>1, <1>2, <1>3, <1>4, <1>5, <1>6

(* An answer returned, a failure, and another attempt: the daemon is not   *)
(* involved.                                                               *)
LEMMA WorkerInv ==
    ASSUME IndInv, NEW w \in Workers, Succeed(w) \/ Refused(w) \/ CallFails(w) \/ Retry(w)
    PROVE  IndInv'
<1> USE DEF IndInv
<1>0. job' = job /\ sessions' = sessions /\ reply' = reply /\ inflight' \subseteq inflight
  BY DEF Succeed, Return, Refused, CallFails, Retry
<1>1. /\ try' \in [Workers -> Nat \ {0}]
      /\ \A v \in Workers : try[v] <= try'[v]
  <2>1. try' = try \/ try' = [try EXCEPT ![w] = @ + 1]
    BY DEF Succeed, Return, Refused, CallFails, Retry
  <2>2. try \in [Workers -> Nat \ {0}]
    BY DEF TypeOK
  <2> QED
    BY <2>1, <2>2
<1>2. pc' \in [Workers -> Routes \cup {"idle", "failed", "conflict", "ok"}]
  <2>1. \E x \in {"idle", "failed", "conflict", "ok"} : pc' = [pc EXCEPT ![w] = x]
    <3>1. CASE Succeed(w)
      BY <3>1 DEF Succeed, Return
    <3>2. CASE Refused(w)
      BY <3>2 DEF Refused
    <3>3. CASE CallFails(w) \/ Retry(w)
      BY <3>3 DEF CallFails, Retry
    <3> QED
      BY <3>1, <3>2, <3>3
  <2> QED
    BY <2>1 DEF TypeOK
<1>3. /\ faults' \in 0..MaxFaults
      /\ result' \in [Workers -> [id : Nat, replayed : BOOLEAN]]
  <2>1. faults' \in 0..MaxFaults
    BY JobAssumption DEF Succeed, Return, Refused, CallFails, Fault, Retry, TypeOK
  <2>2. reply[w].id \in Nat /\ reply[w].replayed \in BOOLEAN
    BY DEF TypeOK, AnswerSet
  <2>3. \/ result' = result
        \/ result' = [result EXCEPT ![w] = [id |-> reply[w].id, replayed |-> reply[w].replayed]]
    BY DEF Succeed, Return, Refused, CallFails, Retry
  <2>4. result \in [Workers -> [id : Nat, replayed : BOOLEAN]]
    BY DEF TypeOK
  <2> QED
    BY <2>1, <2>2, <2>3, <2>4
<1>4. TypeOK'
  BY <1>0, <1>1, <1>2, <1>3 DEF TypeOK
<1>5. Unique' /\ Resumed' /\ SentOnce' /\ NotStarted'
  BY <1>0 DEF Unique, Resumed, SentOnce, NotStarted
<1>6. RequestsHonest'
  <2> SUFFICES ASSUME NEW r \in inflight
               PROVE  RequestsHonest!(r)'
    BY <1>0 DEF RequestsHonest
  <2>1. r.w \in Workers /\ r.try \in Nat
    BY DEF TypeOK, RequestSet
  <2>2. r.try <= try'[r.w]
    BY <1>1, <2>1 DEF RequestsHonest, TypeOK
  <2> QED
    BY <1>0, <2>2 DEF RequestsHonest, Matches
<1>7. StartersPast'
  <2> SUFFICES ASSUME NEW i \in 1..Len(sessions)
               PROVE  sessions[i].starter[2] <= try'[sessions[i].starter[1]]
    BY <1>0 DEF StartersPast
  <2>1. sessions[i].starter[2] <= try[sessions[i].starter[1]]
    BY DEF StartersPast
  <2> QED
    BY <1>1, <2>1, SessionTypes DEF TypeOK
<1>8. ASSUME NEW v \in Workers PROVE BeforeStart(v)' /\ AnswersGood(v)'
  <2>1. CASE v # w
    <3>1. pc'[v] = pc[v] /\ try'[v] = try[v] /\ result'[v] = result[v]
      BY <2>1 DEF Succeed, Return, Refused, CallFails, Retry, TypeOK
    <3> QED
      BY <1>0, <3>1 DEF BeforeStart, AnswersGood, Good, Matches, Accepted
  <2>2. CASE v = w /\ Succeed(w)
    <3>1. Good(w, reply[w])
      BY <2>2 DEF Succeed, AnswersGood
    <3>2. /\ pc'[w] = "ok" /\ try' = try
          /\ result'[w].id = reply[w].id /\ result'[w].replayed = reply[w].replayed
      BY <2>2 DEF Succeed, Return, TypeOK
    <3> QED
      BY <1>0, <2>2, <3>1, <3>2 DEF BeforeStart, AnswersGood, Good, Matches
  <2>3. CASE v = w /\ (Refused(w) \/ CallFails(w))
    <3>1. pc'[w] \in {"conflict", "failed"}
      BY <2>3 DEF Refused, CallFails, TypeOK
    <3> QED
      BY <2>3, <3>1 DEF BeforeStart, AnswersGood
  <2>4. CASE v = w /\ Retry(w)
    <3>1. pc'[w] = "idle" /\ try'[w] = try[w] + 1
      BY <2>4 DEF Retry, TypeOK
    <3>2. \A r \in inflight' : r.w = w => r.try # try'[w]
      BY <1>0, <3>1 DEF RequestsHonest, TypeOK
    <3>3. \A i \in 1..Len(sessions) : sessions[i].starter # <<w, try'[w]>>
      <4> SUFFICES ASSUME NEW i \in 1..Len(sessions), sessions[i].starter = <<w, try[w] + 1>>
                   PROVE  FALSE
        BY <3>1
      <4>1. try[w] + 1 <= try[w]
        BY DEF StartersPast
      <4> QED
        BY <4>1 DEF TypeOK
    <3> QED
      BY <1>0, <2>4, <3>1, <3>2, <3>3 DEF BeforeStart, AnswersGood
  <2> QED
    BY <2>1, <2>2, <2>3, <2>4
<1> QED
  BY <1>4, <1>5, <1>6, <1>7, <1>8

-----------------------------------------------------------------------------
(* What a step keeps of a session keeps what answers say about it.         *)
LEMMA KeptGood ==
    ASSUME Kept, job' = job, NEW w \in Workers, try'[w] = try[w], NEW i, Matches(w, i)
    PROVE  /\ Matches(w, i)'
           /\ sessions[i].state # "created" =>
                 sessions'[i].state # "created" /\ sessions'[i].starter = sessions[i].starter
  BY DEF Kept, Matches

(* The daemon answers request r: the sessions may have changed, as long as *)
(* what is new about them is due to r, and the answer is a good one.       *)
LEMMA RespondInv ==
    ASSUME IndInv, NEW r \in inflight, NEW a \in AnswerSet, Respond(r, a),
           sessions' \in Seq(SessionSet), faults' \in 0..MaxFaults, Kept, Unique', Resumed',
           \A i \in 1..Len(sessions') :
              \/ i \in 1..Len(sessions) /\ sessions'[i].starter = sessions[i].starter
              \/ sessions'[i].starter = <<r.w, 0>>
              \/ r.route # "create" /\ sessions'[i].starter = <<r.w, r.try>>,
           Accepted(r.route, a.status) =>
              /\ a.id \in 1..Len(sessions')
              /\ sessions'[a.id].key = job[r.w].key
              /\ sessions'[a.id].op = job[r.w].op
              /\ sessions'[a.id].what = job[r.w].what
              /\ r.route # "create" =>
                    /\ sessions'[a.id].state # "created"
                    /\ a.replayed <=> sessions'[a.id].starter # <<r.w, r.try>>
    PROVE  IndInv'
<1> USE DEF IndInv
<1>0. /\ job' = job /\ pc' = pc /\ try' = try /\ result' = result
      /\ inflight' = inflight \ {r}
  BY DEF Respond
<1>1. r \in RequestSet /\ r.w \in Workers /\ r.try \in Nat \ {0}
  BY DEF TypeOK, RequestSet
<1>2. TypeOK'
  BY <1>0, <1>1 DEF Respond, TypeOK
<1>3. RequestsHonest'
  <2> SUFFICES ASSUME NEW s \in inflight PROVE RequestsHonest!(s)'
    BY <1>0 DEF RequestsHonest
  <2>1. s.w \in Workers
    BY DEF TypeOK, RequestSet
  <2>2. Matches(s.w, s.id) => Matches(s.w, s.id)'
    BY <1>0, <2>1, KeptGood
  <2> QED
    BY <1>0, <2>2 DEF RequestsHonest
<1>4. SentOnce'
  BY <1>0 DEF SentOnce
<1>5. NotStarted'
  <2> SUFFICES ASSUME NEW s \in inflight, s # r, s.route # "create",
                      NEW i \in 1..Len(sessions'), sessions'[i].starter = <<s.w, s.try>>
               PROVE  FALSE
    BY <1>0 DEF NotStarted
  <2>1. s \in RequestSet /\ s.try # 0
    BY DEF TypeOK, RequestSet
  <2>2. ~(i \in 1..Len(sessions) /\ sessions'[i].starter = sessions[i].starter)
    BY DEF NotStarted
  <2>3. r.route # "create" /\ s.w = r.w /\ s.try = r.try
    BY <2>1, <2>2
  <2>4. s.route = r.route
    BY <1>1, <2>1, <2>3 DEF RequestsHonest, RequestSet, Routes, Ops
  <2> QED
    BY <2>3, <2>4 DEF SentOnce
<1>6. StartersPast'
  <2> SUFFICES ASSUME NEW i \in 1..Len(sessions')
               PROVE  sessions'[i].starter[2] <= try[sessions'[i].starter[1]]
    BY <1>0 DEF StartersPast
  <2>1. CASE i \in 1..Len(sessions) /\ sessions'[i].starter = sessions[i].starter
    BY <2>1 DEF StartersPast
  <2>2. CASE sessions'[i].starter = <<r.w, 0>>
    BY <1>1, <2>2 DEF TypeOK
  <2>3. CASE sessions'[i].starter = <<r.w, r.try>>
    BY <1>1, <2>3 DEF RequestsHonest
  <2> QED
    BY <2>1, <2>2, <2>3
<1>7. ASSUME NEW w \in Workers PROVE BeforeStart(w)'
  <2> SUFFICES ASSUME pc[w] \in {"idle", "create"}, NEW i \in 1..Len(sessions'),
                      sessions'[i].starter = <<w, try[w]>>
               PROVE  FALSE
    BY <1>0 DEF BeforeStart
  <2>1. try[w] # 0
    BY DEF TypeOK
  <2>2. ~(i \in 1..Len(sessions) /\ sessions'[i].starter = sessions[i].starter)
    BY DEF BeforeStart
  <2>3. r.route # "create" /\ w = r.w /\ try[w] = r.try
    BY <2>1, <2>2
  <2> QED
    BY <2>3 DEF BeforeStart
<1>8. ASSUME NEW w \in Workers PROVE AnswersGood(w)'
  <2>1. \A i : Matches(w, i) =>
           /\ Matches(w, i)'
           /\ sessions[i].state # "created" =>
                 sessions'[i].state # "created" /\ sessions'[i].starter = sessions[i].starter
    BY <1>0, KeptGood
  <2>2. CASE reply'[w] = reply[w]
    BY <1>0, <2>1, <2>2 DEF AnswersGood, Good, Matches, Accepted
  <2>3. CASE w = r.w /\ pc[w] = r.route /\ try[w] = r.try /\ reply'[w] = a
    BY <1>0, <1>1, <2>3 DEF AnswersGood, Good, Matches, Accepted, RequestSet, Routes
  <2> QED
    BY <1>1, <2>2, <2>3 DEF Respond, TypeOK
<1> QED
  BY <1>2, <1>3, <1>4, <1>5, <1>6, <1>7, <1>8

(* create and resume: the first request that carries a key makes the       *)
(* session, every later one is answered from it or refused.                *)
LEMMA KeyedInv ==
    ASSUME IndInv, NEW r \in inflight, HandleKeyed(r)
    PROVE  IndInv'
<1> USE DEF IndInv
<1>0. /\ r \in RequestSet /\ r.w \in Workers /\ r.try \in Nat \ {0} /\ r.key = job[r.w].key
      /\ r.op = job[r.w].op /\ r.what = job[r.w].what
      /\ faults' \in 0..MaxFaults
      /\ sessions \in Seq(SessionSet) /\ Len(sessions) \in Nat
  BY DEF HandleKeyed, TypeOK, RequestSet, RequestsHonest
<1>1. CASE Bound(r.key) = {}
  <2> DEFINE s == NewSession(r)
             n == Len(sessions) + 1
             a == Answer(201, n, FALSE)
  <2>1. sessions' = Append(sessions, s) /\ Respond(r, a)
    BY <1>1 DEF HandleKeyed
  <2>2. /\ s \in SessionSet /\ s.key = r.key /\ s.op = r.op /\ s.what = r.what
        /\ s.starter = <<r.w, IF r.route = "create" THEN 0 ELSE r.try>>
        /\ r.route # "create" => s.state # "created"
    BY <1>0 DEF NewSession, RequestSet, SessionSet
  <2>3. a \in AnswerSet /\ a.id = n /\ a.replayed = FALSE
    BY <1>0 DEF Answer, AnswerSet
  <2> HIDE DEF s, a
  <2>4. /\ sessions' \in Seq(SessionSet) /\ Len(sessions') = n /\ sessions'[n] = s
        /\ \A i \in 1..Len(sessions) : i \in 1..n /\ sessions'[i] = sessions[i]
        /\ \A i \in 1..n : i = n \/ i \in 1..Len(sessions)
    BY <1>0, <2>1, <2>2
  <2>5. Kept
    BY <2>4 DEF Kept
  <2>6. Unique'
    <3> SUFFICES ASSUME NEW i \in 1..n, NEW j \in 1..n, sessions'[i].key = sessions'[j].key,
                        sessions'[i].key # NoKey
                 PROVE  i = j
      BY <2>4 DEF Unique
    <3>1. \A k \in 1..Len(sessions) : r.key # NoKey => sessions[k].key # r.key
      BY <1>1 DEF Bound
    <3> QED
      BY <2>2, <2>4, <3>1 DEF Unique
  <2>7. Resumed'
    BY <1>0, <2>2, <2>4 DEF Resumed, HandleKeyed, RequestsHonest
  <2>8. \A i \in 1..Len(sessions') :
           \/ i \in 1..Len(sessions) /\ sessions'[i].starter = sessions[i].starter
           \/ sessions'[i].starter = <<r.w, 0>>
           \/ r.route # "create" /\ sessions'[i].starter = <<r.w, r.try>>
    BY <2>2, <2>4
  <2>9. /\ a.id \in 1..Len(sessions') /\ sessions'[a.id] = s
        /\ r.route # "create" => (a.replayed <=> sessions'[a.id].starter # <<r.w, r.try>>)
    BY <1>0, <2>2, <2>3, <2>4
  <2> QED
    BY <1>0, <2>1, <2>2, <2>3, <2>4, <2>5, <2>6, <2>7, <2>8, <2>9, RespondInv
<1>2. CASE Bound(r.key) # {}
  <2> DEFINE i == CHOOSE j \in Bound(r.key) : TRUE
             same == sessions[i].op = r.op /\ sessions[i].what = r.what
             a == IF same THEN Answer(200, i, TRUE) ELSE Answer(409, 0, FALSE)
  <2>1. i \in 1..Len(sessions) /\ sessions[i].key = r.key /\ r.key # NoKey
    BY <1>2 DEF Bound
  <2>2. Respond(r, a) /\ sessions' = sessions
    BY <1>2 DEF HandleKeyed
  <2> HIDE DEF i
  <2>3. a \in AnswerSet /\ (a.status \in {200, 201} => same /\ a.id = i /\ a.replayed = TRUE)
    BY <1>0, <2>1 DEF Answer, AnswerSet
  <2> HIDE DEF a
  <2>4. Kept /\ Unique' /\ Resumed'
    BY <2>2 DEF Kept, Unique, Resumed
  <2>5. r.route \in {"create", "resume"} /\ (Accepted(r.route, a.status) => a.status \in {200, 201})
    BY DEF HandleKeyed, Accepted
  <2>6. r.route # "create" => /\ sessions[i].starter # <<r.w, r.try>>
                              /\ same => sessions[i].state # "created"
    BY <1>0, <2>1, <2>5 DEF NotStarted, Resumed, RequestsHonest
  <2> QED
    BY <1>0, <2>1, <2>2, <2>3, <2>4, <2>5, <2>6, RespondInv
<1> QED
  BY <1>1, <1>2

(* launch: the first one starts the session, a later one is told so.       *)
LEMMA LaunchInv ==
    ASSUME IndInv, NEW r \in inflight, HandleLaunch(r)
    PROVE  IndInv'
<1> USE DEF IndInv
<1>0. /\ r \in RequestSet /\ r.w \in Workers /\ r.try \in Nat \ {0} /\ r.route = "launch"
      /\ r.id \in Nat /\ Matches(r.w, r.id) /\ r.id \in 1..Len(sessions)
      /\ faults' \in 0..MaxFaults
      /\ sessions \in Seq(SessionSet) /\ sessions[r.id] \in SessionSet
      /\ sessions[r.id].starter # <<r.w, r.try>>
  <2>1. /\ r \in RequestSet /\ r.w \in Workers /\ r.try \in Nat \ {0} /\ r.id \in Nat
        /\ faults' \in 0..MaxFaults
    BY DEF HandleLaunch, TypeOK, RequestSet
  <2>2. r.route = "launch" /\ Matches(r.w, r.id)
    BY DEF HandleLaunch, RequestsHonest
  <2>3. r.id \in 1..Len(sessions)
    BY <2>2 DEF Matches
  <2>4. sessions \in Seq(SessionSet) /\ sessions[r.id] \in SessionSet
    BY <2>3 DEF TypeOK
  <2>5. sessions[r.id].starter # <<r.w, r.try>>
    BY <2>2, <2>3 DEF NotStarted
  <2> QED
    BY <2>1, <2>2, <2>3, <2>4, <2>5
<1>1. CASE sessions[r.id].state = "created"
  <2> DEFINE s == [[sessions[r.id] EXCEPT !.state = "running"] EXCEPT !.starter = <<r.w, r.try>>]
             a == Answer(200, r.id, FALSE)
  <2>1. sessions' = [sessions EXCEPT ![r.id] = s] /\ Respond(r, a)
    BY <1>0, <1>1 DEF HandleLaunch
  <2>2. /\ s \in SessionSet /\ s.key = sessions[r.id].key /\ s.op = sessions[r.id].op
        /\ s.what = sessions[r.id].what /\ s.starter = <<r.w, r.try>> /\ s.state = "running"
    BY <1>0 DEF SessionSet
  <2>3. a \in AnswerSet /\ a.id = r.id /\ a.replayed = FALSE
    BY <1>0 DEF Answer, AnswerSet
  <2> HIDE DEF s, a
  <2>4. /\ sessions' \in Seq(SessionSet) /\ Len(sessions') = Len(sessions)
        /\ sessions'[r.id] = s
        /\ \A i \in 1..Len(sessions) : i # r.id => sessions'[i] = sessions[i]
    BY <1>0, <2>1, <2>2
  <2>5. Kept
    BY <1>1, <2>2, <2>4 DEF Kept
  <2>6. Unique' /\ Resumed'
    BY <2>2, <2>4 DEF Unique, Resumed
  <2>7. \A i \in 1..Len(sessions') :
           \/ i \in 1..Len(sessions) /\ sessions'[i].starter = sessions[i].starter
           \/ sessions'[i].starter = <<r.w, r.try>>
    BY <2>2, <2>4
  <2> QED
    BY <1>0, <2>1, <2>2, <2>3, <2>4, <2>5, <2>6, <2>7, RespondInv DEF Matches
<1>2. CASE sessions[r.id].state # "created"
  <2> DEFINE a == Answer(200, r.id, TRUE)
  <2>1. sessions' = sessions /\ Respond(r, a)
    BY <1>2 DEF HandleLaunch
  <2>2. a \in AnswerSet /\ a.id = r.id /\ a.replayed = TRUE
    BY <1>0 DEF Answer, AnswerSet
  <2> HIDE DEF a
  <2>3. Kept /\ Unique' /\ Resumed'
    BY <2>1 DEF Kept, Unique, Resumed
  <2> QED
    BY <1>0, <1>2, <2>1, <2>2, <2>3, RespondInv DEF Matches
<1> QED
  BY <1>1, <1>2

(* A refusal, and a session that stops, change nothing an answer was about. *)
LEMMA FaultInv ==
    ASSUME IndInv, (\E r \in inflight : HandleRefuses(r)) \/ \E i \in 1..Len(sessions) : Stop(i)
    PROVE  IndInv'
<1> USE DEF IndInv
<1>0. faults' \in 0..MaxFaults
  <2>1. Fault
    BY DEF HandleRefuses, Stop
  <2> QED
    BY <2>1, JobAssumption DEF Fault, TypeOK
<1>1. ASSUME NEW r \in inflight, HandleRefuses(r) PROVE IndInv'
  <2> DEFINE a == Answer(503, 0, FALSE)
  <2>1. sessions' = sessions /\ Respond(r, a)
    BY <1>1 DEF HandleRefuses
  <2>2. a \in AnswerSet /\ a.status = 503
    BY DEF Answer, AnswerSet
  <2> HIDE DEF a
  <2>3. Kept /\ Unique' /\ Resumed' /\ sessions' \in Seq(SessionSet)
    BY <2>1 DEF Kept, Unique, Resumed, TypeOK
  <2>4. ~Accepted(r.route, a.status)
    BY <2>2 DEF Accepted
  <2> QED
    BY <1>0, <2>1, <2>2, <2>3, <2>4, RespondInv
<1>2. ASSUME NEW i \in 1..Len(sessions), Stop(i) PROVE IndInv'
  <2> DEFINE s == [sessions[i] EXCEPT !.state = "stopped"]
  <2>1. sessions' = [sessions EXCEPT ![i] = s]
    BY <1>2 DEF Stop
  <2>2. /\ job' = job /\ inflight' = inflight /\ reply' = reply /\ pc' = pc /\ try' = try
        /\ result' = result
    BY <1>2 DEF Stop
  <2>3. sessions \in Seq(SessionSet) /\ sessions[i] \in SessionSet
    BY DEF TypeOK
  <2>4. /\ s \in SessionSet /\ s.key = sessions[i].key /\ s.op = sessions[i].op
        /\ s.what = sessions[i].what /\ s.starter = sessions[i].starter /\ s.state = "stopped"
    BY <2>3 DEF SessionSet
  <2> HIDE DEF s
  <2>5. /\ sessions' \in Seq(SessionSet) /\ Len(sessions') = Len(sessions)
        /\ sessions'[i] = s
        /\ \A j \in 1..Len(sessions) : j # i => sessions'[j] = sessions[j]
    BY <2>1, <2>3, <2>4
  <2>6. \A j \in 1..Len(sessions) : sessions'[j].starter = sessions[j].starter
    BY <2>4, <2>5
  <2>7. Kept
    BY <2>4, <2>5 DEF Kept
  <2>8. TypeOK' /\ Unique' /\ Resumed' /\ SentOnce' /\ NotStarted' /\ StartersPast'
    <3>1. TypeOK' /\ SentOnce'
      BY <1>0, <2>2, <2>5 DEF TypeOK, SentOnce
    <3>2. Unique' /\ Resumed'
      BY <2>4, <2>5 DEF Unique, Resumed
    <3>3. NotStarted' /\ StartersPast'
      BY <2>2, <2>5, <2>6 DEF NotStarted, StartersPast
    <3> QED
      BY <3>1, <3>2, <3>3
  <2>9. \A w \in Workers : \A j : Matches(w, j) =>
           /\ Matches(w, j)'
           /\ sessions[j].state # "created" =>
                 sessions'[j].state # "created" /\ sessions'[j].starter = sessions[j].starter
    BY <2>2, <2>7, KeptGood
  <2>10. RequestsHonest'
    BY <2>2, <2>9 DEF RequestsHonest, TypeOK, RequestSet
  <2>11. ASSUME NEW w \in Workers PROVE BeforeStart(w)' /\ AnswersGood(w)'
    <3>1. BeforeStart(w)'
      BY <2>2, <2>5, <2>6 DEF BeforeStart
    <3>2. AnswersGood(w)'
      BY <2>2, <2>9 DEF AnswersGood, Good, Matches, Accepted
    <3> QED
      BY <3>1, <3>2
  <2> QED
    BY <2>8, <2>10, <2>11
<1> QED
  BY <1>1, <1>2

-----------------------------------------------------------------------------
(* The inductive invariant holds in every reachable state.                 *)
THEOREM Invariance == Spec => []IndInv
<1>1. IndInv /\ [Next]_vars => IndInv'
  <2> SUFFICES ASSUME IndInv, [Next]_vars PROVE IndInv'
    OBVIOUS
  <2>1. ASSUME NEW w \in Workers, Worker(w) \/ CallFails(w) PROVE IndInv'
    BY <2>1, WorkerSends, SendInv, WorkerInv DEF Worker
  <2>2. ASSUME NEW r \in inflight, Handle(r) \/ HandleRefuses(r) PROVE IndInv'
    BY <2>2, KeyedInv, LaunchInv, FaultInv DEF Handle
  <2>3. ASSUME NEW i \in 1..Len(sessions), Stop(i) PROVE IndInv'
    BY <2>3, FaultInv
  <2>4. CASE UNCHANGED vars
    BY <2>4 DEF vars, IndInv, TypeOK, Unique, Resumed, RequestsHonest, SentOnce, NotStarted,
                StartersPast, BeforeStart, AnswersGood, Good, Matches
  <2> QED
    BY <2>1, <2>2, <2>3, <2>4 DEF Next
<1> QED
  BY InitInv, <1>1, PTL DEF Spec

(* "a retry returns the session already bound to that key instead of       *)
(* starting a second one" (README): one session for a key, whatever        *)
(* attempts of LaunchWithInput and ResumeLogicalAgent reach the daemon and *)
(* in whatever order, and every caller that succeeds got that session.     *)
THEOREM KeysAreUnique == Spec => []OneSessionPerKey
<1>1. IndInv => OneSessionPerKey
  BY DEF IndInv, Unique, AnswersGood, Good, Matches, OneSessionPerKey, Succeeded, Mine
<1> QED
  BY Invariance, <1>1, PTL

(* A launch or resume that returned without error is of a started session. *)
THEOREM SuccessIsStarted == Spec => []SuccessMeansStarted
<1>1. IndInv => SuccessMeansStarted
  BY DEF IndInv, AnswersGood, Good, Matches, SuccessMeansStarted, Succeeded, Mine
<1> QED
  BY Invariance, <1>1, PTL

(* Replayed is false exactly for the attempt that started the session.     *)
THEOREM ReplayedIsHonest == Spec => []ReplayedTellsApart
<1>1. IndInv => ReplayedTellsApart
  BY DEF IndInv, AnswersGood, Good, ReplayedTellsApart, Succeeded, Mine
<1> QED
  BY Invariance, <1>1, PTL

-----------------------------------------------------------------------------
(* Bootstrap, the other way a session gets its identity: its constants and *)
(* variables, with the same names as those of SessionRows; it counts its   *)
(* faults as KeyedLaunch does, and its pc is the launcher's.               *)
CONSTANTS MaxLate, Hooks
VARIABLES late, works, minted, preset, session, env

Boot == INSTANCE Bootstrap

-----------------------------------------------------------------------------
(* Lineages.  R stands for the daemon's rows and L for the parent of each  *)
(* id: what follows holds of any of them.                                  *)

Continuing(R, i) == R[i].known /\ R[i].parent # 0

Joined(R, S) == \A i \in Ids : Continuing(R, i) => (i \in S <=> R[i].parent \in S)

(* The ids, with a row or without, that continuations connect with id.     *)
Connected(R, id) == {i \in Ids : \A S \in SUBSET Ids : id \in S /\ Joined(R, S) => i \in S}

Sessions(R, id) == {i \in Connected(R, id) : R[i].known}

Split(R, id) == \E i \in Sessions(R, id) : R[i].how \in {"cut", "moved"}

Worked(R, id) == \E i \in Sessions(R, id) : R[i].work # 0

(* Rows continue ids.                                                      *)
Parents(R) == \A i \in Ids : Continuing(R, i) => R[i].parent \in Ids

(* An id is connected with itself.                                         *)
LEMMA ConnectedSelf ==
    ASSUME NEW R, NEW id \in Ids
    PROVE  id \in Connected(R, id)
  BY DEF Connected

(* What is connected with an id is in every joined set that has the id.    *)
LEMMA ConnectedWithin ==
    ASSUME NEW R, NEW id, NEW S \in SUBSET Ids, id \in S, Joined(R, S)
    PROVE  Connected(R, id) \subseteq S
  BY DEF Connected

(* A connected set is joined.                                              *)
LEMMA ConnectedJoined ==
    ASSUME NEW R, NEW id, Parents(R)
    PROVE  Connected(R, id) \in SUBSET Ids /\ Joined(R, Connected(R, id))
  <1>1. ASSUME NEW i \in Ids, Continuing(R, i)
        PROVE  i \in Connected(R, id) <=> R[i].parent \in Connected(R, id)
    <2>1. R[i].parent \in Ids
      BY <1>1 DEF Parents
    <2>2. \A S \in SUBSET Ids : Joined(R, S) => (i \in S <=> R[i].parent \in S)
      BY <1>1 DEF Joined
    <2> QED BY <2>1, <2>2 DEF Connected
  <1>2. Connected(R, id) \in SUBSET Ids
    BY DEF Connected
  <1> QED BY <1>1, <1>2 DEF Joined

(* Connected ids are connected with the same ids.                          *)
LEMMA ConnectedSame ==
    ASSUME NEW R, NEW id \in Ids, NEW i \in Connected(R, id), Parents(R)
    PROVE  i \in Ids /\ Connected(R, i) = Connected(R, id)
  <1>1. i \in Ids
    BY DEF Connected
  <1>2. Connected(R, i) \subseteq Connected(R, id)
    BY ConnectedJoined, ConnectedWithin
  <1>3. id \in Connected(R, i)
    <2> SUFFICES ASSUME id \notin Connected(R, i) PROVE FALSE
      OBVIOUS
    <2> DEFINE S == Ids \ Connected(R, i)
    <2>1. S \in SUBSET Ids /\ id \in S /\ i \notin S
      BY <1>1, ConnectedSelf
    <2>2. Joined(R, S)
      <3>1. Joined(R, Connected(R, i))
        BY ConnectedJoined
      <3> QED BY <3>1 DEF Joined, Parents
    <2>3. i \in S
      BY <2>1, <2>2, ConnectedWithin
    <2> QED BY <2>1, <2>3
  <1>4. Connected(R, id) \subseteq Connected(R, i)
    BY <1>3, ConnectedJoined, ConnectedWithin
  <1> QED BY <1>1, <1>2, <1>4

(* Of the connected ids one at most continues no other: the one all others *)
(* come from.  T is what comes from a.                                     *)
LEMMA OneOrigin ==
    ASSUME NEW R, NEW a \in Ids, NEW b \in Connected(R, a), Parents(R),
           ~Continuing(R, a), ~Continuing(R, b)
    PROVE  a = b
  <1> DEFINE Down(S) == a \in S /\ \A i \in Ids : Continuing(R, i) /\ R[i].parent \in S => i \in S
             T == {i \in Ids : \A S \in SUBSET Ids : Down(S) => i \in S}
  <1>1. a \in T /\ T \in SUBSET Ids
    OBVIOUS
  <1>2. Down(T)
    <2>1. ASSUME NEW i \in Ids, Continuing(R, i), R[i].parent \in T PROVE i \in T
      BY <2>1
    <2> QED BY <1>1, <2>1
  <1>3. ASSUME NEW S \in SUBSET Ids, Down(S) PROVE T \subseteq S
    BY <1>3
  <1> HIDE DEF T
  <1>4. Joined(R, T)
    <2> SUFFICES ASSUME NEW i \in Ids, Continuing(R, i), i \in T, R[i].parent \notin T
                 PROVE  FALSE
      BY <1>2 DEF Joined
    <2>1. i # a
      OBVIOUS
    <2>2. T \ {i} \in SUBSET Ids /\ Down(T \ {i})
      BY <1>1, <1>2, <2>1
    <2> QED BY <1>3, <2>2
  <1>5. b \in T
    BY <1>1, <1>4, ConnectedWithin
  <1>6. a # b => T \ {b} \in SUBSET Ids /\ Down(T \ {b})
    BY <1>1, <1>2
  <1> QED BY <1>3, <1>5, <1>6

(* Lineages depend on who continues whom.                                  *)
LEMMA SameLinks ==
    ASSUME NEW R, NEW Q,
           \A i \in Ids : /\ Continuing(Q, i) <=> Continuing(R, i)
                          /\ Continuing(R, i) => Q[i].parent = R[i].parent
    PROVE  \A id : Connected(Q, id) = Connected(R, id)
  <1>1. \A S : Joined(Q, S) <=> Joined(R, S)
    BY DEF Joined
  <1> QED BY <1>1 DEF Connected

(* A continuation that becomes known connects what was connected with its  *)
(* two sides, and nothing else.                                            *)
LEMMA NewLink ==
    ASSUME NEW R, NEW Q, NEW x \in Ids, NEW p \in Ids, Parents(R),
           ~Continuing(R, x), Continuing(Q, x), Q[x].parent = p,
           \A i \in Ids \ {x} : /\ Continuing(Q, i) <=> Continuing(R, i)
                                /\ Continuing(R, i) => Q[i].parent = R[i].parent
    PROVE  /\ Parents(Q)
           /\ \A i \in Ids : Connected(R, i) \subseteq Connected(Q, i)
           /\ \A i \in Ids :
                 IF x \in Connected(R, i) \/ p \in Connected(R, i)
                 THEN Connected(Q, i) = Connected(R, x) \cup Connected(R, p)
                 ELSE Connected(Q, i) = Connected(R, i)
  <1>1. Parents(Q)
    BY DEF Parents
  <1>2. \A S \in SUBSET Ids : Joined(Q, S) <=> Joined(R, S) /\ (x \in S <=> p \in S)
    BY DEF Joined
  <1>3. ASSUME NEW i \in Ids PROVE Connected(R, i) \subseteq Connected(Q, i)
    BY <1>2 DEF Connected
  <1>4. ASSUME NEW i \in Ids, x \notin Connected(R, i), p \notin Connected(R, i)
        PROVE  Connected(Q, i) = Connected(R, i)
    <2>1. Connected(R, i) \in SUBSET Ids /\ Joined(R, Connected(R, i)) /\ i \in Connected(R, i)
      BY ConnectedJoined, ConnectedSelf
    <2>2. Joined(Q, Connected(R, i))
      BY <1>2, <1>4, <2>1
    <2>3. Connected(Q, i) \subseteq Connected(R, i)
      BY <2>1, <2>2, ConnectedWithin
    <2> QED BY <1>3, <2>3
  <1>5. ASSUME NEW i \in Ids, x \in Connected(R, i) \/ p \in Connected(R, i)
        PROVE  Connected(Q, i) = Connected(R, x) \cup Connected(R, p)
    <2> DEFINE U == Connected(R, x) \cup Connected(R, p)
    <2>1. /\ Connected(R, x) \in SUBSET Ids /\ Joined(R, Connected(R, x)) /\ x \in Connected(R, x)
          /\ Connected(R, p) \in SUBSET Ids /\ Joined(R, Connected(R, p)) /\ p \in Connected(R, p)
      BY ConnectedJoined, ConnectedSelf
    <2>2. U \in SUBSET Ids /\ Joined(R, U) /\ x \in U /\ p \in U
      BY <2>1 DEF Joined
    <2>3. i \in U
      BY <1>5, ConnectedSame, ConnectedSelf
    <2> HIDE DEF U
    <2>4. Connected(Q, i) \subseteq U
      BY <1>2, <2>2, <2>3, ConnectedWithin
    <2>5. Connected(Q, i) \in SUBSET Ids /\ Joined(Q, Connected(Q, i))
      BY <1>1, ConnectedJoined
    <2>6. x \in Connected(Q, i) /\ p \in Connected(Q, i)
      BY <1>2, <1>3, <1>5, <2>5
    <2>7. Joined(R, Connected(Q, i))
      BY <1>2, <2>5
    <2>8. Connected(R, x) \subseteq Connected(Q, i)
      BY <2>5, <2>6, <2>7, ConnectedWithin
    <2>9. Connected(R, p) \subseteq Connected(Q, i)
      BY <2>5, <2>6, <2>7, ConnectedWithin
    <2>10. U \subseteq Connected(Q, i)
      BY <2>8, <2>9 DEF U
    <2> QED BY <2>4, <2>10 DEF U
  <1> QED BY <1>1, <1>3, <1>4, <1>5

-----------------------------------------------------------------------------
(* Workstreams. *)

Intents == {"", "fresh", "preassigned", "compact"}

Row == [known : BOOLEAN, intent : Intents, parent : 0..MaxSessions, native : BOOLEAN,
        work : Nat, how : {"", "lineage", "cut", "assigned", "moved"}]

(* Every row is that of an id a launcher ran under, and an id without a    *)
(* row has no parent and no workstream yet.                                *)
Honest(R, L) ==
    \A i \in Ids :
        /\ R[i].known => L[i] # i /\ R[i].parent \in {0, L[i]}
        /\ ~R[i].known => R[i].parent = 0 /\ R[i].work = 0
        /\ R[i].work = 0 => R[i].how = ""

(* The sessions of a line of work that was not split have one workstream.  *)
OneWork(R) ==
    \A i \in Ids : ~Split(R, i) =>
        \A j, k \in Sessions(R, i) : R[j].work # 0 /\ R[k].work # 0 => R[j].work = R[k].work

(* Those that may yet turn out to continue another line have none, unless  *)
(* they were split.                                                        *)
Waits(R, L) == \A i \in Ids : L[i] # 0 /\ ~Continuing(R, i) /\ Worked(R, i) => Split(R, i)

Placed(R, L) == OneWork(R) /\ Waits(R, L)

(* An id's parent is known when the id is minted, or when the launcher     *)
(* first runs under the id it was started with.                            *)
LEMMA PlacedLine ==
    ASSUME NEW R, NEW L, NEW M, Honest(R, L), Placed(R, L),
           \A i \in Ids : M[i] = L[i] \/ L[i] = i
    PROVE  Honest(R, M) /\ Placed(R, M)
  <1>1. \A i \in Ids : i # 0
    BY DEF Ids, Boot!Ids
  <1>2. Honest(R, M)
    BY DEF Honest
  <1>3. Waits(R, M)
    BY <1>1 DEF Placed, Waits
  <1> QED BY <1>2, <1>3 DEF Placed

(* Rows continue ids.                                                      *)
LEMMA RowsContinue ==
    ASSUME NEW R \in [Ids -> Row]
    PROVE  Parents(R)
  <1>1. ASSUME NEW i \in Ids, Continuing(R, i) PROVE R[i].parent \in Ids
    <2>1. R[i] \in Row
      OBVIOUS
    <2>2. R[i].parent \in 0..MaxSessions /\ R[i].parent # 0
      BY <1>1, <2>1 DEF Row, Continuing
    <2> QED BY <2>2 DEF Ids, Boot!Ids
  <1> QED BY <1>1 DEF Parents

(* Two sets of rows that continue the same ids and have the same           *)
(* workstreams, where only ids without a workstream became known, are      *)
(* placed alike.                                                           *)
LEMMA PlacedAlike ==
    ASSUME NEW R, NEW Q, NEW L, Placed(R, L), Honest(R, L),
           \A i \in Ids : /\ Continuing(Q, i) <=> Continuing(R, i)
                          /\ Continuing(R, i) => Q[i].parent = R[i].parent
                          /\ Q[i].work = R[i].work /\ Q[i].how = R[i].how
                          /\ R[i].known => Q[i].known
    PROVE  Placed(Q, L)
  <1>1. \A i : Connected(Q, i) = Connected(R, i)
    BY SameLinks
  <1>2. ASSUME NEW i \in Ids
        PROVE  /\ \A j \in Sessions(R, i) : j \in Sessions(Q, i)
               /\ \A j \in Sessions(Q, i) : j \in Ids /\ (R[j].work # 0 => j \in Sessions(R, i))
    BY <1>1 DEF Sessions, Connected, Honest
  <1>3. ASSUME NEW i \in Ids
        PROVE  (Split(Q, i) <=> Split(R, i)) /\ (Worked(Q, i) <=> Worked(R, i))
    <2>1. \A j \in Sessions(R, i) : j \in Ids
      BY DEF Sessions, Connected
    <2>2. \A j \in Ids : R[j].how \in {"cut", "moved"} => R[j].work # 0
      BY DEF Honest
    <2> QED BY <1>2, <2>1, <2>2 DEF Split, Worked
  <1>4. OneWork(Q)
    <2>1. OneWork(R)
      BY DEF Placed
    <2> QED BY <1>2, <1>3, <2>1 DEF OneWork
  <1>5. Waits(Q, L)
    BY <1>3 DEF Placed, Waits
  <1> QED BY <1>4, <1>5 DEF Placed

(* The daemon learns that a session continues another one.  What was       *)
(* placed before it knew is split, so no unsplit line has a workstream on  *)
(* both sides.                                                             *)
LEMMA PlacedLinked ==
    ASSUME NEW R \in [Ids -> Row], NEW Q, NEW L, Placed(R, L), Honest(R, L),
           NEW x \in Ids, NEW p \in Ids, L[x] # 0,
           ~Continuing(R, x), Continuing(Q, x), Q[x].parent = p,
           \A i \in Ids \ {x} : Q[i] = R[i],
           Q[x].work = R[x].work, Q[x].how = R[x].how
    PROVE  Placed(Q, L)
  <1>1. Parents(R)
    BY RowsContinue
  <1>2. \A i \in Ids \ {x} : /\ Continuing(Q, i) <=> Continuing(R, i)
                             /\ Continuing(R, i) => Q[i].parent = R[i].parent
    BY DEF Continuing
  <1>3. /\ \A i \in Ids : Connected(R, i) \subseteq Connected(Q, i)
        /\ \A i \in Ids :
              IF x \in Connected(R, i) \/ p \in Connected(R, i)
              THEN Connected(Q, i) = Connected(R, x) \cup Connected(R, p)
              ELSE Connected(Q, i) = Connected(R, i)
    BY <1>1, <1>2, NewLink
  <1>4. /\ \A i \in Ids : R[i].known => Q[i].known
        /\ \A i \in Ids : Q[i].work = R[i].work /\ Q[i].how = R[i].how
        /\ \A i \in Ids : R[i].how \in {"cut", "moved"} => R[i].work # 0
        /\ \A i \in Ids : R[i].work # 0 => R[i].known
    BY DEF Honest, Continuing
  <1>5. ASSUME NEW i \in Ids PROVE Sessions(R, i) \subseteq Sessions(Q, i) /\ Connected(R, i) \subseteq Ids
    BY <1>3, <1>4 DEF Sessions, Connected
  <1>6. ASSUME NEW i \in Ids, Split(R, i) PROVE Split(Q, i)
    BY <1>4, <1>5, <1>6 DEF Split, Sessions
  <1>7. /\ \A i \in Ids : x \in Connected(R, i) => Connected(R, i) = Connected(R, x)
        /\ \A i \in Ids : p \in Connected(R, i) => Connected(R, i) = Connected(R, p)
    BY <1>1, ConnectedSame
  <1>8. Worked(R, x) => Split(R, x)
    BY DEF Placed, Waits
  <1>9. OneWork(Q)
    <2> SUFFICES ASSUME NEW i \in Ids, ~Split(Q, i), NEW j \in Sessions(Q, i), NEW k \in Sessions(Q, i),
                        Q[j].work # 0, Q[k].work # 0
                 PROVE  Q[j].work = Q[k].work
      BY DEF OneWork
    <2>1. j \in Ids /\ k \in Ids /\ R[j].work # 0 /\ R[k].work # 0 /\ R[j].known /\ R[k].known
      BY <1>4 DEF Sessions, Connected
    <2>2. j \in Connected(Q, i) /\ k \in Connected(Q, i)
      BY DEF Sessions
    <2>3. CASE Connected(Q, i) = Connected(R, i)
      <3>1. j \in Sessions(R, i) /\ k \in Sessions(R, i) /\ ~Split(R, i)
        BY <1>6, <2>1, <2>2, <2>3 DEF Sessions
      <3> QED BY <1>4, <2>1, <3>1 DEF Placed, OneWork
    <2>4. CASE Connected(Q, i) = Connected(R, x) \cup Connected(R, p)
      <3>1. ~Split(R, x) /\ ~Split(R, p)
        BY <1>4, <1>5, <2>4 DEF Split, Sessions
      <3>2. j \notin Connected(R, x) /\ k \notin Connected(R, x)
        BY <1>8, <2>1, <3>1 DEF Worked, Sessions
      <3>3. j \in Sessions(R, p) /\ k \in Sessions(R, p)
        BY <2>1, <2>2, <2>4, <3>2 DEF Sessions
      <3> QED BY <1>4, <2>1, <3>1, <3>3 DEF Placed, OneWork
    <2> QED BY <1>3, <2>3, <2>4
  <1>10. Waits(Q, L)
    <2> SUFFICES ASSUME NEW a \in Ids, L[a] # 0, ~Continuing(Q, a), NEW i \in Sessions(Q, a), Q[i].work # 0
                 PROVE  Split(Q, a)
      BY DEF Waits, Worked
    <2>1. i \in Ids /\ i \in Connected(Q, a) /\ R[i].work # 0 /\ R[i].known
      BY <1>4 DEF Sessions, Connected
    <2>2. a # x /\ ~Continuing(R, a)
      BY <1>2
    <2>3. CASE i \in Connected(R, a)
      <3>1. Worked(R, a)
        BY <2>1, <2>3 DEF Worked, Sessions
      <3> QED BY <1>6, <2>2, <3>1 DEF Placed, Waits
    <2>4. CASE i \notin Connected(R, a)
      <3>1. /\ x \in Connected(R, a) \/ p \in Connected(R, a)
            /\ Connected(Q, a) = Connected(R, x) \cup Connected(R, p)
        BY <1>3, <2>1, <2>4
      <3>2. x \notin Connected(R, a)
        BY <1>1, <2>2, OneOrigin
      <3>3. i \in Connected(R, x)
        BY <1>7, <2>1, <2>4, <3>1, <3>2
      <3>4. Split(R, x)
        BY <1>8, <2>1, <3>3 DEF Worked, Sessions
      <3> QED BY <1>4, <1>5, <3>1, <3>4 DEF Split, Sessions
    <2> QED BY <2>3, <2>4
  <1> QED BY <1>9, <1>10 DEF Placed

(* Two sets of rows whose ids and continuations are the same.              *)
SameIds(R, Q) ==
    /\ \A i \in Ids : (Q[i].known <=> R[i].known) /\ Q[i].parent = R[i].parent
    /\ \A i : Connected(Q, i) = Connected(R, i) /\ Sessions(Q, i) = Sessions(R, i)

(* Changing workstreams changes no lineage.                                *)
LEMMA SameLineages ==
    ASSUME NEW R, NEW Q, \A i \in Ids : (Q[i].known <=> R[i].known) /\ Q[i].parent = R[i].parent
    PROVE  SameIds(R, Q)
  <1>1. \A i \in Ids : Continuing(Q, i) <=> Continuing(R, i)
    BY DEF Continuing
  <1>2. \A i : Connected(Q, i) = Connected(R, i)
    BY <1>1, SameLinks
  <1> QED BY <1>2 DEF SameIds, Sessions, Connected

(* A session that continues no other is assigned to workstream w.          *)
Assigns(R, Q, L, x, w) ==
    /\ x \in Ids /\ R[x].known /\ L[x] = 0 /\ w # 0
    /\ \A i \in Ids : (Q[i].known <=> R[i].known) /\ Q[i].parent = R[i].parent
    /\ \A i \in Ids \ {x} : Q[i].work = R[i].work /\ Q[i].how = R[i].how
    /\ Q[x].work = w
    /\ Q[x].how = IF \E i \in Sessions(R, x) \ {x} : R[i].work # 0 THEN "moved" ELSE "assigned"

(* Assigning a session leaves its line alone or splits it.                 *)
LEMMA PlacedAssigned ==
    ASSUME NEW R \in [Ids -> Row], NEW Q, NEW L, NEW x, NEW w, Placed(R, L), Honest(R, L), Assigns(R, Q, L, x, w)
    PROVE  Placed(Q, L)
  <1>0. /\ x \in Ids /\ R[x].known /\ L[x] = 0 /\ w # 0
        /\ \A i \in Ids \ {x} : Q[i].work = R[i].work /\ Q[i].how = R[i].how
        /\ Q[x].work = w
        /\ Q[x].how = IF \E i \in Sessions(R, x) \ {x} : R[i].work # 0 THEN "moved" ELSE "assigned"
    BY DEF Assigns
  <1>1. SameIds(R, Q) /\ Parents(R)
    BY SameLineages, RowsContinue DEF Assigns
  <1>2. \A i \in Ids : Sessions(Q, i) = Sessions(R, i) /\ Sessions(R, i) \subseteq Ids
    BY <1>1 DEF SameIds, Sessions, Connected
  <1>3. ASSUME NEW i \in Ids, x \in Sessions(R, i) PROVE Sessions(R, i) = Sessions(R, x)
    BY <1>1, <1>3, ConnectedSame DEF Sessions
  <1>4. x \in Sessions(R, x) /\ ~Continuing(R, x)
    BY <1>0, ConnectedSelf DEF Sessions, Honest, Continuing
  <1>5. ASSUME NEW i \in Ids, x \notin Sessions(R, i)
        PROVE  (Split(Q, i) <=> Split(R, i)) /\ (Worked(Q, i) <=> Worked(R, i))
    BY <1>0, <1>2, <1>5 DEF Split, Worked
  <1>6. OneWork(Q)
    <2> SUFFICES ASSUME NEW i \in Ids, ~Split(Q, i), NEW j \in Sessions(R, i), NEW k \in Sessions(R, i),
                        Q[j].work # 0, Q[k].work # 0
                 PROVE  Q[j].work = Q[k].work
      BY <1>2 DEF OneWork
    <2>1. CASE x \notin Sessions(R, i)
      <3>1. R[j].work # 0 /\ R[k].work # 0 /\ ~Split(R, i) /\ Q[j].work = R[j].work /\ Q[k].work = R[k].work
        BY <1>0, <1>2, <1>5, <2>1
      <3> QED BY <3>1 DEF Placed, OneWork
    <2>2. CASE x \in Sessions(R, i)
      <3>1. Q[x].how # "moved"
        BY <1>2, <2>2 DEF Split
      <3>2. \A m \in Sessions(R, i) \ {x} : R[m].work = 0
        BY <1>0, <1>3, <2>2, <3>1
      <3>3. j = x /\ k = x
        BY <1>0, <1>2, <3>2
      <3> QED BY <3>3
    <2> QED BY <2>1, <2>2
  <1>7. Waits(Q, L)
    <2> SUFFICES ASSUME NEW a \in Ids, L[a] # 0, ~Continuing(Q, a), Worked(Q, a)
                 PROVE  Split(Q, a)
      BY DEF Waits
    <2>1. ~Continuing(R, a)
      BY <1>1 DEF SameIds, Continuing
    <2>2. x \notin Sessions(R, a)
      <3> SUFFICES ASSUME x \in Connected(R, a) PROVE FALSE
        BY DEF Sessions
      <3>1. a = x
        BY <1>1, <1>4, <2>1, OneOrigin
      <3> QED BY <1>0, <3>1
    <2> QED BY <1>5, <2>1, <2>2 DEF Placed, Waits
  <1> QED BY <1>6, <1>7 DEF Placed

(* A session without a workstream joins one of its lineage.                *)
Joins(R, Q, x, w) ==
    /\ x \in Ids /\ R[x].known /\ R[x].work = 0 /\ w # 0
    /\ \E k \in Sessions(R, x) : R[k].work = w
    /\ \A i \in Ids : (Q[i].known <=> R[i].known) /\ Q[i].parent = R[i].parent
    /\ \A i \in Ids \ {x} : Q[i].work = R[i].work /\ Q[i].how = R[i].how
    /\ Q[x].work = w

(* Joining is what keeps a line together.                                  *)
LEMMA PlacedJoined ==
    ASSUME NEW R \in [Ids -> Row], NEW Q, NEW L, NEW x, NEW w, Placed(R, L), Honest(R, L), Joins(R, Q, x, w)
    PROVE  Placed(Q, L)
  <1>0. /\ x \in Ids /\ R[x].known /\ R[x].work = 0 /\ w # 0 /\ R[x].how = ""
        /\ \A i \in Ids \ {x} : Q[i].work = R[i].work /\ Q[i].how = R[i].how
        /\ Q[x].work = w
    BY DEF Joins, Honest
  <1>1. SameIds(R, Q) /\ Parents(R)
    BY SameLineages, RowsContinue DEF Joins
  <1>2. \A i \in Ids : Sessions(Q, i) = Sessions(R, i) /\ Sessions(R, i) \subseteq Ids
    BY <1>1 DEF SameIds, Sessions, Connected
  <1>3. ASSUME NEW i \in Ids, x \in Sessions(R, i) PROVE Sessions(R, i) = Sessions(R, x)
    BY <1>1, <1>3, ConnectedSame DEF Sessions
  <1>4. PICK n \in Sessions(R, x) : R[n].work = w
    BY DEF Joins
  <1>5. ASSUME NEW i \in Ids PROVE Split(R, i) => Split(Q, i)
    BY <1>0, <1>2 DEF Split
  <1>6. ASSUME NEW i \in Ids PROVE Worked(Q, i) => Worked(R, i)
    BY <1>0, <1>2, <1>3, <1>4 DEF Worked
  <1>7. OneWork(Q)
    <2> SUFFICES ASSUME NEW i \in Ids, ~Split(Q, i), NEW j \in Sessions(R, i), NEW k \in Sessions(R, i),
                        Q[j].work # 0, Q[k].work # 0
                 PROVE  Q[j].work = Q[k].work
      BY <1>2 DEF OneWork
    <2>1. \A l, m \in Sessions(R, i) : R[l].work # 0 /\ R[m].work # 0 => R[l].work = R[m].work
      BY <1>5 DEF Placed, OneWork
    <2>2. ASSUME NEW m \in Sessions(R, i), Q[m].work # 0
          PROVE  \E l \in Sessions(R, i) : R[l].work = Q[m].work
      <3>1. CASE m = x
        BY <1>0, <1>3, <1>4, <3>1
      <3>2. CASE m # x
        BY <1>0, <1>2, <3>2
      <3> QED BY <3>1, <3>2
    <2> QED BY <2>1, <2>2
  <1>8. Waits(Q, L)
    <2>1. \A a \in Ids : Continuing(Q, a) <=> Continuing(R, a)
      BY <1>1 DEF SameIds, Continuing
    <2> QED BY <1>5, <1>6, <2>1 DEF Placed, Waits
  <1> QED BY <1>7, <1>8 DEF Placed

(* A lineage that has no workstream gets one.                              *)
Starts(R, Q, L, x, w) ==
    /\ x \in Ids /\ R[x].known /\ w # 0
    /\ \A k \in Sessions(R, x) : R[k].work = 0
    /\ \A i \in Ids : (Q[i].known <=> R[i].known) /\ Q[i].parent = R[i].parent
    /\ \A i \in Ids \ Sessions(R, x) : Q[i].work = R[i].work /\ Q[i].how = R[i].how
    /\ \A i \in Sessions(R, x) :
          Q[i].work = w /\ (L[i] # 0 /\ (R[i].parent = 0 \/ ~R[L[i]].known) => Q[i].how = "cut")

(* All its sessions have the same then, and if the daemon does not know    *)
(* yet what the first of them continues, one of them is marked.            *)
LEMMA PlacedStarted ==
    ASSUME NEW R \in [Ids -> Row], NEW Q, NEW L, NEW x, NEW w, Placed(R, L), Honest(R, L), Starts(R, Q, L, x, w)
    PROVE  Placed(Q, L)
  <1>0. /\ x \in Ids /\ R[x].known /\ w # 0
        /\ \A k \in Sessions(R, x) : R[k].work = 0
        /\ \A i \in Ids \ Sessions(R, x) : Q[i].work = R[i].work /\ Q[i].how = R[i].how
        /\ \A i \in Sessions(R, x) :
              Q[i].work = w /\ (L[i] # 0 /\ (R[i].parent = 0 \/ ~R[L[i]].known) => Q[i].how = "cut")
    BY DEF Starts
  <1>1. SameIds(R, Q) /\ Parents(R)
    BY SameLineages, RowsContinue DEF Starts
  <1>2. \A i \in Ids : Sessions(Q, i) = Sessions(R, i) /\ Sessions(R, i) \subseteq Ids
    BY <1>1 DEF SameIds, Sessions, Connected
  <1>3. ASSUME NEW i \in Ids, NEW j \in Sessions(R, i), j \in Sessions(R, x)
        PROVE  Connected(R, i) = Connected(R, x) /\ Sessions(R, i) = Sessions(R, x)
    <2>1. j \in Connected(R, i) /\ j \in Connected(R, x)
      BY <1>3 DEF Sessions
    <2> QED BY <1>0, <1>1, <2>1, ConnectedSame DEF Sessions
  <1>4. ASSUME NEW i \in Ids, \A j \in Sessions(R, i) : j \notin Sessions(R, x)
        PROVE  (Split(Q, i) <=> Split(R, i)) /\ (Worked(Q, i) <=> Worked(R, i))
               /\ \A j \in Sessions(R, i) : Q[j].work = R[j].work
    BY <1>0, <1>2, <1>4 DEF Split, Worked
  <1>5. OneWork(Q)
    <2> SUFFICES ASSUME NEW i \in Ids, ~Split(Q, i), NEW j \in Sessions(R, i), NEW k \in Sessions(R, i),
                        Q[j].work # 0, Q[k].work # 0
                 PROVE  Q[j].work = Q[k].work
      BY <1>2 DEF OneWork
    <2>1. CASE \A m \in Sessions(R, i) : m \notin Sessions(R, x)
      BY <1>4, <2>1 DEF Placed, OneWork
    <2>2. CASE \E m \in Sessions(R, i) : m \in Sessions(R, x)
      BY <1>0, <1>3, <2>2
    <2> QED BY <2>1, <2>2
  <1>6. Waits(Q, L)
    <2> SUFFICES ASSUME NEW a \in Ids, L[a] # 0, ~Continuing(Q, a), Worked(Q, a)
                 PROVE  Split(Q, a)
      BY DEF Waits
    <2>1. ~Continuing(R, a)
      BY <1>1 DEF SameIds, Continuing
    <2>2. CASE \A m \in Sessions(R, a) : m \notin Sessions(R, x)
      BY <1>4, <2>1, <2>2 DEF Placed, Waits
    <2>3. CASE \E m \in Sessions(R, a) : m \in Sessions(R, x)
      <3>1. Connected(R, a) = Connected(R, x) /\ Sessions(R, a) = Sessions(R, x)
        BY <1>3, <2>3
      <3>2. a \in Connected(R, x) /\ x \in Connected(R, x)
        BY <1>0, <3>1, ConnectedSelf
      <3>3. CASE R[a].known
        <4>1. a \in Sessions(R, x) /\ R[a].parent = 0
          BY <2>1, <3>2, <3>3 DEF Sessions, Continuing
        <4>2. Q[a].how = "cut"
          BY <1>0, <4>1
        <4> QED BY <1>2, <3>1, <4>1, <4>2 DEF Split
      <3>4. CASE ~R[a].known
        <4>1. PICK i \in Ids : Continuing(R, i) /\ R[i].parent = a
          <5> SUFFICES ASSUME \A i \in Ids : Continuing(R, i) => R[i].parent # a PROVE FALSE
            OBVIOUS
          <5>1. Joined(R, {a})
            BY <2>1 DEF Joined
          <5>2. Connected(R, a) \subseteq {a}
            BY <5>1, ConnectedWithin
          <5> QED BY <1>0, <3>1, <3>2, <3>4, <5>2
        <4>2. Joined(R, Connected(R, a)) /\ a \in Connected(R, a)
          BY <1>1, ConnectedJoined, ConnectedSelf
        <4>3. i \in Connected(R, a) /\ R[i].known
          BY <4>1, <4>2 DEF Joined, Continuing
        <4>4. i \in Sessions(R, x)
          BY <3>1, <4>3 DEF Sessions
        <4>5. L[i] = a /\ L[i] # 0
          BY <4>1 DEF Honest, Continuing
        <4>6. Q[i].how = "cut"
          BY <1>0, <3>4, <4>4, <4>5
        <4> QED BY <1>2, <3>1, <4>4, <4>6 DEF Split
      <3> QED BY <3>3, <3>4
    <2> QED BY <2>2, <2>3
  <1> QED BY <1>5, <1>6 DEF Placed

-----------------------------------------------------------------------------
(* The daemon. *)

(* Requests name ids the launcher ran under, with the parents they have.   *)
Asked(r, L) ==
    \/ /\ r.op = "bootstrap" /\ r.id \in Ids /\ L[r.id] # r.id /\ r.parent \in {0, L[r.id]}
       /\ r.intent \in Intents /\ r.native \in BOOLEAN
    \/ r.op = "create"
    \/ r.op = "ensure" /\ r.id \in Ids
    \/ r.op = "assign" /\ r.id \in Ids /\ L[r.id] = 0 /\ r.work \in Nat \ {0}

(* What the daemon has, R its rows, W the number of its workstreams, and F *)
(* the requests on their way to it.                                        *)
DaemonInv(R, W, F, L) ==
    /\ R \in [Ids -> Row]
    /\ W \in Nat
    /\ L \in [Ids -> 0..MaxSessions]
    /\ \A l \in F : Asked(l.request, L)
    /\ Honest(R, L)
    /\ Placed(R, L)

(* Bootstrap's lineages are those above.                                   *)
LEMMA LineageIs ==
    \A id \in Ids : Boot!Lineage(id) = Sessions(rows, id) /\ Lineage(id) = Sessions(rows, id)
  <1>1. \A i : Boot!Continues(i) <=> Continuing(rows, i)
    BY DEF Boot!Continues, Continuing
  <1>2. \A S : Boot!Linked(S) <=> Joined(rows, S)
    BY <1>1 DEF Boot!Linked, Joined, Ids, Boot!Ids
  <1>3. \A S : Linked(S) <=> Joined(rows, S)
    BY DEF Linked, Continues, Joined, Continuing
  <1>4. Boot!Ids = Ids
    BY DEF Ids, Boot!Ids
  <1>5. \A id \in Ids : Boot!Lineage(id) = Sessions(rows, id)
    BY <1>2, <1>4 DEF Boot!Lineage, Sessions, Connected
  <1>6. \A id \in Ids : Lineage(id) = Sessions(rows, id)
    BY <1>3 DEF Lineage, Sessions, Connected
  <1> QED BY <1>5, <1>6

Filled(row, r) ==
    [row EXCEPT !.known = TRUE,
                !.intent = IF row.known THEN @ ELSE r.intent,
                !.parent = IF row.parent = 0 THEN r.parent ELSE @,
                !.native = @ \/ r.native]

(* A session's row after a bootstrap.                                      *)
LEMMA RowFilled ==
    ASSUME NEW row \in Row, NEW r, r.parent \in 0..MaxSessions, r.intent \in Intents, r.native \in BOOLEAN
    PROVE  LET q == Filled(row, r) IN
           /\ q \in Row /\ q.known /\ q.work = row.work /\ q.how = row.how
           /\ q.parent = IF row.parent = 0 THEN r.parent ELSE row.parent
  <1>1. PICK q : q = Filled(row, r)
    OBVIOUS
  <1>2. /\ q \in Row /\ q.known /\ q.work = row.work /\ q.how = row.how
        /\ q.parent = IF row.parent = 0 THEN r.parent ELSE row.parent
    BY <1>1 DEF Row, Filled
  <1> QED BY <1>1, <1>2

(* A session registers, or registers again.                                *)
LEMMA BootstrapEffect ==
    ASSUME NEW M, DaemonInv(rows, works, {}, M), NEW r, Asked(r, M), r.op = "bootstrap", Boot!Effect(r)
    PROVE  DaemonInv(rows', works', {}, M)
  <1>0. /\ rows \in [Ids -> Row] /\ works \in Nat /\ M \in [Ids -> 0..MaxSessions]
        /\ Honest(rows, M) /\ Placed(rows, M)
    BY DEF DaemonInv
  <1>1. PICK x : x = r.id
    OBVIOUS
  <1>2. x \in Ids /\ M[x] # x /\ r.parent \in {0, M[x]} /\ r.intent \in Intents /\ r.native \in BOOLEAN
        /\ M[x] \in 0..MaxSessions /\ 0 \in 0..MaxSessions /\ x # 0
    <2>1. x \in Ids /\ M[x] # x /\ r.parent \in {0, M[x]} /\ r.intent \in Intents /\ r.native \in BOOLEAN
      BY <1>1 DEF Asked
    <2>2. M[x] \in 0..MaxSessions
      BY <1>0, <2>1
    <2>3. x # 0 /\ 0 \in 0..MaxSessions
      BY <2>1, SessionsAssumption DEF Ids, Boot!Ids
    <2> QED BY <2>1, <2>2, <2>3
  <1>3. PICK row : row = rows[x]
    OBVIOUS
  <1>4. PICK q : q = Filled(row, r)
    OBVIOUS
  <1>5. rows' = [rows EXCEPT ![x] = q] /\ works' = works
    <2>1. ~Boot!Refused(r)
      BY DEF Boot!Refused
    <2> QED BY <1>1, <1>3, <1>4, <2>1 DEF Boot!Effect, Filled
  <1>6. row \in Row
    BY <1>0, <1>2, <1>3
  <1>7. /\ q \in Row /\ q.known /\ q.work = row.work /\ q.how = row.how
        /\ q.parent = IF row.parent = 0 THEN r.parent ELSE row.parent
    BY <1>2, <1>4, <1>6, RowFilled
  <1>8. /\ rows' \in [Ids -> Row] /\ rows'[x] = q
        /\ \A i \in Ids \ {x} : rows'[i] = rows[i]
    BY <1>0, <1>2, <1>5, <1>7
  <1>9. PICK Q : Q = rows'
    OBVIOUS
  <1>10. PICK R : R = rows
    OBVIOUS
  <1>11. /\ R \in [Ids -> Row] /\ Q \in [Ids -> Row] /\ Q[x] = q /\ R[x] = row /\ Honest(R, M) /\ Placed(R, M)
         /\ \A i \in Ids \ {x} : Q[i] = R[i]
    BY <1>0, <1>3, <1>8, <1>9, <1>10
  <1>12. Honest(Q, M)
    <2>1. /\ R[x].known => R[x].parent \in {0, M[x]}
          /\ ~R[x].known => R[x].parent = 0
          /\ R[x].work = 0 => R[x].how = ""
      BY <1>2, <1>11 DEF Honest
    <2>2. Q[x].known /\ Q[x].parent \in {0, M[x]} /\ (Q[x].work = 0 => Q[x].how = "")
      BY <1>2, <1>7, <1>11, <2>1
    <2>3. ASSUME NEW i \in Ids
          PROVE  /\ Q[i].known => M[i] # i /\ Q[i].parent \in {0, M[i]}
                 /\ ~Q[i].known => Q[i].parent = 0 /\ Q[i].work = 0
                 /\ Q[i].work = 0 => Q[i].how = ""
      <3>1. CASE i = x
        BY <1>2, <2>2, <3>1
      <3>2. CASE i # x
        BY <1>11, <3>2 DEF Honest
      <3> QED BY <3>1, <3>2
    <2> QED BY <2>3 DEF Honest
  <1>13. Placed(Q, M)
    <2>1. CASE Continuing(Q, x) /\ ~Continuing(R, x)
      <3>1. Q[x].parent = M[x] /\ M[x] # 0
        BY <1>2, <1>12, <2>1 DEF Honest, Continuing
      <3>2. M[x] \in Ids
        BY <1>2, <3>1 DEF Ids, Boot!Ids
      <3> QED BY <1>2, <1>7, <1>11, <2>1, <3>1, <3>2, PlacedLinked
    <2>2. CASE ~(Continuing(Q, x) /\ ~Continuing(R, x))
      <3>1. Continuing(R, x) => Continuing(Q, x) /\ Q[x].parent = R[x].parent
        BY <1>7, <1>11 DEF Continuing
      <3>2. \A i \in Ids : /\ Continuing(Q, i) <=> Continuing(R, i)
                           /\ Continuing(R, i) => Q[i].parent = R[i].parent
                           /\ Q[i].work = R[i].work /\ Q[i].how = R[i].how
                           /\ R[i].known => Q[i].known
        BY <1>7, <1>11, <2>2, <3>1 DEF Continuing
      <3> QED BY <1>11, <3>2, PlacedAlike
    <2> QED BY <2>1, <2>2
  <1> QED BY <1>0, <1>5, <1>9, <1>11, <1>12, <1>13 DEF DaemonInv

(* A session is assigned to a workstream.                                  *)
LEMMA AssignEffect ==
    ASSUME DaemonInv(rows, works, {}, line), NEW r, Asked(r, line), r.op = "assign", Boot!Effect(r)
    PROVE  DaemonInv(rows', works', {}, line)
  <1>0. /\ rows \in [Ids -> Row] /\ works \in Nat /\ line \in [Ids -> 0..MaxSessions]
        /\ Honest(rows, line) /\ Placed(rows, line)
    BY DEF DaemonInv
  <1>1. CASE Boot!Refused(r)
    <2>1. rows' = rows /\ works' = works
      BY <1>1 DEF Boot!Effect, Boot!daemonVars
    <2> QED BY <2>1
  <1>2. CASE ~Boot!Refused(r)
    <2>1. PICK x : x = r.id
      OBVIOUS
    <2>2. PICK w : w = r.work
      OBVIOUS
    <2>3. PICK h : h = IF \E i \in Sessions(rows, x) \ {x} : rows[i].work # 0 THEN "moved" ELSE "assigned"
      OBVIOUS
    <2>4. x \in Ids /\ line[x] = 0 /\ w \in Nat /\ w # 0 /\ rows[x].known /\ h \in {"moved", "assigned"}
      BY <1>2, <2>1, <2>2, <2>3 DEF Asked, Boot!Refused
    <2>5. rows' = [rows EXCEPT ![x].work = w, ![x].how = h] /\ works' = works
      <3>1. Boot!Lineage(x) = Sessions(rows, x)
        BY <2>4, LineageIs
      <3> QED BY <1>2, <2>1, <2>2, <2>3, <3>1 DEF Boot!Effect
    <2>6. PICK q : q = [rows[x] EXCEPT !.work = w, !.how = h]
      OBVIOUS
    <2>7. rows[x] \in Row
      BY <1>0, <2>4
    <2>8. q \in Row /\ q.work = w /\ q.how = h /\ (q.known <=> rows[x].known) /\ q.parent = rows[x].parent
      BY <2>4, <2>6, <2>7 DEF Row
    <2>9. rows' = [rows EXCEPT ![x] = q]
      BY <1>0, <2>4, <2>5, <2>6, <2>7 DEF Row
    <2>10. rows' \in [Ids -> Row] /\ rows'[x] = q /\ \A i \in Ids \ {x} : rows'[i] = rows[i]
      BY <1>0, <2>4, <2>8, <2>9
    <2>11. Honest(rows', line)
      <3>1. PICK Q : Q = rows'
        OBVIOUS
      <3>2. /\ (Q[x].known <=> rows[x].known) /\ Q[x].parent = rows[x].parent /\ Q[x].work # 0
            /\ \A i \in Ids \ {x} : Q[i] = rows[i]
        BY <2>4, <2>8, <2>10, <3>1
      <3>3. ASSUME NEW i \in Ids
            PROVE  /\ Q[i].known => line[i] # i /\ Q[i].parent \in {0, line[i]}
                   /\ ~Q[i].known => Q[i].parent = 0 /\ Q[i].work = 0
                   /\ Q[i].work = 0 => Q[i].how = ""
        <4>1. CASE i = x
          BY <1>0, <2>4, <3>2, <4>1 DEF Honest
        <4>2. CASE i # x
          BY <1>0, <3>2, <4>2 DEF Honest
        <4> QED BY <4>1, <4>2
      <3> QED BY <3>1, <3>3 DEF Honest
    <2>12. Assigns(rows, rows', line, x, w)
      BY <2>3, <2>4, <2>8, <2>10 DEF Assigns
    <2>13. Placed(rows', line)
      BY <1>0, <2>12, PlacedAssigned
    <2> QED BY <1>0, <2>5, <2>10, <2>11, <2>13 DEF DaemonInv
  <1> QED BY <1>1, <1>2

(* A session that has none is given a workstream.                          *)
LEMMA EnsureEffect ==
    ASSUME DaemonInv(rows, works, {}, line), NEW r, Asked(r, line), r.op = "ensure", Boot!Effect(r)
    PROVE  DaemonInv(rows', works', {}, line)
  <1>0. /\ rows \in [Ids -> Row] /\ works \in Nat /\ line \in [Ids -> 0..MaxSessions]
        /\ Honest(rows, line) /\ Placed(rows, line)
    BY DEF DaemonInv
  <1>1. CASE Boot!Refused(r)
    <2>1. rows' = rows /\ works' = works
      BY <1>1 DEF Boot!Effect, Boot!daemonVars
    <2> QED BY <2>1
  <1>2. CASE ~Boot!Refused(r)
    <2> DEFINE x == r.id
               N == Boot!Lineage(x)
               has == Boot!WorksOf(x)
    <2>2. x \in Ids /\ rows[x].known
      BY <1>2 DEF Asked, Boot!Refused
    <2>3. N = Sessions(rows, x)
      BY <2>2, LineageIs
    <2>4. has = {rows[i].work : i \in N} \ {0}
      BY DEF Boot!WorksOf
    <2>5. N \subseteq Ids /\ x \in N /\ \A i \in N : rows[i].known
      BY <2>2, <2>3, ConnectedSelf DEF Sessions, Connected
    <2> DEFINE cut(i) == line[i] # 0 /\ (rows[i].parent = 0 \/ ~rows[line[i]].known)
               put(i) == i \in N /\ rows[i].work = 0 /\ (i = x \/ has = {})
    <2>6. PICK w \in IF has = {} THEN {works + 1} ELSE has :
            /\ works' = IF has = {} THEN w ELSE works
            /\ rows' = [i \in Ids |-> IF put(i)
                          THEN [rows[i] EXCEPT !.work = w, !.how = IF cut(i) THEN "cut" ELSE "lineage"]
                          ELSE rows[i]]
      BY <1>2 DEF Boot!Effect, Ids, Boot!Ids
    <2> HIDE DEF cut, put, x, N, has
    <2>7. w \in Nat /\ w # 0 /\ works' \in Nat
      <3>1. \A i \in N : rows[i] \in Row
        BY <1>0, <2>5
      <3>2. \A i \in N : rows[i].work \in Nat
        BY <3>1 DEF Row
      <3>3. has \subseteq Nat \ {0}
        BY <2>4, <3>2
      <3>4. CASE has = {}
        <4>1. w \in {works + 1}
          BY <3>4
        <4>2. works' = w
          BY <2>6, <3>4
        <4> QED BY <1>0, <4>1, <4>2
      <3>5. CASE has # {}
        <4>1. w \in has /\ works' = works
          BY <2>6, <3>5
        <4> QED BY <1>0, <3>3, <4>1
      <3> QED BY <3>4, <3>5
    <2>8. ASSUME NEW i \in Ids
          PROVE  /\ rows'[i] \in Row
                 /\ (rows'[i].known <=> rows[i].known) /\ rows'[i].parent = rows[i].parent
                 /\ put(i) => rows'[i].work = w /\ (cut(i) => rows'[i].how = "cut")
                 /\ ~put(i) => rows'[i] = rows[i]
      <3>1. rows[i] \in Row
        BY <1>0
      <3>2. CASE put(i)
        <4>1. PICK h : h = IF cut(i) THEN "cut" ELSE "lineage"
          OBVIOUS
        <4>2. rows'[i] = [rows[i] EXCEPT !.work = w, !.how = h]
          BY <2>6, <3>2, <4>1
        <4>3. h \in {"cut", "lineage"} /\ (cut(i) => h = "cut")
          BY <4>1
        <4>4. PICK row : row = rows[i]
          OBVIOUS
        <4>5. PICK q : q = [row EXCEPT !.work = w, !.how = h]
          OBVIOUS
        <4>6. q \in Row /\ (q.known <=> row.known) /\ q.parent = row.parent /\ q.work = w /\ q.how = h
          BY <2>7, <3>1, <4>3, <4>4, <4>5 DEF Row
        <4> QED BY <3>2, <4>2, <4>3, <4>4, <4>5, <4>6
      <3>3. CASE ~put(i)
        BY <2>6, <3>1, <3>3
      <3> QED BY <3>2, <3>3
    <2>9. rows' \in [Ids -> Row]
      BY <2>6, <2>8
    <2>10. Honest(rows', line)
      <3>1. \A i \in Ids : put(i) => rows[i].known /\ rows'[i].work # 0
        BY <2>5, <2>7, <2>8 DEF put
      <3>2. PICK Q : Q = rows'
        OBVIOUS
      <3>3. ASSUME NEW i \in Ids
            PROVE  /\ Q[i].known => line[i] # i /\ Q[i].parent \in {0, line[i]}
                   /\ ~Q[i].known => Q[i].parent = 0 /\ Q[i].work = 0
                   /\ Q[i].work = 0 => Q[i].how = ""
        <4>1. CASE put(i)
          BY <1>0, <2>8, <3>1, <3>2, <4>1 DEF Honest
        <4>2. CASE ~put(i)
          BY <1>0, <2>8, <3>2, <4>2 DEF Honest
        <4> QED BY <4>1, <4>2
      <3> QED BY <3>2, <3>3 DEF Honest
    <2>11. Placed(rows', line)
      <3>1. CASE has = {}
        <4>1. \A k \in N : rows[k].work = 0
          BY <2>4, <3>1
        <4>2. \A i \in Ids : put(i) <=> i \in N
          BY <3>1, <4>1 DEF put
        <4>3. /\ \A i \in Ids \ N : rows'[i].work = rows[i].work /\ rows'[i].how = rows[i].how
              /\ \A i \in N : rows'[i].work = w /\ (cut(i) => rows'[i].how = "cut")
          BY <2>5, <2>8, <4>2
        <4>4. Starts(rows, rows', line, x, w)
          BY <2>2, <2>3, <2>7, <2>8, <4>1, <4>3 DEF Starts, cut
        <4> QED BY <1>0, <4>4, PlacedStarted
      <3>2. CASE has # {} /\ rows[x].work = 0
        <4>1. put(x) /\ \A i \in Ids \ {x} : ~put(i)
          BY <2>5, <3>2 DEF put
        <4>2. \E k \in N : rows[k].work = w
          BY <2>4, <2>6, <3>2
        <4>3. Joins(rows, rows', x, w)
          BY <2>2, <2>3, <2>7, <2>8, <3>2, <4>1, <4>2 DEF Joins
        <4> QED BY <1>0, <4>3, PlacedJoined
      <3>3. CASE has # {} /\ rows[x].work # 0
        <4>1. \A i \in Ids : ~put(i)
          BY <3>3 DEF put
        <4>2. \A i \in Ids : rows'[i] = rows[i]
          BY <2>8, <4>1
        <4>3. \A i \in Ids : Continuing(rows', i) <=> Continuing(rows, i)
          BY <4>2 DEF Continuing
        <4> QED BY <1>0, <4>2, <4>3, PlacedAlike
      <3> QED BY <3>1, <3>2, <3>3
    <2> QED BY <1>0, <2>7, <2>9, <2>10, <2>11 DEF DaemonInv
  <1> QED BY <1>1, <1>2

(* The daemon handles a request, whatever it asks.                         *)
LEMMA DaemonEffect ==
    ASSUME NEW M, DaemonInv(rows, works, {}, M), NEW r, Asked(r, M), Boot!Effect(r),
           r.op = "bootstrap" \/ M = line
    PROVE  DaemonInv(rows', works', {}, M)
  <1>1. CASE r.op = "bootstrap"
    BY <1>1, BootstrapEffect
  <1>2. CASE r.op # "bootstrap"
    <2>1. M = line
      BY <1>2
    <2>2. CASE r.op = "create"
      <3>1. ~Boot!Refused(r)
        BY <2>2 DEF Boot!Refused
      <3>2. rows' = rows /\ works' = works + 1
        BY <2>2, <3>1 DEF Boot!Effect
      <3> QED BY <3>2 DEF DaemonInv
    <2>3. CASE r.op = "ensure"
      BY <2>1, <2>3, EnsureEffect
    <2>4. CASE r.op = "assign"
      BY <2>1, <2>4, AssignEffect
    <2> QED BY <1>2, <2>2, <2>3, <2>4 DEF Asked
  <1> QED BY <1>1, <1>2

(* A call, whether it is answered or fails.                                *)
LEMMA CallEffect ==
    ASSUME NEW M, DaemonInv(rows, works, late, M), NEW r, Asked(r, M), r.op = "bootstrap" \/ M = line,
           \/ Boot!Effect(r) /\ UNCHANGED Boot!rpcVars
           \/ UNCHANGED <<Boot!rpcVars, Boot!daemonVars>>
           \/ Boot!CallFails(r) /\ UNCHANGED Boot!daemonVars
    PROVE  DaemonInv(rows', works', late', M)
  <1>1. CASE Boot!Effect(r) /\ UNCHANGED Boot!rpcVars
    <2>1. late' = late
      BY <1>1 DEF Boot!rpcVars
    <2>2. DaemonInv(rows, works, {}, M)
      BY DEF DaemonInv
    <2>3. DaemonInv(rows', works', {}, M)
      BY <1>1, <2>2, DaemonEffect
    <2> QED BY <2>1, <2>3 DEF DaemonInv
  <1>2. CASE UNCHANGED <<Boot!rpcVars, Boot!daemonVars>>
    BY <1>2 DEF Boot!rpcVars, Boot!daemonVars
  <1>3. CASE Boot!CallFails(r) /\ UNCHANGED Boot!daemonVars
    <2>1. rows' = rows /\ works' = works
      BY <1>3 DEF Boot!daemonVars
    <2>2. \A l \in late' : l \in late \/ l.request = r
      BY <1>3 DEF Boot!CallFails
    <2>3. \A l \in late' : Asked(l.request, M)
      BY <2>2 DEF DaemonInv
    <2> QED BY <2>1, <2>3 DEF DaemonInv
  <1> QED BY <1>1, <1>2, <1>3

(* An id's parent is set once: by the mint, or by the launcher's first     *)
(* step under the id it was started with.                                  *)
SetsParent(L, M) == M \in [Ids -> 0..MaxSessions] /\ \A i \in Ids : M[i] = L[i] \/ L[i] = i

(* The daemon's state makes sense with the parents set, too.               *)
LEMMA DaemonLine ==
    ASSUME NEW R, NEW W, NEW F, NEW L, NEW M, DaemonInv(R, W, F, L), SetsParent(L, M)
    PROVE  DaemonInv(R, W, F, M)
  <1>1. Honest(R, M) /\ Placed(R, M)
    BY PlacedLine DEF DaemonInv, SetsParent
  <1>2. \A i \in Ids : i # 0
    BY DEF Ids, Boot!Ids
  <1>3. ASSUME NEW l \in F PROVE Asked(l.request, M)
    <2>1. Asked(l.request, L)
      BY DEF DaemonInv
    <2> QED BY <1>2, <2>1 DEF Asked, SetsParent
  <1> QED BY <1>1, <1>3 DEF DaemonInv, SetsParent

-----------------------------------------------------------------------------
(* The launcher and its hooks. *)

BootTypeOK ==
    /\ minted \in 0..MaxSessions /\ preset \in {0, 1} /\ preset <= minted
    /\ pc \in {"resolve", "place", "assign", "work"}
    /\ session \in [id : 0..minted, intent : Intents, parent : 0..minted, work : Nat]
    /\ env \in [Hooks -> 0..minted]

(* Sessions continue earlier ones, an id is its own parent until a         *)
(* launcher runs under it, and only sessions a launcher runs under are     *)
(* placed, assigned and handed to hooks.                                   *)
LauncherInv ==
    /\ \A i \in Ids : line[i] = i \/ line[i] < i
    /\ \A i \in Ids : i > minted => line[i] = i
    /\ preset = 1 => line[1] \in {0, 1}
    /\ session.id # 0 => line[session.id] = session.parent /\ session.parent < session.id
    /\ session.id = 0 => session.parent = 0 /\ pc = "resolve"
    /\ pc = "assign" => session.parent = 0 /\ session.work # 0
    /\ \A h \in Hooks : env[h] # 0 => line[env[h]] # env[h]

BootIndInv ==
    /\ DaemonInv(rows, works, late, line)
    /\ BootTypeOK
    /\ LauncherInv

(* The launcher, the hooks and their ids as Launch, Place, Hook and Restart *)
(* find them.                                                              *)
LEMMA BootTypes ==
    ASSUME BootIndInv
    PROVE  /\ MaxSessions \in Nat /\ 1 \in Ids /\ 0 \notin Ids
           /\ minted \in Nat /\ minted \in 0..MaxSessions /\ preset \in {0, 1} /\ preset <= minted
           /\ session.id \in 0..minted /\ session.intent \in Intents /\ session.parent \in 0..minted
           /\ session.work \in Nat
           /\ session.id # 0 => session.id \in Ids
           /\ line \in [Ids -> 0..MaxSessions]
           /\ Boot!Ids = Ids
  <1>1. /\ MaxSessions \in Nat /\ 1 \in Ids /\ 0 \notin Ids /\ Boot!Ids = Ids
    BY SessionsAssumption DEF Ids, Boot!Ids
  <1>2. /\ minted \in 0..MaxSessions /\ preset \in {0, 1} /\ preset <= minted
        /\ session \in [id : 0..minted, intent : Intents, parent : 0..minted, work : Nat]
    BY DEF BootIndInv, BootTypeOK
  <1>3. /\ session.id \in 0..minted /\ session.intent \in Intents /\ session.parent \in 0..minted
        /\ session.work \in Nat
    BY <1>2
  <1>4. session.id # 0 => session.id \in Ids
    BY <1>1, <1>2, <1>3 DEF Ids, Boot!Ids
  <1>5. line \in [Ids -> 0..MaxSessions]
    BY DEF BootIndInv, DaemonInv
  <1> QED BY <1>1, <1>2, <1>3, <1>4, <1>5

(* A call returns: the daemon handled it, refused it, or it failed.        *)
Called(r) ==
    \/ Boot!Effect(r) /\ UNCHANGED Boot!rpcVars
    \/ UNCHANGED <<Boot!rpcVars, Boot!daemonVars>>
    \/ Boot!CallFails(r) /\ UNCHANGED Boot!daemonVars

(* Placing the session: it is one the launcher runs under.                 *)
LEMMA PlaceStep ==
    ASSUME BootIndInv, Boot!Place
    PROVE  BootIndInv'
  <1>1. /\ UNCHANGED <<minted, preset, line, env>>
        /\ \E w, label : session' = [session EXCEPT !.work = w] /\ pc' = label
    BY DEF Boot!Place, Boot!EnsureSessionWorkstream, Boot!CreateWorkstream, Boot!AssignSessionWorkstream,
           Boot!Call, Boot!Launcher
  <1>2. PICK r : /\ Asked(r, line) /\ Called(r)
                 /\ \E w \in Nat, label \in {"place", "assign", "work"} :
                       /\ session' = [session EXCEPT !.work = w] /\ pc' = label
                       /\ label = "assign" => session.parent = 0 /\ w # 0
    <2>1. CASE pc = "place" /\ Boot!EnsureSessionWorkstream(session.id)
      <3>1. session.id \in Ids
        BY <2>1, BootTypes DEF BootIndInv, LauncherInv
      <3>2. PICK r : r = [op |-> "ensure", id |-> session.id]
        OBVIOUS
      <3>3. Asked(r, line)
        BY <3>1, <3>2 DEF Asked
      <3>4. Called(r) /\ session' = [session EXCEPT !.work = 0] /\ pc' \in {"place", "work"}
        BY <2>1, <3>2 DEF Boot!EnsureSessionWorkstream, Boot!Call, Boot!Launcher, Called, Boot!rpcVars, Boot!daemonVars
      <3> QED BY <3>3, <3>4
    <2>2. CASE pc = "place" /\ session.parent = 0 /\ Boot!CreateWorkstream
      <3>1. works \in Nat
        BY DEF BootIndInv, DaemonInv
      <3>2. PICK r : r = [op |-> "create"]
        OBVIOUS
      <3>3. Asked(r, line)
        BY <3>2 DEF Asked
      <3>4. /\ Called(r)
            /\ \/ session' = [session EXCEPT !.work = works + 1] /\ pc' = "assign"
               \/ session' = [session EXCEPT !.work = 0] /\ pc' = "place"
        BY <2>2, <3>2 DEF Boot!CreateWorkstream, Boot!Call, Boot!Launcher, Called, Boot!rpcVars, Boot!daemonVars
      <3> QED BY <2>2, <3>1, <3>3, <3>4
    <2>3. CASE pc = "assign" /\ Boot!AssignSessionWorkstream(session.id, session.work)
      <3>1. /\ session.id \in Ids /\ line[session.id] = 0 /\ session.parent = 0
            /\ session.work \in Nat /\ session.work # 0
        BY <2>3, BootTypes DEF BootIndInv, LauncherInv
      <3>2. PICK r : r = [op |-> "assign", id |-> session.id, work |-> session.work]
        OBVIOUS
      <3>3. Asked(r, line)
        BY <3>1, <3>2 DEF Asked
      <3>4. /\ Called(r)
            /\ \/ session' = [session EXCEPT !.work = 0] /\ pc' = "work"
               \/ session' = [session EXCEPT !.work = session.work] /\ pc' = "assign"
        BY <2>3, <3>2 DEF Boot!AssignSessionWorkstream, Boot!Call, Boot!Launcher, Called, Boot!rpcVars, Boot!daemonVars
      <3> QED BY <3>1, <3>3, <3>4
    <2> QED BY <2>1, <2>2, <2>3 DEF Boot!Place
  <1>3. DaemonInv(rows', works', late', line)
    BY <1>2, CallEffect DEF BootIndInv, Called
  <1>4. session.id # 0
    BY DEF Boot!Place, BootIndInv, LauncherInv
  <1>5. PICK w \in Nat, label \in {"place", "assign", "work"} :
          /\ session' = [session EXCEPT !.work = w] /\ pc' = label
          /\ label = "assign" => session.parent = 0 /\ w # 0
    BY <1>2
  <1>6. /\ session' \in [id : 0..minted, intent : Intents, parent : 0..minted, work : Nat]
        /\ session'.id = session.id /\ session'.parent = session.parent /\ session'.work = w
    BY <1>5 DEF BootIndInv, BootTypeOK
  <1>7. BootTypeOK'
    BY <1>1, <1>5, <1>6 DEF BootIndInv, BootTypeOK
  <1>8. LauncherInv'
    BY <1>1, <1>4, <1>5, <1>6 DEF BootIndInv, LauncherInv
  <1> QED BY <1>1, <1>3, <1>7, <1>8 DEF BootIndInv

(* Handling a request late, starting a hook, and starting over.            *)
LEMMA AsideStep ==
    ASSUME BootIndInv,
           \/ \E l \in late : Boot!Late(l)
           \/ \E h \in Hooks : Boot!Spawn(h)
           \/ Boot!Restart
    PROVE  BootIndInv'
  <1>1. CASE \E l \in late : Boot!Late(l)
    <2>1. PICK l \in late : Boot!Late(l)
      BY <1>1
    <2>2. /\ late' \subseteq late /\ Boot!Effect(l.request) /\ UNCHANGED <<minted, preset, pc, session, line, env>>
      BY <2>1 DEF Boot!Late, Boot!HandledLate
    <2>3. Asked(l.request, line) /\ DaemonInv(rows, works, {}, line)
      BY DEF BootIndInv, DaemonInv
    <2>4. DaemonInv(rows', works', {}, line)
      BY <2>2, <2>3, DaemonEffect
    <2>5. DaemonInv(rows', works', late', line)
      BY <2>2, <2>4 DEF BootIndInv, DaemonInv
    <2>6. BootTypeOK' /\ LauncherInv'
      BY <2>2 DEF BootIndInv, BootTypeOK, LauncherInv
    <2> QED BY <2>2, <2>5, <2>6 DEF BootIndInv
  <1>2. CASE \E h \in Hooks : Boot!Spawn(h)
    <2>1. PICK h \in Hooks : Boot!Spawn(h)
      BY <1>2
    <2>2. /\ session.id # 0 /\ env' = [env EXCEPT ![h] = session.id]
          /\ UNCHANGED <<late, rows, works, minted, preset, pc, session, line>>
      BY <2>1 DEF Boot!Spawn, Boot!rpcVars, Boot!daemonVars
    <2>3. session.id \in 0..minted /\ line[session.id] # session.id
      <3>1. session.id \in 0..minted /\ session.id \in Nat /\ session.parent \in Nat
        BY BootTypes
      <3>2. line[session.id] = session.parent /\ session.parent < session.id
        BY <2>2 DEF BootIndInv, LauncherInv
      <3> QED BY <3>1, <3>2
    <2>4. env' \in [Hooks -> 0..minted] /\ \A k \in Hooks : env'[k] = env[k] \/ env'[k] = session.id
      BY <2>2, <2>3 DEF BootIndInv, BootTypeOK
    <2>5. BootTypeOK'
      BY <2>2, <2>4 DEF BootIndInv, BootTypeOK
    <2>6. LauncherInv'
      BY <2>2, <2>3, <2>4 DEF BootIndInv, LauncherInv
    <2> QED BY <2>2, <2>5, <2>6 DEF BootIndInv
  <1>3. CASE Boot!Restart
    <2>1. /\ session' = [id |-> 0, intent |-> "", parent |-> 0, work |-> 0] /\ pc' = "resolve"
          /\ UNCHANGED <<late, rows, works, minted, preset, line, env>>
      BY <1>3 DEF Boot!Restart, Boot!daemonVars
    <2>2. /\ session' \in [id : 0..minted, intent : Intents, parent : 0..minted, work : Nat]
          /\ session'.id = 0 /\ session'.parent = 0
      <3>1. 0 \in 0..minted /\ 0 \in Nat
        <4>1. minted \in Nat
          BY BootTypes
        <4> QED BY <4>1
      <3>2. "" \in Intents
        BY DEF Intents
      <3> QED BY <2>1, <3>1, <3>2
    <2>3. BootTypeOK'
      BY <2>1, <2>2 DEF BootIndInv, BootTypeOK
    <2>4. LauncherInv'
      BY <2>1, <2>2 DEF BootIndInv, LauncherInv
    <2> QED BY <2>1, <2>3, <2>4 DEF BootIndInv
  <1> QED BY <1>1, <1>2, <1>3

(* A compaction mints the next id and makes the session its parent.        *)
LEMMA CompactStep ==
    ASSUME BootIndInv, Boot!Compact
    PROVE  BootIndInv'
  <1>1. /\ session.id # 0 /\ minted < MaxSessions /\ minted' = minted + 1
        /\ session' = [id |-> minted + 1, intent |-> "compact", parent |-> session.id, work |-> 0]
        /\ line' = [line EXCEPT ![minted + 1] = session.id]
        /\ pc' = "resolve"
        /\ UNCHANGED <<late, rows, works, preset, env>>
    BY DEF Boot!Compact, Boot!rpcVars, Boot!daemonVars
  <1>2. /\ MaxSessions \in Nat /\ minted \in Nat /\ minted <= MaxSessions /\ preset <= minted /\ preset \in {0, 1}
        /\ session.id \in 0..minted /\ session.id \in Nat /\ session.id <= minted
        /\ line \in [Ids -> 0..MaxSessions]
    BY BootTypes
  <1>3. PICK n : n = minted + 1
    OBVIOUS
  <1>4. PICK p : p = session.id
    OBVIOUS
  <1>5. /\ n \in Nat /\ n \in Ids /\ n \in 0..MaxSessions /\ minted' = n /\ n > minted /\ minted \in Nat
        /\ p \in Nat /\ p < n /\ p \in 0..n /\ p \in 0..MaxSessions
    BY <1>1, <1>2, <1>3, <1>4 DEF Ids, Boot!Ids
  <1>6. line[n] = n
    BY <1>5 DEF BootIndInv, LauncherInv
  <1>7. /\ line' \in [Ids -> 0..MaxSessions] /\ line'[n] = p
        /\ \A i \in Ids \ {n} : line'[i] = line[i]
    BY <1>1, <1>2, <1>3, <1>4, <1>5
  <1>8. SetsParent(line, line')
    BY <1>6, <1>7 DEF SetsParent
  <1>9. DaemonInv(rows', works', late', line')
    BY <1>1, <1>8, DaemonLine DEF BootIndInv
  <1>10. /\ session' \in [id : 0..n, intent : Intents, parent : 0..n, work : Nat]
         /\ session'.id = n /\ session'.parent = p
    BY <1>1, <1>3, <1>4, <1>5 DEF Intents
  <1>11. \A h \in Hooks : env[h] \in 0..minted /\ env[h] # n
    BY <1>5 DEF BootIndInv, BootTypeOK
  <1>12. env \in [Hooks -> 0..n]
    <2>1. \A i \in 0..minted : i \in 0..n
      BY <1>5
    <2> QED BY <2>1 DEF BootIndInv, BootTypeOK
  <1>13. BootTypeOK'
    BY <1>1, <1>2, <1>5, <1>10, <1>12 DEF BootTypeOK
  <1>14. LauncherInv'
    <2>1. \A i \in Ids : line'[i] = i \/ line'[i] < i
      BY <1>5, <1>7 DEF BootIndInv, LauncherInv
    <2>2. \A i \in Ids : i > n => line'[i] = i
      <3>1. \A i \in Ids : i \in Nat
        BY DEF Ids, Boot!Ids
      <3>2. \A i \in Ids : i > n => i > minted /\ i # n
        BY <1>5, <3>1
      <3> QED BY <1>7, <3>2 DEF BootIndInv, LauncherInv
    <2>3. preset = 1 => line'[1] \in {0, 1}
      <3>1. preset = 1 => n # 1 /\ 1 \in Ids
        BY <1>2, <1>5, BootTypes
      <3> QED BY <1>7, <3>1 DEF BootIndInv, LauncherInv
    <2>4. ASSUME NEW h \in Hooks, env[h] # 0 PROVE line'[env[h]] # env[h]
      <3>1. env[h] \in Ids
        BY <1>2, <1>11, <2>4 DEF Ids, Boot!Ids
      <3> QED BY <1>7, <1>11, <2>4, <3>1 DEF BootIndInv, LauncherInv
    <2> QED BY <1>1, <1>5, <1>7, <1>10, <2>1, <2>2, <2>3, <2>4 DEF LauncherInv
  <1> QED BY <1>9, <1>13, <1>14 DEF BootIndInv

(* The id a process resolves and what it asks with it: id n, given or      *)
(* minted as the next one.                                                 *)
LEMMA ResolveFacts ==
    ASSUME BootIndInv, NEW g \in 0..minted,
           NEW n, n = Boot!Minted(g), n <= MaxSessions,
           NEW m, m = IF n > minted THEN n ELSE minted
    PROVE  /\ n \in Ids /\ n \in Nat /\ n <= m /\ minted <= m /\ m \in 0..MaxSessions /\ m \in Nat
           /\ g # 0 => n = g /\ m = minted
           /\ g = 0 => n = minted + 1 /\ m = n
           /\ \A i \in 0..minted : i \in 0..m
  <1>1. minted \in Nat /\ minted \in 0..MaxSessions /\ MaxSessions \in Nat /\ g \in Nat /\ g <= minted
    BY BootTypes
  <1>2. g # 0 => n = g /\ m = minted
    BY <1>1 DEF Boot!Minted
  <1>3. g = 0 => n = minted + 1 /\ m = n
    BY <1>1 DEF Boot!Minted
  <1>4. n \in Nat /\ n # 0 /\ n <= m /\ minted <= m /\ m \in 0..MaxSessions
    BY <1>1, <1>2, <1>3
  <1>5. n \in Ids
    BY <1>1, <1>4 DEF Ids, Boot!Ids
  <1> QED BY <1>1, <1>2, <1>3, <1>4, <1>5

(* A hook resolves the id it was started with, with a client or without.   *)
LEMMA HookStep ==
    ASSUME BootIndInv, NEW h \in Hooks, NEW client \in BOOLEAN, Boot!Hook(h, client)
    PROVE  BootIndInv'
  <1>1. PICK x : x = env[h]
    OBVIOUS
  <1>2. x # 0 /\ x \in 0..minted /\ minted \in Nat /\ line[x] # x
    BY <1>1, BootTypes DEF Boot!Hook, BootIndInv, BootTypeOK, LauncherInv
  <1>3. x \in Ids
    BY <1>2, BootTypes DEF Ids, Boot!Ids
  <1>4. Boot!Resolved(0, x) = x /\ Boot!Minted(x) = x /\ ~(x > minted) /\ Boot!IntentOf("", x) = "preassigned"
    BY <1>2 DEF Boot!Resolved, Boot!Minted, Boot!IntentOf
  <1>5. PICK r : r = [op |-> "bootstrap", id |-> x, intent |-> "preassigned", parent |-> 0, native |-> TRUE]
    OBVIOUS
  <1>6. Asked(r, line)
    BY <1>2, <1>3, <1>5 DEF Asked, Intents
  <1>7. /\ minted' = minted /\ env' = [env EXCEPT ![h] = 0] /\ UNCHANGED <<preset, pc, session, line>>
        /\ Called(r)
    <2>1. Boot!SessionBootstrapRequest(x, "preassigned", 0, TRUE) = r
      BY <1>5 DEF Boot!SessionBootstrapRequest
    <2>2. /\ UNCHANGED <<preset, pc, session, line>>
          /\ minted' = minted /\ env' = [env EXCEPT ![h] = 0]
          /\ \/ UNCHANGED <<Boot!rpcVars, Boot!daemonVars>>
             \/ Boot!Call(Boot!SessionBootstrapRequest(x, "preassigned", 0, TRUE),
                          env' = [env EXCEPT ![h] = 0], env' = [env EXCEPT ![h] = 0])
      BY <1>1, <1>4 DEF Boot!Hook, Boot!ResolveSessionBootstrap, Boot!Call
    <2> QED BY <2>1, <2>2 DEF Called, Boot!Call, Boot!rpcVars, Boot!daemonVars
  <1>8. DaemonInv(rows', works', late', line)
    BY <1>5, <1>6, <1>7, CallEffect DEF BootIndInv, Called
  <1>9. env' \in [Hooks -> 0..minted] /\ \A k \in Hooks : env'[k] = env[k] \/ env'[k] = 0
    BY <1>2, <1>7 DEF BootIndInv, BootTypeOK
  <1>10. BootTypeOK'
    BY <1>7, <1>9 DEF BootIndInv, BootTypeOK
  <1>11. LauncherInv'
    BY <1>7, <1>9 DEF BootIndInv, LauncherInv
  <1> QED BY <1>7, <1>8, <1>10, <1>11 DEF BootIndInv

(* The launcher resolves its session's id, the one it was started with, or *)
(* a new one, and asks the daemon to register it.                          *)
LEMMA LaunchStep ==
    ASSUME BootIndInv, Boot!Launch
    PROVE  BootIndInv'
  <1>1. PICK g : g = Boot!Resolved(session.id, preset)
    OBVIOUS
  <1>2. PICK n : n = Boot!Minted(g)
    OBVIOUS
  <1>3. PICK m : m = IF n > minted THEN n ELSE minted
    OBVIOUS
  <1>4. PICK p : p = session.parent
    OBVIOUS
  <1>5. PICK want : want = Boot!IntentOf(session.intent, g)
    OBVIOUS
  <1>6. PICK r : r = [op |-> "bootstrap", id |-> n, intent |-> want, parent |-> p, native |-> FALSE]
    OBVIOUS
  <1>7. /\ pc = "resolve" /\ n <= MaxSessions /\ minted' = m
        /\ session' = [session EXCEPT !.id = n, !.intent = want]
        /\ line' = [line EXCEPT ![n] = p]
        /\ pc' \in {"place", "resolve"}
        /\ UNCHANGED <<preset, env>>
        /\ Called(r)
    <2>1. Boot!SessionBootstrapRequest(n, want, p, FALSE) = r
      BY <1>6 DEF Boot!SessionBootstrapRequest
    <2>2. /\ pc = "resolve" /\ n <= MaxSessions /\ minted' = m /\ UNCHANGED <<preset, env>>
          /\ Boot!Call(Boot!SessionBootstrapRequest(n, want, p, FALSE),
                       Boot!Launched(g, "place"), Boot!Launched(g, "resolve"))
      BY <1>1, <1>2, <1>3, <1>4, <1>5 DEF Boot!Launch, Boot!ResolveSessionBootstrap
    <2>3. Boot!Launched(g, "place") \/ Boot!Launched(g, "resolve")
      BY <2>2 DEF Boot!Call
    <2>4. /\ session' = [session EXCEPT !.id = n, !.intent = want]
          /\ line' = [line EXCEPT ![n] = p]
          /\ pc' \in {"place", "resolve"}
      BY <1>2, <1>4, <1>5, <2>3 DEF Boot!Launched
    <2>5. Called(r)
      BY <2>1, <2>2 DEF Called, Boot!Call, Boot!rpcVars, Boot!daemonVars
    <2> QED BY <2>2, <2>4, <2>5
  <1>8. /\ session.id \in 0..minted /\ preset \in {0, 1} /\ preset <= minted /\ minted \in Nat
        /\ p \in 0..minted /\ p \in Nat /\ session.intent \in Intents /\ session.work \in Nat
        /\ session.id # 0 => line[session.id] = p /\ p < session.id
        /\ session.id = 0 => p = 0
    BY <1>4, BootTypes DEF BootIndInv, LauncherInv
  <1>9. /\ g \in 0..minted
        /\ session.id # 0 => g = session.id
        /\ session.id = 0 => g = preset
    BY <1>1, <1>8 DEF Boot!Resolved
  <1>10. /\ n \in Ids /\ n \in Nat /\ n <= m /\ minted <= m /\ m \in 0..MaxSessions /\ m \in Nat
         /\ g # 0 => n = g /\ m = minted
         /\ g = 0 => n = minted + 1 /\ m = n
         /\ \A i \in 0..minted : i \in 0..m
    BY <1>2, <1>3, <1>7, <1>9, ResolveFacts
  <1>11. /\ p < n /\ p \in 0..m
         /\ line[n] = p \/ line[n] = n
    <2>1. CASE session.id # 0
      BY <1>8, <1>9, <1>10, <2>1
    <2>2. CASE session.id = 0 /\ preset = 1
      <3>1. n = 1 /\ p = 0 /\ line[1] \in {0, 1}
        BY <1>8, <1>9, <1>10, <2>2 DEF BootIndInv, LauncherInv
      <3> QED BY <1>10, <3>1
    <2>3. CASE session.id = 0 /\ preset = 0
      <3>1. n = minted + 1 /\ p = 0 /\ n > minted
        BY <1>8, <1>9, <1>10, <2>3
      <3>2. line[n] = n
        BY <1>10, <3>1 DEF BootIndInv, LauncherInv
      <3> QED BY <1>8, <1>10, <3>1, <3>2
    <2> QED BY <1>8, <2>1, <2>2, <2>3
  <1>12. want \in Intents
    BY <1>5, <1>8 DEF Boot!IntentOf, Intents
  <1>13. /\ line \in [Ids -> 0..MaxSessions] /\ p \in 0..MaxSessions
    BY <1>8, <1>10, <1>11, BootTypes
  <1>14. PICK M : M = line'
    OBVIOUS
  <1>15. /\ M \in [Ids -> 0..MaxSessions] /\ M[n] = p
         /\ \A i \in Ids \ {n} : M[i] = line[i]
    BY <1>7, <1>10, <1>13, <1>14
  <1>16. SetsParent(line, M)
    BY <1>11, <1>15 DEF SetsParent
  <1>17. DaemonInv(rows, works, late, M)
    BY <1>16, DaemonLine DEF BootIndInv
  <1>18. Asked(r, M)
    <2>1. M[n] # n
      BY <1>8, <1>10, <1>11, <1>15
    <2> QED BY <1>6, <1>10, <1>12, <1>15, <2>1 DEF Asked
  <1>19. DaemonInv(rows', works', late', M)
    BY <1>6, <1>7, <1>17, <1>18, CallEffect DEF Called
  <1>20. /\ session' \in [id : 0..m, intent : Intents, parent : 0..m, work : Nat]
         /\ session'.id = n /\ session'.parent = p
    <2>1. session \in [id : 0..minted, intent : Intents, parent : 0..minted, work : Nat]
      BY DEF BootIndInv, BootTypeOK
    <2>2. n \in 0..m
      BY <1>10
    <2> QED BY <1>4, <1>7, <1>11, <1>12, <2>1, <2>2
  <1>21. BootTypeOK'
    <2>1. env \in [Hooks -> 0..m]
      BY <1>10 DEF BootIndInv, BootTypeOK
    <2>2. preset <= m
      BY <1>8, <1>10
    <2> QED BY <1>7, <1>8, <1>10, <1>20, <2>1, <2>2 DEF BootTypeOK
  <1>22. LauncherInv'
    <2>1. \A i \in Ids : M[i] = i \/ M[i] < i
      BY <1>11, <1>15 DEF BootIndInv, LauncherInv
    <2>2. \A i \in Ids : i > m => M[i] = i
      <3>1. \A i \in Ids : i \in Nat
        BY DEF Ids, Boot!Ids
      <3>2. \A i \in Ids : i > m => i > minted /\ i # n
        BY <1>8, <1>10, <3>1
      <3> QED BY <1>15, <3>2 DEF BootIndInv, LauncherInv
    <2>3. preset = 1 => M[1] \in {0, 1}
      <3>1. n = 1 => p = 0
        BY <1>8, <1>11
      <3>2. 1 \in Ids
        BY BootTypes
      <3> QED BY <1>15, <3>1, <3>2 DEF BootIndInv, LauncherInv
    <2>4. ASSUME NEW h \in Hooks, env[h] # 0 PROVE M[env[h]] # env[h]
      <3>1. env[h] \in 0..minted /\ line[env[h]] # env[h]
        BY <2>4 DEF BootIndInv, BootTypeOK, LauncherInv
      <3>2. env[h] \in Ids
        BY <2>4, <3>1, BootTypes DEF Ids, Boot!Ids
      <3> QED BY <1>8, <1>10, <1>11, <1>15, <3>1, <3>2
    <2>5. n # 0
      BY <1>10, BootTypes
    <2> QED BY <1>7, <1>11, <1>14, <1>15, <1>20, <2>1, <2>2, <2>3, <2>4, <2>5 DEF LauncherInv
  <1> QED BY <1>14, <1>19, <1>21, <1>22 DEF BootIndInv

-----------------------------------------------------------------------------
(* Bootstrap, whole. *)

(* The daemon has no session, and the launcher no id but the one it may    *)
(* have been started with.                                                 *)
LEMMA BootInit ==
    ASSUME Boot!Init
    PROVE  BootIndInv
  <1>1. /\ late = {} /\ rows = [i \in Ids |-> Boot!NoRow] /\ works = 0 /\ preset \in {0, 1} /\ minted = preset
        /\ pc = "resolve" /\ session = [id |-> 0, intent |-> "", parent |-> 0, work |-> 0]
        /\ line = [i \in Ids |-> i] /\ env = [h \in Hooks |-> 0]
    BY DEF Boot!Init, Boot!RPCInit, Ids, Boot!Ids
  <1>2. MaxSessions \in Nat /\ MaxSessions >= 1 /\ 1 \in Ids
    BY SessionsAssumption DEF Ids, Boot!Ids
  <1>3. Boot!NoRow \in Row
    BY <1>2 DEF Boot!NoRow, Row, Intents
  <1>4. /\ rows \in [Ids -> Row] /\ \A i \in Ids : rows[i] = Boot!NoRow
    BY <1>1, <1>3
  <1>5. \A i \in Ids : ~rows[i].known /\ rows[i].parent = 0 /\ rows[i].work = 0 /\ rows[i].how = ""
    <2>1. PICK e : e = Boot!NoRow
      OBVIOUS
    <2>2. ~e.known /\ e.parent = 0 /\ e.work = 0 /\ e.how = ""
      BY <2>1 DEF Boot!NoRow
    <2> QED BY <1>4, <2>1, <2>2
  <1>6. line \in [Ids -> 0..MaxSessions] /\ \A i \in Ids : line[i] = i
    <2>1. \A i \in Ids : i \in 0..MaxSessions
      BY <1>2 DEF Ids, Boot!Ids
    <2> QED BY <1>1, <2>1
  <1>7. Honest(rows, line)
    BY <1>5 DEF Honest
  <1>8. Placed(rows, line)
    <2>1. \A i : Sessions(rows, i) = {}
      BY <1>5 DEF Sessions, Connected
    <2> QED BY <2>1 DEF Placed, OneWork, Waits, Worked
  <1>9. DaemonInv(rows, works, late, line)
    BY <1>1, <1>4, <1>6, <1>7, <1>8 DEF DaemonInv
  <1>10. BootTypeOK
    <2>1. preset \in 0..MaxSessions /\ preset <= minted /\ 0 \in 0..minted
      <3>1. minted = preset
        BY <1>1
      <3>2. preset = 0 \/ preset = 1
        BY <1>1
      <3> QED BY <1>2, <3>1, <3>2
    <2>2. session \in [id : 0..minted, intent : Intents, parent : 0..minted, work : Nat]
      BY <1>1, <2>1 DEF Intents
    <2> QED BY <1>1, <2>1, <2>2 DEF BootTypeOK
  <1>11. LauncherInv
    <2>1. session.id = 0 /\ session.parent = 0
      BY <1>1
    <2> QED BY <1>1, <1>2, <1>6, <2>1 DEF LauncherInv
  <1> QED BY <1>9, <1>10, <1>11 DEF BootIndInv

(* Every step of the launcher, the hooks and the daemon.                   *)
LEMMA BootNext ==
    ASSUME BootIndInv, [Boot!Next]_(Boot!vars)
    PROVE  BootIndInv'
  <1>1. CASE Boot!Launch
    BY <1>1, LaunchStep
  <1>2. CASE Boot!Place
    BY <1>2, PlaceStep
  <1>3. CASE Boot!Compact
    BY <1>3, CompactStep
  <1>4. CASE Boot!Restart \/ (\E h \in Hooks : Boot!Spawn(h)) \/ (\E l \in late : Boot!Late(l))
    BY <1>4, AsideStep
  <1>5. CASE \E h \in Hooks : \E client \in BOOLEAN : Boot!Hook(h, client)
    BY <1>5, HookStep
  <1>6. CASE UNCHANGED Boot!vars
    <2>1. UNCHANGED <<late, rows, works, minted, preset, pc, session, line, env>>
      BY <1>6 DEF Boot!vars, Boot!rpcVars, Boot!daemonVars
    <2> QED BY <2>1 DEF BootIndInv, BootTypeOK, LauncherInv
  <1> QED BY <1>1, <1>2, <1>3, <1>4, <1>5, <1>6 DEF Boot!Next

(* Every reachable state of Bootstrap satisfies the strengthened           *)
(* invariant.                                                              *)
THEOREM BootInvariance == Boot!Spec => []BootIndInv
  <1>1. Boot!Init => BootIndInv
    BY BootInit
  <1>2. BootIndInv /\ [Boot!Next]_(Boot!vars) => BootIndInv'
    BY BootNext
  <1> QED BY <1>1, <1>2, PTL DEF Boot!Spec

(* Whatever registers late, twice or offline, the daemon learns only of    *)
(* ids a launcher ran under, with the parents they have there.             *)
THEOREM OnlyIdentity == Boot!Spec => []OneIdentity
  <1>1. BootIndInv => OneIdentity
    BY DEF BootIndInv, DaemonInv, Honest, OneIdentity
  <1> QED BY <1>1, BootInvariance, PTL

(* The sessions of one line of work share one workstream, however often    *)
(* EnsureSessionWorkstream is repeated or handled late, unless one of them *)
(* was placed while the daemon did not know what it continues, or was      *)
(* assigned elsewhere.                                                     *)
THEOREM LineSharesWorkstream == Boot!Spec => []OneWorkstream
  <1>1. ASSUME BootIndInv PROVE OneWorkstream
    <2>1. OneWork(rows)
      BY <1>1 DEF BootIndInv, DaemonInv, Placed
    <2>2. \A i \in Ids : Lineage(i) = Sessions(rows, i)
      BY LineageIs
    <2> QED BY <2>1, <2>2 DEF OneWork, Split, OneWorkstream
  <1> QED BY <1>1, BootInvariance, PTL
=============================================================================
