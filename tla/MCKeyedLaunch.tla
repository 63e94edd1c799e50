--------------------------- MODULE MCKeyedLaunch ---------------------------
(* Model-checking instance of KeyedLaunch: two workers share a job; the    *)
(* third shares their key for another launch or for a resume, resumes with *)
(* the key of nobody else, or has no key.                                  *)
EXTENDS KeyedLaunch, TLC

CONSTANTS w1, w2, w3

Launch(key, what) == [op |-> "launch", key |-> key, what |-> what]
Resume(key, what) == [op |-> "resume", key |-> key, what |-> what]

MCJobs ==
    { w1 :> Launch("k", "a") @@ w2 :> Launch("k", "a") @@ w3 :> third :
        third \in {Launch("k", "b"), Resume("k", "a"), Resume("m", "a"), Launch(NoKey, "a")} }
=============================================================================
