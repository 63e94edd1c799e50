------------------------------ MODULE MCGroups ------------------------------
(* Model-checking instance of Groups: two agents of one name and different *)
(* kinds; the owner posts, the member reads with two devices.              *)
EXTENDS Groups, TLC

CONSTANTS o, m, d1, d2

MCKind == o :> "project" @@ m :> "agent"
MCName == o :> "n" @@ m :> "n"
MCReader == d1 :> m @@ d2 :> m
=============================================================================
