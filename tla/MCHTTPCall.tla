----------------------------- MODULE MCHTTPCall -----------------------------
(* Model-checking instances of HTTPCall.                                   *)
EXTENDS HTTPCall, TLC

(* Calls differ only in what happens to them.                              *)
CallSymmetry == Permutations(Calls)
=============================================================================
