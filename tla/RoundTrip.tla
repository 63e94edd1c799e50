----------------------------- MODULE RoundTrip -----------------------------
(***************************************************************************)
(* A call to the daemon as a method of the client sees it: doJSON and      *)
(* roundTrip send one request and return its answer, or an error that says *)
(* nothing about whether the daemon handled the request.  HTTPCall models  *)
(* what happens inside such a call; the modules that extend this one model *)
(* what callers make of it over many calls.                                *)
(*                                                                         *)
(* A method is one step, in which the daemon handles its request: nothing  *)
(* else that happens meanwhile can be seen before it returns.  An answer   *)
(* that is lost, or comes after the caller gave up, is a call that failed  *)
(* and whose request the daemon handles later, or never.                   *)
(***************************************************************************)
EXTENDS Naturals, FiniteSets

CONSTANTS
    MaxFaults,  \* bound: failed calls and whatever else a module counts
    MaxLate     \* bound: given up requests on their way at a time

ASSUME FaultAssumption == MaxFaults \in Nat /\ MaxLate \in Nat

VARIABLES
    late,       \* requests their callers gave up, which may yet be handled
    faults

rpcVars == <<late, faults>>

Fault == faults < MaxFaults /\ faults' = faults + 1

(* A timeout, a broken connection, a cancelled context or an error from    *)
(* the daemon.  Requests are told apart by the number of the fault.        *)
CallFails(request) ==
    /\ Fault
    /\ \/ UNCHANGED late
       \/ /\ Cardinality(late) < MaxLate
          /\ late' = late \cup {[request |-> request, nth |-> faults]}

HandledLate(l) == late' = late \ {l} /\ UNCHANGED faults

RPCInit == late = {} /\ faults = 0
=============================================================================
