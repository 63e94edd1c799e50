----------------------------- MODULE MCMailbox -----------------------------
(* Model-checking instance of Mailbox: two hosts, one of them without a    *)
(* self URN; both leave the lease to the daemon or ask for more than it    *)
(* grants.                                                                 *)
EXTENDS Mailbox

CONSTANTS h1, h2, asker
=============================================================================
