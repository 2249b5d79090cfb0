------------------------------ MODULE MCOutbox ------------------------------
(***************************************************************************)
(* Instances of the outbox with two relay invocations.                     *)
(***************************************************************************)
EXTENDS OutboxLease

CONSTANTS w1, w2

Two == {w1, w2}
=============================================================================
