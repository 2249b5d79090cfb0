------------------------------- MODULE MCInbox -------------------------------
(***************************************************************************)
(* Instances of InboxLease.                                                *)
(***************************************************************************)
EXTENDS InboxLease

CONSTANTS d1, d2, d3, k1

Three == {d1, d2, d3}
One == {k1}
=============================================================================
