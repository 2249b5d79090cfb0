------------------------------ MODULE InboxLease ------------------------------
(***************************************************************************)
(* What the lease of a lock is good for: the inbox with a history variable *)
(* that records whether some delivery has been busy beyond its lease, or a *)
(* row has been cleaned up, since when a late duplicate starts afresh.     *)
(***************************************************************************)
EXTENDS Inbox

VARIABLE late

Overdue == \E d \in Delivery : consume[d].pc # "idle" /\ consume[d].until = 0

LeaseInit == Init /\ late = FALSE
LeaseNext == Next /\ late' = (late \/ Overdue' \/ Cleanup)
LeaseSpec == LeaseInit /\ [][LeaseNext]_<<vars, late>>
LeaseFairSpec == LeaseSpec /\ Fairness

\* As long as handlers have returned within the lease and rows were kept, every
\* further success of an event's handler is paid for by a database error or a
\* process death.
HandledOnce == late \/ \A k \in Key : succeeded[k] <= 1 + faults

\* A success not yet paid for by a fault is on the row, or about to be.
Settled(k) ==
    \/ row[k] # None /\ row[k].status = "completed"
    \/ \E d \in Delivery : At(d, k, "complete")

\* The inductive invariant of HandledOnce: the handler of an event runs again
\* only when nobody is about to record its last success.
OnceInv == late \/ /\ ~ Overdue
                   /\ \A k \in Key : /\ succeeded[k] <= 1 + faults
                                     /\ succeeded[k] <= faults \/ Settled(k)
=============================================================================
