----------------------------- MODULE OutboxLease -----------------------------
(***************************************************************************)
(* What the lease of a batch is good for: the outbox with a history        *)
(* variable that records whether some invocation has been busy beyond the  *)
(* lease it claimed with.                                                  *)
(***************************************************************************)
EXTENDS Outbox

VARIABLE late

Overdue == \E w \in Worker : relay[w].pc # "idle" /\ relay[w].lease = 0

LeaseInit == Init /\ late = FALSE
LeaseNext == Next /\ late' = (late \/ Overdue')
LeaseSpec == LeaseInit /\ [][LeaseNext]_<<vars, late>>
LeaseFairSpec == LeaseSpec /\ Fairness

\* As long as every batch has been finished within the lease it was claimed
\* with, no two overlapping relay invocations dispatch the same record.
LeaseExcludes == late \/ OneDispatcher

\* As long as every batch has been finished within its lease no mark is stale:
\* a record's retry counter never moves backwards.
RetriesKept ==
    [][late' \/ \A e \in Event : row[e] # None /\ row'[e] # None =>
            row'[e].retryCount >= row[e].retryCount]_vars

\* The lease on a row runs exactly as long as the lease of the batch it is in,
\* and the batch's copy of the row is up to date.
LeaseHeld(w, e) == e \in relay[w].left =>
    /\ row[e] # None /\ row[e].status = "processing"
    /\ row[e].retryAfter = relay[w].lease
    /\ row[e].retryCount = relay[w].seen[e]

\* A relay never counts below its own copy.
CountsUp(w, e) ==
    Current(w, e) /\ relay[w].pc \in {"dlq", "fail"} => relay[w].count >= relay[w].seen[e]

\* The inductive invariant: while nobody is late every row of a batch is leased
\* to that batch alone, so no poll finds it.
LeaseInv ==
    /\ \A w \in Worker, e \in Event : CountsUp(w, e)
    /\ late \/ /\ ~ Overdue
               /\ OneDispatcher
               /\ \A w \in Worker, e \in Event : LeaseHeld(w, e)
=============================================================================
