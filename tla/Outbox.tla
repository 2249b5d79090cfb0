------------------------------- MODULE Outbox -------------------------------
(***************************************************************************)
(* The transactional outbox: publishers insert rows, relay invocations (of *)
(* one process or of several) claim batches under a lease, hand each row   *)
(* to the sink, and mark it completed, failed or dead; a cleaner deletes   *)
(* completed rows.                                                         *)
(*                                                                         *)
(* A claim is one transaction under FOR UPDATE SKIP LOCKED; a mark is one  *)
(* statement guarded by the row's status alone.  Between them the relay    *)
(* holds a snapshot of its batch, and works through it one row at a time   *)
(* under the single lease the batch was claimed with.                      *)
(*                                                                         *)
(* Instants are kept relative to the present, as ticks still to go (0 is   *)
(* "now or earlier") or as an age, so the clock itself is not a variable.  *)
(***************************************************************************)
EXTENDS Integers, FiniteSets

CONSTANTS
    Event,           \* numbers: the rank of the row by (created_at, id)
    Worker,          \* relay invocations that may overlap
    BatchSize,
    MaxRetries,
    RelayInterval,
    LeaseMultiplier,
    MinLease,
    maxBackoff,
    CompletedTTL,
    MaxFaults,       \* bound: sink errors, database errors and crashes
    None

ASSUME OutboxAssumption ==
    /\ Event \subseteq Nat /\ IsFiniteSet(Event)
    /\ BatchSize \in Nat \ {0} /\ MaxRetries \in Nat \ {0}
    /\ RelayInterval \in Nat \ {0} /\ LeaseMultiplier \in Nat \ {0} /\ MinLease \in Nat \ {0}
    /\ maxBackoff \in Nat \ {0} /\ CompletedTTL \in Nat /\ MaxFaults \in Nat
    /\ None \notin Nat

Record ==
    [status : {"pending", "processing", "completed", "failed", "dead"},
     retryCount : Nat, retryAfter : Nat \cup {None}, age : Nat \cup {None}]
Batch ==
    [pc : {"idle", "claim", "publish", "complete", "dlq", "fail"},
     left : SUBSET Event, seen : [Event -> Nat], lease : Nat, count : Nat, after : Nat]

\* nil is not a row.
ASSUME RecordAssumption == None \notin Record

VARIABLES
    row,        \* Event -> its outbox row; None before the insert and after cleanup
    relay,      \* Worker -> where its invocation stands
    accepted,   \* history: events whose insert has committed
    delivered,  \* history: events the sink has received
    parked,     \* history: events the dead-letter topic has received
    failures,   \* history: Event -> sink errors its dispatches met
    faults

vars == <<row, relay, accepted, delivered, parked, failures, faults>>
history == <<accepted, delivered, parked, failures>>

Idle == [pc |-> "idle", left |-> {}, seen |-> [e \in Event |-> 0],
         lease |-> 0, count |-> 0, after |-> 0]

Init ==
    /\ row = [e \in Event |-> None]
    /\ relay = [w \in Worker |-> Idle]
    /\ accepted = {} /\ delivered = {} /\ parked = {}
    /\ failures = [e \in Event |-> 0]
    /\ faults = 0

\* Something outside the code goes wrong.
Fault == faults < MaxFaults /\ faults' = faults + 1

(***************************************************************************)
(* Publish and PublishTx: the rows become visible when the insert, or the  *)
(* business transaction around it, commits.                                *)
(***************************************************************************)
newRecord == [status |-> "pending", retryCount |-> 0, retryAfter |-> None, age |-> None]

Publish(e) ==
    /\ e \notin accepted
    /\ row' = [row EXCEPT ![e] = newRecord]
    /\ accepted' = accepted \cup {e}
    /\ UNCHANGED <<relay, delivered, parked, failures, faults>>

(***************************************************************************)
(* The relay.                                                              *)
(***************************************************************************)
leaseDeadline ==
    LET byInterval == RelayInterval * LeaseMultiplier
    IN IF byInterval > MinLease THEN byInterval ELSE MinLease

\* 2^retryCount seconds, the exponent clamped at 16, capped at maxBackoff.
backoffFor(retryCount) ==
    LET shift == IF retryCount < 16 THEN retryCount ELSE 16
    IN IF 2^shift < maxBackoff THEN 2^shift ELSE maxBackoff

\* The rows the poll of ClaimBatch selects.
claimable_AnyProcessing(e) ==
    /\ row[e] # None
    /\ \/ row[e].status = "pending" /\ row[e].retryAfter = None
       \/ /\ row[e].status = "failed"
          /\ row[e].retryCount < MaxRetries /\ row[e].retryAfter = 0
       \/ row[e].status = "processing" /\ row[e].retryCount < MaxRetries
claimable_NoExpiry(e) ==
    /\ row[e] # None
    /\ \/ row[e].status = "pending" /\ row[e].retryAfter = None
       \/ /\ row[e].status = "failed"
          /\ row[e].retryCount < MaxRetries /\ row[e].retryAfter = 0
claimable(e) ==
    /\ row[e] # None
    /\ \/ row[e].status = "pending" /\ row[e].retryAfter = None
       \/ /\ row[e].status \in {"failed", "processing"}
          /\ row[e].retryCount < MaxRetries /\ row[e].retryAfter = 0

\* Rows are taken in (created_at, id) order up to the batch size.
batch ==
    LET due == {e \in Event : claimable(e)}
    IN {e \in due : Cardinality({d \in due : d < e}) < BatchSize}

\* The lease deadline is read before the claiming transaction begins.
RelayPending(w) ==
    /\ relay[w].pc = "idle"
    /\ relay' = [relay EXCEPT ![w] = [Idle EXCEPT !.pc = "claim", !.lease = leaseDeadline]]
    /\ UNCHANGED <<row, history, faults>>

leased(r, until) == [r EXCEPT !.status = "processing", !.retryAfter = until]

ClaimBatch(w) ==
    /\ relay[w].pc = "claim"
    /\ \/ /\ row' = [e \in Event |-> IF e \in batch
                                    THEN leased(row[e], relay[w].lease) ELSE row[e]]
          /\ relay' = [relay EXCEPT ![w] =
                IF batch = {} THEN Idle
                ELSE [@ EXCEPT !.pc = "publish", !.left = batch,
                          !.seen = [e \in Event |-> IF e \in batch THEN row[e].retryCount ELSE 0]]]
          /\ UNCHANGED faults
       \/ Fault /\ relay' = [relay EXCEPT ![w] = Idle] /\ UNCHANGED row
    /\ UNCHANGED history

\* The row of the batch worker w is at.
Current(w, e) == e \in relay[w].left /\ \A d \in relay[w].left : e <= d

\* What is left of the batch after e.
After(w, e) ==
    IF relay[w].left = {e} THEN Idle
    ELSE [relay[w] EXCEPT !.pc = "publish", !.left = @ \ {e}]

\* dispatchOne: the sink takes the frame, or reports an error with or without
\* having taken it; handleFailure then starts from the snapshot's counter.
exhausted_Always(w, e) == TRUE
exhausted_OffByOne(w, e) == relay[w].seen[e] + 1 > MaxRetries
exhausted(w, e) == relay[w].seen[e] + 1 >= MaxRetries

dispatchOne(w, e) ==
    /\ relay[w].pc = "publish" /\ Current(w, e)
    /\ \/ /\ delivered' = delivered \cup {e}
          /\ relay' = [relay EXCEPT ![w].pc = "complete"]
          /\ UNCHANGED <<failures, faults>>
       \/ /\ Fault
          /\ delivered' \in {delivered, delivered \cup {e}}
          /\ failures' = [failures EXCEPT ![e] = @ + 1]
          /\ relay' = [relay EXCEPT ![w] = [@ EXCEPT
                !.pc = IF exhausted(w, e) THEN "dlq" ELSE "fail",
                !.count = relay[w].seen[e] + 1,
                !.after = backoffFor(relay[w].seen[e] + 1)]]
    /\ UNCHANGED <<row, accepted, parked>>

\* The dead-letter forward of an exhausted record.  When it fails the counter
\* stays where the snapshot had it, below the budget.
forwardDLQ_CountsBack(w, e) ==
    /\ relay[w].pc = "dlq" /\ Current(w, e)
    /\ \/ /\ parked' = parked \cup {e}
          /\ relay' = [relay EXCEPT ![w].pc = "fail"]
          /\ UNCHANGED faults
       \/ /\ Fault
          /\ parked' \in {parked, parked \cup {e}}
          /\ relay' = [relay EXCEPT ![w] = [@ EXCEPT !.pc = "fail", !.count = relay[w].seen[e] - 1]]
    /\ UNCHANGED <<row, accepted, delivered, failures>>
forwardDLQ_Advances(w, e) ==
    /\ relay[w].pc = "dlq" /\ Current(w, e)
    /\ \/ parked' = parked \cup {e} /\ UNCHANGED faults
       \/ Fault /\ parked' \in {parked, parked \cup {e}}
    /\ relay' = [relay EXCEPT ![w].pc = "fail"]
    /\ UNCHANGED <<row, accepted, delivered, failures>>
forwardDLQ(w, e) ==
    /\ relay[w].pc = "dlq" /\ Current(w, e)
    /\ \/ /\ parked' = parked \cup {e}
          /\ relay' = [relay EXCEPT ![w].pc = "fail"]
          /\ UNCHANGED faults
       \/ /\ Fault
          /\ parked' \in {parked, parked \cup {e}}
          /\ relay' = [relay EXCEPT ![w] = [@ EXCEPT !.pc = "fail", !.count = relay[w].seen[e]]]
    /\ UNCHANGED <<row, accepted, delivered, failures>>

\* A mark reaches the row only while it is processing, whoever's lease that is.
marked_AnyStatus(e, r) == [row EXCEPT ![e] = IF @ # None THEN r ELSE @]
marked(e, r) ==
    [row EXCEPT ![e] = IF @ # None /\ row[e].status = "processing" THEN r ELSE @]

completedRecord(e) ==
    [status |-> "completed", retryCount |-> row[e].retryCount, retryAfter |-> None, age |-> 0]
failedRecord_NoBudget(e, count, after) ==
    [status |-> "failed", retryCount |-> count, retryAfter |-> after, age |-> row[e].age]
failedRecord(e, count, after) ==
    IF count >= MaxRetries
    THEN [status |-> "dead", retryCount |-> count, retryAfter |-> None, age |-> 0]
    ELSE [status |-> "failed", retryCount |-> count, retryAfter |-> after, age |-> row[e].age]

MarkCompleted(w, e) ==
    /\ relay[w].pc = "complete" /\ Current(w, e)
    /\ \/ row' = marked(e, completedRecord(e)) /\ UNCHANGED faults
       \/ Fault /\ UNCHANGED row
    /\ relay' = [relay EXCEPT ![w] = After(w, e)]
    /\ UNCHANGED history

MarkFailed(w, e) ==
    /\ relay[w].pc = "fail" /\ Current(w, e)
    /\ \/ /\ row' = marked(e, failedRecord(e, relay[w].count, relay[w].after))
          /\ UNCHANGED faults
       \/ Fault /\ UNCHANGED row
    /\ relay' = [relay EXCEPT ![w] = After(w, e)]
    /\ UNCHANGED history

(***************************************************************************)
(* Cleanup, time and process death.                                        *)
(***************************************************************************)
Cleanup ==
    /\ row' = [e \in Event |->
                IF row[e] # None /\ row[e].status = "completed" /\ row[e].age > CompletedTTL
                THEN None ELSE row[e]]
    /\ row' # row
    /\ UNCHANGED <<relay, history, faults>>

Sooner(t) == IF t = None \/ t = 0 THEN t ELSE t - 1
Older(t) == IF t = None \/ t > CompletedTTL THEN t ELSE t + 1

Tick ==
    /\ row' = [e \in Event |-> IF row[e] = None THEN None
                  ELSE [row[e] EXCEPT !.retryAfter = Sooner(@), !.age = Older(@)]]
    /\ relay' = [w \in Worker |-> [relay[w] EXCEPT !.lease = Sooner(@), !.after = Sooner(@)]]
    /\ UNCHANGED <<history, faults>>

Crash(w) ==
    /\ relay[w].pc # "idle"
    /\ Fault
    /\ relay' = [relay EXCEPT ![w] = Idle]
    /\ UNCHANGED <<row, history>>

Step(w) ==
    \/ RelayPending(w)
    \/ ClaimBatch(w)
    \/ \E e \in Event : dispatchOne(w, e) \/ forwardDLQ(w, e)
                        \/ MarkCompleted(w, e) \/ MarkFailed(w, e)

Work ==
    \/ \E e \in Event : Publish(e)
    \/ \E w \in Worker : Step(w) \/ Crash(w)
    \/ Cleanup

Next == Work \/ Tick

Spec == Init /\ [][Next]_vars

(***************************************************************************)
(* The relay job runs on every interval and its calls return; time passes. *)
(* Faults are bounded, so the sink and the database work eventually.       *)
(***************************************************************************)
Fairness == WF_vars(Tick) /\ \A w \in Worker : WF_vars(Step(w))

-----------------------------------------------------------------------------
(***************************************************************************)
(* Properties                                                              *)
(***************************************************************************)

\* The tables, the relay's snapshots and the histories keep their types.
TypeOK ==
    /\ row \in [Event -> Record \cup {None}]
    /\ relay \in [Worker -> Batch]
    /\ accepted \subseteq Event /\ delivered \subseteq Event /\ parked \subseteq Event
    /\ failures \in [Event -> Nat]
    /\ faults \in 0..MaxFaults

\* Nothing is silently lost: a committed event whose row is completed, or has
\* been cleaned up, reached the sink, and one whose row is dead reached the
\* dead-letter topic - whichever overlapping relay wrote the mark, and after
\* crashes and failed marks.
NothingLost ==
    \A e \in accepted :
        /\ row[e] = None \/ row[e].status = "completed" => e \in delivered
        /\ row[e] # None /\ row[e].status = "dead" => e \in parked

\* A row still to be forwarded never leaves the reach of the poll: its counter
\* is below the budget, and failed and processing rows carry a retry_after.
\* handleFailure keeps the counter down when the dead-letter forward fails for
\* exactly this reason.
NotStranded ==
    \A e \in Event : row[e] # None /\ row[e].status \in {"pending", "failed", "processing"} =>
        /\ row[e].retryCount < MaxRetries
        /\ row[e].status = "pending" <=> row[e].retryAfter = None

\* No record is dead-lettered before the sink has refused it MaxRetries times,
\* although every relay counts from its own snapshot of retry_count.
BudgetHonoured == \A e \in parked : failures[e] >= MaxRetries

\* A row belongs to a committed event and counts no more than the sink's errors.
RowOK(e) == row[e] # None => e \in accepted /\ row[e].retryCount <= failures[e]

\* A relay marks completed only what the sink took, and writes a counter that
\* kills the record only after the dead-letter topic took it.
HeldOK(w, e) == e \in relay[w].left =>
    /\ relay[w].pc \notin {"idle", "claim"}
    /\ e \in accepted /\ relay[w].seen[e] < MaxRetries /\ relay[w].seen[e] <= failures[e]
    /\ Current(w, e) =>
        /\ relay[w].pc = "complete" => e \in delivered
        /\ relay[w].pc \in {"dlq", "fail"} => relay[w].count <= failures[e]
        /\ relay[w].pc = "dlq" => relay[w].count >= MaxRetries
        /\ relay[w].pc = "fail" /\ relay[w].count >= MaxRetries => e \in parked

\* The inductive invariant: what the marks rest on is true of every row and of
\* every batch, however the claims, dispatches and marks of the relays overlap.
OutboxInv ==
    /\ TypeOK
    /\ delivered \cup parked \subseteq accepted
    /\ \A e \in Event : RowOK(e)
    /\ NothingLost
    /\ NotStranded
    /\ BudgetHonoured
    /\ \A w \in Worker, e \in Event : HeldOK(w, e)

\* An event is retired when its row is completed, dead or cleaned up.
Retired ==
    {e \in accepted : row[e] = None \/ row[e].status \in {"completed", "dead"}}

\* The outbox is a store-and-forward transport: each of its steps accepts,
\* delivers, parks or retires at most one event of Forwarding, a retired event
\* stays retired, and only one that reached the sink or the dead-letter topic
\* is retired.  Cleanup and stale marks are stuttering steps.
Forward == INSTANCE Forwarding WITH retired <- Retired
Forwards == Forward!FSpec

\* No committed event is left behind for good: once the faults are over, time and
\* again all of them are retired.
EverySettled == []<>(accepted = Retired)

\* RelayPending's claim that "the per-record lease guarantees that overlapping
\* invocations cannot dispatch the same record twice": no two invocations are
\* between the claim of a record and its mark.
OneDispatcher ==
    \A v, w \in Worker : v # w => relay[v].left \cap relay[w].left = {}
=============================================================================
