-------------------------------- MODULE Inbox --------------------------------
(***************************************************************************)
(* The inbox middleware: an at-least-once transport may deliver an event   *)
(* to a consumer group several times, one after the other or at once, and  *)
(* the inbox table decides which delivery runs the handler.                *)
(*                                                                         *)
(* Every call of the repository is one or more statements of their own, no *)
(* transaction spans them: Acquire inserts, then reads, then updates, and  *)
(* other deliveries run in between.  Instants are kept relative to the     *)
(* present, as in Outbox.                                                  *)
(***************************************************************************)
EXTENDS Integers, FiniteSets

CONSTANTS
    Key,        \* (consumer group, event id) pairs: the table's unique key
    Delivery,   \* deliveries in flight; each is its own lock id
    Lease,      \* processingLease
    Retention,
    MaxFaults,  \* bound: database errors and process deaths
    None

ASSUME InboxAssumption ==
    /\ Lease \in Nat \ {0} /\ Retention \in Nat /\ MaxFaults \in Nat
    /\ None \notin Nat /\ None \notin Delivery /\ None \notin Key

Record ==
    [status : {"processing", "completed"}, lock : Delivery \cup {None},
     until : Nat \cup {None}, age : Nat \cup {None}]
Consume ==
    [pc : {"idle", "insert", "load", "reacquire", "handle", "complete", "release"},
     key : Key \cup {None}, until : Nat]

ASSUME RecordAssumption == None \notin Record

VARIABLES
    row,        \* Key -> its inbox row or None
    consume,    \* Delivery -> where WrapConsume stands in it
    acked,      \* keys some delivery of which returned nil to its transport
    succeeded,  \* history: Key -> times its handler returned nil, up to the cap
    faults

vars == <<row, consume, acked, succeeded, faults>>

Idle == [pc |-> "idle", key |-> None, until |-> 0]

\* Successes are counted as far as HandledOnce can tell them apart.
SuccessCap == MaxFaults + 2

Init ==
    /\ row = [k \in Key |-> None]
    /\ consume = [d \in Delivery |-> Idle]
    /\ acked = {}
    /\ succeeded = [k \in Key |-> 0]
    /\ faults = 0

Fault == faults < MaxFaults /\ faults' = faults + 1

At(d, k, pc) == consume[d].key = k /\ consume[d].pc = pc
Goto(d, pc) == consume' = [consume EXCEPT ![d].pc = pc]

\* WrapConsume returns nil, and the transport acks, or it returns an error and
\* the transport delivers the event again.
Ack(d, k) == consume' = [consume EXCEPT ![d] = Idle] /\ acked' = acked \cup {k}
Nack(d) == consume' = [consume EXCEPT ![d] = Idle] /\ UNCHANGED acked

\* A statement that reports an error has had its effect or has not.
Errs(d, effect) ==
    /\ Fault
    /\ row' \in {row, effect}
    /\ Nack(d)

\* The transport hands an event to the middleware; a lock id is never reused
\* while a row still names it.
WrapConsume(d, k) ==
    /\ consume[d] = Idle
    /\ \A j \in Key : row[j] # None => row[j].lock # d
    /\ consume' = [consume EXCEPT ![d] = [pc |-> "insert", key |-> k, until |-> Lease]]
    /\ UNCHANGED <<row, acked, succeeded, faults>>

(***************************************************************************)
(* Acquire.                                                                *)
(***************************************************************************)
claimed(d, k) ==
    [row EXCEPT ![k] = [status |-> "processing", lock |-> d, until |-> consume[d].until, age |-> None]]

AcquireInsert(d, k) ==
    /\ At(d, k, "insert")
    /\ \/ row[k] = None /\ row' = claimed(d, k) /\ Goto(d, "handle") /\ UNCHANGED <<acked, faults>>
       \/ row[k] # None /\ Goto(d, "load") /\ UNCHANGED <<row, acked, faults>>
       \/ Errs(d, IF row[k] = None THEN claimed(d, k) ELSE row)
    /\ UNCHANGED succeeded

\* A row that is gone by now is an error: the delivery is retried.
AcquireLoad_GoneIsDone(d, k) ==
    /\ At(d, k, "load")
    /\ \/ (row[k] = None \/ row[k].status = "completed") /\ Ack(d, k) /\ UNCHANGED <<row, faults>>
       \/ /\ row[k] # None /\ row[k].status = "processing"
          /\ Goto(d, "reacquire") /\ UNCHANGED <<row, acked, faults>>
       \/ Errs(d, row)
    /\ UNCHANGED succeeded
AcquireLoad(d, k) ==
    /\ At(d, k, "load")
    /\ \/ row[k] = None /\ Nack(d) /\ UNCHANGED <<row, faults>>
       \/ /\ row[k] # None /\ row[k].status = "completed"
          /\ Ack(d, k) /\ UNCHANGED <<row, faults>>
       \/ /\ row[k] # None /\ row[k].status = "processing"
          /\ Goto(d, "reacquire") /\ UNCHANGED <<row, acked, faults>>
       \/ Errs(d, row)
    /\ UNCHANGED succeeded

\* The lock may be taken over when its holder's lease has run out.
expired_Never(k) == FALSE
expired_Early(k) == row[k] # None /\ row[k].status = "processing" /\ row[k].until \in {None, 0, 1}
expired(k) == row[k] # None /\ row[k].status = "processing" /\ row[k].until \in {None, 0}

AcquireUpdate(d, k) ==
    /\ At(d, k, "reacquire")
    /\ \/ expired(k) /\ row' = claimed(d, k) /\ Goto(d, "handle") /\ UNCHANGED <<acked, faults>>
       \/ ~ expired(k) /\ Nack(d) /\ UNCHANGED <<row, faults>>
       \/ Errs(d, IF expired(k) THEN claimed(d, k) ELSE row)
    /\ UNCHANGED succeeded

(***************************************************************************)
(* The handler, and what follows it.  A panic releases like an error.      *)
(***************************************************************************)
HandlerReturns(d, k) ==
    /\ At(d, k, "handle")
    /\ Goto(d, "complete")
    /\ succeeded' = [succeeded EXCEPT ![k] = IF @ < SuccessCap THEN @ + 1 ELSE @]
    /\ UNCHANGED <<row, acked, faults>>

HandlerFails_Swallowed(d, k) ==
    /\ At(d, k, "handle")
    /\ Goto(d, "complete")
    /\ UNCHANGED <<row, acked, succeeded, faults>>
HandlerFails(d, k) ==
    /\ At(d, k, "handle")
    /\ Goto(d, "release")
    /\ UNCHANGED <<row, acked, succeeded, faults>>

\* MarkCompleted and Release reach the row only under the delivery's own lock.
holds_AnyLock(d, k) == row[k] # None /\ row[k].status = "processing"
holds(d, k) == row[k] # None /\ row[k].status = "processing" /\ row[k].lock = d

completed(d, k) ==
    IF holds(d, k)
    THEN [row EXCEPT ![k] = [status |-> "completed", lock |-> None, until |-> None, age |-> 0]]
    ELSE row
released(d, k) == IF holds(d, k) THEN [row EXCEPT ![k] = None] ELSE row

\* A lost lock is acked too: the handler has succeeded.
MarkCompleted_Forgets(d, k) ==
    /\ At(d, k, "complete")
    /\ \/ row' = released(d, k) /\ Ack(d, k) /\ UNCHANGED faults
       \/ Errs(d, released(d, k))
    /\ UNCHANGED succeeded
MarkCompleted(d, k) ==
    /\ At(d, k, "complete")
    /\ \/ row' = completed(d, k) /\ Ack(d, k) /\ UNCHANGED faults
       \/ Errs(d, completed(d, k))
    /\ UNCHANGED succeeded

Release(d, k) ==
    /\ At(d, k, "release")
    /\ \/ row' = released(d, k) /\ Nack(d) /\ UNCHANGED faults
       \/ Errs(d, released(d, k))
    /\ UNCHANGED succeeded

(***************************************************************************)
(* Retention, time and process death.                                      *)
(***************************************************************************)
Cleanup ==
    /\ row' = [k \in Key |->
                IF row[k] # None /\ row[k].status = "completed" /\ row[k].age > Retention
                THEN None ELSE row[k]]
    /\ row' # row
    /\ UNCHANGED <<consume, acked, succeeded, faults>>

Sooner(t) == IF t = None \/ t = 0 THEN t ELSE t - 1
Older(t) == IF t = None \/ t > Retention THEN t ELSE t + 1

Tick ==
    /\ row' = [k \in Key |-> IF row[k] = None THEN None
                  ELSE [row[k] EXCEPT !.until = Sooner(@), !.age = Older(@)]]
    /\ consume' = [d \in Delivery |-> [consume[d] EXCEPT !.until = Sooner(@)]]
    /\ UNCHANGED <<acked, succeeded, faults>>

Crash(d) ==
    /\ consume[d] # Idle
    /\ Fault
    /\ Nack(d)
    /\ UNCHANGED <<row, succeeded>>

Acquire(d, k) == AcquireInsert(d, k) \/ AcquireLoad(d, k) \/ AcquireUpdate(d, k)
Finish(d, k) == MarkCompleted(d, k) \/ Release(d, k)
Step(d, k) == Acquire(d, k) \/ HandlerReturns(d, k) \/ HandlerFails(d, k) \/ Finish(d, k)

Consuming ==
    \/ \E d \in Delivery, k \in Key : WrapConsume(d, k) \/ Step(d, k)
    \/ \E d \in Delivery : Crash(d)

Next == Consuming \/ Cleanup \/ Tick

Spec == Init /\ [][Next]_vars

(***************************************************************************)
(* Time passes, a delivery goes on while its process lives, the transport  *)
(* redelivers what it has no ack for, and a handler that is tried again    *)
(* and again returns nil in the end.                                       *)
(***************************************************************************)
Redeliver(k) ==
    /\ k \notin acked
    /\ \A d \in Delivery : consume[d].key # k
    /\ \E d \in Delivery : WrapConsume(d, k)
Fairness ==
    /\ WF_vars(Tick)
    /\ \A d \in Delivery : WF_vars(\E k \in Key : Step(d, k))
    /\ \A k \in Key : WF_vars(Redeliver(k)) /\ SF_vars(\E d \in Delivery : HandlerReturns(d, k))

-----------------------------------------------------------------------------
(***************************************************************************)
(* Properties                                                              *)
(***************************************************************************)

\* The table, the deliveries and the histories keep their types.
TypeOK ==
    /\ row \in [Key -> Record \cup {None}]
    /\ consume \in [Delivery -> Consume]
    /\ acked \subseteq Key
    /\ succeeded \in [Key -> 0..SuccessCap]
    /\ faults \in 0..MaxFaults

\* An event is acked to its transport, and so never delivered again, only after
\* its handler returned nil in some delivery: a duplicate is swallowed on the
\* strength of a completed row, a lost lock on its own success.
AckMeansHandled == \A k \in acked : succeeded[k] > 0

\* What AckMeansHandled rests on: completed rows, and deliveries about to be
\* marked completed, have a success behind them; and what LockRespected rests
\* on: a row names a holder, and a lease, exactly while it is processing.
InboxInv ==
    /\ TypeOK
    /\ AckMeansHandled
    /\ \A k \in Key : row[k] # None /\ row[k].status = "completed" =>
                        succeeded[k] > 0 /\ row[k].lock = None
    /\ \A d \in Delivery, k \in Key : At(d, k, "complete") => succeeded[k] > 0
    /\ \A k \in Key : row[k] # None /\ row[k].status = "processing" =>
                        row[k].lock # None /\ row[k].until # None
    /\ \A d \in Delivery : consume[d].key = None <=> consume[d].pc = "idle"

\* A lock whose lease is still running is released, completed or replaced by
\* the delivery that holds it and by nobody else, whatever stale delivery of the
\* same event comes back late.
LockRespected ==
    [][\A k \in Key, d \in Delivery :
        /\ row[k] # None /\ row[k].lock = d /\ row[k].until # 0
        /\ row'[k] = None \/ row'[k].lock # d
        => At(d, k, "complete") \/ At(d, k, "release")]_vars

\* Two deliveries of one event run the handler at the same time only after the
\* lease of one of them has run out.
HandlersExclusive ==
    \A c, d \in Delivery, k \in Key :
        At(c, k, "handle") /\ At(d, k, "handle") /\ c # d
            => consume[c].until = 0 \/ consume[d].until = 0

\* What HandlersExclusive rests on: a delivery whose lease is running, from its
\* claim to its mark, has its lock on the row, for as long as its lease.
LockHeld(d, k) ==
    /\ consume[d].key = k /\ consume[d].pc \in {"handle", "complete", "release"}
    /\ consume[d].until # 0
    => /\ row[k] # None /\ row[k].status = "processing"
       /\ row[k].lock = d /\ row[k].until = consume[d].until
LockInv == \A d \in Delivery, k \in Key : LockHeld(d, k)

\* An event the transport has begun to deliver is eventually handled.
EventuallyHandled ==
    \A k \in Key : (\E d \in Delivery : consume[d].key = k) ~> succeeded[k] > 0
=============================================================================
