----------------------------- MODULE InboxProofs -----------------------------
(***************************************************************************)
(* What the inbox guarantees for any number of events, concurrent          *)
(* deliveries and faults, whatever the lease and the retention.            *)
(***************************************************************************)
EXTENDS InboxLease, TLAPS

\* The invariant holds of the empty table.
LEMMA InitialInbox == Init => InboxInv
BY InboxAssumption
   DEF Init, InboxInv, TypeOK, AckMeansHandled, Idle, Consume, SuccessCap, At

\* A statement that errs has bumped the fault count by one.
LEMMA FaultsBounded ==
    ASSUME InboxInv, Fault \/ UNCHANGED faults PROVE faults' \in 0..MaxFaults
BY InboxAssumption DEF Fault, InboxInv, TypeOK

\* A row is well formed when it has its type, a completed one has a success
\* behind it and a processing one names its holder and its lease.
GoodRow(k, r) ==
    /\ r \in Record \cup {None}
    /\ r # None /\ r.status = "completed" => succeeded[k] > 0 /\ r.lock = None
    /\ r # None /\ r.status = "processing" => r.lock # None /\ r.until # None

\* A step that rewrites one row well and moves one delivery keeps the invariant.
LEMMA MoveKeeps ==
    ASSUME InboxInv, NEW d \in Delivery, NEW k \in Key, NEW c \in Consume, NEW r,
           UNCHANGED succeeded, faults' \in 0..MaxFaults,
           GoodRow(k, r), row' = [row EXCEPT ![k] = r],
           consume' = [consume EXCEPT ![d] = c], c.key = None <=> c.pc = "idle",
           c.pc # "complete",
           acked' = acked \/ (acked' = acked \cup {k} /\ succeeded[k] > 0)
    PROVE  InboxInv'
<1>1. TypeOK'
  BY ZenonT(60) DEF InboxInv, TypeOK, GoodRow
<1>2. AckMeansHandled'
  BY ZenonT(60) DEF InboxInv, AckMeansHandled
<1>3. \A j \in Key : GoodRow(j, row'[j])
  BY ZenonT(60) DEF InboxInv, TypeOK, GoodRow
<1>4. \A b \in Delivery, j \in Key : At(b, j, "complete")' => succeeded'[j] > 0
  BY ZenonT(60) DEF InboxInv, TypeOK, At
<1>5. \A b \in Delivery : consume'[b].key = None <=> consume'[b].pc = "idle"
  BY ZenonT(60) DEF InboxInv, TypeOK
<1> QED
  BY <1>1, <1>2, <1>3, <1>4, <1>5, ZenonT(60) DEF InboxInv, GoodRow

\* The rows a repository call may leave behind are well formed.
LEMMA RowsOfCalls ==
    ASSUME InboxInv, NEW d \in Delivery, NEW k \in Key
    PROVE  /\ GoodRow(k, row[k]) /\ row = [row EXCEPT ![k] = row[k]]
           /\ \E r : GoodRow(k, r) /\ claimed(d, k) = [row EXCEPT ![k] = r]
           /\ \E r : GoodRow(k, r) /\ released(d, k) = [row EXCEPT ![k] = r]
           /\ succeeded[k] > 0 => \E r : GoodRow(k, r) /\ completed(d, k) = [row EXCEPT ![k] = r]
<1>1. GoodRow(k, row[k]) /\ row = [row EXCEPT ![k] = row[k]]
  BY ZenonT(60) DEF InboxInv, TypeOK, GoodRow
<1>2. GoodRow(k, None)
  BY ZenonT(60) DEF GoodRow
<1>3. consume[d].until \in Nat
  BY ZenonT(60) DEF InboxInv, TypeOK, Consume
<1>4. GoodRow(k, [status |-> "processing", lock |-> d, until |-> consume[d].until, age |-> None])
  BY <1>3, InboxAssumption, ZenonT(60) DEF GoodRow, Record
<1>5. succeeded[k] > 0 =>
        GoodRow(k, [status |-> "completed", lock |-> None, until |-> None, age |-> 0])
  BY ZenonT(60) DEF GoodRow, Record
<1> QED
  BY <1>1, <1>2, <1>4, <1>5, ZenonT(60) DEF claimed, released, completed

\* Ending a delivery.
LEMMA EndOfCall == Idle \in Consume /\ Idle.key = None /\ Idle.pc = "idle"
BY ZenonT(60) DEF Idle, Consume

\* Moving a delivery on.
LEMMA MovesOfCalls ==
    ASSUME InboxInv, NEW d \in Delivery, NEW k \in Key, consume[d].key = k,
           NEW pc \in {"load", "reacquire", "handle", "release"}, Goto(d, pc)
    PROVE  \E c \in Consume : /\ consume' = [consume EXCEPT ![d] = c]
                              /\ c.key # None /\ c.pc = pc
<1> DEFINE c == [consume[d] EXCEPT !.pc = pc]
<1>1. /\ c \in Consume /\ consume' = [consume EXCEPT ![d] = c]
      /\ c.key # None /\ c.pc = pc
  BY InboxAssumption DEF InboxInv, TypeOK, Consume, Goto
<1> HIDE DEF c
<1> QED
  BY <1>1, ZenonT(60)

\* A call that errs.
LEMMA ErrsKeeps ==
    ASSUME InboxInv, NEW d \in Delivery, NEW k \in Key, NEW effect, Errs(d, effect),
           UNCHANGED succeeded, consume[d].key = k,
           \E r : GoodRow(k, r) /\ effect = [row EXCEPT ![k] = r]
    PROVE  InboxInv'
<1>1. \E r : GoodRow(k, r) /\ row' = [row EXCEPT ![k] = r]
  BY RowsOfCalls DEF Errs
<1>2. Idle \in Consume /\ Idle.key = None /\ Idle.pc = "idle"
  BY EndOfCall, ZenonT(60)
<1>3. consume' = [consume EXCEPT ![d] = Idle] /\ acked' = acked /\ faults' \in 0..MaxFaults
  BY FaultsBounded, ZenonT(60) DEF Errs, Nack
<1> QED
  BY <1>1, <1>2, <1>3, MoveKeeps, ZenonT(60)

\* A delivery begins.
LEMMA BeginKeeps ==
    ASSUME InboxInv, NEW d \in Delivery, NEW k \in Key, WrapConsume(d, k) PROVE InboxInv'
<1> DEFINE c == [pc |-> "insert", key |-> k, until |-> Lease]
<1>1. c \in Consume /\ c.key # None /\ c.pc = "insert"
  BY InboxAssumption, ZenonT(60) DEF Consume
<1>2. /\ consume' = [consume EXCEPT ![d] = c] /\ UNCHANGED <<acked, succeeded>>
      /\ row' = [row EXCEPT ![k] = row[k]] /\ faults' \in 0..MaxFaults /\ GoodRow(k, row[k])
  BY RowsOfCalls, FaultsBounded, ZenonT(60) DEF WrapConsume
<1> HIDE DEF c
<1> QED
  BY <1>1, <1>2, MoveKeeps, ZenonT(60)

\* The three statements of Acquire.
LEMMA AcquireKeeps ==
    ASSUME InboxInv, NEW d \in Delivery, NEW k \in Key, Acquire(d, k) PROVE InboxInv'
<1> DEFINE Good(f) == \E r : GoodRow(k, r) /\ f = [row EXCEPT ![k] = r]
<1>k. consume[d].key = k /\ UNCHANGED succeeded
  BY ZenonT(60) DEF Acquire, AcquireInsert, AcquireLoad, AcquireUpdate, At
<1>r. Good(row) /\ Good(claimed(d, k))
  BY RowsOfCalls
<1>i. Idle \in Consume /\ Idle.key = None /\ Idle.pc = "idle"
  BY EndOfCall, ZenonT(60)
<1>1. CASE \E effect : Errs(d, effect) /\ Good(effect)
  BY <1>1, <1>k, ErrsKeeps, ZenonT(60)
<1>2. ASSUME NEW pc \in {"load", "reacquire", "handle"}, Goto(d, pc), UNCHANGED <<acked, faults>>,
             row' = row \/ row' = claimed(d, k)
      PROVE  InboxInv'
  <2>1. PICK c \in Consume :
          consume' = [consume EXCEPT ![d] = c] /\ c.key # None /\ c.pc = pc
    BY <1>2, <1>k, MovesOfCalls
  <2>2. Good(row')
    BY <1>2, <1>r, ZenonT(60)
  <2>3. faults' \in 0..MaxFaults
    BY <1>2, FaultsBounded, ZenonT(60)
  <2> QED
    BY <1>2, <1>k, <2>1, <2>2, <2>3, MoveKeeps, ZenonT(60)
<1>3. ASSUME Nack(d), UNCHANGED <<row, faults>> PROVE InboxInv'
  <2>1. faults' \in 0..MaxFaults /\ Good(row')
    BY <1>3, <1>r, FaultsBounded, ZenonT(60)
  <2> QED
    BY <1>3, <1>k, <1>i, <2>1, MoveKeeps, ZenonT(60) DEF Nack
<1>4. ASSUME Ack(d, k), row[k] # None, row[k].status = "completed", UNCHANGED <<row, faults>>
      PROVE  InboxInv'
  <2>1. faults' \in 0..MaxFaults /\ Good(row')
    BY <1>4, <1>r, FaultsBounded, ZenonT(60)
  <2>2. succeeded[k] > 0
    BY <1>4, ZenonT(60) DEF InboxInv
  <2> QED
    BY <1>4, <1>k, <1>i, <2>1, <2>2, MoveKeeps, ZenonT(60) DEF Ack
<1> HIDE DEF Good
<1>5. CASE AcquireInsert(d, k)
  BY <1>5, <1>1, <1>2, <1>r, ZenonT(60) DEF AcquireInsert
<1>6. CASE AcquireLoad(d, k)
  BY <1>6, <1>1, <1>2, <1>3, <1>4, <1>r, ZenonT(60) DEF AcquireLoad
<1>7. CASE AcquireUpdate(d, k)
  BY <1>7, <1>1, <1>2, <1>3, <1>r, ZenonT(60) DEF AcquireUpdate
<1> QED
  BY <1>5, <1>6, <1>7, ZenonT(60) DEF Acquire

\* The handler returns nil: the delivery has a success behind it.
LEMMA SuccessKeeps ==
    ASSUME InboxInv, NEW d \in Delivery, NEW k \in Key, HandlerReturns(d, k) PROVE InboxInv'
<1>1. /\ succeeded' \in [Key -> 0..SuccessCap] /\ succeeded'[k] > 0
      /\ \A j \in Key : succeeded[j] > 0 => succeeded'[j] > 0
  BY InboxAssumption DEF HandlerReturns, InboxInv, TypeOK, SuccessCap
<1>2. /\ consume' \in [Delivery -> Consume] /\ UNCHANGED <<row, acked, faults>>
      /\ \A b \in Delivery : consume'[b].key = consume[b].key
      /\ \A b \in Delivery : \/ b # d /\ consume'[b] = consume[b]
                             \/ b = d /\ consume'[b].pc = "complete" /\ consume[b].key = k
  BY DEF HandlerReturns, Goto, At, InboxInv, TypeOK, Consume
<1>3. \A b \in Delivery : consume'[b].key = None <=> consume'[b].pc = "idle"
  BY <1>2, InboxAssumption DEF InboxInv
<1>4. \A b \in Delivery, j \in Key : At(b, j, "complete")' => succeeded'[j] > 0
  BY <1>1, <1>2 DEF InboxInv, At
<1> QED
  BY <1>1, <1>2, <1>3, <1>4, ZenonT(60) DEF InboxInv, TypeOK, AckMeansHandled

\* The handler fails.
LEMMA FailureKeeps ==
    ASSUME InboxInv, NEW d \in Delivery, NEW k \in Key, HandlerFails(d, k) PROVE InboxInv'
<1>1. consume[d].key = k /\ UNCHANGED <<row, acked, succeeded, faults>> /\ Goto(d, "release")
  BY ZenonT(60) DEF HandlerFails, At
<1>2. PICK c \in Consume : /\ consume' = [consume EXCEPT ![d] = c] /\ c.key # None /\ c.pc = "release"
  BY <1>1, MovesOfCalls, ZenonT(60)
<1>3. faults' \in 0..MaxFaults /\ GoodRow(k, row[k]) /\ row' = [row EXCEPT ![k] = row[k]]
  BY <1>1, FaultsBounded, RowsOfCalls, ZenonT(60)
<1> QED
  BY <1>1, <1>2, <1>3, MoveKeeps, ZenonT(60)

\* MarkCompleted and Release.
LEMMA FinishKeeps ==
    ASSUME InboxInv, NEW d \in Delivery, NEW k \in Key, Finish(d, k) PROVE InboxInv'
<1> DEFINE Good(f) == \E r : GoodRow(k, r) /\ f = [row EXCEPT ![k] = r]
<1>k. consume[d].key = k /\ UNCHANGED succeeded
  BY ZenonT(60) DEF Finish, MarkCompleted, Release, At
<1>i. Idle \in Consume /\ Idle.key = None /\ Idle.pc = "idle"
  BY EndOfCall, ZenonT(60)
<1>1. CASE MarkCompleted(d, k)
  <2>1. succeeded[k] > 0
    BY <1>1, ZenonT(60) DEF MarkCompleted, InboxInv
  <2>2. Good(completed(d, k))
    BY <2>1, RowsOfCalls
  <2>3. CASE Errs(d, completed(d, k))
    BY <2>2, <2>3, <1>k, ErrsKeeps, ZenonT(60)
  <2>4. CASE row' = completed(d, k) /\ Ack(d, k) /\ UNCHANGED faults
    <3>1. faults' \in 0..MaxFaults
      BY <2>4, FaultsBounded, ZenonT(60)
    <3> QED
      BY <1>k, <1>i, <2>1, <2>2, <2>4, <3>1, MoveKeeps, ZenonT(60) DEF Ack
  <2> QED
    BY <1>1, <2>3, <2>4, ZenonT(60) DEF MarkCompleted
<1>2. CASE Release(d, k)
  <2>2. Good(released(d, k))
    BY RowsOfCalls
  <2>3. CASE Errs(d, released(d, k))
    BY <2>2, <2>3, <1>k, ErrsKeeps, ZenonT(60)
  <2>4. CASE row' = released(d, k) /\ Nack(d) /\ UNCHANGED faults
    <3>1. faults' \in 0..MaxFaults
      BY <2>4, FaultsBounded, ZenonT(60)
    <3> QED
      BY <1>k, <1>i, <2>2, <2>4, <3>1, MoveKeeps, ZenonT(60) DEF Nack
  <2> QED
    BY <1>2, <2>3, <2>4, ZenonT(60) DEF Release
<1> QED
  BY <1>1, <1>2, ZenonT(60) DEF Finish

\* A process death ends the delivery and leaves its lock behind.
LEMMA CrashKeeps == ASSUME InboxInv, NEW d \in Delivery, Crash(d) PROVE InboxInv'
<1>1. /\ consume' = [consume EXCEPT ![d] = Idle] /\ UNCHANGED <<row, acked, succeeded>>
      /\ faults' \in 0..MaxFaults
  BY FaultsBounded, ZenonT(60) DEF Crash, Nack
<1> QED
  BY <1>1, ZenonT(60) DEF InboxInv, TypeOK, AckMeansHandled, Idle, Consume, At

\* The cleaner only deletes.
LEMMA CleanupKeeps == ASSUME InboxInv, Cleanup PROVE InboxInv'
BY ZenonT(60) DEF Cleanup, InboxInv, TypeOK, AckMeansHandled, At

\* Time changes leases and ages only.
LEMMA TickKeeps == ASSUME InboxInv, Tick PROVE InboxInv'
<1>d. /\ \A t \in Nat : Sooner(t) \in Nat
      /\ \A t \in Nat \cup {None} : Sooner(t) \in Nat \cup {None} /\ Older(t) \in Nat \cup {None}
  BY InboxAssumption, SMTT(30) DEF Sooner, Older
<1>1. \A k \in Key : \/ row[k] = None /\ row'[k] = None
                    \/ /\ row[k] # None /\ row'[k] \in Record
                       /\ row'[k].status = row[k].status /\ row'[k].lock = row[k].lock
                       /\ row[k].until # None => row'[k].until # None
  <2> SUFFICES ASSUME NEW k \in Key, row[k] # None
               PROVE  /\ row'[k] \in Record
                      /\ row'[k].status = row[k].status /\ row'[k].lock = row[k].lock
                      /\ row[k].until # None => row'[k].until # None
    BY ZenonT(60) DEF Tick
  <2>1. row[k] \in Record /\ row'[k] = [row[k] EXCEPT !.until = Sooner(@), !.age = Older(@)]
    BY ZenonT(60) DEF Tick, InboxInv, TypeOK
  <2>2. \A r \in Record : LET x == [r EXCEPT !.until = Sooner(@), !.age = Older(@)]
                          IN /\ x \in Record /\ x.status = r.status /\ x.lock = r.lock
                             /\ r.until # None => x.until # None
    BY <1>d, InboxAssumption, ZenonT(60) DEF Record
  <2> QED
    BY <2>1, <2>2, ZenonT(60)
<1>2. \A d \in Delivery : /\ consume'[d] \in Consume /\ consume'[d].pc = consume[d].pc
                         /\ consume'[d].key = consume[d].key
  <2> SUFFICES ASSUME NEW d \in Delivery
               PROVE  /\ consume'[d] \in Consume /\ consume'[d].pc = consume[d].pc
                      /\ consume'[d].key = consume[d].key
    OBVIOUS
  <2>1. consume[d] \in Consume /\ consume'[d] = [consume[d] EXCEPT !.until = Sooner(@)]
    BY ZenonT(60) DEF Tick, InboxInv, TypeOK
  <2> QED
    BY <1>d, <2>1, ZenonT(60) DEF Consume
<1>3. /\ row' = [k \in Key |-> row'[k]] /\ consume' = [d \in Delivery |-> consume'[d]]
      /\ UNCHANGED <<acked, succeeded, faults>>
  BY ZenonT(60) DEF Tick
<1>4. TypeOK'
  BY <1>1, <1>2, <1>3, ZenonT(60) DEF InboxInv, TypeOK
<1> QED
  BY <1>1, <1>2, <1>3, <1>4, RecordAssumption DEF InboxInv, AckMeansHandled, At

\* Time makes no row vanish and takes no lock away.
LEMMA TickedRecord ==
    ASSUME NEW r \in Record
    PROVE  LET x == [r EXCEPT !.until = Sooner(@), !.age = Older(@)] IN x # None /\ x.lock = r.lock
<1>1. \A t \in Nat \cup {None} : Sooner(t) \in Nat \cup {None} /\ Older(t) \in Nat \cup {None}
  BY InboxAssumption DEF Sooner, Older
<1>2. [r EXCEPT !.until = Sooner(@), !.age = Older(@)] \in Record
  BY <1>1, ZenonT(60) DEF Record
<1> QED
  BY <1>2, RecordAssumption, ZenonT(60) DEF Record

\* Every step keeps the invariant.
LEMMA StepKeepsInbox == InboxInv /\ [Next]_vars => InboxInv'
<1> SUFFICES ASSUME InboxInv, [Next]_vars PROVE InboxInv'
  OBVIOUS
<1>1. CASE \E d \in Delivery, k \in Key : WrapConsume(d, k)
  BY <1>1, BeginKeeps, ZenonT(60)
<1>2. CASE \E d \in Delivery, k \in Key : Step(d, k)
  BY <1>2, AcquireKeeps, SuccessKeeps, FailureKeeps, FinishKeeps, ZenonT(60) DEF Step
<1>3. CASE \E d \in Delivery : Crash(d)
  BY <1>3, CrashKeeps, ZenonT(60)
<1>4. CASE Cleanup
  BY <1>4, CleanupKeeps, ZenonT(60)
<1>5. CASE Tick
  BY <1>5, TickKeeps, ZenonT(60)
<1>6. CASE UNCHANGED vars
  BY <1>6, ZenonT(60) DEF vars, InboxInv, TypeOK, AckMeansHandled, At
<1> QED
  BY <1>1, <1>2, <1>3, <1>4, <1>5, <1>6, ZenonT(60) DEF Next, Consuming

(***************************************************************************)
(* What the lease is good for.                                             *)
(***************************************************************************)

\* From the claim to the mark.
Holding == {"handle", "complete", "release"}

\* The step of a delivery, seen from the rows.
RowStep(d, k) ==
    \/ row' = row
    \/ row' = claimed(d, k) /\ (row[k] = None \/ expired(k))
    \/ row' \in {completed(d, k), released(d, k)} /\ holds(d, k)

\* No delivery disturbs a lock of another whose lease is running.
LEMMA LockUndisturbed ==
    ASSUME InboxInv, NEW d \in Delivery, NEW k \in Key, RowStep(d, k),
           NEW b \in Delivery, b # d, NEW j \in Key,
           row[j] # None, row[j].status = "processing", row[j].lock = b, row[j].until # 0
    PROVE  row'[j] = row[j]
<1>1. row \in [Key -> Record \cup {None}] /\ row[j].until # None
  BY ZenonT(60) DEF InboxInv, TypeOK
<1>2. CASE j # k
  <2>1. /\ claimed(d, k)[j] = row[j] /\ completed(d, k)[j] = row[j] /\ released(d, k)[j] = row[j]
    BY <1>1, <1>2, ZenonT(60) DEF claimed, completed, released
  <2> QED
    BY <2>1, ZenonT(60) DEF RowStep
<1>3. CASE j = k
  BY <1>1, <1>3, ZenonT(60) DEF RowStep, expired, holds
<1> QED
  BY <1>2, <1>3, ZenonT(60)

\* A delivery that goes on to hold its lock held it before or takes it now.
HolderStep(d, k) ==
    consume'[d].pc \in Holding =>
        /\ consume'[d].key = k /\ consume[d].key = k /\ consume'[d].until = consume[d].until
        /\ (consume[d].pc \in Holding /\ row' = row) \/ row' = claimed(d, k)

\* What the actions of a delivery do.
LEMMA DeliverySteps ==
    ASSUME InboxInv, NEW d \in Delivery, NEW k \in Key, WrapConsume(d, k) \/ Step(d, k) \/ Crash(d)
    PROVE  /\ \A b \in Delivery : b # d => consume'[b] = consume[b]
           /\ RowStep(d, k)
           /\ HolderStep(d, k)
<1>t. consume \in [Delivery -> Consume] /\ consume[d] \in Consume
  BY ZenonT(60) DEF InboxInv, TypeOK
<1>i. Idle.pc \notin Holding /\ "load" \notin Holding /\ "reacquire" \notin Holding
  BY ZenonT(60) DEF Idle, Holding
<1>n. ASSUME consume' = [consume EXCEPT ![d] = Idle]
      PROVE  (\A b \in Delivery : b # d => consume'[b] = consume[b]) /\ HolderStep(d, k)
  BY <1>n, <1>i, <1>t, ZenonT(60) DEF HolderStep
<1>g. ASSUME NEW pc, Goto(d, pc)
      PROVE  /\ \A b \in Delivery : b # d => consume'[b] = consume[b]
             /\ consume'[d].pc = pc /\ consume'[d].key = consume[d].key
             /\ consume'[d].until = consume[d].until
  BY <1>g, <1>t, ZenonT(60) DEF Goto, Consume
<1>1. CASE WrapConsume(d, k)
  <2>1. consume' = [consume EXCEPT ![d] = [pc |-> "insert", key |-> k, until |-> Lease]] /\ row' = row
    BY <1>1, ZenonT(60) DEF WrapConsume
  <2>2. consume'[d].pc = "insert" /\ \A b \in Delivery : b # d => consume'[b] = consume[b]
    BY <1>t, <2>1, ZenonT(60)
  <2> QED
    BY <2>1, <2>2, ZenonT(60) DEF RowStep, HolderStep, Holding
<1>2. CASE AcquireInsert(d, k) \/ AcquireUpdate(d, k)
  <2>1. CASE row' = claimed(d, k) /\ (row[k] = None \/ expired(k)) /\ Goto(d, "handle") /\ consume[d].key = k
    BY <1>g, <2>1, ZenonT(60) DEF RowStep, HolderStep
  <2>2. CASE row' = row /\ Goto(d, "load")
    BY <1>g, <1>i, <2>2, ZenonT(60) DEF RowStep, HolderStep
  <2>3. CASE RowStep(d, k) /\ Nack(d)
    BY <1>n, <2>3, ZenonT(60) DEF Nack
  <2> QED
    BY <1>2, <2>1, <2>2, <2>3, ZenonT(60) DEF AcquireInsert, AcquireUpdate, At, Errs, RowStep
<1>3. CASE AcquireLoad(d, k)
  <2>1. row' = row
    BY <1>3, ZenonT(60) DEF AcquireLoad, Errs
  <2>2. CASE Goto(d, "reacquire")
    BY <1>g, <1>i, <2>1, <2>2, ZenonT(60) DEF RowStep, HolderStep
  <2>3. CASE consume' = [consume EXCEPT ![d] = Idle]
    BY <1>n, <2>1, <2>3, ZenonT(60) DEF RowStep
  <2> QED
    BY <1>3, <2>2, <2>3, ZenonT(60) DEF AcquireLoad, Errs, Ack, Nack
<1>4. CASE HandlerReturns(d, k) \/ HandlerFails(d, k)
  <2>1. row' = row /\ At(d, k, "handle") /\ (Goto(d, "complete") \/ Goto(d, "release"))
    BY <1>4, ZenonT(60) DEF HandlerReturns, HandlerFails
  <2>2. /\ \A b \in Delivery : b # d => consume'[b] = consume[b]
        /\ consume'[d].key = consume[d].key /\ consume'[d].until = consume[d].until
    BY <1>g, <2>1, ZenonT(60)
  <2> QED
    BY <2>1, <2>2, ZenonT(60) DEF RowStep, HolderStep, At, Holding
<1>5. CASE Finish(d, k)
  <2>1. consume' = [consume EXCEPT ![d] = Idle] /\ row' \in {row, completed(d, k), released(d, k)}
    BY <1>5, ZenonT(60) DEF Finish, MarkCompleted, Release, Errs, Ack, Nack
  <2>2. RowStep(d, k)
    BY <2>1, ZenonT(60) DEF RowStep, completed, released
  <2> QED
    BY <1>n, <2>1, <2>2, ZenonT(60)
<1>6. CASE Crash(d)
  BY <1>n, <1>6, ZenonT(60) DEF Crash, Nack, RowStep
<1> QED
  BY <1>1, <1>2, <1>3, <1>4, <1>5, <1>6, ZenonT(60) DEF Step, Acquire

\* The lock of a delivery whose lease is running stays on the row.
LEMMA DeliveryKeepsLock ==
    ASSUME InboxInv, LockInv, NEW d \in Delivery, NEW k \in Key,
           WrapConsume(d, k) \/ Step(d, k) \/ Crash(d)
    PROVE  LockInv'
<1> SUFFICES ASSUME NEW b \in Delivery, NEW j \in Key, consume'[b].key = j,
                    consume'[b].pc \in Holding, consume'[b].until # 0
             PROVE  /\ row'[j] # None /\ row'[j].status = "processing"
                    /\ row'[j].lock = b /\ row'[j].until = consume'[b].until
  BY ZenonT(60) DEF LockInv, LockHeld, Holding
<1>s. /\ b # d => consume'[b] = consume[b]
      /\ RowStep(d, k) /\ HolderStep(d, k)
  BY DeliverySteps, ZenonT(60)
<1>h. ASSUME consume[b].key = j, consume[b].pc \in Holding, consume[b].until # 0
      PROVE  /\ row[j] # None /\ row[j].status = "processing"
             /\ row[j].lock = b /\ row[j].until = consume[b].until
  BY <1>h, ZenonT(60) DEF LockInv, LockHeld, Holding
<1>1. CASE b # d
  <2>1. /\ row[j] # None /\ row[j].status = "processing"
        /\ row[j].lock = b /\ row[j].until = consume[b].until /\ consume[b].until # 0
    BY <1>1, <1>h, <1>s, ZenonT(60)
  <2>2. row'[j] = row[j]
    BY <1>1, <1>s, <2>1, LockUndisturbed, ZenonT(60)
  <2> QED
    BY <1>1, <1>s, <2>1, <2>2, ZenonT(60)
<1>2. CASE b = d
  <2>1. /\ j = k /\ consume[d].key = k /\ consume'[d].until = consume[d].until
        /\ (consume[d].pc \in Holding /\ row' = row) \/ row' = claimed(d, k)
    BY <1>2, <1>s, ZenonT(60) DEF HolderStep
  <2>2. CASE consume[d].pc \in Holding /\ row' = row
    BY <1>2, <1>h, <2>1, <2>2, ZenonT(60)
  <2>3. CASE row' = claimed(d, k)
    <3>1. row'[k] = [status |-> "processing", lock |-> d, until |-> consume[d].until, age |-> None]
      BY <2>3, ZenonT(60) DEF claimed, InboxInv, TypeOK
    <3>2. row'[k] # None
      <4>1. consume[d].until \in Nat
        BY ZenonT(60) DEF InboxInv, TypeOK, Consume
      <4>2. [status |-> "processing", lock |-> d, until |-> consume[d].until, age |-> None] \in Record
        BY <4>1, ZenonT(60) DEF Record
      <4> QED
        BY <3>1, <4>2, RecordAssumption, ZenonT(60)
    <3> QED
      BY <1>2, <2>1, <3>1, <3>2
  <2> QED
    BY <2>1, <2>2, <2>3, ZenonT(60)
<1> QED
  BY <1>1, <1>2, ZenonT(60)

\* A lease runs down in the row and in the delivery alike.
LEMMA TickKeepsLock == ASSUME InboxInv, LockInv, Tick PROVE LockInv'
<1> SUFFICES ASSUME NEW b \in Delivery, NEW j \in Key, consume'[b].key = j,
                    consume'[b].pc \in Holding, consume'[b].until # 0
             PROVE  /\ row'[j] # None /\ row'[j].status = "processing"
                    /\ row'[j].lock = b /\ row'[j].until = consume'[b].until
  BY ZenonT(60) DEF LockInv, LockHeld, Holding
<1>1. /\ consume'[b].key = consume[b].key /\ consume'[b].pc = consume[b].pc
      /\ consume'[b].until = Sooner(consume[b].until)
  <2>1. consume[b] \in Consume /\ consume'[b] = [consume[b] EXCEPT !.until = Sooner(@)]
    BY ZenonT(60) DEF Tick, InboxInv, TypeOK
  <2> QED
    BY <2>1, ZenonT(60) DEF Consume
<1>2. consume[b].until # 0
  BY <1>1, ZenonT(60) DEF Sooner
<1>3. /\ row[j] # None /\ row[j].status = "processing"
      /\ row[j].lock = b /\ row[j].until = consume[b].until
  BY <1>1, <1>2, ZenonT(60) DEF LockInv, LockHeld, Holding
<1>4. row[j] \in Record /\ row'[j] = [row[j] EXCEPT !.until = Sooner(@), !.age = Older(@)]
  BY <1>3, ZenonT(60) DEF Tick, InboxInv, TypeOK
<1>5. row'[j] # None
  BY <1>4, TickedRecord, ZenonT(60)
<1> QED
  BY <1>1, <1>3, <1>4, <1>5, ZenonT(60) DEF Record

\* Every step keeps the locks where they are.
LEMMA StepKeepsLock == InboxInv /\ LockInv /\ [Next]_vars => LockInv'
<1> SUFFICES ASSUME InboxInv, LockInv, [Next]_vars PROVE LockInv'
  BY ZenonT(60)
<1>1. CASE Cleanup
  <2>1. consume' = consume /\ \A k \in Key : row[k] # None /\ row[k].status = "processing" => row'[k] = row[k]
    BY <1>1, ZenonT(60) DEF Cleanup
  <2>2. ASSUME NEW d \in Delivery, NEW k \in Key PROVE LockHeld(d, k)'
    <3>1. LockHeld(d, k)
      BY ZenonT(60) DEF LockInv
    <3> QED
      BY <2>1, <3>1, ZenonT(60) DEF LockHeld
  <2> QED
    BY <2>2, ZenonT(60) DEF LockInv
<1>2. CASE UNCHANGED vars
  BY <1>2, ZenonT(60) DEF vars, LockInv, LockHeld
<1>3. CASE \E d \in Delivery : Crash(d)
  <2>1. PICK d \in Delivery : Crash(d)
    BY <1>3, ZenonT(60)
  <2>2. CASE Key = {}
    BY <2>2, ZenonT(60) DEF LockInv
  <2> QED
    BY <2>1, <2>2, DeliveryKeepsLock, ZenonT(60)
<1> QED
  BY <1>1, <1>2, <1>3, TickKeepsLock, DeliveryKeepsLock, ZenonT(60) DEF Next, Consuming

\* A recorded success stays, and so does one about to be recorded by another
\* delivery.
LEMMA SettledKept ==
    ASSUME InboxInv, NEW d \in Delivery, NEW k \in Key, WrapConsume(d, k) \/ Step(d, k) \/ Crash(d),
           NEW j \in Key, ~ At(d, j, "complete"), Settled(j)
    PROVE  Settled(j)'
<1>1. (\A b \in Delivery : b # d => consume'[b] = consume[b]) /\ RowStep(d, k)
  BY DeliverySteps, ZenonT(60)
<1>2. CASE row[j] # None /\ row[j].status = "completed"
  <2>1. row'[j] = row[j]
    <3>1. row \in [Key -> Record \cup {None}]
      BY ZenonT(60) DEF InboxInv, TypeOK
    <3>2. CASE j # k
      <4>1. /\ claimed(d, k)[j] = row[j] /\ completed(d, k)[j] = row[j] /\ released(d, k)[j] = row[j]
        BY <3>1, <3>2, ZenonT(60) DEF claimed, completed, released
      <4> QED
        BY <1>1, <4>1, ZenonT(60) DEF RowStep
    <3>3. CASE j = k
      BY <1>1, <1>2, <3>3, ZenonT(60) DEF RowStep, expired, holds
    <3> QED
      BY <3>2, <3>3, ZenonT(60)
  <2> QED
    BY <1>2, <2>1, ZenonT(60) DEF Settled
<1>3. ASSUME NEW b \in Delivery, At(b, j, "complete") PROVE Settled(j)'
  <2>1. consume'[b] = consume[b]
    BY <1>1, <1>3, ZenonT(60)
  <2> QED
    BY <1>3, <2>1, ZenonT(60) DEF At, Settled
<1> QED
  BY <1>2, <1>3, ZenonT(60) DEF Settled

\* Successes are bounded by the faults, but for one.
Once(k) == succeeded[k] <= 1 + faults /\ (succeeded[k] <= faults \/ Settled(k))

\* A step that meets a fault pays for a success.
LEMMA FaultPays ==
    ASSUME InboxInv, NEW j \in Key, Once(j), Fault, UNCHANGED succeeded PROVE Once(j)'
<1>1. succeeded[j] \in Int /\ faults \in Int
  BY InboxAssumption DEF InboxInv, TypeOK, SuccessCap
<1>2. succeeded'[j] <= faults' /\ succeeded'[j] <= 1 + faults'
  BY <1>1 DEF Once, Fault
<1> QED
  BY <1>2, ZenonT(60) DEF Once

\* Only a mark without an error ends a delivery that is about to be completed,
\* and only a success is counted.
LEMMA OtherSteps ==
    ASSUME InboxInv, NEW d \in Delivery, NEW k \in Key, NEW j \in Key, Once(j),
           WrapConsume(d, k) \/ Acquire(d, k) \/ HandlerFails(d, k) \/ Release(d, k) \/ Crash(d)
    PROVE  Once(j)'
<1>1. UNCHANGED succeeded /\ (Fault \/ UNCHANGED faults)
  BY ZenonT(60) DEF WrapConsume, Acquire, AcquireInsert, AcquireLoad, AcquireUpdate, Errs,
                    HandlerFails, Release, Crash
<1>2. CASE Fault
  BY <1>1, <1>2, FaultPays, ZenonT(60)
<1>3. CASE UNCHANGED faults
  <2>1. ~ Crash(d)
    <3>1. faults \in Int
      BY InboxAssumption DEF InboxInv, TypeOK
    <3>2. ~ Fault
      BY <1>3, <3>1 DEF Fault
    <3> QED
      BY <3>2, ZenonT(60) DEF Crash
  <2>2. consume[d].pc # "complete"
    <3>1. consume[d].pc \in {"idle", "insert", "load", "reacquire", "handle", "release"}
      <4>1. CASE WrapConsume(d, k)
        BY <4>1, EndOfCall, ZenonT(60) DEF WrapConsume
      <4>2. CASE Acquire(d, k)
        BY <4>2, ZenonT(60) DEF Acquire, AcquireInsert, AcquireLoad, AcquireUpdate, At
      <4>3. CASE HandlerFails(d, k) \/ Release(d, k)
        BY <4>3, ZenonT(60) DEF HandlerFails, Release, At
      <4> QED
        BY <2>1, <4>1, <4>2, <4>3, ZenonT(60)
    <3> QED
      BY <3>1, ZenonT(60)
  <2>3. Settled(j) => Settled(j)'
    BY <2>2, SettledKept, ZenonT(60) DEF Step, Finish, At
  <2> QED
    BY <1>1, <1>3, <2>3, ZenonT(60) DEF Once
<1> QED
  BY <1>1, <1>2, <1>3, ZenonT(60)

\* The handler of an event succeeds while no earlier success is unrecorded.
LEMMA SuccessOnce ==
    ASSUME InboxInv, LockInv, ~ Overdue, NEW d \in Delivery, NEW k \in Key, NEW j \in Key, Once(j),
           HandlerReturns(d, k)
    PROVE  Once(j)'
<1>a. At(d, k, "handle") /\ UNCHANGED <<row, faults>> /\ consume'[d].pc = "complete" /\ consume'[d].key = k
  BY ZenonT(60) DEF HandlerReturns, Goto, At, InboxInv, TypeOK, Consume
<1>1. CASE j # k
  <2>1. succeeded'[j] = succeeded[j] /\ ~ At(d, j, "complete")
    BY <1>1, <1>a, ZenonT(60) DEF HandlerReturns, InboxInv, TypeOK, At
  <2>2. Settled(j) => Settled(j)'
    BY <2>1, SettledKept, ZenonT(60) DEF Step
  <2> QED
    BY <1>a, <2>1, <2>2, ZenonT(60) DEF Once
<1>2. CASE j = k
  <2>0. \A b \in Delivery : consume[b].pc # "idle" => consume[b].until # 0
    BY ZenonT(60) DEF Overdue
  <2>1. row[k] # None /\ row[k].status = "processing" /\ row[k].lock = d
    BY <1>a, <2>0, ZenonT(60) DEF LockInv, LockHeld, At
  <2>2. ASSUME NEW b \in Delivery, At(b, k, "complete") PROVE FALSE
    <3>1. row[k].lock = b
      BY <2>0, <2>2, ZenonT(60) DEF LockInv, LockHeld, At
    <3> QED
      BY <1>a, <2>1, <2>2, <3>1, ZenonT(60) DEF At
  <2>3. ~ Settled(k)
    BY <2>1, <2>2, ZenonT(60) DEF Settled
  <2>4. succeeded[k] <= faults
    BY <1>2, <2>3, ZenonT(60) DEF Once
  <2>5. succeeded[k] \in Int /\ faults \in Int
    BY InboxAssumption DEF InboxInv, TypeOK, SuccessCap
  <2>6. succeeded'[k] = succeeded[k] \/ succeeded'[k] = succeeded[k] + 1
    BY ZenonT(60) DEF HandlerReturns, InboxInv, TypeOK
  <2>7. succeeded'[k] <= 1 + faults'
    BY <1>a, <2>4, <2>5, <2>6
  <2>8. Settled(k)'
    BY <1>a, ZenonT(60) DEF Settled, At
  <2> QED
    BY <1>2, <2>7, <2>8, ZenonT(60) DEF Once
<1> QED
  BY <1>1, <1>2, ZenonT(60)

\* A delivery within its lease records its success.
LEMMA CompletedOnce ==
    ASSUME InboxInv, LockInv, ~ Overdue, NEW d \in Delivery, NEW k \in Key, NEW j \in Key, Once(j),
           MarkCompleted(d, k)
    PROVE  Once(j)'
<1>1. CASE Fault
  BY <1>1, FaultPays, ZenonT(60) DEF MarkCompleted
<1>2. CASE row' = completed(d, k) /\ UNCHANGED <<succeeded, faults>>
  <2>1. CASE j # k
    <3>1. ~ At(d, j, "complete")
      BY <2>1, ZenonT(60) DEF MarkCompleted, At
    <3>2. Settled(j) => Settled(j)'
      BY <3>1, SettledKept, ZenonT(60) DEF Step, Finish
    <3> QED
      BY <1>2, <3>2, ZenonT(60) DEF Once
  <2>2. CASE j = k
    <3>1. consume[d].until # 0 /\ At(d, k, "complete")
      BY ZenonT(60) DEF Overdue, MarkCompleted, At
    <3>2. holds(d, k)
      BY <3>1, ZenonT(60) DEF LockInv, LockHeld, At, holds
    <3>3. row'[k] = [status |-> "completed", lock |-> None, until |-> None, age |-> 0]
      BY <1>2, <3>2, ZenonT(60) DEF completed, InboxInv, TypeOK
    <3>4. [status |-> "completed", lock |-> None, until |-> None, age |-> 0] \in Record
      BY ZenonT(60) DEF Record
    <3>5. row'[k] # None
      BY <3>3, <3>4, RecordAssumption, ZenonT(60)
    <3>6. row'[k].status = "completed"
      BY <3>3
    <3> QED
      BY <1>2, <2>2, <3>5, <3>6, ZenonT(60) DEF Once, Settled
  <2> QED
    BY <2>1, <2>2, ZenonT(60)
<1> QED
  BY <1>1, <1>2, ZenonT(60) DEF MarkCompleted, Errs

\* Time changes nothing about successes.
LEMMA TickOnce == ASSUME InboxInv, NEW j \in Key, Once(j), Tick PROVE Once(j)'
<1>1. row[j] # None => row'[j] # None /\ row'[j].status = row[j].status
  <2> SUFFICES ASSUME row[j] # None PROVE row'[j] # None /\ row'[j].status = row[j].status
    BY ZenonT(60)
  <2>1. row[j] \in Record /\ row'[j] = [row[j] EXCEPT !.until = Sooner(@), !.age = Older(@)]
    BY ZenonT(60) DEF Tick, InboxInv, TypeOK
  <2> QED
    BY <2>1, TickedRecord, ZenonT(60) DEF Record
<1>2. \A b \in Delivery : consume'[b].key = consume[b].key /\ consume'[b].pc = consume[b].pc
  <2> SUFFICES ASSUME NEW b \in Delivery PROVE consume'[b].key = consume[b].key /\ consume'[b].pc = consume[b].pc
    BY ZenonT(60)
  <2>1. consume[b] \in Consume /\ consume'[b] = [consume[b] EXCEPT !.until = Sooner(@)]
    BY ZenonT(60) DEF Tick, InboxInv, TypeOK
  <2> QED
    BY <2>1, ZenonT(60) DEF Consume
<1>3. Settled(j) => Settled(j)'
  BY <1>1, <1>2, ZenonT(60) DEF Settled, At
<1> QED
  BY <1>3, ZenonT(60) DEF Once, Tick

\* The invariant of HandledOnce.
LEMMA StepKeepsOnce == InboxInv /\ LockInv /\ OnceInv /\ [LeaseNext]_<<vars, late>> => OnceInv'
<1> SUFFICES ASSUME InboxInv, LockInv, OnceInv, [LeaseNext]_<<vars, late>>, ~ late' PROVE OnceInv'
  BY ZenonT(60) DEF OnceInv
<1>1. CASE LeaseNext
  <2>1. ~ Overdue' /\ ~ Cleanup /\ ~ late
    BY <1>1, ZenonT(60) DEF LeaseNext
  <2>2. ~ Overdue /\ \A k \in Key : Once(k)
    BY <2>1, ZenonT(60) DEF OnceInv, Once
  <2>3. ASSUME NEW j \in Key PROVE Once(j)'
    <3>1. CASE Tick
      BY <2>2, <3>1, TickOnce, ZenonT(60)
    <3>2. ASSUME NEW d \in Delivery, NEW k \in Key, WrapConsume(d, k) \/ Step(d, k) PROVE Once(j)'
      BY <2>2, <3>2, OtherSteps, SuccessOnce, CompletedOnce, ZenonT(60) DEF Step, Finish
    <3>3. ASSUME NEW d \in Delivery, Crash(d) PROVE Once(j)'
      BY <2>2, <3>3, OtherSteps, ZenonT(60)
    <3> QED
      BY <1>1, <2>1, <3>1, <3>2, <3>3, ZenonT(60) DEF LeaseNext, Next, Consuming
  <2> QED
    BY <2>1, <2>3, ZenonT(60) DEF OnceInv, Once
<1>2. CASE UNCHANGED <<vars, late>>
  BY <1>2, ZenonT(60) DEF OnceInv, vars, Overdue, Settled, At
<1> QED
  BY <1>1, <1>2, ZenonT(60)

(***************************************************************************)
(* Theorems.                                                               *)
(***************************************************************************)

\* The table, the deliveries and the histories stay consistent.
THEOREM InboxCorrect == Spec => []InboxInv
BY InitialInbox, StepKeepsInbox, PTL DEF Spec

\* No event is acked before its handler succeeded.
THEOREM AckedIsHandled == Spec => []AckMeansHandled
<1>1. InboxInv => AckMeansHandled
  BY ZenonT(60) DEF InboxInv
<1> QED
  BY <1>1, InboxCorrect, PTL

\* A live lock is let go of by its holder only.
LEMMA StepRespectsLock ==
    ASSUME InboxInv, Next, NEW k \in Key, NEW d \in Delivery,
           row[k] # None, row[k].lock = d, row[k].until # 0,
           row'[k] = None \/ row'[k].lock # d
    PROVE  At(d, k, "complete") \/ At(d, k, "release")
<1>1. row[k].status = "processing" /\ row[k].until # None /\ ~ expired(k)
  BY InboxAssumption, ZenonT(60) DEF InboxInv, TypeOK, Record, expired
<1>2. row'[k] # row[k]
  OBVIOUS
<1>3. ASSUME NEW b \in Delivery, NEW j \in Key, Acquire(b, j) PROVE FALSE
  <2>1. \/ row' = row
        \/ row' = claimed(b, j) /\ (row[j] = None \/ expired(j))
    BY <1>3, ZenonT(60) DEF Acquire, AcquireInsert, AcquireLoad, AcquireUpdate, Errs
  <2> QED
    BY <1>1, <1>2, <2>1, ZenonT(60) DEF claimed, InboxInv, TypeOK
<1>4. ASSUME NEW b \in Delivery, NEW j \in Key, Finish(b, j)
      PROVE  At(d, k, "complete") \/ At(d, k, "release")
  <2>1. row' \in {row, completed(b, j), released(b, j)}
    BY <1>4, ZenonT(60) DEF Finish, MarkCompleted, Release, Errs
  <2>2. j = k /\ holds(b, k)
    BY <1>2, <2>1, ZenonT(60) DEF completed, released, InboxInv, TypeOK
  <2>3. b = d
    BY <2>2, ZenonT(60) DEF holds
  <2> QED
    BY <1>4, <2>2, <2>3, ZenonT(60) DEF Finish, MarkCompleted, Release
<1>5. ~ Cleanup
  BY <1>1, <1>2, ZenonT(60) DEF Cleanup
<1>6. ASSUME Tick PROVE FALSE
  <2>1. row'[k] = [row[k] EXCEPT !.until = Sooner(@), !.age = Older(@)] /\ row[k] \in Record
    BY <1>6, ZenonT(60) DEF Tick, InboxInv, TypeOK
  <2> QED
    BY <2>1, TickedRecord, ZenonT(60)
<1>7. ASSUME NEW b \in Delivery, NEW j \in Key,
             WrapConsume(b, j) \/ HandlerReturns(b, j) \/ HandlerFails(b, j) \/ Crash(b)
      PROVE  row' = row
  BY <1>7, ZenonT(60) DEF WrapConsume, HandlerReturns, HandlerFails, Crash
<1> QED
  BY <1>2, <1>3, <1>4, <1>5, <1>6, <1>7, ZenonT(60) DEF Next, Consuming, Step

\* Stale deliveries leave a live lock alone.
THEOREM LocksRespected == Spec => LockRespected
<1> DEFINE Respects == \A k \in Key, d \in Delivery :
        /\ row[k] # None /\ row[k].lock = d /\ row[k].until # 0
        /\ row'[k] = None \/ row'[k].lock # d
        => At(d, k, "complete") \/ At(d, k, "release")
<1>1. InboxInv /\ [Next]_vars => [Respects]_vars
  BY StepRespectsLock, ZenonT(60)
<1> QED
  BY <1>1, InboxCorrect, PTL DEF Spec, LockRespected

\* Two handlers of one event run at once only after a lease has run out.
THEOREM HandlersAreExclusive == Spec => []HandlersExclusive
<1>1. Init => LockInv
  <2> SUFFICES ASSUME Init PROVE LockInv
    BY ZenonT(60)
  <2>1. \A d \in Delivery : consume[d].pc = "idle"
    BY ZenonT(60) DEF Init, Idle
  <2> QED
    BY <2>1, ZenonT(60) DEF LockInv, LockHeld
<1>2. LockInv => HandlersExclusive
  <2> SUFFICES ASSUME LockInv, NEW c \in Delivery, NEW d \in Delivery, NEW k \in Key,
                      At(c, k, "handle"), At(d, k, "handle"), c # d
               PROVE  consume[c].until = 0 \/ consume[d].until = 0
    BY ZenonT(60) DEF HandlersExclusive
  <2>1. consume[c].until # 0 => row[k].lock = c
    BY ZenonT(60) DEF LockInv, LockHeld, At
  <2>2. consume[d].until # 0 => row[k].lock = d
    BY ZenonT(60) DEF LockInv, LockHeld, At
  <2> QED
    BY <2>1, <2>2, ZenonT(60)
<1> QED
  BY <1>1, <1>2, InboxCorrect, StepKeepsLock, PTL DEF Spec

\* As long as handlers return within the lease and rows are kept, an event whose
\* handler succeeds more than once has met a database error or a process death
\* for every success but one.
THEOREM HandledOnceButForFaults == LeaseSpec => []HandledOnce
<1>1. LeaseInit => Init /\ LockInv /\ OnceInv
  <2> SUFFICES ASSUME LeaseInit PROVE LockInv /\ OnceInv
    BY ZenonT(60) DEF LeaseInit
  <2>1. \A d \in Delivery : consume[d].pc = "idle"
    BY ZenonT(60) DEF LeaseInit, Init, Idle
  <2>2. faults = 0 /\ \A k \in Key : succeeded[k] = 0
    BY ZenonT(60) DEF LeaseInit, Init
  <2>3. \A k \in Key : succeeded[k] <= faults /\ succeeded[k] <= 1 + faults
    BY <2>2
  <2> QED
    BY <2>1, <2>3, ZenonT(60) DEF LockInv, LockHeld, OnceInv, Overdue
<1>2. [LeaseNext]_<<vars, late>> => [Next]_vars
  BY ZenonT(60) DEF LeaseNext
<1>3. OnceInv => HandledOnce
  BY ZenonT(60) DEF OnceInv, HandledOnce
<1> QED
  BY <1>1, <1>2, <1>3, InitialInbox, StepKeepsInbox, StepKeepsLock, StepKeepsOnce, PTL DEF LeaseSpec
=============================================================================
