---------------------------- MODULE OutboxProofs ----------------------------
(***************************************************************************)
(* The outbox loses nothing, for any number of events, overlapping relays, *)
(* faults and any configuration.                                           *)
(***************************************************************************)
EXTENDS OutboxLease, TLAPS

(***************************************************************************)
(* Durations.                                                              *)
(***************************************************************************)

\* The clamped powers of two that backoffFor computes are naturals.
LEMMA PowersOfTwo == \A n \in 0..16 : 2^n \in Nat
<1>1. /\ 2^0 \in Nat /\ 2^1 \in Nat /\ 2^2 \in Nat /\ 2^3 \in Nat
      /\ 2^4 \in Nat /\ 2^5 \in Nat /\ 2^6 \in Nat /\ 2^7 \in Nat
      /\ 2^8 \in Nat /\ 2^9 \in Nat /\ 2^10 \in Nat /\ 2^11 \in Nat
      /\ 2^12 \in Nat /\ 2^13 \in Nat /\ 2^14 \in Nat /\ 2^15 \in Nat /\ 2^16 \in Nat
  BY SMT
<1>2. \A n \in 0..16 :
        \/ n = 0 \/ n = 1 \/ n = 2 \/ n = 3 \/ n = 4 \/ n = 5 \/ n = 6 \/ n = 7 \/ n = 8
        \/ n = 9 \/ n = 10 \/ n = 11 \/ n = 12 \/ n = 13 \/ n = 14 \/ n = 15 \/ n = 16
  BY SMT
<1> QED
  BY <1>1, <1>2, Zenon

\* A retry delay is a natural number of ticks.
LEMMA BackoffType == \A n \in Nat : backoffFor(n) \in Nat
<1> SUFFICES ASSUME NEW n \in Nat PROVE backoffFor(n) \in Nat
  OBVIOUS
<1> DEFINE shift == IF n < 16 THEN n ELSE 16
<1>1. shift \in 0..16
  OBVIOUS
<1>2. 2^shift \in Nat
  BY <1>1, PowersOfTwo, ZenonT(60)
<1> QED
  BY <1>2, OutboxAssumption, ZenonT(60) DEF backoffFor

\* So is a lease.
LEMMA LeaseType == leaseDeadline \in Nat
BY OutboxAssumption DEF leaseDeadline

(***************************************************************************)
(* The invariant, action by action.                                        *)
(***************************************************************************)

\* The count of faults stays within its bound.
LEMMA FaultsBounded ==
    ASSUME OutboxInv, Fault \/ UNCHANGED faults PROVE faults' \in 0..MaxFaults
BY OutboxAssumption DEF Fault, OutboxInv, TypeOK

\* It holds of the empty table.
LEMMA InitialOutbox == Init => OutboxInv
BY OutboxAssumption
   DEF Init, OutboxInv, TypeOK, RowOK, HeldOK, NothingLost, NotStranded, BudgetHonoured, Idle, Batch

\* A publish adds a pending row.
LEMMA PublishKeeps == ASSUME OutboxInv, NEW e \in Event, Publish(e) PROVE OutboxInv'
BY OutboxAssumption, RecordAssumption
   DEF Publish, newRecord, OutboxInv, TypeOK, RowOK, HeldOK, NothingLost, NotStranded, BudgetHonoured, Current, Record

\* A new cycle starts with an empty batch.
LEMMA CycleKeeps == ASSUME OutboxInv, NEW w \in Worker, RelayPending(w) PROVE OutboxInv'
BY OutboxAssumption, LeaseType, ZenonT(60)
   DEF RelayPending, Idle, OutboxInv, TypeOK, RowOK, HeldOK, NothingLost, NotStranded, BudgetHonoured, Current, Batch, history

\* A relay may forget its batch at any point: the rows keep their lease.
LEMMA ForgetKeeps ==
    ASSUME OutboxInv, NEW w \in Worker, relay' = [relay EXCEPT ![w] = Idle],
           UNCHANGED <<row, accepted, delivered, parked, failures>>, faults' \in 0..MaxFaults
    PROVE  OutboxInv'
BY OutboxAssumption
   DEF Idle, OutboxInv, TypeOK, RowOK, HeldOK, NothingLost, NotStranded, BudgetHonoured, Current, Batch

\* The claim copies counters below the budget into the snapshot.
LEMMA ClaimKeeps == ASSUME OutboxInv, NEW w \in Worker, ClaimBatch(w) PROVE OutboxInv'
<1>b. \A e \in batch : e \in Event /\ claimable(e)
  BY ZenonT(60) DEF batch
<1>c. \A e \in batch : /\ row[e] \in Record /\ row[e].retryCount < MaxRetries
                      /\ row[e].status \in {"pending", "failed", "processing"}
  BY <1>b, OutboxAssumption, ZenonT(60) DEF claimable, OutboxInv, TypeOK, NotStranded
<1>f. Fault \/ UNCHANGED faults
  BY Zenon DEF ClaimBatch
<1>h. UNCHANGED <<accepted, delivered, parked, failures>> /\ faults' \in 0..MaxFaults
  BY <1>f, FaultsBounded, ZenonT(60) DEF ClaimBatch, history
<1>1. CASE UNCHANGED row /\ relay' = [relay EXCEPT ![w] = Idle]
  BY <1>1, <1>h, ForgetKeeps, ZenonT(60)
<1>2. CASE ~ (UNCHANGED row /\ relay' = [relay EXCEPT ![w] = Idle])
  <2> DEFINE row2 == [e \in Event |-> IF e \in batch THEN leased(row[e], relay[w].lease) ELSE row[e]]
             seen2 == [e \in Event |-> IF e \in batch THEN row[e].retryCount ELSE 0]
             held2 == [relay[w] EXCEPT !.pc = "publish", !.left = batch, !.seen = seen2]
  <2>1. /\ row' = row2
        /\ relay' = [relay EXCEPT ![w] = IF batch = {} THEN Idle ELSE held2]
        /\ UNCHANGED <<accepted, delivered, parked, failures, faults>>
    BY <1>2, ZenonT(60) DEF ClaimBatch, history
  <2>2. \A r \in Record, l \in Nat :
           /\ leased(r, l) \in Record /\ leased(r, l).status = "processing"
           /\ leased(r, l).retryAfter = l /\ leased(r, l).retryCount = r.retryCount
    BY ZenonT(60) DEF Record, leased
  <2>3. relay[w] \in Batch /\ relay[w].lease \in Nat
    BY ZenonT(60) DEF OutboxInv, TypeOK, Batch
  <2>4. \A e \in Event : row2[e] \in Record \cup {None}
    BY <1>c, <2>2, <2>3, ZenonT(60) DEF OutboxInv, TypeOK
  <2>5. held2 \in Batch /\ Idle \in Batch
    BY <1>b, <1>c, <2>3, ZenonT(60) DEF Batch, Record, Idle
  <2>6. TypeOK'
    BY <2>1, <2>4, <2>5, ZenonT(60) DEF OutboxInv, TypeOK
  <2>7. \A e \in Event : /\ (row2[e] = None) <=> (row[e] = None)
                         /\ row2[e] # None => row2[e].retryCount = row[e].retryCount
                         /\ e \notin batch => row2[e] = row[e]
                         /\ e \in batch => row2[e].status = "processing" /\ row2[e].retryAfter \in Nat
    <3> SUFFICES ASSUME NEW e \in Event
                 PROVE  /\ (row2[e] = None) <=> (row[e] = None)
                        /\ row2[e] # None => row2[e].retryCount = row[e].retryCount
                        /\ e \notin batch => row2[e] = row[e]
                        /\ e \in batch => row2[e].status = "processing" /\ row2[e].retryAfter \in Nat
      OBVIOUS
    <3>1. CASE e \notin batch
      BY <3>1, ZenonT(60)
    <3>2. CASE e \in batch
      <4>1. row2[e] = leased(row[e], relay[w].lease)
        BY <3>2, ZenonT(60)
      <4>2. row[e] \in Record
        BY <1>c, <3>2, ZenonT(60)
      <4> HIDE DEF row2
      <4> QED
        BY <2>2, <2>3, <3>2, <4>1, <4>2, RecordAssumption, SMTT(30)
    <3> QED
      BY <3>1, <3>2, ZenonT(60)
  <2> HIDE DEF row2, held2
  <2>8. /\ (delivered \cup parked \subseteq accepted)' /\ BudgetHonoured'
        /\ \A e \in Event : RowOK(e)'
    BY <2>1, <2>7, ZenonT(60) DEF OutboxInv, RowOK, BudgetHonoured
  <2>9. NothingLost' /\ NotStranded'
    BY <2>1, <2>7, <1>c, OutboxAssumption DEF OutboxInv, TypeOK, NothingLost, NotStranded
  <2>10. \A v \in Worker, e \in Event : HeldOK(v, e)'
    <3> SUFFICES ASSUME NEW v \in Worker, NEW e \in Event PROVE HeldOK(v, e)'
      OBVIOUS
    <3>1. CASE v # w
      BY <2>1, <3>1, ZenonT(60) DEF OutboxInv, TypeOK, HeldOK, Current
    <3>2. CASE v = w /\ batch = {}
      BY <2>1, <3>2, ZenonT(60) DEF OutboxInv, TypeOK, HeldOK, Current, Idle
    <3>3. CASE v = w /\ batch # {}
      <4>1. relay'[w] = held2
        BY <2>1, <3>3, ZenonT(60) DEF OutboxInv, TypeOK
      <4>2. held2.pc = "publish" /\ held2.left = batch /\ held2.seen = seen2
        BY <2>3, ZenonT(60) DEF held2, Batch
      <4>3. e \in batch => row[e] # None
        BY <1>b, ZenonT(60) DEF claimable
      <4> QED
        BY <3>3, <4>1, <4>2, <4>3, <1>c, <2>1, ZenonT(60) DEF OutboxInv, RowOK, HeldOK, Current
    <3> QED
      BY <3>1, <3>2, <3>3, ZenonT(60)
  <2> QED
    BY <2>6, <2>8, <2>9, <2>10, ZenonT(60) DEF OutboxInv
<1> QED
  BY <1>1, <1>2, ZenonT(60)

\* Going on to the next row of the batch leaves nothing of this one behind.
LEMMA AfterKeeps ==
    ASSUME OutboxInv, NEW w \in Worker, NEW e \in Event, Current(w, e),
           relay' = [relay EXCEPT ![w] = After(w, e)],
           UNCHANGED <<accepted, delivered, parked, failures>>
    PROVE  relay' \in [Worker -> Batch] /\ \A v \in Worker, d \in Event : HeldOK(v, d)'
<1> DEFINE rest == [relay[w] EXCEPT !.pc = "publish", !.left = @ \ {e}]
<1>1. relay \in [Worker -> Batch] /\ relay[w] \in Batch /\ e \in relay[w].left
  BY ZenonT(60) DEF OutboxInv, TypeOK, Current
<1>2. /\ rest \in Batch /\ Idle \in Batch
      /\ rest.pc = "publish" /\ rest.left = relay[w].left \ {e} /\ rest.seen = relay[w].seen
  BY <1>1, ZenonT(60) DEF Batch, Idle
<1>3. After(w, e) = Idle \/ After(w, e) = rest
  BY ZenonT(60) DEF After
<1> HIDE DEF rest
<1>4. relay' \in [Worker -> Batch]
  BY <1>1, <1>2, <1>3, ZenonT(60)
<1>5. ASSUME NEW v \in Worker, NEW d \in Event PROVE HeldOK(v, d)'
  <2>1. CASE v # w
    BY <1>1, <2>1, ZenonT(60) DEF OutboxInv, HeldOK, Current
  <2>2. CASE v = w /\ After(w, e) = Idle
    BY <1>1, <2>2 DEF HeldOK, Idle
  <2>3. CASE v = w /\ After(w, e) = rest
    <3>1. relay'[w] = rest
      BY <1>1, <2>3, ZenonT(60)
    <3>2. HeldOK(w, d)
      BY ZenonT(60) DEF OutboxInv
    <3> QED
      BY <1>2, <2>3, <3>1, <3>2, ZenonT(60) DEF HeldOK
  <2> QED
    BY <1>3, <2>1, <2>2, <2>3, ZenonT(60)
<1> QED
  BY <1>4, <1>5, ZenonT(60)

\* A mark touches the one row, and only while it is processing.
LEMMA MarkedRows ==
    ASSUME OutboxInv, NEW e \in Event, NEW r \in Record, UNCHANGED <<accepted, failures>>,
           row' = marked(e, r), e \in accepted, r.retryCount <= failures[e]
    PROVE  /\ row' \in [Event -> Record \cup {None}]
           /\ \A d \in Event : RowOK(d)'
           /\ \A d \in Event : row'[d] = row[d] \/ (d = e /\ row'[d] = r)
BY RecordAssumption, ZenonT(60) DEF marked, OutboxInv, TypeOK, RowOK

\* A relay works on the row it is at: it may deliver, park and count errors,
\* and what it writes down about that row must be true.
LEMMA HolderKeeps ==
    ASSUME OutboxInv, NEW w \in Worker, NEW e \in Event, Current(w, e), NEW b \in Batch,
           relay' = [relay EXCEPT ![w] = b], UNCHANGED <<row, accepted>>,
           b.left = relay[w].left, b.seen = relay[w].seen, b.pc \in {"complete", "dlq", "fail"},
           delivered' \in {delivered, delivered \cup {e}}, parked' \in {parked, parked \cup {e}},
           failures' \in [Event -> Nat], \A d \in Event : failures'[d] >= failures[d],
           faults' \in 0..MaxFaults,
           e \in parked' => failures'[e] >= MaxRetries,
           b.pc = "complete" => e \in delivered',
           b.pc \in {"dlq", "fail"} => b.count <= failures'[e],
           b.pc = "dlq" => b.count >= MaxRetries,
           b.pc = "fail" /\ b.count >= MaxRetries => e \in parked'
    PROVE  OutboxInv'
<1>t. TypeOK
  BY ZenonT(60) DEF OutboxInv
<1>a. e \in accepted /\ \A v \in Worker, d \in Event : HeldOK(v, d)
  BY ZenonT(60) DEF OutboxInv, HeldOK, Current
<1>1. TypeOK'
  BY <1>t, ZenonT(60) DEF TypeOK
<1>2. (delivered \cup parked \subseteq accepted)'
  BY <1>a, ZenonT(60) DEF OutboxInv
<1>3. \A d \in Event : RowOK(d)'
  BY <1>t, OutboxAssumption, SMTT(30) DEF OutboxInv, TypeOK, RowOK, Record
<1>4. NothingLost'
  BY ZenonT(60) DEF OutboxInv, NothingLost
<1>5. NotStranded'
  BY ZenonT(60) DEF OutboxInv, NotStranded
<1>6. BudgetHonoured'
  <2> SUFFICES ASSUME NEW d \in parked' PROVE failures'[d] >= MaxRetries
    BY ZenonT(60) DEF BudgetHonoured
  <2>1. CASE d = e
    BY <2>1, ZenonT(60)
  <2>2. CASE d # e
    <3>1. d \in parked /\ d \in Event
      BY <1>t, <2>2 DEF TypeOK
    <3>2. failures[d] >= MaxRetries /\ failures'[d] >= failures[d]
      BY <3>1, ZenonT(60) DEF OutboxInv, BudgetHonoured
    <3>3. failures[d] \in Nat /\ failures'[d] \in Nat
      BY <1>t, <3>1, ZenonT(60) DEF TypeOK
    <3> QED
      BY <3>2, <3>3, OutboxAssumption
  <2> QED
    BY <2>1, <2>2, ZenonT(60)
<1>7. ASSUME NEW v \in Worker, NEW d \in Event PROVE HeldOK(v, d)'
  <2>1. CASE v # w
    <3>1. relay'[v] = relay[v] /\ relay[v] \in Batch
      BY <1>t, <2>1, ZenonT(60) DEF TypeOK
    <3> QED
      BY <1>a, <1>t, <3>1, OutboxAssumption DEF HeldOK, Current, TypeOK, Batch
  <2>2. CASE v = w
    <3>1. relay'[w] = b /\ relay[w] \in Batch
      BY <1>t, ZenonT(60) DEF TypeOK
    <3>2. Current(w, d)' => d = e
      BY <3>1, OutboxAssumption, SMTT(30) DEF Current
    <3>3. d \in relay[w].left => /\ relay[w].seen[d] < MaxRetries /\ relay[w].seen[d] <= failures[d]
                                 /\ d \in accepted /\ relay[w].seen[d] \in Nat
      BY <1>a, <3>1, ZenonT(60) DEF HeldOK, Batch
    <3> QED
      BY <2>2, <3>1, <3>2, <3>3, <1>t DEF HeldOK, TypeOK
  <2> QED
    BY <2>1, <2>2, ZenonT(60)
<1> QED
  BY <1>1, <1>2, <1>3, <1>4, <1>5, <1>6, <1>7, ZenonT(60) DEF OutboxInv

\* A dispatch that succeeds has reached the sink; one that fails is counted.
LEMMA DispatchKeeps ==
    ASSUME OutboxInv, NEW w \in Worker, NEW e \in Event, dispatchOne(w, e) PROVE OutboxInv'
<1>t. /\ TypeOK /\ relay[w] \in Batch /\ Current(w, e) /\ HeldOK(w, e) /\ BudgetHonoured
      /\ relay[w].seen[e] \in Nat /\ failures[e] \in Nat /\ relay[w].pc = "publish"
  BY DEF OutboxInv, TypeOK, Batch, dispatchOne
<1>1. CASE /\ delivered' = delivered \cup {e} /\ relay' = [relay EXCEPT ![w].pc = "complete"]
           /\ UNCHANGED <<failures, faults>>
  <2> DEFINE b == [relay[w] EXCEPT !.pc = "complete"]
  <2>1. /\ b \in Batch /\ b.left = relay[w].left /\ b.seen = relay[w].seen /\ b.pc = "complete"
        /\ relay' = [relay EXCEPT ![w] = b]
    BY <1>1, <1>t, ZenonT(60) DEF Batch
  <2> HIDE DEF b
  <2>2. e \in parked => failures[e] >= MaxRetries
    BY <1>t, ZenonT(60) DEF BudgetHonoured
  <2>3. /\ UNCHANGED <<row, accepted, parked, failures>> /\ faults' \in 0..MaxFaults
        /\ \A d \in Event : failures[d] >= failures[d] /\ failures \in [Event -> Nat]
    BY <1>1, <1>t DEF dispatchOne, TypeOK
  <2> QED
    BY <1>1, <1>t, <2>1, <2>2, <2>3, HolderKeeps, ZenonT(60) DEF TypeOK
<1>2. CASE ~ (/\ delivered' = delivered \cup {e} /\ relay' = [relay EXCEPT ![w].pc = "complete"]
              /\ UNCHANGED <<failures, faults>>)
  <2> DEFINE c == relay[w].seen[e] + 1
             b == [relay[w] EXCEPT !.pc = IF exhausted(w, e) THEN "dlq" ELSE "fail",
                                   !.count = c, !.after = backoffFor(c)]
  <2>1. /\ Fault /\ delivered' \in {delivered, delivered \cup {e}}
        /\ failures' = [failures EXCEPT ![e] = @ + 1] /\ relay' = [relay EXCEPT ![w] = b]
        /\ UNCHANGED <<row, accepted, parked>>
    BY <1>2, ZenonT(60) DEF dispatchOne
  <2>2. c \in Nat /\ backoffFor(c) \in Nat
    BY <1>t, BackoffType
  <2>3. /\ b \in Batch /\ b.left = relay[w].left /\ b.seen = relay[w].seen /\ b.count = c
        /\ b.pc = IF exhausted(w, e) THEN "dlq" ELSE "fail"
    BY <1>t, <2>2, ZenonT(60) DEF Batch
  <2>4. exhausted(w, e) <=> c >= MaxRetries
    BY ZenonT(60) DEF exhausted
  <2>5. relay[w].seen[e] <= failures[e]
    BY <1>t, ZenonT(60) DEF HeldOK, Current
  <2> HIDE DEF b
  <2>6. /\ failures' \in [Event -> Nat] /\ \A d \in Event : failures'[d] >= failures[d]
        /\ c <= failures'[e]
    BY <1>t, <2>1, <2>5 DEF TypeOK
  <2>7. faults' \in 0..MaxFaults
    BY <2>1, FaultsBounded, ZenonT(60)
  <2>8. e \in parked' => failures'[e] >= MaxRetries
    BY <1>t, <2>1, <2>6, OutboxAssumption DEF BudgetHonoured
  <2> HIDE DEF c
  <2> QED
    BY <1>t, <2>1, <2>2, <2>3, <2>4, <2>6, <2>7, <2>8, OutboxAssumption, HolderKeeps, ZenonT(60)
<1> QED
  BY <1>1, <1>2, ZenonT(60)

\* A failed dead-letter forward takes the counter back below the budget.
LEMMA ForwardKeeps ==
    ASSUME OutboxInv, NEW w \in Worker, NEW e \in Event, forwardDLQ(w, e) PROVE OutboxInv'
<1>t. /\ TypeOK /\ relay[w] \in Batch /\ Current(w, e) /\ relay[w].pc = "dlq"
      /\ relay[w].seen[e] \in Nat /\ failures[e] \in Nat /\ relay[w].count \in Nat
  BY ZenonT(60) DEF OutboxInv, TypeOK, Batch, forwardDLQ
<1>h. /\ relay[w].count <= failures[e] /\ relay[w].count >= MaxRetries
      /\ relay[w].seen[e] < MaxRetries /\ relay[w].seen[e] <= failures[e]
  BY <1>t, ZenonT(60) DEF OutboxInv, HeldOK, Current
<1>f. /\ UNCHANGED <<row, accepted, delivered, failures>> /\ parked' \in {parked, parked \cup {e}}
      /\ faults' \in 0..MaxFaults
  BY FaultsBounded, ZenonT(60) DEF forwardDLQ
<1>g. /\ failures' \in [Event -> Nat] /\ \A d \in Event : failures'[d] >= failures[d]
      /\ failures'[e] >= MaxRetries
  BY <1>t, <1>h, <1>f, OutboxAssumption DEF TypeOK
<1>1. CASE parked' = parked \cup {e} /\ relay' = [relay EXCEPT ![w].pc = "fail"]
  <2> DEFINE b == [relay[w] EXCEPT !.pc = "fail"]
  <2>1. /\ b \in Batch /\ b.left = relay[w].left /\ b.seen = relay[w].seen /\ b.pc = "fail"
        /\ b.count = relay[w].count /\ relay' = [relay EXCEPT ![w] = b]
    BY <1>1, <1>t, ZenonT(60) DEF Batch
  <2> HIDE DEF b
  <2> QED
    BY <1>1, <1>t, <1>h, <1>f, <1>g, <2>1, HolderKeeps, ZenonT(60)
<1>2. CASE relay' = [relay EXCEPT ![w] = [@ EXCEPT !.pc = "fail", !.count = relay[w].seen[e]]]
  <2> DEFINE b == [relay[w] EXCEPT !.pc = "fail", !.count = relay[w].seen[e]]
  <2>1. /\ b \in Batch /\ b.left = relay[w].left /\ b.seen = relay[w].seen /\ b.pc = "fail"
        /\ b.count = relay[w].seen[e] /\ relay' = [relay EXCEPT ![w] = b]
    BY <1>2, <1>t, ZenonT(60) DEF Batch
  <2> HIDE DEF b
  <2>2. ~ (b.count >= MaxRetries) /\ b.count <= failures'[e]
    BY <1>t, <1>h, <1>f, <2>1, OutboxAssumption
  <2> QED
    BY <1>t, <1>f, <1>g, <2>1, <2>2, HolderKeeps, ZenonT(60)
<1> QED
  BY <1>1, <1>2, ZenonT(60) DEF forwardDLQ

\* A completed mark is written after the sink took the frame.
LEMMA CompletedKeeps ==
    ASSUME OutboxInv, NEW w \in Worker, NEW e \in Event, MarkCompleted(w, e) PROVE OutboxInv'
<1>1. /\ Current(w, e) /\ relay' = [relay EXCEPT ![w] = After(w, e)]
      /\ UNCHANGED <<accepted, delivered, parked, failures>> /\ faults' \in 0..MaxFaults
      /\ e \in delivered /\ e \in accepted
      /\ row' = marked(e, completedRecord(e)) \/ UNCHANGED row
  BY FaultsBounded, ZenonT(60) DEF MarkCompleted, history, OutboxInv, HeldOK, Current
<1>2. relay' \in [Worker -> Batch] /\ \A v \in Worker, d \in Event : HeldOK(v, d)'
  BY <1>1, AfterKeeps, ZenonT(60)
<1>3. row[e] # None => /\ completedRecord(e) \in Record /\ completedRecord(e).status = "completed"
                       /\ completedRecord(e).retryCount <= failures[e]
  BY ZenonT(60) DEF completedRecord, OutboxInv, TypeOK, RowOK, Record
<1>4. CASE row' = marked(e, completedRecord(e)) /\ row[e] # None
  <2>1. /\ row' \in [Event -> Record \cup {None}] /\ \A d \in Event : RowOK(d)'
        /\ \A d \in Event : row'[d] = row[d] \/ (d = e /\ row'[d] = completedRecord(e))
    BY <1>1, <1>3, <1>4, MarkedRows, ZenonT(60)
  <2>2. NothingLost' /\ NotStranded' /\ BudgetHonoured'
    BY <1>1, <1>3, <1>4, <2>1, SMTT(30) DEF OutboxInv, TypeOK, NothingLost, NotStranded, BudgetHonoured
  <2> QED
    BY <1>1, <1>2, <2>1, <2>2, ZenonT(60) DEF OutboxInv, TypeOK
<1>5. CASE UNCHANGED row
  BY <1>1, <1>2, <1>5, ZenonT(60) DEF OutboxInv, TypeOK, RowOK, NothingLost, NotStranded, BudgetHonoured
<1>6. row[e] = None /\ row' = marked(e, completedRecord(e)) => UNCHANGED row
  BY ZenonT(60) DEF marked, OutboxInv, TypeOK
<1> QED
  BY <1>1, <1>4, <1>5, <1>6, ZenonT(60)

\* A failed mark keeps the counter below the budget or the event is parked.
LEMMA FailedKeeps ==
    ASSUME OutboxInv, NEW w \in Worker, NEW e \in Event, MarkFailed(w, e) PROVE OutboxInv'
<1> DEFINE r == failedRecord(e, relay[w].count, relay[w].after)
<1>1. /\ Current(w, e) /\ relay' = [relay EXCEPT ![w] = After(w, e)]
      /\ UNCHANGED <<accepted, delivered, parked, failures>> /\ faults' \in 0..MaxFaults
      /\ row' = marked(e, r) \/ UNCHANGED row
  BY FaultsBounded, ZenonT(60) DEF MarkFailed, history
<1>h. /\ e \in accepted /\ relay[w].count <= failures[e]
      /\ relay[w].count >= MaxRetries => e \in parked
  BY ZenonT(60) DEF MarkFailed, OutboxInv, HeldOK, Current
<1>2. relay' \in [Worker -> Batch] /\ \A v \in Worker, d \in Event : HeldOK(v, d)'
  BY <1>1, AfterKeeps, ZenonT(60)
<1>3. row[e] # None =>
        /\ r \in Record /\ r.retryCount = relay[w].count
        /\ \/ r.status = "dead" /\ relay[w].count >= MaxRetries
           \/ r.status = "failed" /\ relay[w].count < MaxRetries /\ r.retryAfter \in Nat
  BY OutboxAssumption DEF failedRecord, OutboxInv, TypeOK, Record, Batch
<1> HIDE DEF r
<1>4. CASE row' = marked(e, r) /\ row[e] # None
  <2>1. /\ row' \in [Event -> Record \cup {None}] /\ \A d \in Event : RowOK(d)'
        /\ \A d \in Event : row'[d] = row[d] \/ (d = e /\ row'[d] = r)
    BY <1>1, <1>h, <1>3, <1>4, MarkedRows, ZenonT(60)
  <2>2. r # None /\ (r.retryAfter \in Nat => r.retryAfter # None)
    BY <1>3, <1>4, OutboxAssumption, RecordAssumption, ZenonT(60)
  <2>3. NothingLost'
    <3>0. r # None /\ r.status # "completed" /\ (r.status = "dead" => e \in parked)
      BY <1>h, <1>3, <1>4, <2>2, ZenonT(60)
    <3>1. \A d \in Event :
            \/ row'[d] = row[d]
            \/ /\ d = e /\ row'[d] # None /\ row'[d].status # "completed"
               /\ row'[d].status = "dead" => d \in parked
      BY <2>1, <3>0, ZenonT(60)
    <3>2. NothingLost /\ accepted \subseteq Event
      BY ZenonT(60) DEF OutboxInv, TypeOK
    <3> QED
      BY <1>1, <3>1, <3>2, ZenonT(60) DEF NothingLost
  <2>4. NotStranded'
    BY <1>3, <1>4, <2>1, <2>2, ZenonT(60) DEF OutboxInv, NotStranded
  <2>5. BudgetHonoured'
    BY <1>1, ZenonT(60) DEF OutboxInv, BudgetHonoured
  <2> QED
    BY <1>1, <1>2, <2>1, <2>3, <2>4, <2>5, ZenonT(60) DEF OutboxInv, TypeOK
<1>5. CASE UNCHANGED row
  BY <1>1, <1>2, <1>5, ZenonT(60) DEF OutboxInv, TypeOK, RowOK, NothingLost, NotStranded, BudgetHonoured
<1>6. row[e] = None /\ row' = marked(e, r) => UNCHANGED row
  BY ZenonT(60) DEF marked, OutboxInv, TypeOK
<1> QED
  BY <1>1, <1>4, <1>5, <1>6, ZenonT(60)

\* The cleaner deletes completed rows only.
LEMMA CleanupKeeps == ASSUME OutboxInv, Cleanup PROVE OutboxInv'
BY DEF Cleanup, OutboxInv, TypeOK, RowOK, HeldOK, NothingLost, NotStranded, BudgetHonoured, Current, history

\* Time only brings deadlines nearer.
LEMMA TickKeeps == ASSUME OutboxInv, Tick PROVE OutboxInv'
<1>t. TypeOK
  BY ZenonT(60) DEF OutboxInv
<1>d. /\ \A t \in Nat : Sooner(t) \in Nat
      /\ \A t \in Nat \cup {None} : /\ Sooner(t) \in Nat \cup {None} /\ Older(t) \in Nat \cup {None}
                                    /\ Sooner(t) = None <=> t = None
  BY OutboxAssumption, SMTT(30) DEF Sooner, Older
<1>h. UNCHANGED <<accepted, delivered, parked, failures, faults>>
  BY ZenonT(60) DEF Tick, history
<1>r. \A r \in Record :
        /\ [r EXCEPT !.retryAfter = Sooner(@), !.age = Older(@)] \in Record
        /\ [r EXCEPT !.retryAfter = Sooner(@), !.age = Older(@)].status = r.status
        /\ [r EXCEPT !.retryAfter = Sooner(@), !.age = Older(@)].retryCount = r.retryCount
        /\ [r EXCEPT !.retryAfter = Sooner(@), !.age = Older(@)].retryAfter = Sooner(r.retryAfter)
        /\ r.retryAfter \in Nat \cup {None}
  BY <1>d, ZenonT(60) DEF Record
<1>1. \A e \in Event :
        \/ row[e] = None /\ row'[e] = None
        \/ /\ row[e] \in Record /\ row'[e] \in Record /\ row'[e].status = row[e].status
           /\ row'[e].retryCount = row[e].retryCount
           /\ row'[e].retryAfter = None <=> row[e].retryAfter = None
  <2> SUFFICES ASSUME NEW e \in Event, row[e] # None
               PROVE  /\ row[e] \in Record /\ row'[e] \in Record /\ row'[e].status = row[e].status
                      /\ row'[e].retryCount = row[e].retryCount
                      /\ row'[e].retryAfter = None <=> row[e].retryAfter = None
    BY ZenonT(60) DEF Tick
  <2>1. row[e] \in Record
    BY <1>t, ZenonT(60) DEF TypeOK
  <2>2. row'[e] = [row[e] EXCEPT !.retryAfter = Sooner(@), !.age = Older(@)]
    BY ZenonT(60) DEF Tick
  <2> QED
    BY <1>d, <1>r, <2>1, <2>2, ZenonT(60)
<1>2. \A w \in Worker :
        /\ relay'[w] \in Batch /\ relay'[w].pc = relay[w].pc /\ relay'[w].left = relay[w].left
        /\ relay'[w].seen = relay[w].seen /\ relay'[w].count = relay[w].count
  <2>1. \A b \in Batch :
          /\ [b EXCEPT !.lease = Sooner(@), !.after = Sooner(@)] \in Batch
          /\ [b EXCEPT !.lease = Sooner(@), !.after = Sooner(@)].pc = b.pc
          /\ [b EXCEPT !.lease = Sooner(@), !.after = Sooner(@)].left = b.left
          /\ [b EXCEPT !.lease = Sooner(@), !.after = Sooner(@)].seen = b.seen
          /\ [b EXCEPT !.lease = Sooner(@), !.after = Sooner(@)].count = b.count
    BY <1>d, ZenonT(60) DEF Batch
  <2> SUFFICES ASSUME NEW w \in Worker
               PROVE  /\ relay'[w] \in Batch /\ relay'[w].pc = relay[w].pc
                      /\ relay'[w].left = relay[w].left
                      /\ relay'[w].seen = relay[w].seen /\ relay'[w].count = relay[w].count
    OBVIOUS
  <2>2. relay[w] \in Batch
    BY <1>t, ZenonT(60) DEF TypeOK
  <2>3. relay'[w] = [relay[w] EXCEPT !.lease = Sooner(@), !.after = Sooner(@)]
    BY ZenonT(60) DEF Tick
  <2> QED
    BY <2>1, <2>2, <2>3, ZenonT(60)
<1>3. /\ row' = [e \in Event |-> row'[e]] /\ relay' = [w \in Worker |-> relay'[w]]
  BY ZenonT(60) DEF Tick
<1>4. TypeOK'
  BY <1>t, <1>h, <1>1, <1>2, <1>3, ZenonT(60) DEF TypeOK
<1>5. NothingLost' /\ NotStranded' /\ BudgetHonoured' /\ (delivered \cup parked \subseteq accepted)'
  BY <1>t, <1>h, <1>1, RecordAssumption, ZenonT(60)
     DEF OutboxInv, TypeOK, NothingLost, NotStranded, BudgetHonoured
<1>6. \A e \in Event : RowOK(e)'
  BY <1>h, <1>1, RecordAssumption, ZenonT(60) DEF OutboxInv, RowOK
<1>7. \A w \in Worker, e \in Event : HeldOK(w, e)'
  BY <1>h, <1>2 DEF OutboxInv, HeldOK, Current
<1> QED
  BY <1>4, <1>5, <1>6, <1>7, ZenonT(60) DEF OutboxInv

\* A crash forgets the batch.
LEMMA CrashKeeps == ASSUME OutboxInv, NEW w \in Worker, Crash(w) PROVE OutboxInv'
BY ForgetKeeps, FaultsBounded, ZenonT(60) DEF Crash, history

\* A step of the outbox keeps the invariant.
LEMMA StepKeepsOutbox == OutboxInv /\ [Next]_vars => OutboxInv'
<1> SUFFICES ASSUME OutboxInv, [Next]_vars PROVE OutboxInv'
  OBVIOUS
<1>1. CASE \E e \in Event : Publish(e)
  BY <1>1, PublishKeeps, ZenonT(60)
<1>2. ASSUME NEW w \in Worker, Step(w) PROVE OutboxInv'
  BY <1>2, CycleKeeps, ClaimKeeps, DispatchKeeps, ForwardKeeps, CompletedKeeps, FailedKeeps, ZenonT(60) DEF Step
<1>3. CASE \E w \in Worker : Crash(w)
  BY <1>3, CrashKeeps, ZenonT(60)
<1>4. CASE Cleanup
  BY <1>4, CleanupKeeps, ZenonT(60)
<1>5. CASE Tick
  BY <1>5, TickKeeps, ZenonT(60)
<1>6. CASE UNCHANGED vars
  BY <1>6
     DEF vars, OutboxInv, TypeOK, RowOK, HeldOK, NothingLost, NotStranded, BudgetHonoured, Current
<1> QED
  BY <1>1, <1>2, <1>3, <1>4, <1>5, <1>6, ZenonT(60) DEF Next, Work

(***************************************************************************)
(* Every step is a step of Forwarding or stutters.                         *)
(***************************************************************************)

\* Event e needs no more work of the relay.
Done(e) == row[e] = None \/ row[e].status \in {"completed", "dead"}

\* Retired follows Done.
LEMMA RetiredSame ==
    ASSUME UNCHANGED accepted, \A d \in accepted : Done(d)' <=> Done(d) PROVE UNCHANGED Retired
BY ZenonT(60) DEF Done, Retired

\* A relay that only moves its own pointers changes nothing Forwarding sees.
LEMMA QuietSteps ==
    ASSUME OutboxInv, NEW w \in Worker, RelayPending(w) \/ Crash(w) PROVE UNCHANGED Forward!fvars
BY ZenonT(60) DEF RelayPending, Crash, history, Forward!fvars, Retired

\* A claim takes rows that still need work and leaves them so.
LEMMA ClaimIsQuiet ==
    ASSUME OutboxInv, NEW w \in Worker, ClaimBatch(w) PROVE UNCHANGED Forward!fvars
<1>1. \A d \in Event : ClaimBatch(w) => row'[d] = row[d]
                        \/ (d \in batch /\ row'[d] = leased(row[d], relay[w].lease))
  BY ZenonT(60) DEF ClaimBatch, OutboxInv, TypeOK
<1>2. \A r \in Record, l \in Nat : leased(r, l) \in Record /\ leased(r, l).status = "processing"
  BY ZenonT(60) DEF Record, leased
<1>3. \A d \in batch : d \in Event /\ ~ Done(d) /\ row[d] \in Record
  BY ZenonT(60) DEF batch, claimable, Done, OutboxInv, TypeOK
<1>4. relay[w].lease \in Nat
  BY ZenonT(60) DEF OutboxInv, TypeOK, Batch
<1>5. \A d \in Event : Done(d)' <=> Done(d)
  <2> SUFFICES ASSUME NEW d \in Event PROVE Done(d)' <=> Done(d)
    OBVIOUS
  <2>1. CASE row'[d] = row[d]
    BY <2>1, ZenonT(60) DEF Done
  <2>2. CASE d \in batch /\ row'[d] = leased(row[d], relay[w].lease)
    BY <1>2, <1>3, <1>4, <2>2, RecordAssumption, ZenonT(60) DEF Done
  <2> QED
    BY <1>1, <2>1, <2>2, ZenonT(60)
<1>6. UNCHANGED <<accepted, delivered, parked>>
  BY ZenonT(60) DEF ClaimBatch, history
<1> QED
  BY <1>5, <1>6, RetiredSame, ZenonT(60) DEF Forward!fvars, OutboxInv, TypeOK

\* A mark retires its event, or leaves it as it was.
LEMMA MarkRetires ==
    ASSUME OutboxInv, NEW e \in Event, NEW r \in Record, row' = marked(e, r),
           UNCHANGED <<accepted, delivered, parked>>, e \in accepted,
           r.status \in {"completed", "dead"} => e \in delivered \cup parked
    PROVE  Forward!Retire(e) \/ UNCHANGED Forward!fvars
<1>1. \A d \in Event : d # e => row'[d] = row[d]
  BY ZenonT(60) DEF marked, OutboxInv, TypeOK
<1>2. CASE row[e] # None /\ row[e].status = "processing" /\ r.status \in {"completed", "dead"}
  <2>1. row'[e] = r
    BY <1>2, ZenonT(60) DEF marked, OutboxInv, TypeOK
  <2>2. Retired' = Retired \cup {e} /\ e \notin Retired
    BY <1>1, <1>2, <2>1, ZenonT(60) DEF Retired, OutboxInv, TypeOK
  <2> QED
    BY <1>2, <2>2, ZenonT(60) DEF Forward!Retire
<1>3. CASE ~ (row[e] # None /\ row[e].status = "processing" /\ r.status \in {"completed", "dead"})
  <2>1. Done(e)' <=> Done(e)
    BY <1>3, RecordAssumption, ZenonT(60) DEF marked, OutboxInv, TypeOK, Done
  <2>2. \A d \in accepted : Done(d)' <=> Done(d)
    BY <1>1, <2>1, ZenonT(60) DEF Done, OutboxInv, TypeOK
  <2> QED
    BY <2>2, RetiredSame, ZenonT(60) DEF Forward!fvars
<1> QED
  BY <1>2, <1>3, ZenonT(60)

\* Every step of a relay.
LEMMA RelayForwards ==
    ASSUME OutboxInv, NEW w \in Worker, Step(w) PROVE [Forward!FNext]_(Forward!fvars)
<1>1. CASE RelayPending(w) \/ ClaimBatch(w)
  BY <1>1, QuietSteps, ClaimIsQuiet, ZenonT(60)
<1>2. ASSUME NEW e \in Event, dispatchOne(w, e) PROVE [Forward!FNext]_(Forward!fvars)
  <2>1. e \in accepted /\ UNCHANGED <<accepted, parked, row>>
    BY <1>2, ZenonT(60) DEF dispatchOne, OutboxInv, HeldOK, Current
  <2>2. delivered' = delivered \/ delivered' = delivered \cup {e}
    BY <1>2, ZenonT(60) DEF dispatchOne
  <2>3. UNCHANGED Retired
    BY <2>1, ZenonT(60) DEF Retired
  <2> QED
    BY <2>1, <2>2, <2>3, ZenonT(60) DEF Forward!FNext, Forward!Deliver, Forward!fvars
<1>3. ASSUME NEW e \in Event, forwardDLQ(w, e) PROVE [Forward!FNext]_(Forward!fvars)
  <2>1. e \in accepted /\ UNCHANGED <<accepted, delivered, row>>
    BY <1>3, ZenonT(60) DEF forwardDLQ, OutboxInv, HeldOK, Current
  <2>2. parked' = parked \/ parked' = parked \cup {e}
    BY <1>3, ZenonT(60) DEF forwardDLQ
  <2>3. UNCHANGED Retired
    BY <2>1, ZenonT(60) DEF Retired
  <2> QED
    BY <2>1, <2>2, <2>3, ZenonT(60) DEF Forward!FNext, Forward!Park, Forward!fvars
<1>4. ASSUME NEW e \in Event, MarkCompleted(w, e) PROVE [Forward!FNext]_(Forward!fvars)
  <2>1. /\ e \in accepted /\ e \in delivered /\ UNCHANGED <<accepted, delivered, parked>>
        /\ UNCHANGED row \/ row' = marked(e, completedRecord(e))
    BY <1>4, ZenonT(60) DEF MarkCompleted, history, OutboxInv, HeldOK, Current
  <2>2. CASE UNCHANGED row
    BY <2>1, <2>2, ZenonT(60) DEF Forward!fvars, Retired
  <2>3. CASE row[e] = None /\ row' = marked(e, completedRecord(e))
    <3>1. UNCHANGED row
      BY <2>3, ZenonT(60) DEF marked, OutboxInv, TypeOK
    <3> QED
      BY <2>1, <3>1, ZenonT(60) DEF Forward!fvars, Retired
  <2>4. CASE row[e] # None /\ row' = marked(e, completedRecord(e))
    <3>1. completedRecord(e) \in Record
      BY <2>4, ZenonT(60) DEF completedRecord, OutboxInv, TypeOK, Record
    <3> QED
      BY <2>1, <2>4, <3>1, MarkRetires, ZenonT(60) DEF Forward!FNext
  <2> QED
    BY <2>1, <2>2, <2>3, <2>4, ZenonT(60)
<1>5. ASSUME NEW e \in Event, MarkFailed(w, e) PROVE [Forward!FNext]_(Forward!fvars)
  <2> DEFINE r == failedRecord(e, relay[w].count, relay[w].after)
  <2>1. /\ e \in accepted /\ (relay[w].count >= MaxRetries => e \in parked)
        /\ UNCHANGED <<accepted, delivered, parked>> /\ (UNCHANGED row \/ row' = marked(e, r))
    BY <1>5, ZenonT(60) DEF MarkFailed, history, OutboxInv, HeldOK, Current
  <2>2. CASE UNCHANGED row
    BY <2>1, <2>2, ZenonT(60) DEF Forward!fvars, Retired
  <2>3. CASE row[e] = None /\ row' = marked(e, r)
    <3>1. UNCHANGED row
      BY <2>3, ZenonT(60) DEF marked, OutboxInv, TypeOK
    <3> QED
      BY <2>1, <3>1, ZenonT(60) DEF Forward!fvars, Retired
  <2>4. CASE row[e] # None /\ row' = marked(e, r)
    <3>1. r \in Record /\ (r.status \in {"completed", "dead"} => relay[w].count >= MaxRetries)
      BY <2>4, OutboxAssumption, ZenonT(60) DEF failedRecord, OutboxInv, TypeOK, Record, Batch
    <3> HIDE DEF r
    <3> QED
      BY <2>1, <2>4, <3>1, MarkRetires, ZenonT(60) DEF Forward!FNext
  <2> QED
    BY <2>1, <2>2, <2>3, <2>4, ZenonT(60)
<1> QED
  BY <1>1, <1>2, <1>3, <1>4, <1>5, ZenonT(60) DEF Step

\* A row a tick later is a row, of the same status.
LEMMA TickedRecord ==
    ASSUME NEW r \in Record
    PROVE  /\ [r EXCEPT !.retryAfter = Sooner(@), !.age = Older(@)] \in Record
           /\ [r EXCEPT !.retryAfter = Sooner(@), !.age = Older(@)].status = r.status
           /\ [r EXCEPT !.retryAfter = Sooner(@), !.age = Older(@)] # None
<1>1. \A t \in Nat \cup {None} : Sooner(t) \in Nat \cup {None} /\ Older(t) \in Nat \cup {None}
  BY OutboxAssumption DEF Sooner, Older
<1>2. [r EXCEPT !.retryAfter = Sooner(@), !.age = Older(@)] \in Record
  BY <1>1, ZenonT(60) DEF Record
<1>3. [r EXCEPT !.retryAfter = Sooner(@), !.age = Older(@)].status = r.status
  BY ZenonT(60) DEF Record
<1> QED
  BY <1>2, <1>3, RecordAssumption, ZenonT(60)

\* Publishing accepts; cleanup and time change nothing Forwarding sees.
LEMMA StepForwards == OutboxInv /\ [Next]_vars => [Forward!FNext]_(Forward!fvars)
<1> SUFFICES ASSUME OutboxInv, [Next]_vars PROVE [Forward!FNext]_(Forward!fvars)
  OBVIOUS
<1>1. ASSUME NEW e \in Event, Publish(e) PROVE [Forward!FNext]_(Forward!fvars)
  <2>1. Retired' = Retired
    BY <1>1, RecordAssumption DEF Publish, newRecord, Retired, OutboxInv, TypeOK, Record
  <2> QED
    BY <1>1, <2>1, ZenonT(60) DEF Publish, Forward!FNext, Forward!Accept
<1>2. CASE \E w \in Worker : Step(w)
  BY <1>2, RelayForwards, ZenonT(60)
<1>3. CASE \E w \in Worker : Crash(w)
  BY <1>3, QuietSteps, ZenonT(60)
<1>4. CASE Cleanup
  <2>1. UNCHANGED <<accepted, delivered, parked>> /\ \A d \in Event : Done(d)' <=> Done(d)
    BY <1>4, ZenonT(60) DEF Cleanup, history, Done
  <2> QED
    BY <2>1, RetiredSame, ZenonT(60) DEF Forward!fvars, OutboxInv, TypeOK
<1>5. CASE Tick
  <2>1. UNCHANGED <<accepted, delivered, parked>>
    BY <1>5, ZenonT(60) DEF Tick, history
  <2>2. \A r \in Record : /\ [r EXCEPT !.retryAfter = Sooner(@), !.age = Older(@)].status = r.status
                          /\ [r EXCEPT !.retryAfter = Sooner(@), !.age = Older(@)] # None
    BY TickedRecord, ZenonT(60)
  <2>3. ASSUME NEW d \in Event PROVE Done(d)' <=> Done(d)
    <3>1. CASE row[d] = None
      BY <1>5, <3>1, ZenonT(60) DEF Tick, Done
    <3>2. CASE row[d] # None
      <4>1. row[d] \in Record /\ row'[d] = [row[d] EXCEPT !.retryAfter = Sooner(@), !.age = Older(@)]
        BY <1>5, <3>2, ZenonT(60) DEF Tick, OutboxInv, TypeOK
      <4> QED
        BY <2>2, <3>2, <4>1, ZenonT(60) DEF Done
    <3> QED
      BY <3>1, <3>2, ZenonT(60)
  <2> QED
    BY <2>1, <2>3, RetiredSame, ZenonT(60) DEF Forward!fvars, OutboxInv, TypeOK
<1>6. CASE UNCHANGED vars
  BY <1>6, ZenonT(60) DEF vars, Forward!fvars, Retired
<1> QED
  BY <1>1, <1>2, <1>3, <1>4, <1>5, <1>6, ZenonT(60) DEF Next, Work

(***************************************************************************)
(* What the lease is good for.                                             *)
(***************************************************************************)

\* While nobody is late.
Exclusive == OneDispatcher /\ \A w \in Worker, e \in Event : LeaseHeld(w, e)

\* A relay that goes on with what it holds, or with less, and rows in nobody's
\* batch: the leases stay where they are.
LEMMA MovesOn ==
    ASSUME OutboxInv, Exclusive, NEW w \in Worker, NEW b \in Batch,
           relay' = [relay EXCEPT ![w] = b],
           b.left \subseteq relay[w].left,
           b.left = {} \/ (b.seen = relay[w].seen /\ b.lease = relay[w].lease),
           \A v \in Worker : \A d \in relay'[v].left : row'[d] = row[d]
    PROVE  Exclusive'
<1>1. relay \in [Worker -> Batch]
  BY ZenonT(60) DEF OutboxInv, TypeOK
<1>2. relay'[w] = b /\ \A v \in Worker : v # w => relay'[v] = relay[v]
  BY <1>1, ZenonT(60)
<1>3. \A v \in Worker : relay'[v].left \subseteq relay[v].left
  BY <1>2, ZenonT(60)
<1>4. OneDispatcher'
  <2> SUFFICES ASSUME NEW u \in Worker, NEW v \in Worker, u # v, NEW d \in relay'[u].left \cap relay'[v].left
               PROVE  FALSE
    BY ZenonT(60) DEF OneDispatcher
  <2>1. d \in relay[u].left \cap relay[v].left
    BY <1>3, ZenonT(60)
  <2> QED
    BY <2>1, ZenonT(60) DEF Exclusive, OneDispatcher
<1>5. ASSUME NEW v \in Worker, NEW d \in Event PROVE LeaseHeld(v, d)'
  <2> SUFFICES ASSUME d \in relay'[v].left PROVE LeaseHeld(v, d)'
    BY ZenonT(60) DEF LeaseHeld
  <2>1. d \in relay[v].left /\ row'[d] = row[d]
    BY <1>3, ZenonT(60)
  <2>2. relay'[v].lease = relay[v].lease /\ relay'[v].seen = relay[v].seen
    BY <1>2, ZenonT(60)
  <2>3. LeaseHeld(v, d)
    BY ZenonT(60) DEF Exclusive
  <2> QED
    BY <2>1, <2>2, <2>3, ZenonT(60) DEF LeaseHeld
<1> QED
  BY <1>4, <1>5, ZenonT(60) DEF Exclusive

\* A poll takes rows nobody has a running lease on, and leases them to itself.
LEMMA ClaimExcludes ==
    ASSUME OutboxInv, Exclusive, ~ Overdue, NEW w \in Worker, ClaimBatch(w)
    PROVE  Exclusive'
<1>t. relay \in [Worker -> Batch] /\ relay[w] \in Batch /\ relay[w].lease \in Nat /\ Idle \in Batch /\ Idle.left = {}
  BY ZenonT(60) DEF OutboxInv, TypeOK, Batch, Idle
<1>b. \A e \in batch : e \in Event /\ row[e] \in Record /\ claimable(e)
  BY ZenonT(60) DEF batch, claimable, OutboxInv, TypeOK
<1>n. \A v \in Worker : relay[v].left \cap batch = {}
  <2> SUFFICES ASSUME NEW v \in Worker, NEW e \in relay[v].left, e \in batch PROVE FALSE
    BY ZenonT(60)
  <2>1. e \in Event /\ claimable(e) /\ LeaseHeld(v, e) /\ HeldOK(v, e)
    BY <1>b, ZenonT(60) DEF Exclusive, OutboxInv
  <2>2. row[e].status = "processing" /\ row[e].retryAfter = relay[v].lease /\ relay[v].pc # "idle"
    BY <2>1, ZenonT(60) DEF LeaseHeld, HeldOK
  <2>3. row[e].retryAfter = 0
    BY <2>1, <2>2, ZenonT(60) DEF claimable
  <2> QED
    BY <2>2, <2>3, ZenonT(60) DEF Overdue
<1>1. CASE relay' = [relay EXCEPT ![w] = Idle] /\ UNCHANGED row
  BY <1>1, <1>t, MovesOn, ZenonT(60)
<1>2. CASE batch = {} /\ relay' = [relay EXCEPT ![w] = Idle]
           /\ row' = [e \in Event |-> IF e \in batch THEN leased(row[e], relay[w].lease) ELSE row[e]]
  <2>1. \A e \in Event : row'[e] = row[e]
    BY <1>2, ZenonT(60)
  <2>2. \A v \in Worker : relay'[v].left \subseteq Event
    BY <1>2, <1>t, ZenonT(60) DEF Batch
  <2> QED
    BY <1>2, <1>t, <2>1, <2>2, MovesOn, ZenonT(60)
<1> DEFINE seen2 == [e \in Event |-> IF e \in batch THEN row[e].retryCount ELSE 0]
           held2 == [relay[w] EXCEPT !.pc = "publish", !.left = batch, !.seen = seen2]
<1>3. CASE batch # {} /\ relay' = [relay EXCEPT ![w] = held2]
           /\ row' = [e \in Event |-> IF e \in batch THEN leased(row[e], relay[w].lease) ELSE row[e]]
  <2>1. held2.left = batch /\ held2.seen = seen2 /\ held2.lease = relay[w].lease
    BY <1>t, ZenonT(60) DEF Batch
  <2>2. \A e \in batch : seen2[e] = row[e].retryCount
    BY <1>b, ZenonT(60)
  <2>3. \A r \in Record, l \in Nat :
           /\ leased(r, l) \in Record /\ leased(r, l).status = "processing"
           /\ leased(r, l).retryAfter = l /\ leased(r, l).retryCount = r.retryCount
    BY ZenonT(60) DEF Record, leased
  <2> HIDE DEF held2, seen2
  <2>4. relay'[w] = held2 /\ \A v \in Worker : v # w => relay'[v] = relay[v]
    BY <1>3, <1>t, ZenonT(60)
  <2>5. OneDispatcher'
    <3> SUFFICES ASSUME NEW u \in Worker, NEW v \in Worker, u # v PROVE relay'[u].left \cap relay'[v].left = {}
      BY ZenonT(60) DEF OneDispatcher
    <3>1. CASE u = w
      BY <1>n, <2>1, <2>4, <3>1, ZenonT(60)
    <3>2. CASE v = w
      BY <1>n, <2>1, <2>4, <3>2, ZenonT(60)
    <3>3. CASE u # w /\ v # w
      BY <2>4, <3>3, ZenonT(60) DEF Exclusive, OneDispatcher
    <3> QED
      BY <3>1, <3>2, <3>3, ZenonT(60)
  <2>6. ASSUME NEW v \in Worker, NEW e \in Event, e \in relay'[v].left PROVE LeaseHeld(v, e)'
    <3>1. CASE v = w
      <4>1. e \in batch /\ row'[e] = leased(row[e], relay[w].lease)
        BY <1>3, <2>1, <2>4, <2>6, <3>1, ZenonT(60)
      <4>2. /\ row'[e] # None /\ row'[e].status = "processing" /\ row'[e].retryAfter = relay[w].lease
            /\ row'[e].retryCount = row[e].retryCount
        <5>1. row[e] \in Record /\ relay[w].lease \in Nat
          BY <1>b, <1>t, <4>1, ZenonT(60)
        <5>2. leased(row[e], relay[w].lease) # None
          BY <2>3, <5>1, RecordAssumption, ZenonT(60)
        <5> QED
          BY <2>3, <4>1, <5>1, <5>2, SMTT(30)
      <4> QED
        BY <2>1, <2>2, <2>4, <3>1, <4>1, <4>2, ZenonT(60) DEF LeaseHeld
    <3>2. CASE v # w
      <4>1. e \in relay[v].left /\ relay'[v] = relay[v] /\ row'[e] = row[e]
        BY <1>3, <1>n, <2>4, <2>6, <3>2, ZenonT(60)
      <4>2. LeaseHeld(v, e)
        BY ZenonT(60) DEF Exclusive
      <4> QED
        BY <4>1, <4>2, ZenonT(60) DEF LeaseHeld
    <3> QED
      BY <3>1, <3>2, ZenonT(60)
  <2> QED
    BY <2>5, <2>6, ZenonT(60) DEF Exclusive, LeaseHeld
<1> QED
  BY <1>1, <1>2, <1>3, ZenonT(60) DEF ClaimBatch

\* Marks: the row is in nobody else's batch, and leaves this one.
LEMMA MarkExcludes ==
    ASSUME OutboxInv, Exclusive, NEW w \in Worker, NEW e \in Event,
           MarkCompleted(w, e) \/ MarkFailed(w, e)
    PROVE  Exclusive'
<1>t. relay \in [Worker -> Batch] /\ relay[w] \in Batch /\ Idle \in Batch /\ Idle.left = {}
  BY ZenonT(60) DEF OutboxInv, TypeOK, Batch, Idle
<1>1. /\ relay' = [relay EXCEPT ![w] = After(w, e)] /\ e \in relay[w].left
      /\ \A d \in Event : d # e => row'[d] = row[d]
  BY ZenonT(60) DEF MarkCompleted, MarkFailed, Current, marked, OutboxInv, TypeOK
<1> DEFINE rest == [relay[w] EXCEPT !.pc = "publish", !.left = @ \ {e}]
<1>2. /\ rest \in Batch /\ rest.left = relay[w].left \ {e}
      /\ rest.seen = relay[w].seen /\ rest.lease = relay[w].lease
  BY <1>t, ZenonT(60) DEF Batch
<1>3. After(w, e) = Idle \/ After(w, e) = rest
  BY ZenonT(60) DEF After
<1> HIDE DEF rest
<1>4. relay'[w] = After(w, e) /\ \A v \in Worker : v # w => relay'[v] = relay[v]
  BY <1>t, <1>1, ZenonT(60)
<1>5. \A v \in Worker : e \notin relay'[v].left /\ relay'[v].left \subseteq Event
  <2>1. e \notin relay'[w].left /\ relay'[w].left \subseteq Event
    BY <1>t, <1>2, <1>3, <1>4, ZenonT(60) DEF Batch
  <2>2. ASSUME NEW v \in Worker, v # w PROVE e \notin relay'[v].left /\ relay'[v].left \subseteq Event
    BY <1>t, <1>1, <1>4, <2>2, ZenonT(60) DEF Exclusive, OneDispatcher, Batch
  <2> QED
    BY <2>1, <2>2, ZenonT(60)
<1>6. \A v \in Worker : \A d \in relay'[v].left : row'[d] = row[d]
  BY <1>1, <1>5, ZenonT(60)
<1> QED
  BY <1>t, <1>1, <1>2, <1>3, <1>6, MovesOn, ZenonT(60)

\* Dispatches and forwards touch no row and let go of nothing.
LEMMA DispatchExcludes ==
    ASSUME OutboxInv, Exclusive, NEW w \in Worker, NEW e \in Event,
           dispatchOne(w, e) \/ forwardDLQ(w, e)
    PROVE  Exclusive'
<1>1. relay \in [Worker -> Batch] /\ relay[w] \in Batch /\ relay[w].seen[e] \in Nat /\ UNCHANGED row
  BY ZenonT(60) DEF OutboxInv, TypeOK, Batch, dispatchOne, forwardDLQ
<1>2. relay[w].seen[e] + 1 \in Nat /\ backoffFor(relay[w].seen[e] + 1) \in Nat
  BY <1>1, BackoffType
<1>3. \E b \in Batch : /\ relay' = [relay EXCEPT ![w] = b]
                       /\ b.left = relay[w].left /\ b.seen = relay[w].seen /\ b.lease = relay[w].lease
  <2>1. CASE relay' = [relay EXCEPT ![w].pc = "complete"]
    <3> DEFINE b == [relay[w] EXCEPT !.pc = "complete"]
    <3>1. /\ b \in Batch /\ relay' = [relay EXCEPT ![w] = b]
          /\ b.left = relay[w].left /\ b.seen = relay[w].seen /\ b.lease = relay[w].lease
      BY <1>1, <2>1, ZenonT(60) DEF Batch
    <3> QED  BY <3>1, ZenonT(60)
  <2>2. CASE relay' = [relay EXCEPT ![w].pc = "fail"]
    <3> DEFINE b == [relay[w] EXCEPT !.pc = "fail"]
    <3>1. /\ b \in Batch /\ relay' = [relay EXCEPT ![w] = b]
          /\ b.left = relay[w].left /\ b.seen = relay[w].seen /\ b.lease = relay[w].lease
      BY <1>1, <2>2, ZenonT(60) DEF Batch
    <3> QED  BY <3>1, ZenonT(60)
  <2>3. CASE relay' = [relay EXCEPT ![w] = [@ EXCEPT !.pc = "fail", !.count = relay[w].seen[e]]]
    <3> DEFINE b == [relay[w] EXCEPT !.pc = "fail", !.count = relay[w].seen[e]]
    <3>1. /\ b \in Batch /\ relay' = [relay EXCEPT ![w] = b]
          /\ b.left = relay[w].left /\ b.seen = relay[w].seen /\ b.lease = relay[w].lease
      BY <1>1, <2>3, ZenonT(60) DEF Batch
    <3> QED  BY <3>1, ZenonT(60)
  <2>4. CASE relay' = [relay EXCEPT ![w] = [@ EXCEPT
                !.pc = IF exhausted(w, e) THEN "dlq" ELSE "fail",
                !.count = relay[w].seen[e] + 1,
                !.after = backoffFor(relay[w].seen[e] + 1)]]
    <3> DEFINE b == [relay[w] EXCEPT !.pc = IF exhausted(w, e) THEN "dlq" ELSE "fail",
                                     !.count = relay[w].seen[e] + 1,
                                     !.after = backoffFor(relay[w].seen[e] + 1)]
    <3>1. /\ b \in Batch /\ relay' = [relay EXCEPT ![w] = b]
          /\ b.left = relay[w].left /\ b.seen = relay[w].seen /\ b.lease = relay[w].lease
      BY <1>1, <1>2, <2>4, ZenonT(60) DEF Batch
    <3> QED  BY <3>1, ZenonT(60)
  <2> QED
    BY <2>1, <2>2, <2>3, <2>4, ZenonT(60) DEF dispatchOne, forwardDLQ
<1> QED
  BY <1>1, <1>3, MovesOn, ZenonT(60)

\* The lease of a batch and the leases of its rows run down together.
LEMMA TickExcludes == ASSUME OutboxInv, Exclusive, Tick PROVE Exclusive'
<1>1. ASSUME NEW w \in Worker
      PROVE  relay'[w].left = relay[w].left /\ relay'[w].seen = relay[w].seen
             /\ relay'[w].lease = Sooner(relay[w].lease)
  <2>1. relay[w] \in Batch
    BY ZenonT(60) DEF OutboxInv, TypeOK
  <2>2. relay'[w] = [relay[w] EXCEPT !.lease = Sooner(@), !.after = Sooner(@)]
    BY ZenonT(60) DEF Tick
  <2> QED
    BY <2>1, <2>2, ZenonT(60) DEF Batch
<1>2. ASSUME NEW e \in Event, row[e] # None
      PROVE  /\ row'[e] # None /\ row'[e].status = row[e].status
             /\ row'[e].retryAfter = Sooner(row[e].retryAfter) /\ row'[e].retryCount = row[e].retryCount
  <2>1. row[e] \in Record
    BY <1>2, ZenonT(60) DEF OutboxInv, TypeOK
  <2>2. row'[e] = [row[e] EXCEPT !.retryAfter = Sooner(@), !.age = Older(@)]
    BY <1>2, ZenonT(60) DEF Tick
  <2>3. row'[e] # None
    BY <2>1, <2>2, TickedRecord, ZenonT(60)
  <2> QED
    BY <2>1, <2>2, <2>3, ZenonT(60) DEF Record
<1>3. OneDispatcher'
  BY <1>1, ZenonT(60) DEF Exclusive, OneDispatcher
<1>4. ASSUME NEW w \in Worker, NEW e \in Event, e \in relay'[w].left PROVE LeaseHeld(w, e)'
  <2>1. LeaseHeld(w, e) /\ e \in relay[w].left
    BY <1>1, <1>4, ZenonT(60) DEF Exclusive
  <2> QED
    BY <1>1, <1>2, <2>1, ZenonT(60) DEF LeaseHeld
<1> QED
  BY <1>3, <1>4, ZenonT(60) DEF Exclusive, LeaseHeld

\* Every step that leaves nobody late keeps the leases exclusive.
LEMMA StepExcludes == ASSUME OutboxInv, Exclusive, ~ Overdue, Next PROVE Exclusive'
<1>i. Idle \in Batch /\ Idle.left = {}
  BY ZenonT(60) DEF Idle, Batch
<1>t. relay \in [Worker -> Batch] /\ row \in [Event -> Record \cup {None}]
  BY ZenonT(60) DEF OutboxInv, TypeOK
<1>1. ASSUME NEW e \in Event, Publish(e) PROVE Exclusive'
  <2>1. \A w \in Worker : e \notin relay[w].left /\ relay[w].left \subseteq Event
    BY <1>1, <1>t, ZenonT(60) DEF Publish, OutboxInv, HeldOK, Batch
  <2>2. relay' = relay /\ \A d \in Event : d # e => row'[d] = row[d]
    BY <1>1, <1>t, ZenonT(60) DEF Publish
  <2>3. ASSUME NEW w \in Worker, NEW d \in Event PROVE LeaseHeld(w, d)'
    <3> SUFFICES ASSUME d \in relay'[w].left PROVE LeaseHeld(w, d)'
      BY ZenonT(60) DEF LeaseHeld
    <3>1. d \in relay[w].left /\ relay'[w] = relay[w] /\ row'[d] = row[d]
      BY <2>1, <2>2, ZenonT(60)
    <3>2. LeaseHeld(w, d)
      BY ZenonT(60) DEF Exclusive
    <3> QED
      BY <3>1, <3>2, ZenonT(60) DEF LeaseHeld
  <2> QED
    BY <2>2, <2>3, ZenonT(60) DEF Exclusive, OneDispatcher
<1>2. ASSUME NEW w \in Worker, RelayPending(w) PROVE Exclusive'
  <2> DEFINE b == [Idle EXCEPT !.pc = "claim", !.lease = leaseDeadline]
  <2>1. b \in Batch /\ b.left = {}
    BY LeaseType, ZenonT(60) DEF Idle, Batch
  <2>2. relay' = [relay EXCEPT ![w] = b] /\ UNCHANGED row
    BY <1>2, ZenonT(60) DEF RelayPending
  <2> HIDE DEF b
  <2> QED
    BY <2>1, <2>2, MovesOn, ZenonT(60)
<1>3. ASSUME NEW w \in Worker, Crash(w) PROVE Exclusive'
  BY <1>3, <1>i, MovesOn, ZenonT(60) DEF Crash
<1>4. CASE Cleanup
  <2>1. relay' = relay /\ \A e \in Event : row[e] # None /\ row[e].status = "processing" => row'[e] = row[e]
    BY <1>4, ZenonT(60) DEF Cleanup
  <2>2. \A w \in Worker, e \in Event : LeaseHeld(w, e)'
    BY <2>1, ZenonT(60) DEF Exclusive, LeaseHeld
  <2> QED
    BY <2>1, <2>2, ZenonT(60) DEF Exclusive, OneDispatcher
<1>5. ASSUME NEW w \in Worker, Step(w) PROVE Exclusive'
  BY <1>2, <1>5, ClaimExcludes, DispatchExcludes, MarkExcludes, ZenonT(60) DEF Step
<1> QED
  BY <1>1, <1>3, <1>4, <1>5, TickExcludes, ZenonT(60) DEF Next, Work

\* A relay counts from its own copy upwards.
LEMMA StepCountsUp ==
    ASSUME OutboxInv, NEW w \in Worker, NEW e \in Event, CountsUp(w, e), [Next]_vars
    PROVE  CountsUp(w, e)'
<1> SUFFICES ASSUME Current(w, e)', relay'[w].pc \in {"dlq", "fail"}
             PROVE  relay'[w].count >= relay'[w].seen[e]
  BY ZenonT(60) DEF CountsUp
<1>t. relay \in [Worker -> Batch] /\ relay[w] \in Batch
  BY ZenonT(60) DEF OutboxInv, TypeOK
<1>n. relay[w].seen[e] \in Nat
  BY <1>t, ZenonT(60) DEF Batch
<1>0. ASSUME relay'[w].pc = relay[w].pc, relay'[w].left = relay[w].left,
             relay'[w].seen = relay[w].seen, relay'[w].count = relay[w].count
      PROVE  relay'[w].count >= relay'[w].seen[e]
  BY <1>0, ZenonT(60) DEF CountsUp, Current
<1>1. CASE relay'[w] = relay[w]
  BY <1>0, <1>1, ZenonT(60)
<1>2. CASE RelayPending(w) \/ ClaimBatch(w) \/ Crash(w)
  <2>1. relay'[w].pc \in {"idle", "claim", "publish"}
    <3> DEFINE seen2 == [d \in Event |-> IF d \in batch THEN row[d].retryCount ELSE 0]
    <3>1. \/ relay' = [relay EXCEPT ![w] = Idle]
          \/ relay' = [relay EXCEPT ![w] = [Idle EXCEPT !.pc = "claim", !.lease = leaseDeadline]]
          \/ relay' = [relay EXCEPT ![w] = [relay[w] EXCEPT !.pc = "publish", !.left = batch, !.seen = seen2]]
      BY <1>2, ZenonT(60) DEF RelayPending, ClaimBatch, Crash
    <3> HIDE DEF seen2
    <3>2. /\ Idle.pc = "idle" /\ [Idle EXCEPT !.pc = "claim", !.lease = leaseDeadline].pc = "claim"
          /\ [relay[w] EXCEPT !.pc = "publish", !.left = batch, !.seen = seen2].pc = "publish"
      BY <1>t, ZenonT(60) DEF Idle, Batch
    <3> QED
      BY <1>t, <3>1, <3>2, ZenonT(60)
  <2> QED
    BY <2>1, ZenonT(60)
<1>3. ASSUME NEW d \in Event, MarkCompleted(w, d) \/ MarkFailed(w, d)
      PROVE  relay'[w].count >= relay'[w].seen[e]
  <2>1. relay'[w].pc \in {"idle", "publish"}
    <3>1. relay'[w] = After(w, d)
      BY <1>3, <1>t, ZenonT(60) DEF MarkCompleted, MarkFailed
    <3>2. Idle.pc = "idle" /\ [relay[w] EXCEPT !.pc = "publish", !.left = @ \ {d}].pc = "publish"
      BY <1>t, ZenonT(60) DEF Idle, Batch
    <3> QED
      BY <3>1, <3>2, ZenonT(60) DEF After
  <2> QED
    BY <2>1, ZenonT(60)
<1>4. ASSUME NEW d \in Event, dispatchOne(w, d) \/ forwardDLQ(w, d)
      PROVE  relay'[w].count >= relay'[w].seen[e]
  <2> DEFINE went(p) == [relay[w] EXCEPT !.pc = p]
             kept == [relay[w] EXCEPT !.pc = "fail", !.count = relay[w].seen[d]]
             counted == [relay[w] EXCEPT !.pc = IF exhausted(w, d) THEN "dlq" ELSE "fail",
                                         !.count = relay[w].seen[d] + 1,
                                         !.after = backoffFor(relay[w].seen[d] + 1)]
  <2>a. \/ relay'[w] = went("complete")
        \/ relay'[w] = went("fail") /\ relay[w].pc = "dlq"
        \/ relay'[w] = kept \/ relay'[w] = counted
    BY <1>4, <1>t, ZenonT(60) DEF dispatchOne, forwardDLQ
  <2>b. \A p \in {"complete", "fail"} : /\ went(p).pc = p /\ went(p).count = relay[w].count
                                        /\ went(p).left = relay[w].left /\ went(p).seen = relay[w].seen
    BY <1>t, ZenonT(60) DEF Batch
  <2>c. kept.left = relay[w].left /\ kept.seen = relay[w].seen /\ kept.count = relay[w].seen[d]
    BY <1>t, ZenonT(60) DEF Batch
  <2>d. counted.left = relay[w].left /\ counted.seen = relay[w].seen /\ counted.count = relay[w].seen[d] + 1
    BY <1>t, ZenonT(60) DEF Batch
  <2> HIDE DEF went, kept, counted
  <2>1. relay'[w].left = relay[w].left /\ relay'[w].seen = relay[w].seen /\ Current(w, d)
    BY <1>4, <2>a, <2>b, <2>c, <2>d, ZenonT(60) DEF dispatchOne, forwardDLQ
  <2>2. d = e
    BY <2>1, OutboxAssumption, SMTT(30) DEF Current
  <2>3. \/ relay'[w].pc = "complete"
        \/ relay'[w].count = relay[w].seen[e] + 1
        \/ relay'[w].count = relay[w].seen[e]
        \/ relay'[w].count = relay[w].count /\ relay[w].pc = "dlq"
    BY <2>2, <2>a, <2>b, <2>c, <2>d, ZenonT(60)
  <2>4. relay[w].pc = "dlq" => relay[w].count >= relay[w].seen[e]
    BY <2>1, <2>2, ZenonT(60) DEF CountsUp
  <2> QED
    BY <1>n, <2>1, <2>3, <2>4, SMTT(30)
<1>5. CASE Tick
  <2>1. relay'[w] = [relay[w] EXCEPT !.lease = Sooner(@), !.after = Sooner(@)]
    BY <1>5, ZenonT(60) DEF Tick
  <2>2. /\ relay'[w].pc = relay[w].pc /\ relay'[w].left = relay[w].left
        /\ relay'[w].seen = relay[w].seen /\ relay'[w].count = relay[w].count
    BY <1>t, <2>1, ZenonT(60) DEF Batch
  <2> QED
    BY <1>0, <2>2, ZenonT(60)
<1>6. ASSUME NEW v \in Worker, v # w, Step(v) \/ Crash(v)
      PROVE  relay'[w] = relay[w]
  BY <1>6, <1>t, ZenonT(60)
     DEF Step, Crash, RelayPending, ClaimBatch, dispatchOne, forwardDLQ, MarkCompleted, MarkFailed
<1>7. CASE Cleanup \/ UNCHANGED vars \/ \E d \in Event : Publish(d)
  BY <1>1, <1>7, ZenonT(60) DEF Cleanup, Publish, vars
<1>8. ASSUME NEW v \in Worker, Step(v) \/ Crash(v) PROVE relay'[w].count >= relay'[w].seen[e]
  BY <1>1, <1>2, <1>3, <1>4, <1>6, <1>8, ZenonT(60) DEF Step
<1> QED
  BY <1>5, <1>7, <1>8, ZenonT(60) DEF Next, Work

\* The lease invariant.
LEMMA StepKeepsLease == OutboxInv /\ LeaseInv /\ [LeaseNext]_<<vars, late>> => LeaseInv'
<1> SUFFICES ASSUME OutboxInv, LeaseInv, [LeaseNext]_<<vars, late>> PROVE LeaseInv'
  BY ZenonT(60)
<1>1. [Next]_vars
  BY ZenonT(60) DEF LeaseNext
<1>2. \A w \in Worker, e \in Event : CountsUp(w, e)'
  BY <1>1, StepCountsUp, ZenonT(60) DEF LeaseInv
<1>3. late' \/ (~ Overdue' /\ Exclusive')
  <2>1. CASE LeaseNext
    BY <2>1, StepExcludes, ZenonT(60) DEF LeaseInv, LeaseNext, Exclusive
  <2>2. CASE UNCHANGED <<vars, late>>
    BY <2>2, ZenonT(60) DEF LeaseInv, vars, Exclusive, Overdue, OneDispatcher, LeaseHeld
  <2> QED
    BY <2>1, <2>2, ZenonT(60)
<1> QED
  BY <1>2, <1>3, ZenonT(60) DEF LeaseInv, Exclusive

\* No counter goes back in a step that leaves nobody late.
LEMMA StepKeepsRetries ==
    ASSUME OutboxInv, LeaseInv, [LeaseNext]_<<vars, late>>, ~ late', NEW e \in Event,
           row[e] # None, row'[e] # None
    PROVE  row'[e].retryCount >= row[e].retryCount
<1>t. row \in [Event -> Record \cup {None}] /\ row[e] \in Record /\ row[e].retryCount \in Nat
  BY ZenonT(60) DEF OutboxInv, TypeOK, Record
<1>e. Exclusive
  <2>1. CASE LeaseNext
    BY <2>1, ZenonT(60) DEF LeaseInv, LeaseNext, Exclusive
  <2>2. CASE UNCHANGED <<vars, late>>
    BY <2>2, ZenonT(60) DEF LeaseInv, Exclusive
  <2> QED
    BY <2>1, <2>2, ZenonT(60)
<1>0. ASSUME row'[e].retryCount = row[e].retryCount PROVE row'[e].retryCount >= row[e].retryCount
  BY <1>0, <1>t
<1>1. CASE UNCHANGED row
  BY <1>0, <1>1, ZenonT(60)
<1>2. CASE \E d \in Event : Publish(d)
  BY <1>0, <1>2, <1>t, ZenonT(60) DEF Publish, OutboxInv, RowOK
<1>3. CASE Cleanup
  BY <1>0, <1>3, ZenonT(60) DEF Cleanup
<1>4. CASE Tick
  <2>1. row'[e] = [row[e] EXCEPT !.retryAfter = Sooner(@), !.age = Older(@)]
    BY <1>4, ZenonT(60) DEF Tick
  <2> QED
    BY <1>0, <1>t, <2>1, ZenonT(60) DEF Record
<1>5. ASSUME NEW w \in Worker, ClaimBatch(w) PROVE row'[e].retryCount >= row[e].retryCount
  <2>1. row'[e] = row[e] \/ row'[e] = leased(row[e], relay[w].lease)
    BY <1>5, ZenonT(60) DEF ClaimBatch
  <2>2. leased(row[e], relay[w].lease).retryCount = row[e].retryCount
    BY <1>t, ZenonT(60) DEF leased, Record
  <2> QED
    BY <1>0, <2>1, <2>2, ZenonT(60)
<1>6. ASSUME NEW w \in Worker, NEW d \in Event, MarkCompleted(w, d)
      PROVE  row'[e].retryCount >= row[e].retryCount
  <2>1. row'[e] = row[e] \/ row'[e] = completedRecord(e)
    BY <1>6, <1>t, ZenonT(60) DEF MarkCompleted, marked
  <2>2. completedRecord(e).retryCount = row[e].retryCount
    BY ZenonT(60) DEF completedRecord
  <2> QED
    BY <1>0, <2>1, <2>2, ZenonT(60)
<1>7. ASSUME NEW w \in Worker, NEW d \in Event, MarkFailed(w, d)
      PROVE  row'[e].retryCount >= row[e].retryCount
  <2>1. row'[e] = row[e] \/ (d = e /\ row'[e] = failedRecord(e, relay[w].count, relay[w].after))
    BY <1>7, <1>t, ZenonT(60) DEF MarkFailed, marked
  <2>2. CASE d = e /\ row'[e] = failedRecord(e, relay[w].count, relay[w].after)
    <3>1. row'[e].retryCount = relay[w].count
      BY <2>2 DEF failedRecord
    <3>2. relay[w].count >= relay[w].seen[e] /\ e \in relay[w].left
      BY <1>7, <2>2, ZenonT(60) DEF MarkFailed, LeaseInv, CountsUp, Current
    <3>3. row[e].retryCount = relay[w].seen[e]
      BY <1>e, <3>2, ZenonT(60) DEF Exclusive, LeaseHeld
    <3> QED
      BY <3>1, <3>2, <3>3, ZenonT(60)
  <2> QED
    BY <1>0, <2>1, <2>2, ZenonT(60)
<1>8. ASSUME NEW w \in Worker, Step(w) \/ Crash(w) PROVE row'[e].retryCount >= row[e].retryCount
  <2>1. CASE RelayPending(w) \/ Crash(w) \/ \E d \in Event : dispatchOne(w, d) \/ forwardDLQ(w, d)
    BY <1>1, <2>1, ZenonT(60) DEF RelayPending, Crash, dispatchOne, forwardDLQ
  <2> QED
    BY <1>5, <1>6, <1>7, <1>8, <2>1, ZenonT(60) DEF Step
<1> QED
  BY <1>1, <1>2, <1>3, <1>4, <1>8, ZenonT(60) DEF LeaseNext, Next, Work, vars

(***************************************************************************)
(* Theorems.                                                               *)
(***************************************************************************)

\* Whatever the relays, the faults and the configuration: the rows, the batches
\* in the relays' memory and the histories stay consistent.
THEOREM OutboxCorrect == Spec => []OutboxInv
BY InitialOutbox, StepKeepsOutbox, PTL DEF Spec

\* A completed or cleaned-up row reached the sink, a dead one the dead-letter
\* topic.
THEOREM NoEventLost == Spec => []NothingLost
<1>1. OutboxInv => NothingLost
  BY ZenonT(60) DEF OutboxInv
<1> QED
  BY <1>1, OutboxCorrect, PTL

\* Every other row is within the reach of the poll.
THEOREM NeverStranded == Spec => []NotStranded
<1>1. OutboxInv => NotStranded
  BY ZenonT(60) DEF OutboxInv
<1> QED
  BY <1>1, OutboxCorrect, PTL

\* No event is dead-lettered before the sink refused it MaxRetries times.
THEOREM BudgetIsHonoured == Spec => []BudgetHonoured
<1>1. OutboxInv => BudgetHonoured
  BY ZenonT(60) DEF OutboxInv
<1> QED
  BY <1>1, OutboxCorrect, PTL

\* The outbox implements Forwarding: an accepted event is retired once, for
\* good, and only after it reached the sink or the dead-letter topic.
THEOREM OutboxForwards == Spec => Forwards
<1>1. Init => Forward!FInit
  BY ZenonT(60) DEF Init, Forward!FInit, Retired
<1> QED
  BY <1>1, StepForwards, OutboxCorrect, PTL DEF Spec, Forwards, Forward!FSpec

\* The lease invariant holds throughout.
THEOREM LeaseCorrect == LeaseSpec => []OutboxInv /\ []LeaseInv
<1>1. LeaseInit => Init /\ LeaseInv
  <2> SUFFICES ASSUME LeaseInit PROVE LeaseInv
    BY ZenonT(60) DEF LeaseInit
  <2>1. \A w \in Worker : relay[w].pc = "idle" /\ relay[w].left = {}
    BY ZenonT(60) DEF LeaseInit, Init, Idle
  <2> QED
    BY <2>1, ZenonT(60) DEF LeaseInv, CountsUp, Current, Overdue, OneDispatcher, LeaseHeld
<1>2. [LeaseNext]_<<vars, late>> => [Next]_vars
  BY ZenonT(60) DEF LeaseNext
<1> QED
  BY <1>1, <1>2, InitialOutbox, StepKeepsOutbox, StepKeepsLease, PTL DEF LeaseSpec

\* What the lease is for: as long as every batch is finished within its lease,
\* no record is in the hands of two relay invocations.
THEOREM LeaseIsExclusive == LeaseSpec => []LeaseExcludes
<1>1. LeaseInv => LeaseExcludes
  BY ZenonT(60) DEF LeaseInv, LeaseExcludes
<1> QED
  BY <1>1, LeaseCorrect, PTL

\* And no mark is stale: retry counters never go back.
THEOREM RetriesAreKept == LeaseSpec => RetriesKept
<1>1. OutboxInv /\ LeaseInv /\ [LeaseNext]_<<vars, late>> =>
        [late' \/ \A e \in Event : row[e] # None /\ row'[e] # None =>
            row'[e].retryCount >= row[e].retryCount]_vars
  BY StepKeepsRetries, ZenonT(60)
<1> QED
  BY <1>1, LeaseCorrect, PTL DEF LeaseSpec, RetriesKept
=============================================================================
