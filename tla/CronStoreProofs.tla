-------------------------- MODULE CronStoreProofs ---------------------------
(***************************************************************************)
(* A node never holds more fires than it has slots, the last fire of a     *)
(* schedule is in its journal, no interrupted run is lost (RecoveryInv),   *)
(* and a cursor is an occurrence of its trigger, for any nodes, schedules, *)
(* specifications, limits and clocks.                                      *)
(***************************************************************************)
EXTENDS CronJournalProofs

(***************************************************************************)
(* Executor slots.                                                         *)
(***************************************************************************)

\* The fires a claim starts.
Begun(W, active, t, limit) == {i \in Reached(W, active, t, limit) : Starts(i, W, active, t)}

\* The loop stops at the limit: a claim starts at most that many fires.
LEMMA FewStart ==
    ASSUME NEW b, NEW W, NEW active, NEW limit \in Nat, NEW t, Parts(b, W, active, limit, t)
    PROVE  /\ IsFiniteSet(Begun(W, active, t, limit))
           /\ Cardinality(Begun(W, active, t, limit)) <= limit
  <1> DEFINE A == Begun(W, active, t, limit)
             Earlier(i) == {j \in W : Before(j, i) /\ Starts(j, W, active, t)}
  <1>1. b.locked \in SUBSET Sched /\ WorkOK(W, b.locked) /\ IsFiniteSet(W) /\ Distinct(W)
    BY ZenonT(60) DEF Parts
  <1>2. A \in SUBSET W /\ \A i \in A : Starts(i, W, active, t) /\ Cardinality(Earlier(i)) < limit
    BY ZenonT(60) DEF Begun, Reached
  <1> HIDE DEF A
  <1>3. IsFiniteSet(A) /\ Cardinality(A) \in Nat
    BY <1>1, <1>2, FS_Subset, FS_CardinalityType, ZenonT(60)
  <1>4. CASE A = {}
    BY <1>3, <1>4, FS_EmptySet, SMTT(30) DEF A
  <1>5. CASE A # {}
    <2>1. PICK i \in A : \A j \in A : ~Before(i, j)
      BY <1>1, <1>2, <1>3, <1>5, LastItem, ZenonT(60)
    <2>2. A \ {i} \subseteq Earlier(i)
      BY <1>1, <1>2, <2>1, ItemsOrdered, ZenonT(60)
    <2>3. IsFiniteSet(Earlier(i)) /\ Cardinality(Earlier(i)) \in Nat /\ Cardinality(Earlier(i)) < limit
      BY <1>1, <1>2, <2>1, FS_Subset, FS_CardinalityType, ZenonT(60)
    <2> HIDE DEF Earlier
    <2>4. Cardinality(A \ {i}) <= Cardinality(Earlier(i))
      BY <2>2, <2>3, FS_Subset, ZenonT(60)
    <2>5. Cardinality(A \ {i}) = Cardinality(A) - 1
      BY <1>3, <2>1, FS_RemoveElement, ZenonT(60)
    <2>6. Cardinality(A) <= limit
      BY <1>3, <2>3, <2>4, <2>5, SMTT(30)
    <2> QED  BY <1>3, <2>6, ZenonT(60) DEF A
  <1> QED
    BY <1>4, <1>5, ZenonT(60)

\* The fire of an item that was started.
BegunRow(x, W, active, limit, t) ==
    \E i \in Begun(W, active, t, limit) :
        x = FireOf(i, W, active, t) /\ i \in W /\ ~PassedOver(i, W, active, t)

\* A row the claim leaves running is the fire of an item it started.
LEMMA RunningRow ==
    ASSUME NEW b, NEW W, NEW active, NEW limit, NEW t, Parts(b, W, active, limit, t),
           NEW x \in b.rows, x[3].status = "running"
    PROVE  BegunRow(x, W, active, limit, t)
  <1>1. FormOK(b, W, active, limit, t)
    BY RowForms, ZenonT(60)
  <1>2. PICK i \in Reached(W, active, t, limit) :
          \/ x = FireOf(i, W, active, t) /\ Fires(i, t) /\ ~PassedOver(i, W, active, t)
          \/ x = MissedOf(i, t) /\ i.request = None
    BY <1>1, ZenonT(60) DEF FormOK
  <1>3. x # MissedOf(i, t)
    <2>1. MissedOf(i, t)[3].status = "missed"
      BY ZenonT(60) DEF MissedOf, missedRow, NoRun
    <2> QED  BY <2>1
  <1>4. ~suppressed(i, W, active, t)
    <2>1. suppressed(i, W, active, t) => FireOf(i, W, active, t)[3].status = "skipped"
      BY ZenonT(60) DEF FireOf, newRunRow, NoRun
    <2> QED  BY <1>2, <1>3, <2>1
  <1> QED
    BY <1>1, <1>2, <1>3, <1>4, ZenonT(60) DEF BegunRow, Begun, Starts, FormOK

\* tick's limit, when there is one, fits into the free slots.
LEMMA ClaimLimit ==
    ASSUME NEW n \in Node, Cardinality(Holds(n)) \in Nat, claimLimit(n) > 0
    PROVE  /\ claimLimit(n) \in Nat
           /\ Cardinality(Holds(n)) + claimLimit(n) <= MaxConcurrent
  <1> DEFINE free == MaxConcurrent - Cardinality(Holds(n))
             S == {BatchSize, free}
  <1>1. BatchSize \in Int /\ free \in Int
    BY StoreAssumption
  <1>2. \E x \in S : \A y \in S : x <= y
    <2>1. CASE BatchSize <= free
      BY <1>1, <2>1
    <2>2. CASE free <= BatchSize
      BY <1>1, <2>2
    <2> QED  BY <1>1, <2>1, <2>2
  <1>3. claimLimit(n) \in S /\ claimLimit(n) <= free
    <2>1. claimLimit(n) = CHOOSE x \in S : \A y \in S : x <= y
      BY ZenonT(60) DEF claimLimit, Min
    <2> HIDE DEF free
    <2> QED  BY <1>2, <2>1, ZenonT(60)
  <1>4. claimLimit(n) \in Nat
    BY <1>1, <1>3
  <1> QED
    BY <1>1, <1>3, <1>4, StoreAssumption

\* A node's fires are finitely many.
LEMMA FiniteHolds ==
    ASSUME NEW n \in Node
    PROVE  IsFiniteSet(Holds(n)) /\ Cardinality(Holds(n)) \in Nat
  <1>1. IsFiniteSet(RunId)
    <2>1. 1 \in Int /\ MaxRun \in Int
      BY StoreAssumption
    <2> QED  BY <2>1, FS_Interval, ZenonT(60) DEF RunId
  <1> QED
    BY <1>1, FS_Subset, FS_CardinalityType, ZenonT(60) DEF Holds

\* A claim fills free slots of its own node only.
LEMMA ClaimSlots ==
    ASSUME JournalInv, SlotsBounded, NEW n \in Node, NEW free \in SUBSET Sched,
           NEW reported \in BOOLEAN, Claim(n, free, reported), NEW m \in Node
    PROVE  Cardinality(Holds(m)') <= MaxConcurrent
  <1>1. PICK b, id, W, active : Lands(b, id, n, W, active)
    BY ClaimLands, ZenonT(60)
  <1> DEFINE A == Begun(W, active, clock(n), claimLimit(n))
             h == [i \in A |-> id[FireOf(i, W, active, clock(n))]]
             new == {h[i] : i \in A}
  <1>2. Parts(b, W, active, claimLimit(n), clock(n))
    BY <1>1, ZenonT(60) DEF Lands
  <1>3. \A r \in RunId : fire'[r] = fire[r] \/ (fire'[r].node = n /\ r \in new)
    <2>1. TAKE r \in RunId
    <2>2. CASE fire'[r] = fire[r]
      BY <2>2, ZenonT(60)
    <2>3. CASE \E x \in b.rows : /\ id[x] = r /\ x[3].status = "running"
                                 /\ fire'[r] = Claimed(n, schedule[run'[r].sched].recover)
      <3>1. PICK x \in b.rows : /\ id[x] = r /\ x[3].status = "running"
                                /\ fire'[r] = Claimed(n, schedule[run'[r].sched].recover)
        BY <2>3, ZenonT(60)
      <3>2. PICK i \in A : /\ x = FireOf(i, W, active, clock(n)) /\ i \in W
                           /\ ~PassedOver(i, W, active, clock(n))
        <4>1. BegunRow(x, W, active, claimLimit(n), clock(n))
          BY <1>2, <3>1, RunningRow, ZenonT(60)
        <4> QED  BY <4>1, ZenonT(60) DEF BegunRow
      <3>3. r \in new
        <4>1. r = h[i]
          BY <3>1, <3>2, ZenonT(60)
        <4> HIDE DEF A, h
        <4> QED  BY <3>2, <4>1, ZenonT(60)
      <3>4. fire'[r].node = n
        BY <3>1, ZenonT(60) DEF Claimed, Idle
      <3> QED  BY <3>3, <3>4, ZenonT(60)
    <2> QED  BY <1>1, <2>2, <2>3, ZenonT(60) DEF Lands
  <1> HIDE DEF new
  <1>4. IsFiniteSet(Holds(m)) /\ Cardinality(Holds(m)) \in Nat /\ Cardinality(Holds(m)) <= MaxConcurrent
    BY FiniteHolds, ZenonT(60) DEF SlotsBounded
  <1>5. CASE m # n
    <2>1. Holds(m)' \subseteq Holds(m)
      BY <1>3, <1>5, ZenonT(60) DEF Holds
    <2>2. Cardinality(Holds(m)') <= Cardinality(Holds(m)) /\ IsFiniteSet(Holds(m)')
      BY <1>4, <2>1, FS_Subset, ZenonT(60)
    <2>3. Cardinality(Holds(m)') \in Nat
      BY <2>2, FS_CardinalityType, ZenonT(60)
    <2> QED  BY <1>4, <2>2, <2>3, StoreAssumption, SMTT(30)
  <1>6. CASE m = n
    <2>1. Holds(m)' \subseteq Holds(m) \cup new
      BY <1>3, ZenonT(60) DEF Holds
    <2>2. /\ claimLimit(n) \in Nat
          /\ Cardinality(Holds(m)) + claimLimit(n) <= MaxConcurrent
      <3>1. claimLimit(n) > 0
        BY ZenonT(60) DEF Claim
      <3> QED  BY <1>4, <1>6, <3>1, ClaimLimit, ZenonT(60)
    <2>3. IsFiniteSet(A) /\ Cardinality(A) <= claimLimit(n)
      BY <1>2, <2>2, FewStart, ZenonT(60)
    <2> HIDE DEF A, h
    <2>4. IsFiniteSet(new) /\ Cardinality(new) <= Cardinality(A)
      BY <2>3, FiniteImage, ZenonT(60) DEF new
    <2>5. IsFiniteSet(Holds(m) \cup new)
          /\ Cardinality(Holds(m) \cup new)
                = Cardinality(Holds(m)) + Cardinality(new) - Cardinality(Holds(m) \cap new)
      BY <1>4, <2>4, FS_Union, ZenonT(60)
    <2>6. Cardinality(Holds(m)') <= Cardinality(Holds(m) \cup new) /\ IsFiniteSet(Holds(m)')
      BY <2>1, <2>5, FS_Subset, ZenonT(60)
    <2>7. IsFiniteSet(Holds(m) \cap new)
      BY <1>4, FS_Subset, ZenonT(60)
    <2>8. /\ Cardinality(A) \in Nat /\ Cardinality(new) \in Nat
          /\ Cardinality(Holds(m) \cap new) \in Nat /\ Cardinality(Holds(m)') \in Nat
      BY <2>3, <2>4, <2>6, <2>7, FS_CardinalityType, ZenonT(60)
    <2> QED  BY <1>4, <2>2, <2>3, <2>4, <2>5, <2>6, <2>8, StoreAssumption, SMTT(30)
  <1> QED
    BY <1>5, <1>6, ZenonT(60)

\* Every step keeps the slots bounded.
LEMMA StepKeepsSlots == JournalInv /\ SlotsBounded /\ [Next]_vars => SlotsBounded'
  <1> SUFFICES ASSUME JournalInv, SlotsBounded, [Next]_vars, NEW m \in Node
               PROVE  Cardinality(Holds(m)') <= MaxConcurrent
    BY ZenonT(60) DEF SlotsBounded
  <1>1. CASE \E n \in Node, free \in SUBSET Sched, reported \in BOOLEAN : Claim(n, free, reported)
    BY <1>1, ClaimSlots, ZenonT(60)
  <1>2. CASE ~\E n \in Node, free \in SUBSET Sched, reported \in BOOLEAN : Claim(n, free, reported)
    <2>1. ASSUME NEW r \in RunId, fire'[r].node = m PROVE fire[r].node = m
      <3>1. m # Idle.node
        BY StoreAssumption, ZenonT(60) DEF Idle
      <3> QED  BY <1>2, <2>1, <3>1, OtherFires, ZenonT(60)
    <2>2. Holds(m)' \subseteq Holds(m)
      BY <2>1, ZenonT(60) DEF Holds
    <2>3. IsFiniteSet(Holds(m)) /\ Cardinality(Holds(m)) \in Nat /\ Cardinality(Holds(m)) <= MaxConcurrent
      BY FiniteHolds, ZenonT(60) DEF SlotsBounded
    <2>4. Cardinality(Holds(m)') <= Cardinality(Holds(m)) /\ IsFiniteSet(Holds(m)')
      BY <2>2, <2>3, FS_Subset, ZenonT(60)
    <2>5. Cardinality(Holds(m)') \in Nat
      BY <2>4, FS_CardinalityType, ZenonT(60)
    <2> QED  BY <2>3, <2>4, <2>5, StoreAssumption, SMTT(30)
  <1> QED
    BY <1>1, <1>2, ZenonT(60)

\* A node never holds more fires than it has executor slots, for any batch size
\* and any number of due schedules and requests (tick, claimDueBatch).
THEOREM SlotsAreBounded == Spec => []SlotsBounded
  <1>1. Init => SlotsBounded
    <2> SUFFICES ASSUME Init, NEW n \in Node PROVE Cardinality(Holds(n)) <= MaxConcurrent
      BY ZenonT(60) DEF SlotsBounded
    <2>1. Holds(n) = {}
      BY StoreAssumption, ZenonT(60) DEF Init, Holds, Idle
    <2> QED  BY <2>1, FS_EmptySet, StoreAssumption, SMTT(30)
  <1> QED
    BY <1>1, StepKeepsSlots, JournalCorrect, PTL DEF Spec

-----------------------------------------------------------------------------
(***************************************************************************)
(* The last fire of a schedule.                                            *)
(***************************************************************************)

\* An item that fired has its row in the journal, on an id that was unused.
LEMMA FireLands ==
    ASSUME NEW n \in Node, NEW b, NEW id, NEW W, NEW active, Lands(b, id, n, W, active),
           NEW i \in Reached(W, active, clock(n), claimLimit(n)),
           Fires(i, clock(n)), ~PassedOver(i, W, active, clock(n))
    PROVE  \E r \in RunId : /\ run[r].status = "none"
                            /\ FiredRow(run'[r], i, suppressed(i, W, active, clock(n)), clock(n))
  <1> DEFINE x == FireOf(i, W, active, clock(n))
  <1>1. Parts(b, W, active, claimLimit(n), clock(n))
    BY ZenonT(60) DEF Lands
  <1>2. FormOK(b, W, active, claimLimit(n), clock(n))
    BY <1>1, RowForms, ZenonT(60)
  <1>3. x \in b.rows
    BY <1>2, ZenonT(60) DEF FormOK
  <1>4. FiredRow(x[3], i, suppressed(i, W, active, clock(n)), clock(n))
    BY FireRow, ZenonT(60)
  <1> HIDE DEF x
  <1>5. id[x] \in RunId /\ run[id[x]].status = "none" /\ run'[id[x]] = x[3]
    BY <1>3, ZenonT(60) DEF Lands
  <1> QED
    BY <1>4, <1>5, ZenonT(60)

\* A row in the journal that LastFireJournaled accepts.
Journaled(journal, s, at) ==
    \E r \in RunId : \/ journal[r].status = "pruned"
                     \/ /\ journal[r].sched = s
                        /\ journal[r].at = at
                        /\ journal[r].status \notin {"none", "missed"}

\* A journaled fire stays journaled until it is pruned.
LEMMA JournaledStays ==
    ASSUME JournalInv, [Next]_vars, NEW s, NEW at, Journaled(run, s, at)
    PROVE  Journaled(run', s, at)
  <1>1. PICK r \in RunId : \/ run[r].status = "pruned"
                           \/ /\ run[r].sched = s /\ run[r].at = at
                              /\ run[r].status \notin {"none", "missed"}
    BY ZenonT(60) DEF Journaled
  <1>2. Continues(r)
    BY <1>1, RowsContinue, ZenonT(60)
  <1>3. [NoRun EXCEPT !.status = "pruned"].status = "pruned"
    BY ZenonT(60) DEF NoRun
  <1>4. \/ run'[r].status = "pruned"
        \/ /\ run'[r].sched = s /\ run'[r].at = at
           /\ run'[r].status \notin {"none", "missed"}
    BY <1>1, <1>2, <1>3, ZenonT(60) DEF Continues, SameOrigin, Ended
  <1> QED
    BY <1>4, ZenonT(60) DEF Journaled

\* A claim journals the fire it records as the last one.
LEMMA ClaimJournalsLast ==
    ASSUME JournalInv, [Next]_vars, LastFireJournaled, NEW s \in Sched,
           NEW n \in Node, NEW free \in SUBSET Sched, NEW reported \in BOOLEAN,
           Claim(n, free, reported), schedule'[s] # None, schedule'[s].last # None
    PROVE  Journaled(run', s, schedule'[s].last)
  <1>1. PICK b, id, W, active : /\ BatchOK(b) /\ Lands(b, id, n, W, active)
                                /\ schedule' = b.schedule
    BY ClaimLands, ZenonT(60)
  <1>2. Parts(b, W, active, claimLimit(n), clock(n))
    BY <1>1, ZenonT(60) DEF Lands
  <1> DEFINE last == schedule'[s].last
  <1>3. CASE schedule[s] # None /\ last = schedule[s].last
    <2>1. Journaled(run, s, schedule[s].last)
      BY <1>3, ZenonT(60) DEF LastFireJournaled, Journaled
    <2>2. Journaled(run', s, schedule[s].last)
      BY <2>1, JournaledStays, ZenonT(60)
    <2> QED  BY <1>3, <2>2, ZenonT(60)
  <1>4. CASE s \notin b.locked
    <2>1. schedule'[s] = schedule[s]
      BY <1>1, <1>2, <1>4, ZenonT(60) DEF Parts
    <2> QED  BY <1>3, <2>1, ZenonT(60)
  <1>5. CASE s \in b.locked
    <2>1. AdvanceOK(s, schedule'[s], Reached(W, active, clock(n), claimLimit(n)), W, active, clock(n))
      BY <1>1, <1>2, <1>5, ClaimedSchedules, ZenonT(60)
    <2>2. schedule[s] # None
      BY <1>1, <1>5, NoneAssumption, ZenonT(60) DEF BatchOK
    <2>3. CASE last = schedule[s].last
      BY <1>3, <2>2, <2>3, ZenonT(60)
    <2>4. CASE last # schedule[s].last
      <3>1. PICK i \in Reached(W, active, clock(n), claimLimit(n)) :
               i.sched = s /\ i.at = last /\ Fires(i, clock(n)) /\ ~PassedOver(i, W, active, clock(n))
        BY <2>1, <2>4, ZenonT(60) DEF AdvanceOK, LastOK
      <3>2. PICK r \in RunId : FiredRow(run'[r], i, suppressed(i, W, active, clock(n)), clock(n))
        BY <1>1, <3>1, FireLands, ZenonT(60)
      <3>3. /\ run'[r].sched = s /\ run'[r].at = last
            /\ run'[r].status = "skipped" \/ run'[r].status = "running"
        BY <3>1, <3>2, ZenonT(60) DEF FiredRow
      <3> QED  BY <3>3, ZenonT(60) DEF Journaled
    <2> QED  BY <2>3, <2>4, ZenonT(60)
  <1> QED
    BY <1>4, <1>5, ZenonT(60)

\* Every step keeps the last fires journaled.
LEMMA StepKeepsLast == JournalInv /\ LastFireJournaled /\ [Next]_vars => LastFireJournaled'
  <1> SUFFICES ASSUME JournalInv, LastFireJournaled, [Next]_vars, NEW s \in Sched,
                      schedule'[s] # None, schedule'[s].last # None
               PROVE  Journaled(run', s, schedule'[s].last)
    BY ZenonT(60) DEF LastFireJournaled, Journaled
  <1>1. CASE \E n \in Node, free \in SUBSET Sched, reported \in BOOLEAN : Claim(n, free, reported)
    BY <1>1, ClaimJournalsLast, ZenonT(60)
  <1>2. CASE ~\E n \in Node, free \in SUBSET Sched, reported \in BOOLEAN : Claim(n, free, reported)
    <2>1. schedule[s] # None /\ schedule'[s].last = schedule[s].last
      <3>1. CASE Manager
        <4>1. PICK n \in Node, u \in Sched : Makes(n, u)
          BY <3>1, ManagerMakes, ZenonT(60)
        <4>2. CASE u # s
          BY <4>1, <4>2, ZenonT(60) DEF Makes
        <4>3. CASE u = s
          BY <4>1, <4>3, ZenonT(60) DEF Makes
        <4> QED  BY <4>2, <4>3, ZenonT(60)
      <3>2. CASE ~Manager
        BY <1>2, <3>2, QuietSteps, ZenonT(60)
      <3> QED  BY <3>1, <3>2, ZenonT(60)
    <2>2. Journaled(run, s, schedule[s].last)
      BY <2>1, ZenonT(60) DEF LastFireJournaled, Journaled
    <2>3. Journaled(run', s, schedule[s].last)
      BY <2>2, JournaledStays, ZenonT(60)
    <2> QED  BY <2>1, <2>3, ZenonT(60)
  <1> QED
    BY <1>1, <1>2, ZenonT(60)

\* The last fire of a schedule is the logical time of a run in the journal,
\* executed or suppressed and never a missed one, whatever claims, requests and
\* edits happened since (advance, recordRequestedFire).
THEOREM LastFireIsJournaled == Spec => []LastFireJournaled
  <1>1. Init => LastFireJournaled
    BY ZenonT(60) DEF Init, LastFireJournaled
  <1> QED
    BY <1>1, StepKeepsLast, JournalCorrect, PTL DEF Spec

-----------------------------------------------------------------------------
(***************************************************************************)
(* No recovery is lost.                                                    *)
(***************************************************************************)

\* The recovery of r is pending, started, or forgotten with a pruned row.
Kept(r, queue, journal) ==
    \/ \E q \in queue : q.source = r
    \/ \E p \in RunId : journal[p].source = r /\ journal[p].status # "skipped"
    \/ \E p \in RunId : journal[p].status = "pruned"

\* A claim takes a recovery off the queue only to start it.
LEMMA ClaimServes ==
    ASSUME JournalInv, NEW n \in Node, NEW b, NEW id, NEW W, NEW active,
           BatchOK(b), Lands(b, id, n, W, active),
           request' = (request \cup b.queued) \ b.consumed,
           NEW q \in request \cup b.queued, q.kind = "recovery"
    PROVE  Kept(q.source, request', run')
  <1> DEFINE t == clock(n)
  <1>1. CASE q \notin b.consumed
    BY <1>1, ZenonT(60) DEF Kept
  <1>2. CASE q \in b.consumed
    <2>1. Parts(b, W, active, claimLimit(n), t)
      BY ZenonT(60) DEF Lands
    <2>2. PICK i \in Reached(W, active, t, claimLimit(n)) :
             i.request # None /\ ~PassedOver(i, W, active, t) /\ i.request = q
      BY <1>2, <2>1, ZenonT(60) DEF Parts
    <2>3. Fires(i, t) /\ ~suppressed(i, W, active, t)
      BY <2>2, ZenonT(60) DEF Fires, PassedOver
    <2>4. PICK r \in RunId : FiredRow(run'[r], i, suppressed(i, W, active, t), t)
      BY <2>2, <2>3, FireLands, ZenonT(60)
    <2>5. run'[r].source = q.source /\ run'[r].status = "running"
      BY <2>2, <2>3, <2>4, ZenonT(60) DEF FiredRow
    <2> QED  BY <2>5, ZenonT(60) DEF Kept
  <1> QED
    BY <1>1, <1>2, ZenonT(60)

\* A recovery once kept stays kept while its schedule is there.
LEMMA KeptStays ==
    ASSUME JournalInv, OriginInv, [Next]_vars, NEW r \in RunId,
           run[r].status \in {"abandoned", "canceled"}, Kept(r, request, run),
           schedule'[run[r].sched] # None
    PROVE  Kept(r, request', run')
  <1>0. [NoRun EXCEPT !.status = "pruned"].status = "pruned"
    BY ZenonT(60) DEF NoRun
  <1>1. CASE \E p \in RunId : run[p].status = "pruned"
    <2>1. PICK p \in RunId : run[p].status = "pruned"
      BY <1>1, ZenonT(60)
    <2>2. Continues(p)
      BY <2>1, RowsContinue, ZenonT(60)
    <2>3. run'[p].status = "pruned"
      BY <1>0, <2>1, <2>2, ZenonT(60) DEF Continues
    <2> QED  BY <2>3, ZenonT(60) DEF Kept
  <1>2. CASE \E p \in RunId : run[p].source = r /\ run[p].status # "skipped"
    <2>1. PICK p \in RunId : run[p].source = r /\ run[p].status # "skipped"
      BY <1>2, ZenonT(60)
    <2>2. None \notin RunId
      BY StoreAssumption, TriggerAssumption, SMTT(30) DEF RunId
    <2>3. run[p].status # "none"
      <3>1. NoRun.source = None
        BY ZenonT(60) DEF NoRun
      <3> QED  BY <2>1, <2>2, <3>1, ZenonT(60) DEF OriginInv
    <2>4. Continues(p)
      BY <2>3, RowsContinue, ZenonT(60)
    <2>5. run'[p].status = "pruned" \/ (run'[p].source = r /\ run'[p].status # "skipped")
      BY <1>0, <2>1, <2>4, ZenonT(60) DEF Continues, SameOrigin, Ended
    <2> QED  BY <2>5, ZenonT(60) DEF Kept
  <1>3. CASE \E q \in request : q.source = r
    <2>1. PICK q \in request : q.source = r
      BY <1>3, ZenonT(60)
    <2>2. q.kind = "recovery"
      <3>1. None \notin RunId
        BY StoreAssumption, TriggerAssumption, SMTT(30) DEF RunId
      <3>2. q.kind = "manual" => q.source = None
        BY ZenonT(60) DEF JournalInv, RequestsLinked
      <3>3. q.kind \in {"manual", "recovery"}
        BY ZenonT(60) DEF JournalInv, TypeOK, Request
      <3> QED  BY <2>1, <3>1, <3>2, <3>3, ZenonT(60)
    <2>3. q.sched = run[r].sched
      BY <2>1, <2>2, ZenonT(60) DEF OriginInv
    <2>4. CASE \E n \in Node, free \in SUBSET Sched, reported \in BOOLEAN : Claim(n, free, reported)
      <3>1. PICK n \in Node, free \in SUBSET Sched, reported \in BOOLEAN : Claim(n, free, reported)
        BY <2>4, ZenonT(60)
      <3>2. PICK b, id, W, active : /\ BatchOK(b) /\ Lands(b, id, n, W, active)
                                    /\ request' = (request \cup b.queued) \ b.consumed
        BY <3>1, ClaimLands, ZenonT(60)
      <3> QED  BY <2>1, <2>2, <3>2, ClaimServes, ZenonT(60)
    <2>5. CASE ~\E n \in Node, free \in SUBSET Sched, reported \in BOOLEAN : Claim(n, free, reported)
      <3>1. q \in request' \/ schedule'[q.sched] = None
        BY <2>5, OtherQueues, ZenonT(60)
      <3> QED  BY <2>1, <2>3, <3>1, ZenonT(60) DEF Kept
    <2> QED  BY <2>4, <2>5, ZenonT(60)
  <1> QED
    BY <1>1, <1>2, <1>3, ZenonT(60) DEF Kept

\* A run interrupted by this step is re-queued by it.
LEMMA InterruptedKept ==
    ASSUME JournalInv, OriginInv, [Next]_vars, NEW r \in RunId, Running(r),
           run'[r].status \in {"abandoned", "canceled"},
           schedule[run[r].sched] # None, schedule[run[r].sched].recover,
           fire[r].phase # "idle" => fire[r].recover
    PROVE  requeued'[r] = 1 /\ Kept(r, request', run')
  <1>0. RecoveryRequest(r).source = r /\ RecoveryRequest(r).kind = "recovery"
    BY ZenonT(60) DEF RecoveryRequest
  <1>1. requeued[r] = 0
    BY ZenonT(60) DEF JournalInv, RunLinked, Running
  <1>2. ASSUME NEW R, Queues(R) PROVE r \in R /\ requeued'[r] = 1
    <2>1. r \in R /\ requeued'[r] = requeued[r] + 1
      BY <1>2, ZenonT(60) DEF Queues
    <2> QED  BY <1>1, <2>1, SMTT(30)
  <1>3. CASE \E n \in Node, free \in SUBSET Sched, reported \in BOOLEAN : Claim(n, free, reported)
    <2>1. PICK n \in Node, free \in SUBSET Sched, reported \in BOOLEAN : Claim(n, free, reported)
      BY <1>3, ZenonT(60)
    <2>2. PICK b, id, W, active : /\ BatchOK(b) /\ Lands(b, id, n, W, active)
                                  /\ request' = (request \cup b.queued) \ b.consumed
                                  /\ requeued' = Requeued(recoverable(b.abandoned))
      BY <2>1, ClaimLands, ZenonT(60)
    <2>3. r \in recoverable(b.abandoned) /\ requeued'[r] = 1
      BY <1>2, <2>2, ClaimQueues, ZenonT(60)
    <2>4. RecoveryRequest(r) \in b.queued
      BY <2>2, <2>3, ZenonT(60) DEF BatchOK
    <2>5. Kept(RecoveryRequest(r).source, request', run')
      BY <1>0, <2>2, <2>4, ClaimServes, ZenonT(60)
    <2> QED  BY <1>0, <2>3, <2>5, ZenonT(60)
  <1>4. CASE ~\E n \in Node, free \in SUBSET Sched, reported \in BOOLEAN : Claim(n, free, reported)
    <2>1. PICK R : Queues(R) /\ \A p \in R : RecoveryRequest(p) \in request'
      BY <1>4, OtherQueues, ZenonT(60)
    <2>2. r \in R /\ requeued'[r] = 1
      BY <1>2, <2>1, ZenonT(60)
    <2> QED  BY <1>0, <2>1, <2>2, ZenonT(60) DEF Kept
  <1> QED
    BY <1>3, <1>4, ZenonT(60)

\* When every spec recovers, a step leaves only schedules that do ...
LEMMA SchedulesRecover ==
    ASSUME JournalInv, RecoveryInv, AllRecover, [Next]_vars, NEW s \in Sched, schedule'[s] # None
    PROVE  schedule'[s].recover
  <1>1. schedule[s] # None => schedule[s].recover
    BY ZenonT(60) DEF RecoveryInv
  <1>2. CASE schedule[s] # None /\ schedule'[s].recover = schedule[s].recover
    BY <1>1, <1>2, ZenonT(60)
  <1>3. CASE \E spec \in Specs : Specified(schedule'[s], spec)
    BY <1>3, ZenonT(60) DEF Specified, AllRecover
  <1> QED
    BY <1>2, <1>3, PoliciesKept, ZenonT(60)

\* ... and so do the fires it leaves in memory.
LEMMA FiresRecover ==
    ASSUME JournalInv, RecoveryInv, AllRecover, [Next]_vars, NEW r \in RunId, fire'[r].phase # "idle"
    PROVE  fire'[r].recover
  <1>0. fire[r].phase # "idle" => fire[r].recover
    BY ZenonT(60) DEF RecoveryInv
  <1>1. CASE \E n \in Node, free \in SUBSET Sched, reported \in BOOLEAN : Claim(n, free, reported)
    <2>1. PICK n \in Node, free \in SUBSET Sched, reported \in BOOLEAN : Claim(n, free, reported)
      BY <1>1, ZenonT(60)
    <2>2. PICK b, id, W, active : BatchOK(b) /\ Lands(b, id, n, W, active)
      BY <2>1, ClaimLands, ZenonT(60)
    <2>3. CASE fire'[r] = fire[r]
      <3>1. fire[r].phase # "idle" /\ fire'[r].recover = fire[r].recover
        BY <2>3, ZenonT(60)
      <3> QED  BY <1>0, <3>1, ZenonT(60)
    <2>4. CASE fire'[r] # fire[r]
      <3>1. PICK x \in b.rows : id[x] = r /\ fire'[r] = Claimed(n, schedule[run'[r].sched].recover)
        BY <2>2, <2>4, ZenonT(60) DEF Lands
      <3>2. run'[r] = x[3]
        BY <2>2, <3>1, ZenonT(60) DEF Lands
      <3>3. x[3].sched \in b.locked
        BY <2>2, <3>1, ZenonT(60) DEF BatchOK
      <3>4. run'[r].sched \in Sched /\ schedule[run'[r].sched] # None
        BY <2>2, <3>2, <3>3, NoneAssumption, ZenonT(60) DEF BatchOK
      <3>5. schedule[run'[r].sched].recover
        BY <3>4, ZenonT(60) DEF RecoveryInv
      <3>6. \A c : Claimed(n, c).recover = c
        BY ZenonT(60) DEF Claimed, Idle
      <3> QED  BY <3>1, <3>5, <3>6, ZenonT(60)
    <2> QED  BY <2>3, <2>4, ZenonT(60)
  <1>2. CASE ~\E n \in Node, free \in SUBSET Sched, reported \in BOOLEAN : Claim(n, free, reported)
    <2>1. Idle.phase = "idle"
      BY ZenonT(60) DEF Idle
    <2> QED  BY <1>0, <1>2, <2>1, OtherFires, ZenonT(60)
  <1> QED
    BY <1>1, <1>2, ZenonT(60)

\* Every step keeps the recoveries.
LEMMA StepKeepsRecovery ==
    ASSUME JournalInv, OriginInv, RecoveryInv, [Next]_vars
    PROVE  RecoveryInv'
  <1>1. ASSUME AllRecover, NEW r \in RunId, run'[r].status \in {"abandoned", "canceled"},
               schedule'[run'[r].sched] # None
        PROVE  requeued'[r] = 1 /\ Kept(r, request', run')
    <2>0. [NoRun EXCEPT !.status = "pruned"].status = "pruned"
      BY ZenonT(60) DEF NoRun
    <2>1. run[r].status # "none"
      BY <1>1, BegunRows, ZenonT(60)
    <2>2. Continues(r)
      BY <2>1, RowsContinue, ZenonT(60)
    <2>3. \/ run'[r] = run[r]
          \/ run[r].status = "running" /\ run'[r].sched = run[r].sched
      BY <1>1, <2>0, <2>2, ZenonT(60) DEF Continues, SameOrigin
    <2>4. run[r].sched = run'[r].sched /\ run[r].status \notin {"none", "pruned"}
      BY <1>1, <2>3, ZenonT(60)
    <2>5. run[r].sched \in created /\ created \subseteq Sched
      BY <2>4, ZenonT(60) DEF OriginInv, JournalInv, TypeOK
    <2>6. schedule[run[r].sched] # None
      BY <1>1, <2>4, <2>5, SchedulesEnd, ZenonT(60)
    <2>7. CASE run[r].status = "running"
      <3>1. schedule[run[r].sched].recover
        BY <1>1, <2>5, <2>6, ZenonT(60) DEF RecoveryInv
      <3>2. fire[r].phase # "idle" => fire[r].recover
        BY <1>1, ZenonT(60) DEF RecoveryInv
      <3> QED  BY <1>1, <2>6, <2>7, <3>1, <3>2, InterruptedKept, ZenonT(60) DEF Running
    <2>8. CASE run[r].status # "running"
      <3>1. run[r].status \in {"abandoned", "canceled"}
        BY <1>1, <2>3, <2>8, ZenonT(60)
      <3>2. requeued[r] = 1 /\ Kept(r, request, run)
        BY <1>1, <2>6, <3>1, ZenonT(60) DEF RecoveryInv, RecoveryKept, AllRecover, Kept
      <3>3. requeued'[r] = requeued[r]
        <4>1. CASE \E n \in Node, free \in SUBSET Sched, reported \in BOOLEAN : Claim(n, free, reported)
          <5>1. PICK R : Queues(R)
            BY <4>1, ClaimLands, ClaimQueues, ZenonT(60)
          <5> QED  BY <2>8, <5>1, ZenonT(60) DEF Queues, Running
        <4>2. CASE ~\E n \in Node, free \in SUBSET Sched, reported \in BOOLEAN : Claim(n, free, reported)
          <5>1. PICK R : Queues(R)
            BY <4>2, OtherQueues, ZenonT(60)
          <5> QED  BY <2>8, <5>1, ZenonT(60) DEF Queues, Running
        <4> QED  BY <4>1, <4>2, ZenonT(60)
      <3>4. Kept(r, request', run')
        BY <1>1, <2>4, <3>1, <3>2, KeptStays, ZenonT(60)
      <3> QED  BY <3>2, <3>3, <3>4, ZenonT(60)
    <2> QED  BY <2>7, <2>8, ZenonT(60)
  <1>2. RecoveryKept'
    BY <1>1, ZenonT(60) DEF RecoveryKept, Kept, AllRecover
  <1>3. AllRecover => \A s \in Sched : schedule'[s] # None => schedule'[s].recover
    BY SchedulesRecover, ZenonT(60)
  <1>4. AllRecover => \A r \in RunId : fire'[r].phase # "idle" => fire'[r].recover
    BY FiresRecover, ZenonT(60)
  <1> QED
    BY <1>2, <1>3, <1>4, ZenonT(60) DEF RecoveryInv, AllRecover

\* When every specification recovers, no interrupted run is lost: it is
\* re-queued exactly once, and the request stays pending until it starts a run,
\* unless the schedule is deleted or the journal pruned (claimDueBatch,
\* sweepAbandoned, writeOutcome, Delete).
THEOREM RecoveriesAreKept == Spec => []RecoveryKept
  <1>1. ASSUME Init PROVE RecoveryInv
    <2>1. \A r \in RunId : run[r].status = "none" /\ fire[r].phase = "idle"
      BY <1>1, ZenonT(60) DEF Init, NoRun, Idle
    <2>2. \A s \in Sched : schedule[s] = None
      BY <1>1, ZenonT(60) DEF Init
    <2>3. RecoveryKept
      BY <2>1, ZenonT(60) DEF RecoveryKept
    <2> QED  BY <2>1, <2>2, <2>3, ZenonT(60) DEF RecoveryInv
  <1>2. RecoveryInv => RecoveryKept
    BY ZenonT(60) DEF RecoveryInv
  <1>3. JournalInv /\ OriginInv /\ RecoveryInv /\ [Next]_vars => RecoveryInv'
    BY StepKeepsRecovery, ZenonT(60)
  <1> QED
    BY <1>1, <1>2, <1>3, OriginCorrect, JournalCorrect, PTL DEF Spec

-----------------------------------------------------------------------------
(***************************************************************************)
(* Cursors point at occurrences.                                           *)
(***************************************************************************)

\* A claim leaves the cursor of a schedule where it was, or at the occurrence
\* that decide computed.
LEMMA ClaimedOnTrigger ==
    ASSUME JournalInv, NEW n \in Node, NEW b, NEW id, NEW W, NEW active,
           BatchOK(b), Lands(b, id, n, W, active), schedule' = b.schedule,
           NEW s \in b.locked, OnTrigger(schedule[s])
    PROVE  OnTrigger(schedule'[s])
  <1> DEFINE t == clock(n)
             reached == Reached(W, active, t, claimLimit(n))
             from == advanceFrom(schedule[s], t, MisfireThreshold)
  <1>1. Parts(b, W, active, claimLimit(n), t)
    BY ZenonT(60) DEF Lands
  <1>2. AdvanceOK(s, schedule'[s], reached, W, active, t)
    BY <1>1, ClaimedSchedules, ZenonT(60)
  <1>3. SameTiming(schedule'[s], schedule[s])
    BY <1>2, ZenonT(60) DEF AdvanceOK
  <1>4. CASE \A i \in reached : i.sched = s => i.request # None
    <2>1. schedule'[s].next = schedule[s].next
      BY <1>2, <1>4, ZenonT(60) DEF AdvanceOK
    <2> QED  BY <1>3, <2>1, TimingDecides, ZenonT(60)
  <1>5. CASE \E i \in reached : i.sched = s /\ i.request = None
    <2>1. schedule'[s].next = toMs(decide(schedule[s], t, MisfireThreshold).next)
      BY <1>2, <1>5, ZenonT(60) DEF AdvanceOK
    <2>2. decide(schedule[s], t, MisfireThreshold).next = nextFire(schedule[s], from)
      BY ZenonT(60) DEF decide
    <2>3. PICK i \in W : i.sched = s /\ i.request = None
      BY <1>5, ZenonT(60) DEF Reached
    <2>4. schedule[s] \in ScheduleRow /\ WorkOK(W, b.locked)
      BY <1>1, <2>3, ZenonT(60) DEF Parts
    <2>5. schedule[s].next \in Int /\ t \in Int
      BY <2>3, <2>4, Clocks, NoneAssumption, ZenonT(60) DEF WorkOK, JournalInv
    <2>6. from \in Int
      BY <2>5, Conversions, ZenonT(60) DEF advanceFrom
    <2> HIDE DEF from
    <2>7. schedule'[s].next # None => Occurs(schedule[s], schedule'[s].next)
      BY <2>1, <2>2, <2>4, <2>6, RowsAreTimed, NextOccurs, ZenonT(60)
    <2> QED  BY <1>3, <2>7, TimingDecides, ZenonT(60) DEF OnTrigger
  <1> QED
    BY <1>4, <1>5, ZenonT(60)

\* Every step keeps the cursors on their triggers: a claim, an edit that re-arms
\* the schedule, and an edit that keeps cursor and timing.
LEMMA StepKeepsOnTrigger ==
    ASSUME JournalInv, CursorIsOccurrence, [Next]_vars
    PROVE  CursorIsOccurrence'
  <1>0. \A s \in Sched : schedule[s] # None => OnTrigger(schedule[s])
    BY ZenonT(60) DEF CursorIsOccurrence, OnTrigger
  <1> SUFFICES ASSUME NEW s \in Sched, schedule'[s] # None PROVE OnTrigger(schedule'[s])
    BY ZenonT(60) DEF CursorIsOccurrence, OnTrigger
  <1>1. CASE \E n \in Node, free \in SUBSET Sched, reported \in BOOLEAN : Claim(n, free, reported)
    <2>1. PICK n \in Node, free \in SUBSET Sched, reported \in BOOLEAN : Claim(n, free, reported)
      BY <1>1, ZenonT(60)
    <2>2. PICK b, id, W, active : BatchOK(b) /\ Lands(b, id, n, W, active) /\ schedule' = b.schedule
      BY <2>1, ClaimLands, ZenonT(60)
    <2>3. CASE s \notin b.locked
      <3>1. Parts(b, W, active, claimLimit(n), clock(n))
        BY <2>2, ZenonT(60) DEF Lands
      <3>2. schedule'[s] = schedule[s]
        BY <2>2, <2>3, <3>1, ZenonT(60) DEF Parts
      <3> QED  BY <1>0, <3>2, ZenonT(60)
    <2>4. CASE s \in b.locked
      <3>1. schedule[s] # None
        BY <2>2, <2>4, NoneAssumption, ZenonT(60) DEF BatchOK
      <3>2. OnTrigger(schedule[s])
        BY <1>0, <3>1, ZenonT(60)
      <3> QED  BY <2>2, <2>4, <3>2, ClaimedOnTrigger, ZenonT(60)
    <2> QED  BY <2>3, <2>4, ZenonT(60)
  <1>2. CASE Manager
    <2>1. PICK n \in Node, u \in Sched : Makes(n, u)
      BY <1>2, ManagerMakes, ZenonT(60)
    <2>2. CASE u = s
      BY <1>0, <2>1, <2>2, ZenonT(60) DEF Makes
    <2>3. CASE u # s
      BY <1>0, <2>1, <2>3, ZenonT(60) DEF Makes
    <2> QED  BY <2>2, <2>3, ZenonT(60)
  <1>3. CASE ~Manager /\ ~\E n \in Node, free \in SUBSET Sched, reported \in BOOLEAN : Claim(n, free, reported)
    <2>1. schedule' = schedule
      BY <1>3, QuietSteps, ZenonT(60)
    <2> QED  BY <1>0, <2>1, ZenonT(60)
  <1> QED
    BY <1>1, <1>2, <1>3, ZenonT(60)

\* Whatever claims, late claims, edits, pauses, deletions and restarts produced
\* it, on nodes with any clocks, the cursor of a schedule is an instant at which
\* its trigger fires, inside its window (nextFire, decide, refreshNextFire,
\* sameScheduleTiming).
THEOREM CursorsAreOccurrences == Spec => []CursorIsOccurrence
  <1>1. Init => CursorIsOccurrence
    BY ZenonT(60) DEF Init, CursorIsOccurrence
  <1>2. JournalInv /\ CursorIsOccurrence /\ [Next]_vars => CursorIsOccurrence'
    BY StepKeepsOnTrigger, ZenonT(60)
  <1> QED
    BY <1>1, <1>2, JournalCorrect, PTL DEF Spec
=============================================================================
