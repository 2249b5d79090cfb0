------------------------- MODULE CronJournalProofs --------------------------
(***************************************************************************)
(* Theorems about CronStore for any nodes, schedules, specifications,      *)
(* limits and clocks: JournalInv is inductive, with the properties it      *)
(* implies and what a step may never do to the journal.  Then what a claim *)
(* leaves behind row by row, what every other step does to fires, rows and *)
(* schedules, and where rows and requests come from (OriginInv).           *)
(***************************************************************************)
EXTENDS CronClaimProofs

\* A claimed row: one of the batch on an unused id, told to the executor or not.
NewRow(b, id, n, r) ==
    /\ \E x \in b.rows : id[x] = r /\ run'[r] = x[3]
    /\ run[r].status = "none"
    /\ \/ fire'[r] = fire[r]
       \/ fire'[r] = [Idle EXCEPT !.phase = "claimed", !.node = n,
                         !.recover = schedule[run'[r].sched].recover]

\* Any other row: abandoned by the claim, or untouched.
OldRow(b, id, n, r) ==
    /\ fire'[r] = fire[r]
    /\ run'[r] \in RunRow
    /\ r \in b.abandoned => run'[r].status = "abandoned"
    /\ r \notin b.abandoned => run'[r] = run[r]

\* What the claim writes: new rows on unused ids, and the end of the rows it
\* takes over; nothing else.
LEMMA ClaimRows ==
    ASSUME JournalInv, NEW n \in Node, NEW free \in SUBSET Sched, NEW reported \in BOOLEAN,
           Claim(n, free, reported)
    PROVE  \E b : /\ b = claimBatch(n, free, claimLimit(n), clock(n))
                  /\ BatchOK(b)
                  /\ \E id \in [b.rows -> RunId] :
                        /\ \A r \in RunId : NewRow(b, id, n, r) \/ OldRow(b, id, n, r)
                        /\ run' = [r \in RunId |-> run'[r]] /\ fire' = [r \in RunId |-> fire'[r]]
                  /\ schedule' = b.schedule
                  /\ request' \subseteq request \cup b.queued
                  /\ requeued' = Requeued(recoverable(b.abandoned))
                  /\ events' = events \/ events' = Announce("abandoned", b.abandoned)
  <1>1. PICK b \in {claimBatch(n, free, claimLimit(n), clock(n))} :
            /\ \E id \in [b.rows -> Fresh(Cardinality(b.rows))] :
                  /\ run' = [r \in RunId |->
                                IF \E x \in b.rows : id[x] = r
                                THEN (CHOOSE x \in b.rows : id[x] = r)[3]
                                ELSE markAbandoned(b.abandoned, clock(n))[r]]
                  /\ fire' = [r \in RunId |->
                                IF reported /\ \E x \in b.rows : id[x] = r /\ x[3].status = "running"
                                THEN [Idle EXCEPT !.phase = "claimed", !.node = n,
                                        !.recover = schedule[run'[r].sched].recover]
                                ELSE fire[r]]
            /\ schedule' = b.schedule
            /\ request' = (request \cup b.queued) \ b.consumed
            /\ requeued' = Requeued(recoverable(b.abandoned))
            /\ events' = IF reported THEN Announce("abandoned", b.abandoned) ELSE events
    BY ZenonT(60) DEF Claim
  <1>2. PICK id \in [b.rows -> Fresh(Cardinality(b.rows))] :
            /\ run' = [r \in RunId |->
                          IF \E x \in b.rows : id[x] = r
                          THEN (CHOOSE x \in b.rows : id[x] = r)[3]
                          ELSE markAbandoned(b.abandoned, clock(n))[r]]
            /\ fire' = [r \in RunId |->
                          IF reported /\ \E x \in b.rows : id[x] = r /\ x[3].status = "running"
                          THEN [Idle EXCEPT !.phase = "claimed", !.node = n,
                                  !.recover = schedule[run'[r].sched].recover]
                          ELSE fire[r]]
    BY <1>1, ZenonT(60)
  <1>3. b = claimBatch(n, free, claimLimit(n), clock(n)) /\ BatchOK(b)
    <2>1. clock(n) \in Int
      BY Clocks, ZenonT(60) DEF JournalInv
    <2> QED
      BY <2>1, BatchFacts, ZenonT(60)
  <1>4. b.abandoned \in SUBSET RunId /\ \A r \in b.abandoned : Running(r)
    BY <1>3, ZenonT(60) DEF BatchOK
  <1>5. id \in [b.rows -> RunId] /\ \A x \in b.rows : run[id[x]].status = "none"
    BY ZenonT(60) DEF Fresh
  <1>6. ASSUME NEW r \in RunId PROVE NewRow(b, id, n, r) \/ OldRow(b, id, n, r)
    <2>1. CASE \E x \in b.rows : id[x] = r
      <3>1. PICK x \in b.rows : x = CHOOSE y \in b.rows : id[y] = r
        BY <2>1, ZenonT(60)
      <3>2. id[x] = r /\ run'[r] = x[3]
        BY <1>2, <2>1, <3>1, ZenonT(60)
      <3>3. \/ fire'[r] = fire[r]
            \/ fire'[r] = [Idle EXCEPT !.phase = "claimed", !.node = n,
                              !.recover = schedule[run'[r].sched].recover]
        BY <1>2, ZenonT(60)
      <3> QED  BY <1>5, <3>2, <3>3, ZenonT(60) DEF NewRow
    <2>2. CASE ~\E x \in b.rows : id[x] = r
      <3>1. run'[r] = markAbandoned(b.abandoned, clock(n))[r] /\ fire'[r] = fire[r]
        BY <1>2, <2>2, ZenonT(60)
      <3>2. /\ markAbandoned(b.abandoned, clock(n))[r] \in RunRow
            /\ r \in b.abandoned => markAbandoned(b.abandoned, clock(n))[r].status = "abandoned"
            /\ r \notin b.abandoned => markAbandoned(b.abandoned, clock(n))[r] = run[r]
        BY <1>4, AbandonedRows, ZenonT(60)
      <3> QED  BY <3>1, <3>2, ZenonT(60) DEF OldRow
    <2> QED  BY <2>1, <2>2, ZenonT(60)
  <1>7. run' = [r \in RunId |-> run'[r]] /\ fire' = [r \in RunId |-> fire'[r]]
    BY <1>2, ZenonT(60)
  <1>8. request' \subseteq request \cup b.queued
    BY <1>1, ZenonT(60)
  <1>9. events' = events \/ events' = Announce("abandoned", b.abandoned)
    BY <1>1, ZenonT(60)
  <1>10. schedule' = b.schedule /\ requeued' = Requeued(recoverable(b.abandoned))
    BY <1>1, ZenonT(60)
  <1> QED
    BY <1>3, <1>5, <1>6, <1>7, <1>8, <1>9, <1>10, ZenonT(60)

\* What the executor remembers of a row it was told of.
LEMMA ClaimedFire ==
    ASSUME NEW n \in Node, NEW recover \in BOOLEAN
    PROVE  LET f == [Idle EXCEPT !.phase = "claimed", !.node = n, !.recover = recover]
           IN  f \in Fire /\ f.phase = "claimed" /\ f.node = n
  <1>1. Idle \in Fire
    BY ZenonT(60) DEF Idle, Fire
  <1>2. \A x \in Fire : LET y == [x EXCEPT !.phase = "claimed", !.node = n, !.recover = recover]
                       IN  y \in Fire /\ y.phase = "claimed" /\ y.node = n
    BY ZenonT(60) DEF Fire
  <1> QED
    BY <1>1, <1>2, ZenonT(60)

\* The claim transaction keeps the journal invariant.
LEMMA ClaimKeeps ==
    ASSUME JournalInv, NEW n \in Node, NEW free \in SUBSET Sched, NEW reported \in BOOLEAN,
           Claim(n, free, reported)
    PROVE  JournalInv'
  <1>1. PICK b : /\ BatchOK(b)
                 /\ \E id \in [b.rows -> RunId] :
                        /\ \A r \in RunId : NewRow(b, id, n, r) \/ OldRow(b, id, n, r)
                        /\ run' = [r \in RunId |-> run'[r]] /\ fire' = [r \in RunId |-> fire'[r]]
                 /\ schedule' = b.schedule
                 /\ request' \subseteq request \cup b.queued
                 /\ requeued' = Requeued(recoverable(b.abandoned))
                 /\ events' = events \/ events' = Announce("abandoned", b.abandoned)
    BY ClaimRows, ZenonT(60)
  <1>2. PICK id \in [b.rows -> RunId] :
             /\ \A r \in RunId : NewRow(b, id, n, r) \/ OldRow(b, id, n, r)
             /\ run' = [r \in RunId |-> run'[r]] /\ fire' = [r \in RunId |-> fire'[r]]
    BY <1>1, ZenonT(60)
  <1>3. UNCHANGED <<now, created, manual, node, doomed>>
    BY ZenonT(60) DEF Claim
  <1> DEFINE gone == b.abandoned
             R == recoverable(b.abandoned)
             fresh == {r \in RunId : NewRow(b, id, n, r)}
  <1>4. /\ gone \in SUBSET RunId /\ \A r \in gone : Running(r)
        /\ schedule' \in [Sched -> ScheduleRow \cup {None}]
        /\ \A s \in Sched : schedule[s] # None => schedule'[s] # None
        /\ b.queued = {RecoveryRequest(r) : r \in R}
    BY <1>1, ZenonT(60) DEF BatchOK
  <1>5. R \in SUBSET gone /\ \A r \in R : schedule[run[r].sched] # None
    BY ZenonT(60) DEF recoverable
  <1>6. ASSUME NEW r \in RunId, NewRow(b, id, n, r)
        PROVE  run[r].status = "none" /\ run'[r] \in RunRow /\ fire'[r] \in Fire /\ Started(r)'
    <2>1. PICK x \in b.rows : id[x] = r /\ run'[r] = x[3]
      BY <1>6, ZenonT(60) DEF NewRow
    <2>2. /\ run'[r] \in RunRow /\ run'[r].sched \in Sched /\ schedule[run'[r].sched] \in ScheduleRow
          /\ run'[r].status \in {"running", "skipped", "missed"}
          /\ run'[r].status = "running" => run'[r].at \in Int /\ run'[r].heartbeat \in Int
      BY <1>1, <2>1, ZenonT(60) DEF BatchOK
    <2>3. fire[r] \in Fire /\ RunLinked(r)
      BY ZenonT(60) DEF JournalInv, TypeOK
    <2>4. run[r].status = "none" /\ fire[r].phase = "idle"
      BY <1>6, <2>3, ZenonT(60) DEF NewRow, RunLinked
    <2>5. schedule[run'[r].sched].recover \in BOOLEAN
      BY <2>2, ZenonT(60) DEF ScheduleRow
    <2>6. /\ fire'[r] \in Fire
          /\ \/ fire'[r].phase = "idle"
             \/ fire'[r].phase = "claimed" /\ fire'[r].node = n
      <3>1. CASE fire'[r] = fire[r]
        BY <2>3, <2>4, <3>1, ZenonT(60)
      <3>2. CASE fire'[r] = [Idle EXCEPT !.phase = "claimed", !.node = n,
                               !.recover = schedule[run'[r].sched].recover]
        <4>1. LET f == [Idle EXCEPT !.phase = "claimed", !.node = n,
                               !.recover = schedule[run'[r].sched].recover]
              IN  f \in Fire /\ f.phase = "claimed" /\ f.node = n
          BY <2>5, ClaimedFire, ZenonT(60)
        <4> QED  BY <3>2, <4>1, ZenonT(60)
      <3> QED  BY <1>6, <3>1, <3>2, ZenonT(60) DEF NewRow
    <2> QED
      BY <2>2, <2>4, <2>6, ZenonT(60) DEF Started
  <1>7. ASSUME NEW r \in RunId, OldRow(b, id, n, r)
        PROVE  /\ run'[r] \in RunRow /\ fire'[r] = fire[r] /\ fire'[r] \in Fire
               /\ r \in gone => run'[r].status = "abandoned"
               /\ r \notin gone => run'[r] = run[r]
    BY <1>7, ZenonT(60) DEF OldRow, JournalInv, TypeOK
  <1>8. ASSUME NEW r \in gone PROVE ~NewRow(b, id, n, r)
    BY <1>4, <1>8, ZenonT(60) DEF NewRow, Running
  <1> HIDE DEF gone, R
  <1>9. Takeover(gone, fresh, R)
    <2>1. /\ \A r \in gone : Running(r) /\ run'[r].status = "abandoned"
          /\ \A r \in fresh : run[r].status = "none" /\ Started(r)'
          /\ \A r \in RunId : r \notin gone /\ r \notin fresh => run'[r] = run[r]
          /\ \A r \in RunId : r \notin fresh => fire'[r] = fire[r]
      BY <1>2, <1>4, <1>6, <1>7, <1>8, ZenonT(60)
    <2>2. run' \in [RunId -> RunRow] /\ fire' \in [RunId -> Fire]
      BY <1>2, <1>6, <1>7, ZenonT(60)
    <2>3. /\ request' \subseteq request \cup {RecoveryRequest(r) : r \in R}
          /\ requeued' = Requeued(R)
          /\ events' = events \/ events' = Announce("abandoned", gone)
      BY <1>1, <1>4, ZenonT(60) DEF gone, R
    <2> HIDE DEF fresh
    <2> QED
      BY <1>3, <1>4, <1>5, <2>1, <2>2, <2>3, ZenonT(60) DEF Takeover
  <1> QED
    BY <1>4, <1>5, <1>9, TakeoverKeeps, ZenonT(60)

-----------------------------------------------------------------------------
(***************************************************************************)
(* The theorems.                                                           *)
(***************************************************************************)

\* Every step of any node, executor, manager call or clock keeps it.
LEMMA StepKeepsJournal == JournalInv /\ [Next]_vars => JournalInv'
  <1> SUFFICES ASSUME JournalInv, [Next]_vars PROVE JournalInv'
    OBVIOUS
  <1>1. CASE Tick
    <2>1. CASE Node = {}
      <3>1. UNCHANGED <<schedule, created, run, request, manual, node, fire, doomed, requeued, events>>
            /\ now' \in Nat
        BY <1>1, SMTT(30) DEF Tick, JournalInv, TypeOK
      <3>2. /\ node' \in [Node -> {"up", "draining", "canceling", "released", "down"}]
            /\ fire' \in [RunId -> Fire] /\ doomed' \in [Node -> SUBSET RunId] /\ DoomedTerminal'
        BY <3>1, ZenonT(60) DEF JournalInv, TypeOK, DoomedTerminal
      <3> QED  BY <3>1, <3>2, MemoryStepKeeps, ZenonT(60)
    <2>2. CASE Node # {}
      BY <1>1, <2>2, LifecycleKeeps, ZenonT(60)
    <2> QED  BY <2>1, <2>2, ZenonT(60)
  <1>2. CASE Manager
    BY <1>2, ManagerKeeps, ZenonT(60) DEF Manager
  <1>3. CASE Engine
    BY <1>3, ClaimKeeps, SweepKeeps, HeartbeatKeeps, LifecycleKeeps, PruneKeeps, ZenonT(60) DEF Engine
  <1>4. CASE Executor
    BY <1>4, ExecutorKeeps, OutcomeKeeps, FinishKeeps, ZenonT(60) DEF Executor
  <1>5. CASE Lifecycle
    BY <1>5, LifecycleKeeps, ZenonT(60) DEF Lifecycle
  <1>6. CASE UNCHANGED vars
    <2>1. UNCHANGED <<now, schedule, created, run, request, manual, node, fire, doomed, requeued, events>>
      BY <1>6, ZenonT(60) DEF vars
    <2>2. /\ now' \in Nat /\ node' \in [Node -> {"up", "draining", "canceling", "released", "down"}]
          /\ fire' \in [RunId -> Fire] /\ doomed' \in [Node -> SUBSET RunId] /\ DoomedTerminal'
      BY <2>1, ZenonT(60) DEF JournalInv, TypeOK, DoomedTerminal
    <2> QED  BY <2>1, <2>2, MemoryStepKeeps, ZenonT(60)
  <1> QED
    BY <1>1, <1>2, <1>3, <1>4, <1>5, <1>6, ZenonT(60) DEF Next

\* The inductive invariant of the scheduler, for any number of nodes, schedules,
\* runs and requests: the journal, the requests and the executors' memory agree
\* (claimDueBatch, sweepAbandoned, writeOutcome, renewHeartbeats, the pruner and
\* every manager operation).
THEOREM JournalCorrect == Spec => []JournalInv
  <1>1. Init => JournalInv
    BY InitialJournal, ZenonT(60)
  <1>2. JournalInv /\ [Next]_vars => JournalInv'
    BY StepKeepsJournal, ZenonT(60)
  <1> QED
    BY <1>1, <1>2, PTL DEF Spec

\* Type correctness: every row the engine and the manager write is a row.
THEOREM TypeCorrect == Spec => []TypeOK
  <1>1. JournalInv => TypeOK
    BY ZenonT(60) DEF JournalInv
  <1> QED
    BY <1>1, JournalCorrect, PTL

\* No run is announced twice, and an event names the journaled status, however
\* late outcomes (complete) interleave with takeovers (reportAbandoned).
THEOREM EventsAreTrue == Spec => []EventsMatchJournal
  <1>1. JournalInv => EventsMatchJournal
    BY ZenonT(60) DEF JournalInv
  <1> QED
    BY <1>1, JournalCorrect, PTL

\* An interrupted run is re-queued at most once, whoever takes it over
\* (enqueueRecoverable, writeOutcome).
THEOREM RecoveredOnce == Spec => []RequeuedOnce
  <1>1. JournalInv => RequeuedOnce
    BY ZenonT(60) DEF JournalInv
  <1> QED
    BY <1>1, JournalCorrect, PTL

\* No fire request outlives its schedule (Delete, lockScheduleAlive).
THEOREM RequestsHaveSchedules == Spec => []NoOrphanRequest
  <1>1. JournalInv => NoOrphanRequest
    BY ZenonT(60) DEF JournalInv
  <1> QED
    BY <1>1, JournalCorrect, PTL

-----------------------------------------------------------------------------
(***************************************************************************)
(* What a step may never do to the journal.                                *)
(***************************************************************************)

\* A terminal row is never rewritten and a running one never pruned: a late
\* outcome, heartbeat or takeover meets the status guard, and the pruner only
\* selected terminal rows.
THEOREM RowsAreFinal == Spec => TerminalIsFinal
  <1>1. JournalInv /\ [Next]_vars => [\A r \in RunId : StaysFinal(r)]_vars
    <2> SUFFICES ASSUME JournalInv, [Next]_vars, NEW r \in RunId PROVE StaysFinal(r)
      OBVIOUS
    <2>1. CASE \E n \in Node, free \in SUBSET Sched, reported \in BOOLEAN : Claim(n, free, reported)
      <3>1. PICK n \in Node, free \in SUBSET Sched, reported \in BOOLEAN : Claim(n, free, reported)
        BY <2>1, ZenonT(60)
      <3>2. PICK b : /\ BatchOK(b)
                     /\ \E id : \A q \in RunId : NewRow(b, id, n, q) \/ OldRow(b, id, n, q)
        BY <3>1, ClaimRows, ZenonT(60)
      <3>3. \A x \in b.rows : x[3].status \in {"running", "skipped", "missed"}
        BY <3>2, ZenonT(60) DEF BatchOK
      <3>4. \A q \in b.abandoned : run[q].status = "running"
        BY <3>2, ZenonT(60) DEF BatchOK, Running
      <3> QED
        BY <3>2, <3>3, <3>4, ZenonT(60) DEF StaysFinal, Terminal, NewRow, OldRow
    <2>2. CASE ~\E n \in Node, free \in SUBSET Sched, reported \in BOOLEAN : Claim(n, free, reported)
      <3>1. \/ run'[r] = run[r]
            \/ run[r].status = "running" /\ run'[r].status \in Terminal \cup {"running"}
            \/ run[r].status \in Terminal \cup {"pruned"} /\ run'[r].status = "pruned"
        BY <2>2, OtherRows, ZenonT(60) DEF Ended, Terminal, NoRun
      <3> QED
        BY <3>1, ZenonT(60) DEF StaysFinal, Terminal
    <2> QED  BY <2>1, <2>2, ZenonT(60)
  <1> QED
    BY <1>1, JournalCorrect, PTL DEF Spec, TerminalIsFinal

\* A step that starts a row of a schedule that forbids overlap starts it alone.
LEMMA StepStartsAlone == JournalInv /\ [Next]_vars => \A r \in RunId : StartsAlone(r)
  <1> SUFFICES ASSUME JournalInv, [Next]_vars, NEW r \in RunId PROVE StartsAlone(r)
    OBVIOUS
  <1>1. CASE \E n \in Node, free \in SUBSET Sched, reported \in BOOLEAN : Claim(n, free, reported)
    <2>1. PICK n \in Node, free \in SUBSET Sched, reported \in BOOLEAN : Claim(n, free, reported)
      BY <1>1, ZenonT(60)
    <2>2. PICK b : /\ b = claimBatch(n, free, claimLimit(n), clock(n))
                   /\ BatchOK(b)
                   /\ \E id : \A q \in RunId : NewRow(b, id, n, q) \/ OldRow(b, id, n, q)
      BY <2>1, ClaimRows, ZenonT(60)
    <2>3. AloneOK(b)
      <3>1. clock(n) \in Int
        BY Clocks, ZenonT(60) DEF JournalInv
      <3> QED  BY <2>2, <3>1, BatchStartsAlone, ZenonT(60)
    <2>4. PICK id : \A q \in RunId : NewRow(b, id, n, q) \/ OldRow(b, id, n, q)
      BY <2>2, ZenonT(60)
    <2>5. SUFFICES ASSUME run[r].status # "running", run'[r].status = "running",
                          schedule[run'[r].sched].policy # "allow",
                          NEW q \in RunId \ {r}, run'[q].status = "running",
                          run'[q].sched = run'[r].sched
                   PROVE  FALSE
      BY ZenonT(60) DEF StartsAlone
    <2>6. PICK x \in b.rows : id[x] = r /\ run'[r] = x[3]
      BY <2>4, <2>5, ZenonT(60) DEF NewRow, OldRow
    <2>7. /\ \A p \in RunId : Running(p) /\ run[p].sched = x[3].sched => p \in b.abandoned
          /\ \A y \in b.rows : y[3].status = "running" /\ y[3].sched = x[3].sched => y = x
      BY <2>3, <2>5, <2>6, ZenonT(60) DEF AloneOK
    <2>8. CASE \E y \in b.rows : id[y] = q /\ run'[q] = y[3]
      BY <2>5, <2>6, <2>7, <2>8, ZenonT(60)
    <2>9. CASE OldRow(b, id, n, q)
      BY <2>5, <2>6, <2>7, <2>9, ZenonT(60) DEF OldRow, Running
    <2> QED
      BY <2>4, <2>8, <2>9, ZenonT(60) DEF NewRow
  <1>2. CASE ~\E n \in Node, free \in SUBSET Sched, reported \in BOOLEAN : Claim(n, free, reported)
    <2>1. run'[r].status = "running" => run[r].status = "running"
      BY <1>2, OtherRows, ZenonT(60) DEF NoRun
    <2> QED  BY <2>1, ZenonT(60) DEF StartsAlone
  <1> QED  BY <1>1, <1>2, ZenonT(60)

\* ConcurrencyForbid, for any number of nodes and requests: a row of a schedule
\* that forbids overlap starts running only while no other row of it runs.
THEOREM OverlapForbidden == Spec => ForbidNeverOverlaps
  <1>1. JournalInv /\ [Next]_vars => [\A r \in RunId : StartsAlone(r)]_vars
    BY StepStartsAlone, ZenonT(60)
  <1> QED
    BY <1>1, JournalCorrect, PTL DEF Spec, ForbidNeverOverlaps

-----------------------------------------------------------------------------
(***************************************************************************)
(* What a claim writes, row by row.                                        *)
(***************************************************************************)

\* A journal row is the fire of an item, or the missed row of a due one.
FireOf(i, W, active, t) == <<i, 1, newRunRow(i, W, active, t)>>

MissedOf(i, t) == <<i, 2, missedRow(i, t)>>

\* The rows of a batch are those of the items it reached.
FormOK(b, W, active, limit, t) ==
    /\ \A x \in b.rows : \E i \in Reached(W, active, t, limit) :
          \/ x = FireOf(i, W, active, t) /\ Fires(i, t) /\ ~PassedOver(i, W, active, t)
          \/ x = MissedOf(i, t) /\ i.request = None
    /\ \A i \in Reached(W, active, t, limit) :
          Fires(i, t) /\ ~PassedOver(i, W, active, t) => FireOf(i, W, active, t) \in b.rows
    /\ Reached(W, active, t, limit) \subseteq W

\* journalRows appends nothing else.
LEMMA RowForms ==
    ASSUME NEW b, NEW W, NEW active, NEW limit, NEW t, Parts(b, W, active, limit, t)
    PROVE  FormOK(b, W, active, limit, t)
  <1>1. b.rows = journalRows(Reached(W, active, t, limit), W, active, t)
    BY ZenonT(60) DEF Parts
  <1>2. Reached(W, active, t, limit) \subseteq W
    BY ZenonT(60) DEF Reached
  <1> QED
    BY <1>1, <1>2, ZenonT(60) DEF FormOK, journalRows, FireOf, MissedOf

\* The order of the rows tells any two of them apart.
LEMMA RowsOrdered ==
    ASSUME NEW b, NEW W, NEW active, NEW limit, NEW t, Parts(b, W, active, limit, t),
           NEW x \in b.rows, NEW y \in b.rows, x # y
    PROVE  RowBefore(x, y) \/ RowBefore(y, x)
  <1>0. FormOK(b, W, active, limit, t)
    BY RowForms, ZenonT(60)
  <1>1. PICK i \in W : x = FireOf(i, W, active, t) \/ x = MissedOf(i, t)
    BY <1>0, ZenonT(60) DEF FormOK
  <1>2. PICK j \in W : y = FireOf(j, W, active, t) \/ y = MissedOf(j, t)
    BY <1>0, ZenonT(60) DEF FormOK
  <1>3. /\ x[1] = i /\ y[1] = j
        /\ x[2] = 1 \/ x[2] = 2
        /\ y[2] = 1 \/ y[2] = 2
        /\ x[2] = 1 => x = FireOf(i, W, active, t)
        /\ x[2] = 2 => x = MissedOf(i, t)
        /\ y[2] = 1 => y = FireOf(j, W, active, t)
        /\ y[2] = 2 => y = MissedOf(j, t)
    BY <1>1, <1>2, SMTT(30) DEF FireOf, MissedOf
  <1>4. CASE i = j
    <2>1. x[2] # y[2]
      BY <1>3, <1>4, ZenonT(60)
    <2>2. x[2] < y[2] \/ y[2] < x[2]
      BY <1>3, <2>1, SMTT(30)
    <2> QED  BY <1>3, <1>4, <2>2, ZenonT(60) DEF RowBefore
  <1>5. CASE i # j
    <2>1. Before(i, j) \/ Before(j, i)
      BY <1>5, ItemsOrdered, ZenonT(60) DEF Parts
    <2> QED  BY <1>3, <2>1, ZenonT(60) DEF RowBefore
  <1> QED
    BY <1>4, <1>5, ZenonT(60)

\* The fire a node remembers of a row it was told of.
Claimed(n, recover) == [Idle EXCEPT !.phase = "claimed", !.node = n, !.recover = recover]

\* The assignments of a claim whose batch is b.
Written(b, n, reported) ==
    /\ \E id \in [b.rows -> Fresh(Cardinality(b.rows))] :
          /\ \A x, y \in b.rows : RowBefore(x, y) => id[x] < id[y]
          /\ run' = [r \in RunId |->
                        IF \E x \in b.rows : id[x] = r
                        THEN (CHOOSE x \in b.rows : id[x] = r)[3]
                        ELSE markAbandoned(b.abandoned, clock(n))[r]]
          /\ fire' = [r \in RunId |->
                        IF reported /\ \E x \in b.rows : id[x] = r /\ x[3].status = "running"
                        THEN Claimed(n, schedule[run'[r].sched].recover)
                        ELSE fire[r]]
    /\ schedule' = b.schedule
    /\ request' = (request \cup b.queued) \ b.consumed
    /\ requeued' = Requeued(recoverable(b.abandoned))

\* What a claim wrote, given its work W: every row of the batch on an id of its
\* own that was unused, the rows it took over abandoned, all else untouched.
Lands(b, id, n, W, active) ==
    /\ Parts(b, W, active, claimLimit(n), clock(n))
    /\ id \in [b.rows -> RunId]
    /\ \A x, y \in b.rows : id[x] = id[y] => x = y
    /\ \A x \in b.rows : run[id[x]].status = "none" /\ run'[id[x]] = x[3]
    /\ \A r \in RunId : (\A x \in b.rows : id[x] # r) =>
          run'[r] = markAbandoned(b.abandoned, clock(n))[r]
    /\ \A r \in RunId :
          \/ fire'[r] = fire[r]
          \/ \E x \in b.rows : /\ id[x] = r /\ x[3].status = "running"
                               /\ fire'[r] = Claimed(n, schedule[run'[r].sched].recover)

\* Every claim step lands that way.
LEMMA ClaimLands ==
    ASSUME JournalInv, NEW n \in Node, NEW free \in SUBSET Sched, NEW reported \in BOOLEAN,
           Claim(n, free, reported)
    PROVE  \E b, id, W, active :
              /\ b = claimBatch(n, free, claimLimit(n), clock(n))
              /\ BatchOK(b)
              /\ Lands(b, id, n, W, active)
              /\ schedule' = b.schedule
              /\ request' = (request \cup b.queued) \ b.consumed
              /\ requeued' = Requeued(recoverable(b.abandoned))
  <1> DEFINE b == claimBatch(n, free, claimLimit(n), clock(n))
  <1>1. clock(n) \in Int
    BY Clocks, ZenonT(60) DEF JournalInv
  <1>2. BatchOK(b)
    BY <1>1, BatchFacts, ZenonT(60)
  <1>3. PICK W, active : Parts(b, W, active, claimLimit(n), clock(n))
    BY <1>1, BatchParts, ZenonT(60)
  <1> HIDE DEF b
  <1>4. Written(b, n, reported)
    <2>1. \E c \in {b} : Written(c, n, reported)
      BY ZenonT(60) DEF Claim, Claimed, Written, b
    <2> QED  BY <2>1, ZenonT(60)
  <1>5. PICK id \in [b.rows -> Fresh(Cardinality(b.rows))] :
              /\ \A x, y \in b.rows : RowBefore(x, y) => id[x] < id[y]
              /\ run' = [r \in RunId |->
                            IF \E x \in b.rows : id[x] = r
                            THEN (CHOOSE x \in b.rows : id[x] = r)[3]
                            ELSE markAbandoned(b.abandoned, clock(n))[r]]
              /\ fire' = [r \in RunId |->
                            IF reported /\ \E x \in b.rows : id[x] = r /\ x[3].status = "running"
                            THEN Claimed(n, schedule[run'[r].sched].recover)
                            ELSE fire[r]]
    BY <1>4, ZenonT(60) DEF Written
  <1>6. id \in [b.rows -> RunId] /\ \A x \in b.rows : run[id[x]].status = "none"
    BY ZenonT(60) DEF Fresh
  <1>7. \A x, y \in b.rows : id[x] = id[y] => x = y
    <2>1. \A x, y \in b.rows : ~(id[x] = id[y] /\ id[x] < id[y])
      <3>1. \A x \in b.rows : id[x] \in Int
        BY <1>6 DEF RunId
      <3> QED  BY <3>1
    <2>2. \A x, y \in b.rows : x # y => RowBefore(x, y) \/ RowBefore(y, x)
      BY <1>3, RowsOrdered, ZenonT(60)
    <2> QED  BY <1>5, <2>1, <2>2, ZenonT(60)
  <1>8. \A x \in b.rows : run'[id[x]] = x[3]
    <2>1. TAKE x \in b.rows
    <2>2. id[x] \in RunId
      BY <1>6, ZenonT(60)
    <2>3. run'[id[x]] = (CHOOSE y \in b.rows : id[y] = id[x])[3]
      BY <1>5, <2>2, ZenonT(60)
    <2>4. (CHOOSE y \in b.rows : id[y] = id[x]) = x
      BY <1>7, ZenonT(60)
    <2> QED  BY <2>3, <2>4, ZenonT(60)
  <1>9. \A r \in RunId : (\A x \in b.rows : id[x] # r) =>
            run'[r] = markAbandoned(b.abandoned, clock(n))[r]
    BY <1>5, ZenonT(60)
  <1>10. \A r \in RunId :
          \/ fire'[r] = fire[r]
          \/ \E x \in b.rows : /\ id[x] = r /\ x[3].status = "running"
                               /\ fire'[r] = Claimed(n, schedule[run'[r].sched].recover)
    BY <1>5, ZenonT(60)
  <1>11. Lands(b, id, n, W, active)
    BY <1>3, <1>6, <1>7, <1>8, <1>9, <1>10, ZenonT(60) DEF Lands
  <1> QED
    BY <1>2, <1>4, <1>11, ZenonT(60) DEF Written, b

-----------------------------------------------------------------------------
(***************************************************************************)
(* What becomes of fires, rows and schedules.                              *)
(***************************************************************************)

\* What every step but a claim does with the fire of a run.
LEMMA OtherFires ==
    ASSUME JournalInv, NEW r \in RunId, [Next]_vars,
           ~\E n \in Node, free \in SUBSET Sched, reported \in BOOLEAN : Claim(n, free, reported)
    PROVE  \/ fire'[r] = fire[r]
           \/ fire'[r] = Idle
           \/ /\ fire[r].phase # "idle"
              /\ fire'[r].phase \in {"tracked", "returned", "journaled"}
              /\ fire'[r].phase = "tracked" => fire[r].phase = "claimed"
              /\ fire'[r].node = fire[r].node /\ fire'[r].recover = fire[r].recover
  <1>1. fire \in [RunId -> Fire]
    BY ZenonT(60) DEF JournalInv, TypeOK
  <1>2. ASSUME NEW q \in RunId, NEW f, fire' = [fire EXCEPT ![q] = f],
               \/ f = Idle
               \/ /\ fire[q].phase # "idle"
                  /\ f.phase \in {"tracked", "returned", "journaled"}
                  /\ f.phase = "tracked" => fire[q].phase = "claimed"
                  /\ f.node = fire[q].node /\ f.recover = fire[q].recover
        PROVE  \/ fire'[r] = fire[r]
               \/ fire'[r] = Idle
               \/ /\ fire[r].phase # "idle"
                  /\ fire'[r].phase \in {"tracked", "returned", "journaled"}
                  /\ fire'[r].phase = "tracked" => fire[r].phase = "claimed"
                  /\ fire'[r].node = fire[r].node /\ fire'[r].recover = fire[r].recover
    <2>1. CASE q = r
      <3>1. fire'[r] = f
        BY <1>1, <1>2, <2>1, ZenonT(60)
      <3> QED  BY <1>2, <2>1, <3>1, ZenonT(60)
    <2>2. CASE q # r
      BY <1>1, <1>2, <2>2, ZenonT(60)
    <2> QED  BY <2>1, <2>2, ZenonT(60)
  <1>3. CASE Executor
    <2>1. PICK q \in RunId : \/ Track(q) \/ Return(q)
                             \/ \E reported \in BOOLEAN : writeOutcome(q, reported)
                             \/ findOutcome(q) \/ giveUp(q) \/ finish(q)
      BY <1>3, ZenonT(60) DEF Executor
    <2>0. \A o : /\ [fire[q] EXCEPT !.phase = "tracked"].phase = "tracked"
                 /\ [fire[q] EXCEPT !.phase = "tracked"].node = fire[q].node
                 /\ [fire[q] EXCEPT !.phase = "tracked"].recover = fire[q].recover
                 /\ [fire[q] EXCEPT !.phase = "returned", !.outcome = o].phase = "returned"
                 /\ [fire[q] EXCEPT !.phase = "returned", !.outcome = o].node = fire[q].node
                 /\ [fire[q] EXCEPT !.phase = "returned", !.outcome = o].recover = fire[q].recover
                 /\ [fire[q] EXCEPT !.phase = "journaled"].phase = "journaled"
                 /\ [fire[q] EXCEPT !.phase = "journaled"].node = fire[q].node
                 /\ [fire[q] EXCEPT !.phase = "journaled"].recover = fire[q].recover
      <3>1. fire[q] \in Fire
        BY <1>1, ZenonT(60)
      <3> QED  BY <3>1, SMTT(30) DEF Fire
    <2>2. CASE Track(q)
      <3>1. fire' = [fire EXCEPT ![q] = [fire[q] EXCEPT !.phase = "tracked"]]
            /\ fire[q].phase = "claimed"
        BY <2>2, ZenonT(60) DEF Track
      <3> QED  BY <1>2, <2>0, <3>1, ZenonT(60)
    <2>3. CASE Return(q)
      <3>1. PICK o : fire' = [fire EXCEPT ![q] = [fire[q] EXCEPT !.phase = "returned", !.outcome = o]]
            /\ fire[q].phase = "tracked"
        BY <1>1, <2>3, ZenonT(60) DEF Return
      <3> QED  BY <1>2, <2>0, <3>1, ZenonT(60)
    <2>4. CASE \E reported \in BOOLEAN : writeOutcome(q, reported)
      <3>1. /\ \/ fire' = fire
               \/ fire' = [fire EXCEPT ![q] = [fire[q] EXCEPT !.phase = "journaled"]]
            /\ fire[q].phase = "returned"
        BY <2>4, ZenonT(60) DEF writeOutcome
      <3> QED  BY <1>2, <2>0, <3>1, ZenonT(60)
    <2>5. CASE findOutcome(q)
      <3>1. /\ \/ fire' = [fire EXCEPT ![q] = Idle]
               \/ fire' = [fire EXCEPT ![q] = [fire[q] EXCEPT !.phase = "journaled"]]
            /\ fire[q].phase = "returned"
        BY <2>5, ZenonT(60) DEF findOutcome
      <3> QED  BY <1>2, <2>0, <3>1, ZenonT(60)
    <2>6. CASE giveUp(q) \/ finish(q)
      BY <1>2, <2>6, ZenonT(60) DEF giveUp, finish
    <2> QED  BY <2>1, <2>2, <2>3, <2>4, <2>5, <2>6, ZenonT(60)
  <1>4. CASE Engine
    BY <1>4, ZenonT(60) DEF Engine, sweepAbandoned, renewHeartbeats, pruneSelect, pruneDelete
  <1>5. CASE Manager
    BY <1>5, ManagerWrites, ZenonT(60)
  <1>6. CASE Lifecycle
    BY <1>6, ZenonT(60) DEF Lifecycle, Stop, stopRuns, stopHeartbeats, Stopped, Crash, Start
  <1>7. CASE Tick \/ UNCHANGED vars
    BY <1>7, ZenonT(60) DEF Tick, vars
  <1> QED
    BY <1>3, <1>4, <1>5, <1>6, <1>7, ZenonT(60) DEF Next

\* What becomes of a row: it stays, it runs on or ends, or it is pruned.
Continues(r) ==
    \/ run'[r] = run[r]
    \/ /\ run[r].status = "running" /\ run'[r].status \in Ended \cup {"running"}
       /\ SameOrigin(run'[r], run[r])
    \/ run[r].status \in Terminal \cup {"pruned"} /\ run'[r] = [NoRun EXCEPT !.status = "pruned"]

\* Every step continues every row; a claim writes new ones on unused ids only.
LEMMA RowsContinue ==
    ASSUME JournalInv, [Next]_vars, NEW r \in RunId, run[r].status # "none"
    PROVE  Continues(r)
  <1>1. CASE \E n \in Node, free \in SUBSET Sched, reported \in BOOLEAN : Claim(n, free, reported)
    <2>1. PICK n \in Node, free \in SUBSET Sched, reported \in BOOLEAN : Claim(n, free, reported)
      BY <1>1, ZenonT(60)
    <2>2. PICK b, id, W, active : BatchOK(b) /\ Lands(b, id, n, W, active)
      BY <2>1, ClaimLands, ZenonT(60)
    <2> DEFINE marked == markAbandoned(b.abandoned, clock(n))
    <2>3. run'[r] = marked[r]
      <3>1. \A x \in b.rows : run[id[x]].status = "none"
        BY <2>2, ZenonT(60) DEF Lands
      <3>2. \A q \in RunId : (\A x \in b.rows : id[x] # q) => run'[q] = marked[q]
        BY <2>2, ZenonT(60) DEF Lands
      <3> HIDE DEF marked
      <3> QED  BY <3>1, <3>2, ZenonT(60)
    <2>4. b.abandoned \in SUBSET RunId /\ \A q \in b.abandoned : run[q].status = "running"
      BY <2>2, ZenonT(60) DEF BatchOK, Running
    <2>6. /\ r \in b.abandoned => marked[r].status = "abandoned"
          /\ SameOrigin(marked[r], run[r])
          /\ r \notin b.abandoned => marked[r] = run[r]
      BY <2>4, AbandonedRows, ZenonT(60)
    <2> HIDE DEF marked
    <2>5. /\ r \in b.abandoned => run'[r].status = "abandoned"
          /\ SameOrigin(run'[r], run[r])
          /\ r \notin b.abandoned => run'[r] = run[r]
      BY <2>3, <2>6, ZenonT(60)
    <2> QED  BY <2>4, <2>5, ZenonT(60) DEF Continues, Ended
  <1>2. CASE ~\E n \in Node, free \in SUBSET Sched, reported \in BOOLEAN : Claim(n, free, reported)
    BY <1>2, OtherRows, ZenonT(60) DEF Continues
  <1> QED
    BY <1>1, <1>2, ZenonT(60)

\* The last fire advance and recordRequestedFire leave: the old one, or the
\* instant of an item that fired.
LastOK(s, last, reached, W, active, t) ==
    \/ last = None
    \/ last = schedule[s].last
    \/ \E i \in reached : /\ i.sched = s /\ i.at = last
                          /\ Fires(i, t) /\ ~PassedOver(i, W, active, t)

\* A schedule the claim writes back keeps its policies; its cursor moves with a
\* regular item only.
AdvanceOK(s, row, reached, W, active, t) ==
    /\ row.recover = schedule[s].recover /\ row.policy = schedule[s].policy
    /\ SameTiming(row, schedule[s])
    /\ LastOK(s, row.last, reached, W, active, t)
    /\ (\A i \in reached : i.sched = s => i.request # None) => row.next = schedule[s].next
    /\ (\E i \in reached : i.sched = s /\ i.request = None) =>
           row.next = toMs(decide(schedule[s], t, MisfireThreshold).next)

\* The fields of an advanced schedule.
LEMMA AdvancedFields ==
    ASSUME NEW S \in SUBSET Sched, NEW s \in S, NEW W, NEW reached \in SUBSET W, NEW active, NEW t,
           WorkOK(W, S), IsFiniteSet(W), schedule[s] \in ScheduleRow
    PROVE  AdvanceOK(s, Advanced(s, reached, W, active, t), reached, W, active, t)
  <1> DEFINE mine == {i \in reached : i.sched = s /\ ~PassedOver(i, W, active, t)}
             regular == {i \in mine : i.request = None}
             asked == {i \in mine : i.request # None}
             d == decide(schedule[s], t, MisfireThreshold)
             base == IF regular # {} /\ d.fire THEN schedule[s].next ELSE schedule[s].last
             picked == {i \in asked : \A g \in regular : d.fire => Before(g, i)}
             later == {i.at : i \in picked}
             forward == {a \in later : base = None \/ a > base}
             next == IF regular # {} THEN toMs(d.next) ELSE schedule[s].next
             last == IF forward = {} THEN base ELSE Max(forward)
             row == Advanced(s, reached, W, active, t)
  <1>1. row = [schedule[s] EXCEPT !.next = next, !.last = last]
    BY ZenonT(60) DEF Advanced
  <1>2. \A i \in reached : i.sched = s /\ i.request = None => i \in regular
    BY ZenonT(60) DEF PassedOver
  <1>3. LastOK(s, base, reached, W, active, t)
    <2>1. CASE regular # {} /\ d.fire
      <3>1. PICK i \in regular : TRUE
        BY <2>1, ZenonT(60)
      <3>2. i \in reached /\ i.sched = s /\ i.request = None /\ ~PassedOver(i, W, active, t)
        BY <3>1, ZenonT(60)
      <3>3. i.at = schedule[s].next
        BY <3>2, NoneAssumption, ZenonT(60) DEF WorkOK
      <3>4. Fires(i, t)
        BY <2>1, <3>2, ZenonT(60) DEF Fires
      <3> QED  BY <2>1, <3>2, <3>3, <3>4, ZenonT(60) DEF LastOK
    <2>2. CASE ~(regular # {} /\ d.fire)
      BY <2>2, ZenonT(60) DEF LastOK
    <2> QED  BY <2>1, <2>2, ZenonT(60)
  <1>4. \A i \in picked : /\ i \in reached /\ i \in W /\ i.sched = s /\ i.at \in Int
                          /\ Fires(i, t) /\ ~PassedOver(i, W, active, t)
    BY ZenonT(60) DEF WorkOK, Fires
  <1>5. IsFiniteSet(forward) /\ forward \subseteq Int
    <2>1. IsFiniteSet(picked)
      BY FS_Subset, ZenonT(60)
    <2> HIDE DEF picked
    <2>2. later \subseteq Int
      BY <1>4, ZenonT(60)
    <2>3. IsFiniteSet(later)
      <3> DEFINE f == [i \in picked |-> i.at]
      <3>1. later = {f[i] : i \in picked}
        BY ZenonT(60)
      <3> HIDE DEF f, later
      <3> QED
        BY <2>1, <3>1, FiniteImage, ZenonT(60)
    <2> HIDE DEF later
    <2> QED
      BY <2>2, <2>3, FS_Subset, ZenonT(60)
  <1>6. LastOK(s, last, reached, W, active, t)
    <2>1. CASE forward = {}
      BY <1>3, <2>1, ZenonT(60)
    <2>2. CASE forward # {}
      <3>1. last \in forward
        <4> HIDE DEF forward
        <4> QED  BY <1>5, <2>2, GreatestInteger, ZenonT(60)
      <3>2. PICK i \in picked : i.at = last
        <4> HIDE DEF last, picked
        <4> QED  BY <3>1, ZenonT(60)
      <3> HIDE DEF picked, last
      <3> QED  BY <1>4, <3>2, ZenonT(60) DEF LastOK
    <2> QED  BY <2>1, <2>2, ZenonT(60)
  <1>7. /\ (\A i \in reached : i.sched = s => i.request # None) => next = schedule[s].next
        /\ (\E i \in reached : i.sched = s /\ i.request = None) => next = toMs(d.next)
    BY <1>2, ZenonT(60)
  <1> HIDE DEF next, last, row
  <1>8. /\ row.next = next /\ row.last = last /\ row.recover = schedule[s].recover
        /\ row.policy = schedule[s].policy /\ SameTiming(row, schedule[s])
    BY <1>1, SMTT(30) DEF ScheduleRow, SameTiming
  <1>9. AdvanceOK(s, row, reached, W, active, t)
    BY <1>6, <1>7, <1>8, ZenonT(60) DEF AdvanceOK
  <1> QED
    BY <1>9, ZenonT(60) DEF row

\* ... as the claim writes them.
LEMMA ClaimedSchedules ==
    ASSUME NEW b, NEW W, NEW active, NEW limit, NEW t, Parts(b, W, active, limit, t), BatchOK(b),
           NEW s \in b.locked
    PROVE  AdvanceOK(s, b.schedule[s], Reached(W, active, t, limit), W, active, t)
  <1> DEFINE reached == Reached(W, active, t, limit)
  <1>1. b.schedule[s] = Advanced(s, reached, W, active, t)
    BY ZenonT(60) DEF Parts
  <1>2. reached \in SUBSET W
    BY ZenonT(60) DEF Reached
  <1>3. /\ b.locked \in SUBSET Sched /\ WorkOK(W, b.locked) /\ IsFiniteSet(W)
        /\ schedule[s] \in ScheduleRow
    BY ZenonT(60) DEF Parts, BatchOK
  <1> HIDE DEF reached
  <1>4. AdvanceOK(s, Advanced(s, reached, W, active, t), reached, W, active, t)
    BY <1>2, <1>3, AdvancedFields, ZenonT(60)
  <1> QED
    BY <1>1, <1>4, ZenonT(60) DEF reached

\* The fire of an item, as journaled.
FiredRow(row, i, skipped, t) ==
    /\ row.sched = i.sched /\ row.at = i.at
    /\ row.status = IF skipped THEN "skipped" ELSE "running"
    /\ row.heartbeat = IF skipped THEN None ELSE unixMs(t)
    /\ row.kind = IF i.request = None THEN "regular" ELSE i.request.kind
    /\ row.source = IF i.request = None THEN None ELSE i.request.source

\* newRunRow takes the origin of the row from the item.
LEMMA FireRow ==
    ASSUME NEW i, NEW W, NEW active, NEW t
    PROVE  FiredRow(FireOf(i, W, active, t)[3], i, suppressed(i, W, active, t), t)
  <1> DEFINE row == newRunRow(i, W, active, t)
  <1>1. row.sched = i.sched /\ row.at = i.at
    BY ZenonT(60) DEF newRunRow, NoRun
  <1>4. row.status = IF suppressed(i, W, active, t) THEN "skipped" ELSE "running"
    BY ZenonT(60) DEF newRunRow, NoRun
  <1>5. row.heartbeat = IF suppressed(i, W, active, t) THEN None ELSE unixMs(t)
    BY ZenonT(60) DEF newRunRow, NoRun
  <1>6. row.kind = IF i.request = None THEN "regular" ELSE i.request.kind
    BY ZenonT(60) DEF newRunRow, NoRun
  <1>7. row.source = IF i.request = None THEN None ELSE i.request.source
    BY ZenonT(60) DEF newRunRow, NoRun
  <1>2. FireOf(i, W, active, t)[3] = row
    <2> HIDE DEF row
    <2>1. FireOf(i, W, active, t) = <<i, 1, row>>
      BY ZenonT(60) DEF FireOf, row
    <2> QED  BY <2>1, SMTT(30)
  <1> HIDE DEF row
  <1>3. FiredRow(row, i, suppressed(i, W, active, t), t)
    BY <1>1, <1>4, <1>5, <1>6, <1>7, ZenonT(60) DEF FiredRow
  <1> QED
    BY <1>2, <1>3, ZenonT(60)

\* Schedules are written by claims and by the manager only.
LEMMA QuietSteps ==
    ASSUME [Next]_vars, ~Manager,
           ~\E n \in Node, free \in SUBSET Sched, reported \in BOOLEAN : Claim(n, free, reported)
    PROVE  schedule' = schedule /\ created' = created
  <1>1. CASE Engine
    <2>1. \A n \in Node, free \in SUBSET Sched, reported \in BOOLEAN :
             sweepAbandoned(n, free, reported) => schedule' = schedule /\ created' = created
      BY ZenonT(60) DEF sweepAbandoned
    <2> QED  BY <1>1, <2>1, ZenonT(60) DEF Engine, renewHeartbeats, pruneSelect, pruneDelete
  <1>2. CASE Executor
    BY <1>2, ZenonT(60) DEF Executor, Track, Return, writeOutcome, findOutcome, giveUp, finish
  <1>3. CASE Lifecycle
    BY <1>3, ZenonT(60) DEF Lifecycle, Stop, stopRuns, stopHeartbeats, Stopped, Crash, Start, Enter
  <1>4. CASE Tick \/ UNCHANGED vars
    BY <1>4, ZenonT(60) DEF Tick, vars
  <1> QED
    BY <1>1, <1>2, <1>3, <1>4, ZenonT(60) DEF Next

-----------------------------------------------------------------------------
(***************************************************************************)
(* Where rows and requests come from.                                      *)
(***************************************************************************)

\* The runs R a step re-queues: running until then, of schedules that exist, and
\* all that were interrupted and recover.
Queues(R) ==
    /\ R \in SUBSET RunId
    /\ \A r \in R : Running(r) /\ schedule[run[r].sched] # None
    /\ \A r \in R : requeued'[r] = requeued[r] + 1
    /\ \A r \in RunId \ R : requeued'[r] = requeued[r]
    /\ \A q \in request' : q \in request \/ q.kind = "manual" \/ \E r \in R : q = RecoveryRequest(r)
    /\ \A r \in RunId : /\ Running(r) /\ run'[r].status \in {"abandoned", "canceled"}
                        /\ schedule[run[r].sched] # None /\ schedule[run[r].sched].recover
                        /\ fire[r].phase # "idle" => fire[r].recover
                        => r \in R

\* The history counts each of them once.
LEMMA CountedOnce ==
    ASSUME JournalInv, NEW R \in SUBSET RunId, requeued' = Requeued(R)
    PROVE  /\ \A r \in R : requeued'[r] = requeued[r] + 1
           /\ \A r \in RunId \ R : requeued'[r] = requeued[r]
  <1>1. \A r \in RunId : requeued[r] \in Nat
    BY ZenonT(60) DEF JournalInv, TypeOK
  <1>2. \A r \in RunId : requeued'[r] = requeued[r] + (IF r \in R THEN 1 ELSE 0)
    BY ZenonT(60) DEF Requeued
  <1> QED
    BY <1>1, <1>2, SMTT(30)

\* A claim re-queues the recoverable runs it took over.
LEMMA ClaimQueues ==
    ASSUME JournalInv, NEW n \in Node, NEW b, NEW id, NEW W, NEW active,
           BatchOK(b), Lands(b, id, n, W, active),
           request' = (request \cup b.queued) \ b.consumed,
           requeued' = Requeued(recoverable(b.abandoned))
    PROVE  Queues(recoverable(b.abandoned))
  <1> DEFINE R == recoverable(b.abandoned)
             marked == markAbandoned(b.abandoned, clock(n))
  <1>1. R \in SUBSET RunId /\ \A r \in R : Running(r) /\ schedule[run[r].sched] # None
    BY ZenonT(60) DEF BatchOK, recoverable
  <1>2. /\ \A r \in R : requeued'[r] = requeued[r] + 1
        /\ \A r \in RunId \ R : requeued'[r] = requeued[r]
    <2> HIDE DEF R
    <2> QED  BY <1>1, CountedOnce, ZenonT(60) DEF R
  <1>3. \A q \in request' : q \in request \/ \E r \in R : q = RecoveryRequest(r)
    BY ZenonT(60) DEF BatchOK
  <1>4. ASSUME NEW r \in RunId, Running(r), run'[r].status \in {"abandoned", "canceled"},
               schedule[run[r].sched] # None, schedule[run[r].sched].recover
        PROVE  r \in R
    <2>1. \A x \in b.rows : id[x] # r
      BY <1>4, ZenonT(60) DEF Lands, Running
    <2>2. run'[r] = marked[r]
      BY <2>1, ZenonT(60) DEF Lands
    <2>3. b.abandoned \in SUBSET RunId
      BY ZenonT(60) DEF BatchOK
    <2>4. r \notin b.abandoned => marked[r] = run[r]
      BY <2>3, AbandonedRows, ZenonT(60)
    <2> HIDE DEF marked
    <2>5. r \in b.abandoned
      BY <1>4, <2>2, <2>4, ZenonT(60) DEF Running
    <2> QED  BY <1>4, <2>5, ZenonT(60) DEF recoverable
  <1> HIDE DEF R
  <1>5. Queues(R)
    BY <1>1, <1>2, <1>3, <1>4, ZenonT(60) DEF Queues
  <1> QED
    BY <1>5, ZenonT(60) DEF R

\* The other steps re-queue too, and drop no request but those of a schedule
\* they delete.
LEMMA OtherQueues ==
    ASSUME JournalInv, [Next]_vars,
           ~\E n \in Node, free \in SUBSET Sched, reported \in BOOLEAN : Claim(n, free, reported)
    PROVE  \E R : /\ Queues(R)
                  /\ \A r \in R : RecoveryRequest(r) \in request'
                  /\ \A q \in request : q \in request' \/ schedule'[q.sched] = None
  <1>1. CASE \E n \in Node, free \in SUBSET Sched, reported \in BOOLEAN : sweepAbandoned(n, free, reported)
    <2>1. PICK n \in Node, free \in SUBSET Sched, reported \in BOOLEAN : sweepAbandoned(n, free, reported)
      BY <1>1, ZenonT(60)
    <2>2. PICK gone \in SUBSET RunId :
             \E R \in SUBSET gone :
               /\ \A r \in gone : Running(r)
               /\ R = recoverable(gone)
               /\ run' = markAbandoned(gone, clock(n))
               /\ request' = request \cup {RecoveryRequest(r) : r \in R}
               /\ requeued' = Requeued(R)
      BY <2>1, SweepRows, ZenonT(60)
    <2> DEFINE R == recoverable(gone)
    <2>3. /\ request' = request \cup {RecoveryRequest(r) : r \in R}
          /\ requeued' = Requeued(R)
          /\ run' = markAbandoned(gone, clock(n))
          /\ R \in SUBSET RunId
          /\ \A r \in R : Running(r) /\ schedule[run[r].sched] # None
      BY <2>2, ZenonT(60) DEF recoverable
    <2>4. ASSUME NEW r \in RunId, Running(r), run'[r].status \in {"abandoned", "canceled"},
                 schedule[run[r].sched] # None, schedule[run[r].sched].recover
          PROVE  r \in R
      <3>1. r \notin gone => run'[r] = run[r]
        BY <2>3, AbandonedRows, ZenonT(60)
      <3>2. r \in gone
        BY <2>4, <3>1, ZenonT(60) DEF Running
      <3> QED  BY <2>4, <3>2, ZenonT(60) DEF recoverable
    <2> HIDE DEF R
    <2>5. Queues(R)
      BY <2>3, <2>4, CountedOnce, ZenonT(60) DEF Queues
    <2> QED  BY <2>3, <2>5, ZenonT(60)
  <1>2. CASE \E q \in RunId, reported \in BOOLEAN : writeOutcome(q, reported)
    <2>1. PICK q \in RunId, reported \in BOOLEAN : writeOutcome(q, reported)
      BY <1>2, ZenonT(60)
    <2> DEFINE R == IF Requeues(q) THEN {q} ELSE {}
    <2>2. /\ request' = request \cup {RecoveryRequest(r) : r \in R}
          /\ requeued' = Requeued(R)
          /\ Running(q) /\ fire[q].phase = "returned"
          /\ run' = [run EXCEPT ![q].status = fire[q].outcome,
                                ![q].finished = FinishedAt(clock(fire[q].node))]
      BY <2>1, ZenonT(60) DEF writeOutcome
    <2>3. R \in SUBSET RunId /\ \A r \in R : Running(r) /\ schedule[run[r].sched] # None
      BY <2>2, ZenonT(60) DEF Requeues
    <2>4. ASSUME NEW r \in RunId, Running(r), run'[r].status \in {"abandoned", "canceled"},
                 schedule[run[r].sched] # None, fire[r].phase # "idle" => fire[r].recover
          PROVE  r \in R
      <3>1. run \in [RunId -> RunRow] /\ fire[q] \in Fire
        BY ZenonT(60) DEF JournalInv, TypeOK
      <3>2. r # q => run'[r] = run[r]
        BY <2>2, <3>1, ZenonT(60)
      <3>3. r = q
        BY <2>4, <3>2, ZenonT(60) DEF Running
      <3>4. run'[q].status = fire[q].outcome
        <4>1. run[q] \in RunRow
          BY <3>1, ZenonT(60)
        <4> QED  BY <2>2, <3>1, <4>1, SMTT(30) DEF RunRow
      <3>5. fire[q].outcome \in {None, "succeeded", "failed", "canceled"}
        BY <3>1, ZenonT(60) DEF Fire
      <3>6. None # "abandoned"
        BY NoneAssumption, ZenonT(60) DEF Terminal
      <3>7. fire[q].outcome = "canceled"
        BY <2>4, <3>3, <3>4, <3>5, <3>6, ZenonT(60)
      <3> QED  BY <2>2, <2>4, <3>3, <3>7, ZenonT(60) DEF Requeues
    <2> HIDE DEF R
    <2>5. Queues(R)
      BY <2>2, <2>3, <2>4, CountedOnce, ZenonT(60) DEF Queues
    <2> QED  BY <2>2, <2>5, ZenonT(60)
  <1>3. ASSUME requeued' = requeued,
               \A q \in request' : q \in request \/ q.kind = "manual",
               \A q \in request : q \in request' \/ schedule'[q.sched] = None,
               \A r \in RunId : Running(r) => run'[r].status \notin {"abandoned", "canceled"}
        PROVE  \E R : /\ Queues(R)
                      /\ \A r \in R : RecoveryRequest(r) \in request'
                      /\ \A q \in request : q \in request' \/ schedule'[q.sched] = None
    <2>1. Queues({})
      BY <1>3, ZenonT(60) DEF Queues
    <2> QED  BY <1>3, <2>1, ZenonT(60)
  <1>4. CASE Manager
    <2>1. PICK n \in Node, s \in Sched : Makes(n, s)
      BY <1>4, ManagerMakes, ZenonT(60)
    <2>2. run' = run /\ requeued' = requeued
      BY <1>4, ManagerWrites, ZenonT(60)
    <2>3. \A q \in request' : q \in request \/ q.kind = "manual"
      BY <2>1, ZenonT(60) DEF Makes
    <2>4. \A q \in request : q \in request' \/ schedule'[q.sched] = None
      BY <2>1, ZenonT(60) DEF Makes
    <2> QED  BY <1>3, <2>2, <2>3, <2>4, ZenonT(60) DEF Running
  <1>5. CASE requeued' = requeued /\ request' = request /\ run' = run
    BY <1>3, <1>5, ZenonT(60) DEF Running
  <1>6. CASE \E n \in Node : renewHeartbeats(n)
    <2>1. requeued' = requeued /\ request' = request
      BY <1>6, ZenonT(60) DEF renewHeartbeats
    <2>2. ASSUME NEW r \in RunId, Running(r) PROVE run'[r].status = "running"
      <3>1. run[r] \in RunRow
        BY ZenonT(60) DEF JournalInv, TypeOK
      <3>2. \A at : [run[r] EXCEPT !.heartbeat = at].status = run[r].status
        BY <3>1, ZenonT(60) DEF RunRow
      <3>3. run'[r] = run[r] \/ \E at : run'[r] = [run[r] EXCEPT !.heartbeat = at]
        BY <1>6, ZenonT(60) DEF renewHeartbeats
      <3> QED  BY <2>2, <3>2, <3>3, ZenonT(60) DEF Running
    <2> QED  BY <1>3, <2>1, <2>2, ZenonT(60)
  <1>7. CASE \E n \in Node : pruneDelete(n)
    <2>1. PICK n \in Node : pruneDelete(n)
      BY <1>7, ZenonT(60)
    <2>2. requeued' = requeued /\ request' = request
      BY <2>1, ZenonT(60) DEF pruneDelete
    <2>3. ASSUME NEW r \in RunId, Running(r) PROVE run'[r].status = "running"
      <3>1. r \notin doomed[n]
        BY <2>3, ZenonT(60) DEF JournalInv, DoomedTerminal, Running, Terminal
      <3> QED  BY <2>1, <2>3, <3>1, ZenonT(60) DEF pruneDelete, Running
    <2> QED  BY <1>3, <2>2, <2>3, ZenonT(60)
  <1> QED
    <2>1. CASE Engine
      BY <2>1, <1>1, <1>5, <1>6, <1>7, ZenonT(60) DEF Engine, pruneSelect
    <2>2. CASE Executor
      BY <2>2, <1>2, <1>5, ZenonT(60) DEF Executor, Track, Return, findOutcome, giveUp, finish
    <2>3. CASE Lifecycle \/ Tick
      BY <2>3, <1>5, ZenonT(60) DEF Lifecycle, Tick, Stop, stopRuns, stopHeartbeats, Stopped, Crash, Start, Enter
    <2>4. CASE UNCHANGED vars
      BY <2>4, <1>5, ZenonT(60) DEF vars
    <2> QED
      BY <1>4, <2>1, <2>2, <2>3, <2>4, ZenonT(60) DEF Next

\* What a claim makes of an unused id r: the fire of an item, or a missed
\* occurrence of one.
Begins(r, id, n, W, active) ==
    \E i \in Reached(W, active, clock(n), claimLimit(n)) :
        \/ /\ Fires(i, clock(n)) /\ ~PassedOver(i, W, active, clock(n))
           /\ r = id[FireOf(i, W, active, clock(n))]
           /\ FiredRow(run'[r], i, suppressed(i, W, active, clock(n)), clock(n))
        \/ run'[r].status = "missed" /\ run'[r].sched = i.sched

\* ... and nothing else.
LEMMA RowBegins ==
    ASSUME JournalInv, NEW n \in Node, NEW b, NEW id, NEW W, NEW active,
           BatchOK(b), Lands(b, id, n, W, active), NEW r \in RunId, run[r].status = "none"
    PROVE  run'[r] = run[r] \/ Begins(r, id, n, W, active)
  <1> DEFINE t == clock(n)
             marked == markAbandoned(b.abandoned, t)
  <1>1. CASE \A x \in b.rows : id[x] # r
    <2>1. run'[r] = marked[r]
      BY <1>1, ZenonT(60) DEF Lands
    <2>2. b.abandoned \in SUBSET RunId /\ r \notin b.abandoned
      BY ZenonT(60) DEF BatchOK, Running
    <2>3. marked[r] = run[r]
      BY <2>2, AbandonedRows, ZenonT(60)
    <2> QED  BY <2>1, <2>3, ZenonT(60)
  <1>2. CASE \E x \in b.rows : id[x] = r
    <2>1. PICK x \in b.rows : id[x] = r
      BY <1>2, ZenonT(60)
    <2>2. run'[r] = x[3] /\ Parts(b, W, active, claimLimit(n), t)
      BY <2>1, ZenonT(60) DEF Lands
    <2>3. FormOK(b, W, active, claimLimit(n), t)
      BY <2>2, RowForms, ZenonT(60)
    <2>4. PICK i \in Reached(W, active, t, claimLimit(n)) :
             \/ x = FireOf(i, W, active, t) /\ Fires(i, t) /\ ~PassedOver(i, W, active, t)
             \/ x = MissedOf(i, t) /\ i.request = None
      BY <2>3, ZenonT(60) DEF FormOK
    <2>5. CASE x = FireOf(i, W, active, t) /\ Fires(i, t) /\ ~PassedOver(i, W, active, t)
      <3>1. FiredRow(x[3], i, suppressed(i, W, active, t), t)
        BY <2>5, FireRow, ZenonT(60)
      <3>2. r = id[FireOf(i, W, active, t)] /\ FiredRow(run'[r], i, suppressed(i, W, active, t), t)
        BY <2>1, <2>2, <2>5, <3>1, ZenonT(60)
      <3> QED  BY <2>5, <3>2, ZenonT(60) DEF Begins
    <2>6. CASE x = MissedOf(i, t)
      <3>1. missedRow(i, t).status = "missed" /\ missedRow(i, t).sched = i.sched
        BY ZenonT(60) DEF missedRow, NoRun
      <3>2. x[3] = missedRow(i, t)
        BY <2>6, SMTT(30) DEF MissedOf
      <3>3. run'[r].status = "missed" /\ run'[r].sched = i.sched
        BY <2>2, <3>1, <3>2, ZenonT(60)
      <3> QED  BY <3>3, ZenonT(60) DEF Begins
    <2> QED  BY <2>4, <2>5, <2>6, ZenonT(60)
  <1> QED
    BY <1>1, <1>2, ZenonT(60)

\* A schedule id is used once: one that was deleted does not come back.
LEMMA SchedulesEnd ==
    ASSUME JournalInv, [Next]_vars, NEW s \in Sched
    PROVE  /\ s \in created => s \in created'
           /\ schedule'[s] # None => schedule[s] # None \/ (s \notin created /\ s \in created')
  <1>1. CASE \E n \in Node, free \in SUBSET Sched, reported \in BOOLEAN : Claim(n, free, reported)
    <2>1. PICK n \in Node, free \in SUBSET Sched, reported \in BOOLEAN : Claim(n, free, reported)
      BY <1>1, ZenonT(60)
    <2>2. PICK b, id, W, active : BatchOK(b) /\ Lands(b, id, n, W, active) /\ schedule' = b.schedule
      BY <2>1, ClaimLands, ZenonT(60)
    <2>3. created' = created
      BY <2>1, ZenonT(60) DEF Claim
    <2>6. Parts(b, W, active, claimLimit(n), clock(n))
      BY <2>2, ZenonT(60) DEF Lands
    <2>4. s \notin b.locked => schedule'[s] = schedule[s]
      BY <2>2, <2>6, ZenonT(60) DEF Parts
    <2>5. s \in b.locked => schedule[s] # None
      BY <2>2, NoneAssumption, ZenonT(60) DEF BatchOK
    <2> QED  BY <2>3, <2>4, <2>5, ZenonT(60)
  <1>2. CASE Manager
    <2>1. PICK n \in Node, u \in Sched : Makes(n, u)
      BY <1>2, ManagerMakes, ZenonT(60)
    <2>2. CASE u = s
      BY <2>1, <2>2, ZenonT(60) DEF Makes
    <2>3. CASE u # s
      BY <2>1, <2>3, ZenonT(60) DEF Makes
    <2> QED  BY <2>2, <2>3, ZenonT(60)
  <1>3. CASE ~Manager /\ ~\E n \in Node, free \in SUBSET Sched, reported \in BOOLEAN : Claim(n, free, reported)
    BY <1>3, QuietSteps, ZenonT(60)
  <1> QED
    BY <1>1, <1>2, <1>3, ZenonT(60)

\* A claim starts rows of existing schedules.
LEMMA BegunRows ==
    ASSUME JournalInv, [Next]_vars, NEW r \in RunId, run[r].status = "none"
    PROVE  \/ run'[r] = run[r]
           \/ run'[r].status \in {"running", "skipped", "missed"}
              /\ \E s \in Sched : run'[r].sched = s /\ schedule[s] # None
  <1>1. CASE \E n \in Node, free \in SUBSET Sched, reported \in BOOLEAN : Claim(n, free, reported)
    <2>1. PICK n \in Node, free \in SUBSET Sched, reported \in BOOLEAN : Claim(n, free, reported)
      BY <1>1, ZenonT(60)
    <2>2. PICK b, id, W, active : BatchOK(b) /\ Lands(b, id, n, W, active)
      BY <2>1, ClaimLands, ZenonT(60)
    <2>3. \A i \in Reached(W, active, clock(n), claimLimit(n)) :
             i.sched \in Sched /\ schedule[i.sched] # None
      <3>1. Parts(b, W, active, claimLimit(n), clock(n))
        BY <2>2, ZenonT(60) DEF Lands
      <3>2. WorkOK(W, b.locked) /\ b.locked \subseteq Sched
        BY <3>1, ZenonT(60) DEF Parts
      <3>3. \A i \in W : i.sched \in b.locked
        BY <3>2, ZenonT(60) DEF WorkOK
      <3>4. \A s \in b.locked : schedule[s] # None
        BY <2>2, NoneAssumption, ZenonT(60) DEF BatchOK
      <3> QED  BY <3>2, <3>3, <3>4, ZenonT(60) DEF Reached
    <2>4. CASE Begins(r, id, n, W, active)
      BY <2>3, <2>4, ZenonT(60) DEF Begins, FiredRow
    <2> QED  BY <2>2, <2>4, RowBegins, ZenonT(60)
  <1>2. CASE ~\E n \in Node, free \in SUBSET Sched, reported \in BOOLEAN : Claim(n, free, reported)
    <2>1. run[r].status \notin Terminal \cup {"running", "pruned"}
      BY ZenonT(60) DEF Terminal
    <2> QED  BY <1>2, <2>1, OtherRows, ZenonT(60)
  <1> QED
    BY <1>1, <1>2, ZenonT(60)

\* The source of a pending recovery is a run that ended.
LEMMA RecoverySource ==
    ASSUME JournalInv, NEW q \in request, q.kind = "recovery"
    PROVE  q.source \in RunId /\ run[q.source].status \in {"abandoned", "canceled", "pruned"}
  <1>1. q.source \in RunId /\ requeued[q.source] = 1
    BY ZenonT(60) DEF JournalInv, RequestsLinked, RequeuedOnce
  <1> QED
    BY <1>1, SMTT(30) DEF JournalInv, RequeuedOnce

\* Every step keeps the origins.
LEMMA StepKeepsOrigin == JournalInv /\ OriginInv /\ [Next]_vars => OriginInv'
  <1> SUFFICES ASSUME JournalInv, OriginInv, [Next]_vars PROVE OriginInv'
    OBVIOUS
  <1>1. ASSUME NEW r \in RunId, run'[r].status = "none" PROVE run'[r] = NoRun
    <2>0. [NoRun EXCEPT !.status = "pruned"].status = "pruned"
      BY ZenonT(60) DEF NoRun
    <2>1. CASE run[r].status = "none"
      <3>1. run'[r] = run[r]
        BY <1>1, <2>1, BegunRows, ZenonT(60)
      <3> QED  BY <2>1, <3>1, ZenonT(60) DEF OriginInv
    <2>2. CASE run[r].status # "none"
      <3>1. Continues(r)
        BY <2>2, RowsContinue, ZenonT(60)
      <3>2. run'[r] = run[r]
        BY <1>1, <2>0, <3>1, ZenonT(60) DEF Continues, Ended
      <3> QED  BY <1>1, <2>2, <3>2, ZenonT(60)
    <2> QED  BY <2>1, <2>2, ZenonT(60)
  <1>5. ASSUME NEW r \in RunId, run'[r].status = "pruned" PROVE run'[r].kind = None
    <2>1. [NoRun EXCEPT !.status = "pruned"].kind = None
      BY ZenonT(60) DEF NoRun
    <2>2. run[r].status # "none"
      BY <1>5, BegunRows, ZenonT(60)
    <2>3. Continues(r)
      BY <2>2, RowsContinue, ZenonT(60)
    <2> QED  BY <1>5, <2>1, <2>3, ZenonT(60) DEF Continues, Ended, OriginInv
  <1>2. ASSUME NEW s \in Sched, schedule'[s] # None PROVE s \in created'
    BY <1>2, SchedulesEnd, ZenonT(60) DEF OriginInv
  <1>3. ASSUME NEW r \in RunId, run'[r].status \notin {"none", "pruned"} PROVE run'[r].sched \in created'
    <2>0. created \subseteq Sched
      BY ZenonT(60) DEF JournalInv, TypeOK
    <2>1. run'[r].sched \in created
      <3>1. CASE run[r].status = "none"
        BY <1>3, <3>1, BegunRows, ZenonT(60) DEF OriginInv
      <3>2. CASE run[r].status # "none"
        <4>1. Continues(r)
          BY <3>2, RowsContinue, ZenonT(60)
        <4>2. [NoRun EXCEPT !.status = "pruned"].status = "pruned"
          BY ZenonT(60) DEF NoRun
        <4>3. run[r].status # "pruned" /\ run'[r].sched = run[r].sched
          BY <1>3, <4>1, <4>2, ZenonT(60) DEF Continues, SameOrigin
        <4> QED  BY <3>2, <4>3, ZenonT(60) DEF OriginInv
      <3> QED  BY <3>1, <3>2, ZenonT(60)
    <2> QED  BY <2>0, <2>1, SchedulesEnd, ZenonT(60)
  <1>4. ASSUME NEW q \in request', q.kind = "recovery", run'[q.source].status # "pruned"
        PROVE  q.sched = run'[q.source].sched
    <2>1. PICK R : Queues(R)
      <3>1. CASE \E n \in Node, free \in SUBSET Sched, reported \in BOOLEAN : Claim(n, free, reported)
        BY <3>1, ClaimLands, ClaimQueues, ZenonT(60)
      <3>2. CASE ~\E n \in Node, free \in SUBSET Sched, reported \in BOOLEAN : Claim(n, free, reported)
        BY <3>2, OtherQueues, ZenonT(60)
      <3> QED  BY <3>1, <3>2, ZenonT(60)
    <2>2. [NoRun EXCEPT !.status = "pruned"].status = "pruned"
      BY ZenonT(60) DEF NoRun
    <2>3. CASE q \in request
      <3>1. q.source \in RunId /\ run[q.source].status \in {"abandoned", "canceled", "pruned"}
        BY <1>4, <2>3, RecoverySource, ZenonT(60)
      <3>2. Continues(q.source)
        BY <3>1, RowsContinue, ZenonT(60)
      <3>3. run'[q.source] = run[q.source]
        BY <1>4, <2>2, <3>1, <3>2, ZenonT(60) DEF Continues
      <3> QED  BY <1>4, <2>3, <3>3, ZenonT(60) DEF OriginInv
    <2>4. CASE \E r \in R : q = RecoveryRequest(r)
      <3>1. PICK r \in R : q = RecoveryRequest(r)
        BY <2>4, ZenonT(60)
      <3>2. q.source = r /\ q.sched = run[r].sched
        BY <3>1, ZenonT(60) DEF RecoveryRequest
      <3>3. r \in RunId /\ run[r].status = "running"
        BY <2>1, ZenonT(60) DEF Queues, Running
      <3>4. Continues(r)
        BY <3>3, RowsContinue, ZenonT(60)
      <3>5. run'[r].sched = run[r].sched
        BY <3>3, <3>4, ZenonT(60) DEF Continues, SameOrigin, Terminal
      <3> QED  BY <3>2, <3>5, ZenonT(60)
    <2> QED  BY <1>4, <2>1, <2>3, <2>4, ZenonT(60) DEF Queues
  <1> QED
    BY <1>1, <1>2, <1>3, <1>4, <1>5, ZenonT(60) DEF OriginInv

\* A schedule keeps its policies through a step, or takes them from a spec.
LEMMA PoliciesKept ==
    ASSUME JournalInv, [Next]_vars, NEW s \in Sched, schedule'[s] # None
    PROVE  \/ /\ schedule[s] # None
              /\ schedule'[s].recover = schedule[s].recover
              /\ schedule'[s].policy = schedule[s].policy
           \/ \E spec \in Specs : Specified(schedule'[s], spec)
  <1>1. CASE \E n \in Node, free \in SUBSET Sched, reported \in BOOLEAN : Claim(n, free, reported)
    <2>1. PICK n \in Node, free \in SUBSET Sched, reported \in BOOLEAN : Claim(n, free, reported)
      BY <1>1, ZenonT(60)
    <2>2. PICK b, id, W, active : BatchOK(b) /\ Lands(b, id, n, W, active) /\ schedule' = b.schedule
      BY <2>1, ClaimLands, ZenonT(60)
    <2>3. Parts(b, W, active, claimLimit(n), clock(n))
      BY <2>2, ZenonT(60) DEF Lands
    <2>4. CASE s \notin b.locked
      <3>1. schedule'[s] = schedule[s]
        BY <2>2, <2>3, <2>4, ZenonT(60) DEF Parts
      <3> QED  BY <3>1, ZenonT(60)
    <2>5. CASE s \in b.locked
      <3>1. AdvanceOK(s, schedule'[s], Reached(W, active, clock(n), claimLimit(n)), W, active, clock(n))
        BY <2>2, <2>3, <2>5, ClaimedSchedules, ZenonT(60)
      <3>2. schedule'[s].recover = schedule[s].recover /\ schedule'[s].policy = schedule[s].policy
        BY <3>1, ZenonT(60) DEF AdvanceOK
      <3>3. schedule[s] # None
        BY <2>2, <2>5, NoneAssumption, ZenonT(60) DEF BatchOK
      <3> QED  BY <3>2, <3>3, ZenonT(60)
    <2> QED  BY <2>4, <2>5, ZenonT(60)
  <1>2. CASE Manager
    <2>1. PICK n \in Node, u \in Sched : Makes(n, u)
      BY <1>2, ManagerMakes, ZenonT(60)
    <2>2. CASE u = s
      BY <2>1, <2>2, ZenonT(60) DEF Makes
    <2>3. CASE u # s
      <3>1. schedule'[s] = schedule[s]
        BY <2>1, <2>3, ZenonT(60) DEF Makes
      <3> QED  BY <3>1, ZenonT(60)
    <2> QED  BY <2>2, <2>3, ZenonT(60)
  <1>3. CASE ~Manager /\ ~\E n \in Node, free \in SUBSET Sched, reported \in BOOLEAN : Claim(n, free, reported)
    <2>1. schedule' = schedule
      BY <1>3, QuietSteps, ZenonT(60)
    <2> QED  BY <2>1, ZenonT(60)
  <1> QED
    BY <1>1, <1>2, <1>3, ZenonT(60)

\* Rows and requests have the origins the properties below build on.
LEMMA OriginCorrect == Spec => []OriginInv
  <1>1. ASSUME Init PROVE OriginInv
    <2>1. \A r \in RunId : run[r] = NoRun
      BY <1>1, ZenonT(60) DEF Init
    <2>2. request = {} /\ \A s \in Sched : schedule[s] = None
      BY <1>1, ZenonT(60) DEF Init
    <2>3. NoRun.status = "none"
      BY ZenonT(60) DEF NoRun
    <2> QED  BY <2>1, <2>2, <2>3, ZenonT(60) DEF OriginInv
  <1> QED
    BY <1>1, StepKeepsOrigin, JournalCorrect, PTL DEF Spec
=============================================================================
