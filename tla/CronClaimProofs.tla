-------------------------- MODULE CronClaimProofs ---------------------------
(***************************************************************************)
(* What the operations of CronStore compute and keep of JournalInv, for any *)
(* nodes, schedules, specifications, limits and clocks: the steps that end a *)
(* run or leave the schedules alone, the trigger arithmetic, the manager,  *)
(* and the batch of a claim transaction.                                   *)
(***************************************************************************)
EXTENDS CronStore, NaturalsInduction, WellFoundedInduction, FiniteSetTheorems, TLAPS

\* Clocks and finish times.
LEMMA Clocks ==
    ASSUME TypeOK, NEW n \in Node
    PROVE  clock(n) \in Int /\ unixMs(clock(n)) \in Int /\ FinishedAt(clock(n)) \in Instant
  <1>1. clock(n) \in Int
    BY StoreAssumption DEF TypeOK, clock
  <1> QED
    BY <1>1, StoreAssumption, TriggerAssumption, SMTT(30) DEF FinishedAt, Instant, unixMs

\* A recovery request queued for a running row is well formed.
LEMMA RecoveryRequestTyped ==
    ASSUME JournalInv, NEW r \in RunId, Running(r)
    PROVE  RecoveryRequest(r) \in Request
  <1>1. run[r].sched \in Sched /\ run[r].at \in Int
    BY ZenonT(60) DEF JournalInv, RunLinked
  <1>2. MaxManual + r \in Nat
    BY StoreAssumption DEF RunId
  <1> QED
    BY <1>1, <1>2, ZenonT(60) DEF RecoveryRequest, Request

\* Request ids stay distinct when recoveries of running rows join them.
LEMMA DistinctIds ==
    ASSUME JournalInv, NEW R \in SUBSET RunId, \A r \in R : Running(r)
    PROVE  \A p, q \in request \cup {RecoveryRequest(r) : r \in R} : p.id = q.id => p = q
  <1> DEFINE queued == {RecoveryRequest(r) : r \in R}
  <1>1. \A r \in RunId : r \in Nat /\ r > 0
    BY DEF RunId
  <1>2. \A q \in queued : /\ q.source \in R /\ q.source \in Nat /\ q.source > 0
                          /\ q.id = MaxManual + q.source /\ q = RecoveryRequest(q.source)
    BY <1>1 DEF RecoveryRequest
  <1>3. \A q \in request : /\ q.kind \in {"manual", "recovery"}
                           /\ q.kind = "manual" => q.id \in 1..manual
                           /\ q.kind = "recovery" => /\ q.source \in RunId \ R
                                                     /\ q.id = MaxManual + q.source
    <2>1. request \subseteq Request /\ RequestsLinked
      BY ZenonT(60) DEF JournalInv, TypeOK
    <2>2. \A q \in request : q.kind = "recovery" => requeued[q.source] = 1
      BY ZenonT(60) DEF JournalInv, RequeuedOnce
    <2>3. \A r \in R : requeued[r] = 0
      BY ZenonT(60) DEF JournalInv, RunLinked, Running
    <2> QED
      BY <2>1, <2>2, <2>3 DEF Request, RequestsLinked
  <1>4. manual \in 0..MaxManual
    BY ZenonT(60) DEF JournalInv, TypeOK
  <1> HIDE DEF queued
  <1>5. \A p \in request, q \in queued : p.id # q.id
    <2>1. TAKE p \in request, q \in queued
    <2>2. CASE p.kind = "manual"
      BY <1>2, <1>3, <1>4, <2>2, StoreAssumption
    <2>3. CASE p.kind = "recovery"
      BY <1>1, <1>2, <1>3, <2>3, StoreAssumption, SMTT(30)
    <2> QED
      BY <1>3, <2>2, <2>3, ZenonT(60)
  <1>6. \A p, q \in queued : p.id = q.id => p = q
    <2>1. TAKE p \in queued, q \in queued
    <2>2. p.id = q.id => p.source = q.source
      BY <1>2, StoreAssumption
    <2> QED
      BY <1>2, <2>2, ZenonT(60)
  <1>7. \A p, q \in request : p.id = q.id => p = q
    BY ZenonT(60) DEF JournalInv
  <1>8. \A p, q \in request \cup queued : p.id = q.id => p = q
    BY <1>5, <1>6, <1>7, ZenonT(60)
  <1> QED
    BY <1>8, ZenonT(60) DEF queued

\* Re-queueing running rows of live schedules (a claim, a sweep, an outcome)
\* keeps what JournalInv says of requests.
LEMMA RequeueKeeps ==
    ASSUME JournalInv,
           NEW R \in SUBSET RunId,
           \A r \in R : Running(r) /\ schedule[run[r].sched] # None,
           request' \subseteq request \cup {RecoveryRequest(r) : r \in R},
           requeued' = Requeued(R),
           manual' = manual,
           run' \in [RunId -> RunRow],
           \A r \in R : run'[r].status \in {"abandoned", "canceled"},
           \A r \in RunId : requeued[r] > 0 => run'[r].status = run[r].status,
           \A s \in Sched : schedule[s] # None => schedule'[s] # None
    PROVE  /\ request' \subseteq Request
           /\ requeued' \in [RunId -> Nat]
           /\ RequestsLinked'
           /\ RequeuedOnce'
           /\ NoOrphanRequest'
           /\ \A p, q \in request' : p.id = q.id => p = q
  <1> DEFINE queued == {RecoveryRequest(r) : r \in R}
  <1>1. \A r \in R : RecoveryRequest(r) \in Request /\ requeued[r] = 0
    BY RecoveryRequestTyped, ZenonT(60) DEF JournalInv, RunLinked, Running
  <1>2. request \subseteq Request /\ requeued \in [RunId -> Nat] /\ manual \in 0..MaxManual
    BY ZenonT(60) DEF JournalInv, TypeOK
  <1>3. request' \subseteq Request
    BY <1>1, <1>2
  <1>4. /\ requeued' \in [RunId -> Nat]
        /\ \A r \in R : requeued'[r] = 1
        /\ \A r \in RunId \ R : requeued'[r] = requeued[r]
    BY <1>1, <1>2, SMTT(30) DEF Requeued
  <1>5. \A q \in queued : /\ q.kind = "recovery" /\ q.source \in R /\ q.id = MaxManual + q.source
                          /\ q = RecoveryRequest(q.source) /\ q.sched = run[q.source].sched
    BY DEF RecoveryRequest
  <1>6. \A q \in request : q.kind = "recovery" => q.source \in RunId \ R /\ q.id = MaxManual + q.source
    <2>1. \A q \in request : q.kind = "recovery" => q.source \in RunId /\ requeued[q.source] = 1
                                                    /\ q.id = MaxManual + q.source
      BY ZenonT(60) DEF JournalInv, RequestsLinked, RequeuedOnce
    <2> QED  BY <1>1, <2>1, SMTT(30)
  <1>7. \A q \in request : q.kind = "manual" => q.source = None /\ q.id \in 1..manual
    BY ZenonT(60) DEF JournalInv, RequestsLinked
  <1>8. \A q \in request : q.kind \in {"manual", "recovery"}
    BY <1>2, ZenonT(60) DEF Request
  <1> HIDE DEF queued
  <1>9. request' \subseteq request \cup queued
    BY ZenonT(60) DEF queued
  <1>10. RequestsLinked'
    BY <1>5, <1>6, <1>7, <1>8, <1>9, ZenonT(60) DEF RequestsLinked
  <1>11. None \notin RunId
    BY TriggerAssumption DEF RunId
  <1>12. \A p, q \in request' : p.source = q.source /\ p.source # None => p = q
    <2>1. \A p, q \in request : p.source = q.source /\ p.source # None => p = q
      BY ZenonT(60) DEF JournalInv, RequeuedOnce
    <2> QED
      BY <1>5, <1>6, <1>7, <1>8, <1>9, <2>1, SMTT(30)
  <1>13. \A r \in RunId : requeued'[r] <= 1
                          /\ (requeued'[r] > 0 => run'[r].status \in {"abandoned", "canceled", "pruned"})
    BY <1>4 DEF JournalInv, RequeuedOnce
  <1>14. \A q \in request' : q.kind = "recovery" => requeued'[q.source] = 1
    <2>1. \A q \in request : q.kind = "recovery" => requeued[q.source] = 1
      BY ZenonT(60) DEF JournalInv, RequeuedOnce
    <2> QED
      BY <1>4, <1>5, <1>6, <1>9, <2>1, ZenonT(60)
  <1>15. RequeuedOnce'
    BY <1>12, <1>13, <1>14, ZenonT(60) DEF RequeuedOnce
  <1>16. NoOrphanRequest'
    <2>1. \A q \in request : q.sched \in Sched /\ schedule[q.sched] # None
      BY <1>2, ZenonT(60) DEF JournalInv, NoOrphanRequest, Request
    <2>2. \A q \in queued : q.sched \in Sched /\ schedule[q.sched] # None
      BY <1>5, SMTT(30) DEF JournalInv, RunLinked
    <2> QED
      BY <1>9, <2>1, <2>2, ZenonT(60) DEF NoOrphanRequest
  <1>17. \A p, q \in request' : p.id = q.id => p = q
    BY <1>9, DistinctIds, ZenonT(60) DEF queued
  <1> QED
    BY <1>3, <1>4, <1>10, <1>15, <1>16, <1>17, ZenonT(60)

\* Two rows of the same schedule, occurrence and request.
SameOrigin(x, y) == x.sched = y.sched /\ x.at = y.at /\ x.kind = y.kind /\ x.source = y.source

\* The ends of a run that was running.
Ended == {"succeeded", "failed", "canceled", "abandoned"}

\* markAbandoned writes rows again, and only the given ones.
LEMMA AbandonedRows ==
    ASSUME JournalInv, NEW R \in SUBSET RunId, NEW n \in Node, NEW r \in RunId
    PROVE  /\ markAbandoned(R, clock(n))[r] \in RunRow
           /\ r \in R => markAbandoned(R, clock(n))[r].status = "abandoned"
           /\ SameOrigin(markAbandoned(R, clock(n))[r], run[r])
           /\ r \notin R => markAbandoned(R, clock(n))[r] = run[r]
  <1>1. FinishedAt(clock(n)) \in Instant
    BY Clocks, ZenonT(60) DEF JournalInv
  <1>2. run[r] \in RunRow
    BY ZenonT(60) DEF JournalInv, TypeOK
  <1>3. CASE r \in R
    <2>1. markAbandoned(R, clock(n))[r]
              = [run[r] EXCEPT !.status = "abandoned", !.finished = FinishedAt(clock(n))]
      BY <1>3, ZenonT(60) DEF markAbandoned
    <2> QED
      BY <1>1, <1>2, <1>3, <2>1, ZenonT(60) DEF RunRow, Terminal, SameOrigin
  <1>4. CASE r \notin R
    BY <1>2, <1>4, ZenonT(60) DEF markAbandoned, SameOrigin
  <1> QED
    BY <1>3, <1>4, ZenonT(60)

\* Announcing an event counts it for the given runs.
LEMMA Announced ==
    ASSUME TypeOK, NEW kind \in {"failed", "abandoned"}, NEW R \in SUBSET RunId
    PROVE  /\ Announce(kind, R) \in [RunId -> [failed : Nat, abandoned : Nat]]
           /\ \A r \in RunId \ R : Announce(kind, R)[r] = events[r]
           /\ \A r \in R : /\ kind = "failed" => Announce(kind, R)[r].failed = events[r].failed + 1
                                            /\ Announce(kind, R)[r].abandoned = events[r].abandoned
                           /\ kind = "abandoned" => Announce(kind, R)[r].abandoned = events[r].abandoned + 1
                                               /\ Announce(kind, R)[r].failed = events[r].failed
  BY SMTT(30) DEF TypeOK, Announce

\* A row a claim wrote, and the executor that may have been told of it.
Started(r) ==
    /\ run[r].status \in {"running", "skipped", "missed"}
    /\ run[r].status = "running" => run[r].sched \in Sched /\ run[r].at \in Int /\ run[r].heartbeat \in Int
    /\ \/ fire[r].phase = "idle"
       \/ fire[r].phase = "claimed" /\ fire[r].node \in Node

\* A step that takes over the running rows gone, re-queues the rows R of them
\* and writes new rows on the unused ids fresh: the claim, and with no new row
\* the sweep.
Takeover(gone, fresh, R) ==
    /\ \A r \in gone : Running(r) /\ run'[r].status = "abandoned"
    /\ \A r \in R : schedule[run[r].sched] # None
    /\ \A r \in fresh : run[r].status = "none" /\ Started(r)'
    /\ \A r \in RunId : r \notin gone /\ r \notin fresh => run'[r] = run[r]
    /\ \A r \in RunId : r \notin fresh => fire'[r] = fire[r]
    /\ run' \in [RunId -> RunRow]
    /\ fire' \in [RunId -> Fire]
    /\ schedule' \in [Sched -> ScheduleRow \cup {None}]
    /\ \A s \in Sched : schedule[s] # None => schedule'[s] # None
    /\ request' \subseteq request \cup {RecoveryRequest(r) : r \in R}
    /\ requeued' = Requeued(R)
    /\ events' = events \/ events' = Announce("abandoned", gone)
    /\ UNCHANGED <<now, created, manual, node, doomed>>

\* Such a step keeps the journal invariant.
LEMMA TakeoverKeeps ==
    ASSUME JournalInv,
           NEW gone \in SUBSET RunId, NEW fresh \in SUBSET RunId, NEW R \in SUBSET gone,
           Takeover(gone, fresh, R)
    PROVE  JournalInv'
  <1> USE DEF Takeover
  <1>1. \A r \in RunId : /\ r \in gone \/ r \in fresh =>
                              requeued[r] = 0 /\ events[r].failed = 0 /\ events[r].abandoned = 0
                         /\ r \in gone => run[r].status = "running" /\ r \notin fresh
                         /\ r \in fresh => run[r].status = "none" /\ fire[r].phase = "idle"
    BY ZenonT(60) DEF JournalInv, RunLinked, Running
  <1>2. /\ request' \subseteq Request
        /\ requeued' \in [RunId -> Nat]
        /\ RequestsLinked'
        /\ RequeuedOnce'
        /\ NoOrphanRequest'
        /\ \A p, q \in request' : p.id = q.id => p = q
    <2>1. \A r \in R : /\ Running(r) /\ schedule[run[r].sched] # None
                       /\ run'[r].status \in {"abandoned", "canceled"}
      BY ZenonT(60)
    <2>2. \A r \in RunId : requeued[r] > 0 => run'[r].status = run[r].status
      BY <1>1, SMTT(30)
    <2>3. R \in SUBSET RunId /\ manual' = manual
      BY ZenonT(60)
    <2> QED
      BY <2>1, <2>2, <2>3, RequeueKeeps, ZenonT(60)
  <1>3. /\ events' \in [RunId -> [failed : Nat, abandoned : Nat]]
        /\ \A r \in RunId : /\ r \notin gone => events'[r] = events[r]
                            /\ r \in gone => events'[r].failed = 0 /\ events'[r].abandoned \in {0, 1}
    <2>1. TypeOK /\ events \in [RunId -> [failed : Nat, abandoned : Nat]]
      BY ZenonT(60) DEF JournalInv, TypeOK
    <2>2. CASE events' = events
      BY <1>1, <2>1, <2>2, ZenonT(60)
    <2>3. CASE events' = Announce("abandoned", gone)
      BY <1>1, <2>1, <2>3, Announced, SMTT(30)
    <2> QED  BY <2>2, <2>3, ZenonT(60)
  <1>4. TypeOK'
    <2>1. now \in Nat /\ created \in SUBSET Sched /\ manual \in 0..MaxManual
          /\ node \in [Node -> {"up", "draining", "canceling", "released", "down"}]
          /\ doomed \in [Node -> SUBSET RunId]
      BY ZenonT(60) DEF JournalInv, TypeOK
    <2> QED  BY <1>2, <1>3, <2>1, ZenonT(60) DEF TypeOK
  <1>5. EventsMatchJournal'
    <2>1. ASSUME NEW r \in RunId
          PROVE  /\ events'[r].failed + events'[r].abandoned <= 1
                 /\ events'[r].failed > 0 => run'[r].status \in {"failed", "pruned"}
                 /\ events'[r].abandoned > 0 => run'[r].status \in {"abandoned", "pruned"}
      <3>1. CASE r \in gone
        BY <1>3, <3>1, SMTT(30)
      <3>2. CASE r \in fresh
        BY <1>1, <1>3, <3>2, SMTT(30)
      <3>3. CASE r \notin gone /\ r \notin fresh
        BY <1>3, <3>3, SMTT(30) DEF JournalInv, EventsMatchJournal
      <3> QED  BY <3>1, <3>2, <3>3, ZenonT(60)
    <2> QED  BY <2>1, ZenonT(60) DEF EventsMatchJournal
  <1>6. ASSUME NEW r \in RunId PROVE RunLinked(r)'
    <2>1. RunLinked(r) /\ requeued[r] \in Nat
          /\ fire[r].outcome \in {None, "succeeded", "failed", "canceled"}
      BY ZenonT(60) DEF JournalInv, TypeOK, Fire
    <2>2. r \notin gone => requeued'[r] = requeued[r]
      BY <2>1, SMTT(30) DEF Requeued
    <2>3. CASE r \in gone
      <3>1. fire'[r] = fire[r] /\ run[r].status = "running" /\ run'[r].status = "abandoned"
        BY <1>1, <2>3, ZenonT(60)
      <3> QED
        BY <1>3, <2>1, <2>3, <3>1, ZenonT(60) DEF RunLinked, Running
    <2>4. CASE r \in fresh
      <3>1. Started(r)' /\ requeued'[r] = 0 /\ events'[r].failed = 0 /\ events'[r].abandoned = 0
        BY <1>1, <1>3, <2>2, <2>4, SMTT(30)
      <3> QED
        BY <3>1, ZenonT(60) DEF Started, RunLinked, Running
    <2>5. CASE r \notin gone /\ r \notin fresh
      <3>1. run'[r] = run[r] /\ fire'[r] = fire[r] /\ events'[r] = events[r]
        BY <1>3, <2>5, ZenonT(60)
      <3> QED
        BY <2>1, <2>2, <2>5, <3>1, ZenonT(60) DEF RunLinked, Running
    <2> QED  BY <2>3, <2>4, <2>5, ZenonT(60)
  <1>7. DoomedTerminal'
    <2>1. ASSUME NEW m \in Node, NEW r \in doomed[m]
          PROVE  run'[r].status \in Terminal \cup {"pruned"}
      <3>1. r \in RunId /\ run[r].status \in Terminal \cup {"pruned"}
        BY ZenonT(60) DEF JournalInv, TypeOK, DoomedTerminal
      <3> QED  BY <1>1, <3>1, ZenonT(60) DEF Terminal
    <2> QED  BY <2>1, ZenonT(60) DEF DoomedTerminal
  <1> QED
    BY <1>2, <1>4, <1>5, <1>6, <1>7, ZenonT(60) DEF JournalInv

\* The sweep takes over stale running rows, with or without a schedule.
LEMMA SweepRows ==
    ASSUME NEW n \in Node, NEW free \in SUBSET Sched, NEW reported \in BOOLEAN,
           sweepAbandoned(n, free, reported)
    PROVE  \E gone \in SUBSET RunId : \E R \in SUBSET gone :
             /\ \A r \in gone : Running(r) /\ staleRunning(r, clock(n))
             /\ R = recoverable(gone)
             /\ \A r \in R : schedule[run[r].sched] # None
             /\ run' = markAbandoned(gone, clock(n))
             /\ request' = request \cup {RecoveryRequest(r) : r \in R}
             /\ requeued' = Requeued(R)
             /\ events' = events \/ events' = Announce("abandoned", gone)
  <1> DEFINE t == clock(n)
             held == {s \in free : schedule[s] # None /\ Stale({s}, t) # {}}
             S == FirstBy(held, [s \in held |-> 0], SweepBatch)
             orphans == Stale(S, t)
             scheduleless == FirstRuns({r \in RunId : staleRunning(r, t) /\ schedule[run[r].sched] = None},
                                       Max({SweepBatch - Cardinality(orphans), 0}))
  <1>1. /\ run' = markAbandoned(orphans \cup scheduleless, t)
        /\ request' = request \cup {RecoveryRequest(r) : r \in recoverable(orphans)}
        /\ requeued' = Requeued(recoverable(orphans))
        /\ events' = IF reported THEN Announce("abandoned", orphans \cup scheduleless) ELSE events
    BY ZenonT(60) DEF sweepAbandoned
  <1>2. scheduleless \subseteq RunId /\ \A r \in scheduleless : staleRunning(r, t)
    BY ZenonT(60) DEF FirstRuns
  <1>3. orphans \subseteq RunId /\ \A r \in orphans : staleRunning(r, t)
    BY ZenonT(60) DEF Stale
  <1>9. \A r : staleRunning(r, t) => Running(r)
    BY ZenonT(60) DEF staleRunning
  <1>4. recoverable(orphans) \subseteq orphans /\ \A r \in recoverable(orphans) : schedule[run[r].sched] # None
    BY ZenonT(60) DEF recoverable
  <1>8. recoverable(orphans) = recoverable(orphans \cup scheduleless)
    <2>1. \A r \in scheduleless : schedule[run[r].sched] = None
      BY ZenonT(60) DEF FirstRuns
    <2> HIDE DEF orphans, scheduleless
    <2> QED  BY <2>1, ZenonT(60) DEF recoverable
  <1> HIDE DEF orphans, scheduleless
  <1> DEFINE gone == orphans \cup scheduleless
             R == recoverable(orphans)
  <1>5. /\ gone \in SUBSET RunId /\ R \in SUBSET gone
        /\ \A r \in gone : Running(r) /\ staleRunning(r, t)
        /\ \A r \in R : schedule[run[r].sched] # None
    BY <1>2, <1>3, <1>4, <1>9, ZenonT(60)
  <1>6. events' = events \/ events' = Announce("abandoned", gone)
    BY <1>1, ZenonT(60)
  <1> HIDE DEF gone, R
  <1>7. run' = markAbandoned(gone, t) /\ requeued' = Requeued(R)
        /\ request' = request \cup {RecoveryRequest(r) : r \in R}
        /\ R = recoverable(gone)
    BY <1>1, <1>8, ZenonT(60) DEF gone, R
  <1> QED
    BY <1>5, <1>6, <1>7, ZenonT(60)

\* ... and keeps the journal invariant.
LEMMA SweepKeeps ==
    ASSUME JournalInv, NEW n \in Node, NEW free \in SUBSET Sched, NEW reported \in BOOLEAN,
           sweepAbandoned(n, free, reported)
    PROVE  JournalInv'
  <1>1. PICK gone \in SUBSET RunId :
             \E R \in SUBSET gone :
               /\ \A r \in gone : Running(r)
               /\ \A r \in R : schedule[run[r].sched] # None
               /\ run' = markAbandoned(gone, clock(n))
               /\ request' = request \cup {RecoveryRequest(r) : r \in R}
               /\ requeued' = Requeued(R)
               /\ events' = events \/ events' = Announce("abandoned", gone)
    BY SweepRows, ZenonT(60)
  <1>2. UNCHANGED <<now, schedule, created, manual, node, fire, doomed>>
    BY ZenonT(60) DEF sweepAbandoned
  <1>3. \A r \in RunId : /\ run'[r] \in RunRow
                         /\ r \in gone => run'[r].status = "abandoned"
                         /\ r \notin gone => run'[r] = run[r]
    BY <1>1, AbandonedRows
  <1>4. run' \in [RunId -> RunRow]
    BY <1>1, <1>3, ZenonT(60) DEF markAbandoned
  <1>5. fire' \in [RunId -> Fire] /\ schedule' \in [Sched -> ScheduleRow \cup {None}]
    BY <1>2, ZenonT(60) DEF JournalInv, TypeOK
  <1>6. PICK R \in SUBSET gone :
               /\ \A r \in R : schedule[run[r].sched] # None
               /\ request' = request \cup {RecoveryRequest(r) : r \in R}
               /\ requeued' = Requeued(R)
               /\ events' = events \/ events' = Announce("abandoned", gone)
    BY <1>1, ZenonT(60)
  <1> DEFINE fresh == {}
  <1>7. /\ fresh \in SUBSET RunId
        /\ \A r \in fresh : run[r].status = "none" /\ Started(r)'
        /\ \A r \in gone : Running(r) /\ run'[r].status = "abandoned"
        /\ \A r \in RunId : r \notin gone /\ r \notin fresh => run'[r] = run[r]
        /\ \A r \in RunId : r \notin fresh => fire'[r] = fire[r]
        /\ \A s \in Sched : schedule[s] # None => schedule'[s] # None
    BY <1>1, <1>2, <1>3, ZenonT(60)
  <1>8. request' \subseteq request \cup {RecoveryRequest(r) : r \in R}
    BY <1>6, ZenonT(60)
  <1>9. UNCHANGED <<now, created, manual, node, doomed>>
    BY <1>2, ZenonT(60)
  <1> HIDE DEF fresh
  <1>10. Takeover(gone, fresh, R)
    BY <1>4, <1>5, <1>6, <1>7, <1>8, <1>9, ZenonT(60) DEF Takeover
  <1> QED
    BY <1>7, <1>10, TakeoverKeeps, ZenonT(60)

\* The outcome of a run still running: the row, its recovery request and the
\* executor move together.
LEMMA OutcomeKeeps ==
    ASSUME JournalInv, NEW r \in RunId, NEW reported \in BOOLEAN, writeOutcome(r, reported)
    PROVE  JournalInv'
  <1> DEFINE again == IF Requeues(r) THEN {r} ELSE {}
  <1>1. /\ run \in [RunId -> RunRow] /\ fire \in [RunId -> Fire] /\ doomed \in [Node -> SUBSET RunId]
        /\ events \in [RunId -> [failed : Nat, abandoned : Nat]]
        /\ RunLinked(r)
    BY ZenonT(60) DEF JournalInv, TypeOK
  <1>2. UNCHANGED <<now, schedule, created, manual, node, doomed, events>>
    BY ZenonT(60) DEF writeOutcome
  <1>3. /\ fire[r].phase = "returned" /\ Running(r)
        /\ run' = [run EXCEPT ![r].status = fire[r].outcome,
                              ![r].finished = FinishedAt(clock(fire[r].node))]
        /\ fire' = IF reported THEN [fire EXCEPT ![r].phase = "journaled"] ELSE fire
    BY ZenonT(60) DEF writeOutcome
  <1>4. request' = request \cup {RecoveryRequest(q) : q \in again} /\ requeued' = Requeued(again)
    BY ZenonT(60) DEF writeOutcome
  <1>5. fire[r].outcome \in {"succeeded", "failed", "canceled"} /\ fire[r].node \in Node
    BY <1>1, <1>3, ZenonT(60) DEF RunLinked, Fire
  <1>6. FinishedAt(clock(fire[r].node)) \in Instant
    BY <1>5, Clocks, ZenonT(60) DEF JournalInv
  <1>7. /\ run' \in [RunId -> RunRow]
        /\ run'[r].status = fire[r].outcome
        /\ \A q \in RunId \ {r} : run'[q] = run[q]
    <2> DEFINE row == [run[r] EXCEPT !.status = fire[r].outcome,
                                     !.finished = FinishedAt(clock(fire[r].node))]
    <2>1. row \in RunRow /\ row.status = fire[r].outcome
      <3>1. \A o \in Terminal, at \in Instant, x \in RunRow :
               /\ [x EXCEPT !.status = o, !.finished = at] \in RunRow
               /\ [x EXCEPT !.status = o, !.finished = at].status = o
        BY ZenonT(60) DEF RunRow
      <3>2. fire[r].outcome \in Terminal /\ run[r] \in RunRow
        BY <1>1, <1>5, ZenonT(60) DEF Terminal
      <3> QED  BY <1>6, <3>1, <3>2, ZenonT(60)
    <2>2. run' = [run EXCEPT ![r] = row]
      BY <1>1, <1>3, ZenonT(60)
    <2> HIDE DEF row
    <2> QED
      BY <1>1, <2>1, <2>2, ZenonT(60)
  <1>8. /\ fire' \in [RunId -> Fire]
        /\ \A q \in RunId \ {r} : fire'[q] = fire[q]
        /\ fire'[r].phase \in {"returned", "journaled"}
        /\ fire'[r].outcome = fire[r].outcome /\ fire'[r].node = fire[r].node
    <2>1. CASE reported
      <3>1. [fire[r] EXCEPT !.phase = "journaled"] \in Fire
        BY <1>1, ZenonT(60) DEF Fire
      <3> QED  BY <1>1, <1>3, <2>1, <3>1, ZenonT(60) DEF Fire
    <2>2. CASE ~reported
      BY <1>1, <1>3, <2>2, ZenonT(60)
    <2> QED  BY <2>1, <2>2, ZenonT(60)
  <1>9. /\ request' \subseteq Request
        /\ requeued' \in [RunId -> Nat]
        /\ RequestsLinked'
        /\ RequeuedOnce'
        /\ NoOrphanRequest'
        /\ \A p, q \in request' : p.id = q.id => p = q
    <2>1. again \in SUBSET RunId
      OBVIOUS
    <2>2. \A q \in again : Running(q) /\ schedule[run[q].sched] # None
                           /\ run'[q].status \in {"abandoned", "canceled"}
      BY <1>3, <1>7, ZenonT(60) DEF Requeues
    <2>3. \A q \in RunId : requeued[q] > 0 => run'[q].status = run[q].status
      BY <1>1, <1>3, <1>7 DEF RunLinked, Running
    <2>4. manual' = manual /\ \A s \in Sched : schedule[s] # None => schedule'[s] # None
      BY <1>2, ZenonT(60)
    <2>5. request' \subseteq request \cup {RecoveryRequest(q) : q \in again}
      BY <1>4, ZenonT(60)
    <2> HIDE DEF again
    <2> QED
      BY <1>4, <1>7, <2>1, <2>2, <2>3, <2>4, <2>5, RequeueKeeps, ZenonT(60)
  <1>10. TypeOK'
    BY <1>1, <1>2, <1>7, <1>8, <1>9, ZenonT(60) DEF JournalInv, TypeOK
  <1>11. events[r].failed = 0 /\ events[r].abandoned = 0
    BY <1>1, <1>3, ZenonT(60) DEF RunLinked, Running
  <1>12. EventsMatchJournal'
    BY <1>2, <1>7, <1>11, SMTT(30) DEF JournalInv, EventsMatchJournal
  <1>13. \A q \in RunId : RunLinked(q)'
    <2>1. TAKE q \in RunId
    <2>2. RunLinked(q) /\ requeued[q] \in Nat
      BY ZenonT(60) DEF JournalInv, TypeOK
    <2>3. CASE q = r
      BY <1>2, <1>5, <1>7, <1>8, <1>11, <2>2, <2>3, NoneAssumption, ZenonT(60) DEF RunLinked, Running, Terminal
    <2>4. CASE q # r
      <3>1. requeued'[q] = requeued[q]
        BY <1>4, <2>2, <2>4, SMTT(30) DEF Requeued
      <3> QED
        BY <1>2, <1>7, <1>8, <2>2, <2>4, <3>1, ZenonT(60) DEF RunLinked, Running
    <2> QED  BY <2>3, <2>4, ZenonT(60)
  <1>14. DoomedTerminal'
    BY <1>1, <1>2, <1>5, <1>7, ZenonT(60) DEF JournalInv, DoomedTerminal, Terminal
  <1> QED
    BY <1>9, <1>10, <1>12, <1>13, <1>14, ZenonT(60) DEF JournalInv

\* The manager writes one schedule and perhaps its requests, nothing else.
LEMMA ManagerWrites ==
    ASSUME Manager
    PROVE  UNCHANGED <<now, run, node, fire, doomed, requeued, events>>
  <1>1. PICK n \in Node, s \in Sched :
           \/ \E spec \in Specs : Create(n, s, spec) \/ Update(n, s, spec)
           \/ Delete(n, s) \/ Pause(n, s) \/ Resume(n, s) \/ TriggerNow(n, s)
    BY ZenonT(60) DEF Manager
  <1>2. ASSUME NEW row, Manage(n, s, row)
        PROVE  UNCHANGED <<now, run, node, fire, doomed, requeued, events>>
    BY <1>2, ZenonT(60) DEF Manage
  <1>3. CASE \E spec \in Specs : Create(n, s, spec)
    BY <1>2, <1>3, ZenonT(60) DEF Create
  <1>4. CASE \E spec \in Specs : Update(n, s, spec)
    BY <1>2, <1>4, ZenonT(60) DEF Update
  <1>5. CASE Delete(n, s) \/ Pause(n, s)
    BY <1>2, <1>5, ZenonT(60) DEF Delete, Pause
  <1>6. CASE Resume(n, s) \/ TriggerNow(n, s)
    BY <1>2, <1>6, ZenonT(60) DEF Resume, TriggerNow
  <1> QED
    BY <1>1, <1>3, <1>4, <1>5, <1>6, ZenonT(60)

\* Every other step changes rows only to end running ones, to renew them or to
\* prune terminal ones.
LEMMA OtherRows ==
    ASSUME JournalInv, NEW r \in RunId, [Next]_vars,
           ~\E n \in Node, free \in SUBSET Sched, reported \in BOOLEAN : Claim(n, free, reported)
    PROVE  \/ run'[r] = run[r]
           \/ /\ run[r].status = "running" /\ run'[r].status \in Ended \cup {"running"}
              /\ SameOrigin(run'[r], run[r])
           \/ run[r].status \in Terminal \cup {"pruned"} /\ run'[r] = [NoRun EXCEPT !.status = "pruned"]
  <1>1. run \in [RunId -> RunRow]
    BY ZenonT(60) DEF JournalInv, TypeOK
  <1>2. CASE \E n \in Node, free \in SUBSET Sched, reported \in BOOLEAN : sweepAbandoned(n, free, reported)
    <2>1. PICK n \in Node, free \in SUBSET Sched, reported \in BOOLEAN : sweepAbandoned(n, free, reported)
      BY <1>2, ZenonT(60)
    <2>2. PICK gone \in SUBSET RunId : /\ \A q \in gone : Running(q)
                                       /\ run' = markAbandoned(gone, clock(n))
      BY <2>1, SweepRows, ZenonT(60)
    <2>3. /\ r \in gone => run'[r].status = "abandoned"
          /\ SameOrigin(run'[r], run[r])
          /\ r \notin gone => run'[r] = run[r]
      BY <2>2, AbandonedRows, ZenonT(60)
    <2> QED
      BY <2>2, <2>3, ZenonT(60) DEF Ended, Running
  <1>3. CASE \E n \in Node : renewHeartbeats(n)
    <2>1. PICK n \in Node : renewHeartbeats(n)
      BY <1>3, ZenonT(60)
    <2> DEFINE ids == {q \in Holds(n) : fire[q].phase # "claimed" /\ Running(q)}
    <2>2. run'[r] = IF r \in ids THEN [run[r] EXCEPT !.heartbeat = unixMs(clock(n))] ELSE run[r]
      BY <2>1, ZenonT(60) DEF renewHeartbeats
    <2>3. r \in ids => run[r].status = "running"
      BY ZenonT(60) DEF Running
    <2> HIDE DEF ids
    <2> QED
      BY <1>1, <2>2, <2>3, ZenonT(60) DEF RunRow, SameOrigin
  <1>4. CASE \E q \in RunId, reported \in BOOLEAN : writeOutcome(q, reported)
    <2>1. PICK q \in RunId, reported \in BOOLEAN : writeOutcome(q, reported)
      BY <1>4, ZenonT(60)
    <2>2. fire[q].outcome \in {"succeeded", "failed", "canceled"}
      BY <2>1, ZenonT(60) DEF writeOutcome, JournalInv, RunLinked, TypeOK, Fire
    <2>3. run[q].status = "running"
      BY <2>1, ZenonT(60) DEF writeOutcome, Running
    <2>4. run' = [run EXCEPT ![q].status = fire[q].outcome,
                             ![q].finished = FinishedAt(clock(fire[q].node))]
      BY <2>1, ZenonT(60) DEF writeOutcome
    <2>5. CASE q # r
      BY <1>1, <2>4, <2>5, ZenonT(60)
    <2>6. CASE q = r
      <3>1. run'[r] = [run[r] EXCEPT !.status = fire[r].outcome,
                                     !.finished = FinishedAt(clock(fire[r].node))]
        BY <1>1, <2>4, <2>6, ZenonT(60)
      <3>2. run'[r].status = fire[r].outcome /\ SameOrigin(run'[r], run[r])
        BY <1>1, <3>1 DEF RunRow, SameOrigin
      <3> QED  BY <2>2, <2>3, <2>6, <3>2, ZenonT(60) DEF Ended
    <2> QED  BY <2>5, <2>6, ZenonT(60)
  <1>5. CASE \E n \in Node : pruneDelete(n)
    <2>1. PICK n \in Node : pruneDelete(n)
      BY <1>5, ZenonT(60)
    <2>2. run'[r] = IF r \in doomed[n] THEN [NoRun EXCEPT !.status = "pruned"] ELSE run[r]
      BY <2>1, ZenonT(60) DEF pruneDelete
    <2>3. r \in doomed[n] => run[r].status \in Terminal \cup {"pruned"}
      BY ZenonT(60) DEF JournalInv, DoomedTerminal
    <2> QED
      BY <2>2, <2>3, ZenonT(60)
  <1>6. CASE run' = run
    BY <1>6, ZenonT(60)
  <1> QED
    <2>1. CASE Engine
      BY <2>1, <1>2, <1>3, <1>5, <1>6, ZenonT(60) DEF Engine, pruneSelect
    <2>2. CASE Executor
      BY <2>2, <1>4, <1>6, ZenonT(60) DEF Executor, Track, Return, findOutcome, giveUp, finish
    <2>3. CASE Manager
      BY <1>6, <2>3, ManagerWrites, ZenonT(60)
    <2>4. CASE Lifecycle \/ Tick
      BY <2>4, <1>6, ZenonT(60) DEF Lifecycle, Tick, Stop, stopRuns, stopHeartbeats, Stopped, Crash, Start, Enter
    <2>5. CASE UNCHANGED vars
      BY <2>5, <1>6, ZenonT(60) DEF vars
    <2> QED
      BY <2>1, <2>2, <2>3, <2>4, <2>5, ZenonT(60) DEF Next

\* A step that leaves the tables and their history alone, and only forgets or
\* advances what executors hold, keeps the journal invariant.
LEMMA MemoryStepKeeps ==
    ASSUME JournalInv,
           UNCHANGED <<schedule, created, run, request, manual, requeued, events>>,
           now' \in Nat,
           node' \in [Node -> {"up", "draining", "canceling", "released", "down"}],
           fire' \in [RunId -> Fire],
           doomed' \in [Node -> SUBSET RunId],
           \A r \in RunId : fire'[r] = fire[r] \/ fire'[r].phase = "idle" \/ RunLinked(r)',
           DoomedTerminal'
    PROVE  JournalInv'
  <1>1. TypeOK'
    BY ZenonT(60) DEF JournalInv, TypeOK
  <1>2. EventsMatchJournal' /\ RequeuedOnce' /\ NoOrphanRequest'
    BY ZenonT(60) DEF JournalInv, EventsMatchJournal, RequeuedOnce, NoOrphanRequest
  <1>3. RequestsLinked' /\ \A p, q \in request' : p.id = q.id => p = q
    BY ZenonT(60) DEF JournalInv, RequestsLinked
  <1>4. ASSUME NEW r \in RunId PROVE RunLinked(r)'
    <2>1. RunLinked(r)
      BY ZenonT(60) DEF JournalInv
    <2>2. CASE fire'[r] = fire[r] \/ fire'[r].phase = "idle"
      BY <2>1, <2>2, ZenonT(60) DEF RunLinked, Running
    <2> QED
      BY <2>2, ZenonT(60)
  <1> QED
    BY <1>1, <1>2, <1>3, <1>4, ZenonT(60) DEF JournalInv

\* One fire moves to another phase, or is dropped.
LEMMA FireStepKeeps ==
    ASSUME JournalInv, NEW r \in RunId, NEW f \in Fire,
           fire' = [fire EXCEPT ![r] = f],
           UNCHANGED <<now, schedule, created, run, request, manual, node, doomed, requeued, events>>,
           f.phase = "idle" \/ RunLinked(r)'
    PROVE  JournalInv'
  <1>1. fire \in [RunId -> Fire]
    BY ZenonT(60) DEF JournalInv, TypeOK
  <1>2. /\ fire' \in [RunId -> Fire]
        /\ fire'[r] = f
        /\ \A q \in RunId \ {r} : fire'[q] = fire[q]
    BY <1>1, ZenonT(60)
  <1>3. /\ now' \in Nat
        /\ node' \in [Node -> {"up", "draining", "canceling", "released", "down"}]
        /\ doomed' \in [Node -> SUBSET RunId]
        /\ DoomedTerminal'
    BY ZenonT(60) DEF JournalInv, TypeOK, DoomedTerminal
  <1>4. \A q \in RunId : fire'[q] = fire[q] \/ fire'[q].phase = "idle" \/ RunLinked(q)'
    BY <1>2, ZenonT(60)
  <1> QED
    BY <1>2, <1>3, <1>4, MemoryStepKeeps, ZenonT(60)

\* The steps of an executor that write nothing to the database.
LEMMA ExecutorKeeps ==
    ASSUME JournalInv, NEW r \in RunId,
           Track(r) \/ Return(r) \/ findOutcome(r) \/ giveUp(r)
    PROVE  JournalInv'
  <1>1. fire[r] \in Fire /\ RunLinked(r) /\ run[r] \in RunRow /\ fire \in [RunId -> Fire]
    BY ZenonT(60) DEF JournalInv, TypeOK
  <1>2. Idle \in Fire /\ Idle.phase = "idle"
    BY ZenonT(60) DEF Idle, Fire
  <1>3. CASE Track(r)
    <2> DEFINE f == [fire[r] EXCEPT !.phase = "tracked"]
    <2>1. f \in Fire /\ f.phase = "tracked" /\ f.node = fire[r].node /\ fire[r].phase = "claimed"
      BY <1>1, <1>3, ZenonT(60) DEF Track, Fire
    <2>2. fire' = [fire EXCEPT ![r] = f] /\ fire'[r] = f
      BY <1>1, <1>3, ZenonT(60) DEF Track
    <2>3. UNCHANGED <<now, schedule, created, run, request, manual, node, doomed, requeued, events>>
      BY <1>3, ZenonT(60) DEF Track
    <2> HIDE DEF f
    <2>4. RunLinked(r)'
      BY <1>1, <2>1, <2>2, <2>3, ZenonT(60) DEF RunLinked, Running
    <2> QED
      BY <2>1, <2>2, <2>3, <2>4, FireStepKeeps, ZenonT(60)
  <1>4. CASE Return(r)
    <2>1. PICK o \in Outcomes(fire[r].node) :
              fire' = [fire EXCEPT ![r].phase = "returned", ![r].outcome = o]
      BY <1>4, ZenonT(60) DEF Return
    <2> DEFINE f == [fire[r] EXCEPT !.phase = "returned", !.outcome = o]
    <2>2. o \in {"succeeded", "failed", "canceled"} /\ o # None
      BY NoneAssumption, ZenonT(60) DEF Outcomes, Terminal
    <2>3. f \in Fire /\ f.phase = "returned" /\ f.node = fire[r].node /\ f.outcome = o
          /\ fire[r].phase = "tracked"
      BY <1>1, <1>4, <2>2, ZenonT(60) DEF Return, Fire
    <2>4. fire' = [fire EXCEPT ![r] = f] /\ fire'[r] = f
      BY <1>1, <2>1, ZenonT(60)
    <2>5. UNCHANGED <<now, schedule, created, run, request, manual, node, doomed, requeued, events>>
      BY <1>4, ZenonT(60) DEF Return
    <2> HIDE DEF f
    <2>6. RunLinked(r)'
      BY <1>1, <2>2, <2>3, <2>4, <2>5, ZenonT(60) DEF RunLinked, Running
    <2> QED
      BY <2>3, <2>4, <2>5, <2>6, FireStepKeeps, ZenonT(60)
  <1>5. CASE findOutcome(r)
    <2>1. UNCHANGED <<now, schedule, created, run, request, manual, node, doomed, requeued, events>>
          /\ fire[r].phase = "returned"
      BY <1>5, ZenonT(60) DEF findOutcome
    <2>2. CASE outcomeAlreadyLanded(r)
      <3> DEFINE f == [fire[r] EXCEPT !.phase = "journaled"]
      <3>1. f \in Fire /\ f.phase = "journaled" /\ f.node = fire[r].node /\ f.outcome = fire[r].outcome
        BY <1>1, ZenonT(60) DEF Fire
      <3>2. fire' = [fire EXCEPT ![r] = f] /\ fire'[r] = f
        BY <1>1, <1>5, <2>2, ZenonT(60) DEF findOutcome
      <3> HIDE DEF f
      <3>3. run[r].status \in {"succeeded", "failed", "canceled"}
        BY <1>1, <2>1, <2>2, ZenonT(60) DEF outcomeAlreadyLanded, Fire, RunLinked
      <3>4. events[r].abandoned = 0
        <4>1. events[r].abandoned \in Nat
          BY ZenonT(60) DEF JournalInv, TypeOK
        <4>2. events[r].abandoned > 0 => run[r].status \in {"abandoned", "pruned"}
          BY ZenonT(60) DEF JournalInv, EventsMatchJournal
        <4> QED  BY <3>3, <4>1, <4>2, SMTT(30)
      <3>5. RunLinked(r)'
        BY <1>1, <2>1, <2>2, <3>1, <3>2, <3>4, ZenonT(60) DEF RunLinked, Running, outcomeAlreadyLanded
      <3> QED
        BY <2>1, <3>1, <3>2, <3>5, FireStepKeeps, ZenonT(60)
    <2>3. CASE ~outcomeAlreadyLanded(r)
      <3>1. fire' = [fire EXCEPT ![r] = Idle]
        BY <1>1, <1>5, <2>3, ZenonT(60) DEF findOutcome
      <3> QED
        BY <1>2, <2>1, <3>1, FireStepKeeps, ZenonT(60)
    <2> QED
      BY <2>2, <2>3, ZenonT(60)
  <1>6. CASE giveUp(r)
    BY <1>2, <1>6, FireStepKeeps, ZenonT(60) DEF giveUp
  <1> QED
    BY <1>3, <1>4, <1>5, <1>6, ZenonT(60)

\* Time, start, stop, crash and the pruner's selection.
LEMMA LifecycleKeeps ==
    ASSUME JournalInv, NEW n \in Node,
           \/ Tick
           \/ Stop(n) \/ stopRuns(n) \/ stopHeartbeats(n) \/ Stopped(n) \/ Crash(n) \/ Start(n)
           \/ pruneSelect(n)
    PROVE  JournalInv'
  <1> DEFINE State == {"up", "draining", "canceling", "released", "down"}
  <1>1. /\ now \in Nat /\ node \in [Node -> State] /\ fire \in [RunId -> Fire]
        /\ doomed \in [Node -> SUBSET RunId]
        /\ \A m \in Node : \A r \in doomed[m] : run[r].status \in Terminal \cup {"pruned"}
    BY ZenonT(60) DEF JournalInv, TypeOK, DoomedTerminal
  <1>2. UNCHANGED <<schedule, created, run, request, manual, requeued, events>>
    BY ZenonT(60) DEF Tick, Stop, stopRuns, stopHeartbeats, Stopped, Crash, Start, pruneSelect, Enter
  <1>3. now' \in Nat
    BY <1>1, SMTT(30) DEF Tick, Stop, stopRuns, stopHeartbeats, Stopped, Crash, Start, pruneSelect, Enter
  <1>4. node' \in [Node -> State]
    BY <1>1, ZenonT(60) DEF Tick, Stop, stopRuns, stopHeartbeats, Stopped, Crash, Start, pruneSelect, Enter
  <1>5. fire' \in [RunId -> Fire] /\ \A r \in RunId : fire'[r] = fire[r] \/ fire'[r].phase = "idle"
    <2>1. CASE Crash(n)
      <3>1. fire' = [r \in RunId |-> IF fire[r].node = n THEN Idle ELSE fire[r]]
        BY <2>1, ZenonT(60) DEF Crash
      <3>2. Idle \in Fire /\ Idle.phase = "idle"
        BY ZenonT(60) DEF Idle, Fire
      <3> QED  BY <1>1, <3>1, <3>2, ZenonT(60)
    <2>2. CASE ~Crash(n)
      BY <1>1, <2>2, ZenonT(60) DEF Tick, Stop, stopRuns, stopHeartbeats, Stopped, Start, pruneSelect
    <2> QED  BY <2>1, <2>2, ZenonT(60)
  <1>6. \A m \in Node : doomed'[m] \subseteq RunId
                        /\ \A r \in doomed'[m] : run[r].status \in Terminal \cup {"pruned"}
    <2>1. CASE pruneSelect(n)
      BY <1>1, <2>1, ZenonT(60) DEF pruneSelect
    <2>2. CASE Stop(n) \/ Crash(n)
      <3>1. doomed' = [doomed EXCEPT ![n] = {}]
        BY <2>2, ZenonT(60) DEF Stop, Crash
      <3> QED  BY <1>1, <3>1, ZenonT(60)
    <2>3. CASE Tick \/ stopRuns(n) \/ stopHeartbeats(n) \/ Stopped(n) \/ Start(n)
      BY <1>1, <2>3, ZenonT(60) DEF Tick, stopRuns, stopHeartbeats, Stopped, Start
    <2> QED  BY <2>1, <2>2, <2>3, ZenonT(60)
  <1>7. doomed' \in [Node -> SUBSET RunId]
    <2>1. \/ doomed' = doomed
          \/ doomed' = [doomed EXCEPT ![n] = {}]
          \/ \E ids : doomed' = [doomed EXCEPT ![n] = ids]
      BY ZenonT(60) DEF Tick, Stop, stopRuns, stopHeartbeats, Stopped, Crash, Start, pruneSelect
    <2> QED
      BY <1>1, <1>6, <2>1, ZenonT(60)
  <1>8. DoomedTerminal'
    BY <1>2, <1>6, ZenonT(60) DEF DoomedTerminal
  <1> QED
    BY <1>2, <1>3, <1>4, <1>5, <1>7, <1>8, MemoryStepKeeps, ZenonT(60)

\* A step on the journal that writes no request and queues no recovery: what it
\* owes the invariant, row by row.
LEMMA JournalStepKeeps ==
    ASSUME JournalInv,
           UNCHANGED <<now, schedule, created, request, manual, node, requeued>>,
           run' \in [RunId -> RunRow],
           fire' \in [RunId -> Fire],
           doomed' \in [Node -> SUBSET RunId],
           events' \in [RunId -> [failed : Nat, abandoned : Nat]],
           \A r \in RunId : run'[r].status \in {run[r].status, "pruned"},
           EventsMatchJournal', DoomedTerminal', \A r \in RunId : RunLinked(r)'
    PROVE  JournalInv'
  <1>1. TypeOK'
    BY ZenonT(60) DEF JournalInv, TypeOK
  <1>2. RequestsLinked' /\ (\A p, q \in request' : p.id = q.id => p = q) /\ NoOrphanRequest'
    BY ZenonT(60) DEF JournalInv, RequestsLinked, NoOrphanRequest
  <1>3. RequeuedOnce'
    BY ZenonT(60) DEF JournalInv, RequeuedOnce
  <1> QED
    BY <1>1, <1>2, <1>3, ZenonT(60) DEF JournalInv

\* A heartbeat touches the heartbeat of running rows only.
LEMMA HeartbeatKeeps ==
    ASSUME JournalInv, NEW n \in Node, renewHeartbeats(n)
    PROVE  JournalInv'
  <1>1. unixMs(clock(n)) \in Int
    BY StoreAssumption, TriggerAssumption, SMTT(30) DEF JournalInv, TypeOK, clock, unixMs
  <1>2. run \in [RunId -> RunRow]
    BY ZenonT(60) DEF JournalInv, TypeOK
  <1>3. PICK ids : run' = [r \in RunId |-> IF r \in ids THEN [run[r] EXCEPT !.heartbeat = unixMs(clock(n))]
                                                     ELSE run[r]]
    BY ZenonT(60) DEF renewHeartbeats
  <1>4. UNCHANGED <<now, schedule, created, request, manual, node, fire, doomed, requeued, events>>
    BY ZenonT(60) DEF renewHeartbeats
  <1>5. \A r \in RunId : /\ run'[r] \in RunRow
                         /\ run'[r].status = run[r].status
                         /\ run'[r].sched = run[r].sched
                         /\ run'[r].at = run[r].at
                         /\ run'[r].heartbeat \in {run[r].heartbeat, unixMs(clock(n))}
    BY <1>1, <1>2, <1>3, SMTT(30) DEF RunRow, Instant
  <1>6. run' \in [RunId -> RunRow]
    BY <1>3, <1>5, ZenonT(60)
  <1>7. EventsMatchJournal' /\ DoomedTerminal'
    BY <1>4, <1>5, ZenonT(60) DEF JournalInv, EventsMatchJournal, DoomedTerminal, TypeOK
  <1>8. \A r \in RunId : RunLinked(r)'
    BY <1>1, <1>4, <1>5, SMTT(30) DEF JournalInv, RunLinked, Running
  <1>9. fire' \in [RunId -> Fire] /\ doomed' \in [Node -> SUBSET RunId]
        /\ events' \in [RunId -> [failed : Nat, abandoned : Nat]]
    BY <1>4, ZenonT(60) DEF JournalInv, TypeOK
  <1> QED
    BY <1>4, <1>5, <1>6, <1>7, <1>8, <1>9, JournalStepKeeps, ZenonT(60)

\* The pruner deletes terminal rows only.
LEMMA PruneKeeps ==
    ASSUME JournalInv, NEW n \in Node, pruneDelete(n)
    PROVE  JournalInv'
  <1>1. run \in [RunId -> RunRow] /\ doomed \in [Node -> SUBSET RunId]
    BY ZenonT(60) DEF JournalInv, TypeOK
  <1>2. [NoRun EXCEPT !.status = "pruned"] \in RunRow /\ [NoRun EXCEPT !.status = "pruned"].status = "pruned"
    BY ZenonT(60) DEF NoRun, RunRow, Instant
  <1>3. UNCHANGED <<now, schedule, created, request, manual, node, fire, requeued, events>>
    BY ZenonT(60) DEF pruneDelete
  <1>4. /\ run' \in [RunId -> RunRow]
        /\ \A r \in doomed[n] : run'[r].status = "pruned"
        /\ \A r \in RunId \ doomed[n] : run'[r] = run[r]
    BY <1>1, <1>2, ZenonT(60) DEF pruneDelete
  <1>5. \A r \in doomed[n] : run[r].status \in Terminal \cup {"pruned"}
    BY ZenonT(60) DEF JournalInv, DoomedTerminal
  <1>6. doomed' = [doomed EXCEPT ![n] = {}]
    BY ZenonT(60) DEF pruneDelete
  <1>7. doomed' \in [Node -> SUBSET RunId] /\ \A m \in Node : doomed'[m] \subseteq doomed[m]
    BY <1>1, <1>6, ZenonT(60)
  <1>8. \A r \in RunId : run'[r].status \in {run[r].status, "pruned"}
    BY <1>4, ZenonT(60)
  <1>9. EventsMatchJournal'
    BY <1>3, <1>8, ZenonT(60) DEF JournalInv, EventsMatchJournal
  <1>10. DoomedTerminal'
    BY <1>1, <1>7, <1>8, ZenonT(60) DEF JournalInv, DoomedTerminal
  <1>11. \A r \in RunId : RunLinked(r)'
    <2>1. TAKE r \in RunId
    <2>2. RunLinked(r)
      BY ZenonT(60) DEF JournalInv
    <2>3. CASE r \in doomed[n]
      BY <1>3, <1>4, <1>5, <2>2, <2>3, ZenonT(60) DEF RunLinked, Running, Terminal
    <2>4. CASE r \notin doomed[n]
      BY <1>3, <1>4, <2>2, <2>4, ZenonT(60) DEF RunLinked, Running
    <2> QED  BY <2>3, <2>4, ZenonT(60)
  <1>12. fire' \in [RunId -> Fire] /\ events' \in [RunId -> [failed : Nat, abandoned : Nat]]
    BY <1>3, ZenonT(60) DEF JournalInv, TypeOK
  <1> QED
    BY <1>3, <1>4, <1>7, <1>8, <1>9, <1>10, <1>11, <1>12, JournalStepKeeps, ZenonT(60)

\* The event of a finished run is the first of that run, and names its status.
LEMMA FinishKeeps ==
    ASSUME JournalInv, NEW r \in RunId, finish(r)
    PROVE  JournalInv'
  <1>1. /\ run \in [RunId -> RunRow] /\ fire \in [RunId -> Fire] /\ doomed \in [Node -> SUBSET RunId]
        /\ events \in [RunId -> [failed : Nat, abandoned : Nat]]
    BY ZenonT(60) DEF JournalInv, TypeOK
  <1>2. UNCHANGED <<now, schedule, created, run, request, manual, node, doomed, requeued>>
    BY ZenonT(60) DEF finish
  <1>3. fire' = [fire EXCEPT ![r] = Idle]
    BY ZenonT(60) DEF finish
  <1>4. /\ fire' \in [RunId -> Fire] /\ fire'[r].phase = "idle"
        /\ \A q \in RunId \ {r} : fire'[q] = fire[q]
    BY <1>1, <1>3, ZenonT(60) DEF Idle, Fire
  <1>5. /\ fire[r].outcome \in {"succeeded", "failed", "canceled"}
        /\ run[r].status \in {fire[r].outcome, "pruned"}
        /\ events[r].abandoned = 0 /\ events[r].failed = 0
    BY <1>1, ZenonT(60) DEF finish, JournalInv, RunLinked, Fire
  <1>6. /\ events' \in [RunId -> [failed : Nat, abandoned : Nat]]
        /\ \A q \in RunId \ {r} : events'[q] = events[q]
        /\ events'[r].abandoned = 0
        /\ events'[r].failed \in {0, 1}
        /\ events'[r].failed > 0 => fire[r].outcome = "failed"
    <2>1. CASE fire[r].outcome = "failed"
      <3>1. events' = Announce("failed", {r}) /\ TypeOK
        BY <2>1, ZenonT(60) DEF finish, JournalInv
      <3>2. \A q \in RunId : events'[q] = IF q = r THEN [events[q] EXCEPT !.failed = @ + 1] ELSE events[q]
        BY <3>1, ZenonT(60) DEF Announce
      <3>3. events' = [q \in RunId |-> events'[q]]
        BY <3>1, ZenonT(60) DEF Announce
      <3>4. \A x \in [failed : Nat, abandoned : Nat] :
               LET y == [x EXCEPT !.failed = @ + 1]
               IN  y \in [failed : Nat, abandoned : Nat] /\ y.abandoned = x.abandoned /\ y.failed = x.failed + 1
        BY SMTT(30)
      <3> QED  BY <1>1, <1>5, <2>1, <3>2, <3>3, <3>4, SMTT(30)
    <2>2. CASE fire[r].outcome # "failed"
      BY <1>1, <1>5, <2>2, SMTT(30) DEF finish
    <2> QED  BY <2>1, <2>2, ZenonT(60)
  <1>7. EventsMatchJournal'
    <2>1. ASSUME NEW q \in RunId
          PROVE  /\ events'[q].failed + events'[q].abandoned <= 1
                 /\ events'[q].failed > 0 => run'[q].status \in {"failed", "pruned"}
                 /\ events'[q].abandoned > 0 => run'[q].status \in {"abandoned", "pruned"}
      <3>1. CASE q = r
        BY <1>2, <1>5, <1>6, <3>1, SMTT(30)
      <3>2. CASE q # r
        BY <1>2, <1>6, <3>2, ZenonT(60) DEF JournalInv, EventsMatchJournal
      <3> QED  BY <3>1, <3>2, ZenonT(60)
    <2> QED  BY <2>1, ZenonT(60) DEF EventsMatchJournal
  <1>8. \A q \in RunId : RunLinked(q)'
    <2>1. TAKE q \in RunId
    <2>2. RunLinked(q)
      BY ZenonT(60) DEF JournalInv
    <2>3. CASE q = r
      BY <1>2, <1>4, <1>5, <2>2, <2>3, ZenonT(60) DEF RunLinked, Running
    <2>4. CASE q # r
      BY <1>2, <1>4, <1>6, <2>2, <2>4, ZenonT(60) DEF RunLinked, Running
    <2> QED  BY <2>3, <2>4, ZenonT(60)
  <1>9. DoomedTerminal'
    BY <1>2, ZenonT(60) DEF JournalInv, DoomedTerminal
  <1> QED
    BY <1>1, <1>2, <1>4, <1>6, <1>7, <1>8, <1>9, JournalStepKeeps, ZenonT(60)

\* The journal starts empty.
LEMMA InitialJournal == Init => JournalInv
  <1> SUFFICES ASSUME Init PROVE JournalInv
    BY ZenonT(60)
  <1>1. NoRun \in RunRow /\ NoRun.status = "none"
    BY ZenonT(60) DEF NoRun, RunRow, Instant
  <1>2. Idle \in Fire /\ Idle.phase = "idle"
    BY ZenonT(60) DEF Idle, Fire
  <1>3. TypeOK
    BY <1>1, <1>2, StoreAssumption, SMTT(30) DEF Init, TypeOK
  <1>4. EventsMatchJournal /\ RequeuedOnce /\ NoOrphanRequest /\ DoomedTerminal
    BY SMTT(30) DEF Init, EventsMatchJournal, RequeuedOnce, NoOrphanRequest, DoomedTerminal
  <1>5. RequestsLinked
    BY ZenonT(60) DEF Init, RequestsLinked
  <1>6. \A r \in RunId : RunLinked(r)
    BY <1>1, <1>2, ZenonT(60) DEF Init, RunLinked, Running
  <1> QED
    BY <1>3, <1>4, <1>5, <1>6, ZenonT(60) DEF JournalInv, Init

-----------------------------------------------------------------------------
(***************************************************************************)
(* The trigger arithmetic, for every trigger, window and instant.          *)
(***************************************************************************)

\* Milliseconds and clock units convert within the integers.
LEMMA Conversions ==
    /\ \A ms \in Int : unixTime(ms) \in Int
    /\ \A t \in Int : unixMs(t) \in Int
    /\ \A t \in Int : toMs(t) \in Int
    /\ toMs(None) = None
    /\ \A t \in Instant : toMs(t) \in Instant /\ (toMs(t) = None <=> t = None)
  BY TriggerAssumption DEF unixTime, unixMs, toMs, Instant

\* A non-empty set of integers that is bounded below has a least element.
LEMMA LeastInteger ==
    ASSUME NEW S \in SUBSET Int, NEW low \in Int, \A x \in S : x > low, S # {}
    PROVE  \E x \in S : \A y \in S : x <= y
  <1> DEFINE T == {x - low : x \in S}
  <1>1. T \subseteq Nat /\ T # {}
    <2>1. PICK x \in S : TRUE
      BY ZenonT(60)
    <2>2. x - low \in T
      BY ZenonT(60)
    <2>3. T \subseteq Nat
      OBVIOUS
    <2> QED  BY <2>2, <2>3, ZenonT(60)
  <1>2. \E m \in T : \A y \in T : ~(<<y, m>> \in OpToRel(<, Nat))
    <2> HIDE DEF T
    <2> QED  BY <1>1, NatLessThanWellFounded, WFMin, ZenonT(60)
  <1>3. PICK m \in T : \A y \in T : ~(y < m)
    <2>1. PICK m \in T : \A y \in T : ~(<<y, m>> \in OpToRel(<, Nat))
      BY <1>2, ZenonT(60)
    <2>2. \A y \in T : ~(y < m)
      BY <1>1, <2>1, ZenonT(60) DEF OpToRel
    <2> QED  BY <2>2, ZenonT(60)
  <1>4. PICK x \in S : m = x - low
    OBVIOUS
  <1>5. ASSUME NEW y \in S PROVE x <= y
    <2>1. y - low \in T
      BY ZenonT(60)
    <2>2. ~(y - low < x - low)
      BY <1>3, <1>4, <2>1, ZenonT(60)
    <2>3. x \in Int /\ y \in Int
      BY ZenonT(60)
    <2> QED  BY <2>2, <2>3, SMTT(30)
  <1> QED
    BY <1>5, ZenonT(60)

\* Earliest returns a member of the set that no other member precedes.
LEMMA EarliestMember ==
    ASSUME NEW S \in SUBSET Int, NEW low \in Int, \A x \in S : x > low
    PROVE  /\ S = {} => Earliest(S) = None
           /\ S # {} => Earliest(S) \in S /\ \A y \in S : Earliest(S) <= y
  <1>1. CASE S = {}
    BY <1>1, ZenonT(60) DEF Earliest
  <1>2. CASE S # {}
    BY <1>2, LeastInteger, ZenonT(60) DEF Earliest
  <1> QED
    BY <1>1, <1>2, ZenonT(60)

\* A fixed-rate trigger fires strictly after the queried instant, within one
\* period, and in phase with its anchor.
LEMMA IntervalNextAfter ==
    ASSUME NEW every \in Nat \ {0}, NEW after \in Int, NEW anchor \in Int
    PROVE  /\ IntervalNext(every, after, anchor) \in Int
           /\ IntervalNext(every, after, anchor) > after
           /\ after >= anchor => IntervalNext(every, after, anchor) <= after + every
  <1>1. after - anchor \in Int
    OBVIOUS
  <1>2. (after - anchor) % every \in 0 .. (every - 1)
    BY <1>1
  <1> QED
    BY <1>2 DEF IntervalNext

\* Trigger.next: nothing, or an instant strictly after the queried one.
LEMMA TriggerNextAfter ==
    ASSUME NEW t \in Trigger, NEW after \in Int, NEW anchor \in Int
    PROVE  /\ TriggerNext(t, after, anchor) \in Instant
           /\ TriggerNext(t, after, anchor) # None => TriggerNext(t, after, anchor) > after
  <1>1. CASE ~compile(t)
    BY <1>1, TriggerAssumption, ZenonT(60) DEF TriggerNext, Instant
  <1>2. CASE compile(t) /\ t.kind = "cron"
    <2> DEFINE S == {x \in {unixTime(ms) : ms \in t.expr} : x > after}
    <2>1. S \in SUBSET Int /\ \A x \in S : x > after
      BY Conversions DEF Trigger
    <2>2. TriggerNext(t, after, anchor) = Earliest(S)
      BY <1>2, ZenonT(60) DEF TriggerNext, ExprNext
    <2> HIDE DEF S
    <2>3. (S = {} => Earliest(S) = None) /\ (S # {} => Earliest(S) \in S)
      BY <2>1, EarliestMember, ZenonT(60)
    <2> QED
      BY <2>1, <2>2, <2>3, TriggerAssumption, ZenonT(60) DEF Instant
  <1>3. CASE compile(t) /\ t.kind = "interval"
    <2>1. unixTime(t.every) \in Nat \ {0}
      BY <1>3, TriggerAssumption DEF compile, unixTime, Trigger
    <2>2. TriggerNext(t, after, anchor) = IntervalNext(unixTime(t.every), after, anchor)
      BY <1>3, ZenonT(60) DEF TriggerNext
    <2> QED
      BY <2>1, <2>2, IntervalNextAfter, TriggerAssumption, ZenonT(60) DEF Instant
  <1>4. CASE compile(t) /\ t.kind = "once"
    <2>1. t.at \in Int
      BY <1>4, ZenonT(60) DEF compile, Trigger, Instant
    <2>2. unixTime(t.at) \in Int
      BY <2>1, Conversions, ZenonT(60)
    <2>3. TriggerNext(t, after, anchor) = IF unixTime(t.at) > after THEN unixTime(t.at) ELSE None
      BY <1>4, ZenonT(60) DEF TriggerNext
    <2> QED
      BY <2>2, <2>3, TriggerAssumption, ZenonT(60) DEF Instant
  <1> QED
    BY <1>1, <1>2, <1>3, <1>4, ZenonT(60) DEF Trigger

\* What nextFire reads of a schedule.
Timed(s) ==
    /\ s.trigger \in Trigger
    /\ s.startsAt \in Instant /\ s.endsAt \in Instant
    /\ s.anchorAt \in Int

\* The phase anchor is an instant.
LEMMA AnchorIsInstant ==
    ASSUME NEW s, Timed(s)
    PROVE  anchorOf(s) \in Int
  BY Conversions, ZenonT(60) DEF anchorOf, Timed, Instant

\* nextFire: nothing, or an instant strictly after the queried one and inside
\* the schedule's window.
LEMMA NextFireAfter ==
    ASSUME NEW s, Timed(s), NEW after \in Int
    PROVE  /\ nextFire(s, after) \in Instant
           /\ nextFire(s, after) # None =>
                /\ nextFire(s, after) > after
                /\ s.startsAt # None => nextFire(s, after) >= unixTime(s.startsAt)
                /\ s.endsAt # None => nextFire(s, after) <= unixTime(s.endsAt)
  <1> DEFINE floor == unixTime(s.startsAt) - 1
             from  == IF s.startsAt # None /\ after < floor THEN floor ELSE after
             next  == TriggerNext(s.trigger, from, anchorOf(s))
  <1>1. s.startsAt # None => floor \in Int /\ unixTime(s.startsAt) \in Int
    BY Conversions DEF Timed, Instant
  <1>2. from \in Int /\ from >= after
    BY <1>1
  <1>3. s.startsAt # None => from >= floor
    BY <1>1
  <1>4. next \in Instant /\ (next # None => next > from)
    BY <1>2, AnchorIsInstant, TriggerNextAfter, ZenonT(60) DEF Timed
  <1>5. nextFire(s, after) = IF next # None /\ s.endsAt # None /\ next > unixTime(s.endsAt)
                             THEN None ELSE next
    BY ZenonT(60) DEF nextFire
  <1>6. s.endsAt # None => unixTime(s.endsAt) \in Int
    BY Conversions, ZenonT(60) DEF Timed, Instant
  <1> HIDE DEF from, next
  <1> QED
    BY <1>1, <1>2, <1>3, <1>4, <1>5, <1>6, TriggerAssumption DEF Instant

\* What is due by the millisecond is due by the clock.
LEMMA DueByClock ==
    ASSUME NEW ms \in Int, NEW t \in Int, ms <= unixMs(t)
    PROVE  unixTime(ms) <= t
  <1>1. Milli \in Nat /\ Milli > 0
    BY TriggerAssumption
  <1>2. unixMs(t) * Milli <= t
    BY <1>1, SMTT(30) DEF unixMs
  <1>3. ms * Milli <= unixMs(t) * Milli
    BY <1>1, SMTT(30) DEF unixMs
  <1> QED
    BY <1>1, <1>2, <1>3, SMTT(30) DEF unixTime, unixMs

\* Products with a positive factor keep the order, and can be divided again.
LEMMA Multiples ==
    ASSUME NEW k \in Int, NEW u \in Int
    PROVE  /\ unixMs(unixTime(k)) = k
           /\ unixTime(k) > unixTime(u) => k > u
  <1>1. Milli \in Nat /\ Milli > 0
    BY TriggerAssumption
  <1>2. (k * Milli) \div Milli = k
    BY <1>1, SMTT(30)
  <1>3. k <= u => k * Milli <= u * Milli
    BY <1>1, SMTT(30)
  <1>4. k * Milli \in Int /\ u * Milli \in Int
    BY <1>1, SMTT(30)
  <1> QED
    BY <1>2, <1>3, <1>4, SMTT(30) DEF unixTime, unixMs

\* Whole periods leave no remainder.
LEMMA WholePeriods ==
    ASSUME NEW every \in Nat \ {0}, NEW q \in Int
    PROVE  (every * q) % every = 0
  <1> DEFINE x == every * q
             d == x \div every
             rest == x % every
  <1>1. x \in Int /\ d \in Int /\ rest \in 0..(every - 1) /\ x = every * d + rest
    BY SMTT(30)
  <1> HIDE DEF d, rest
  <1>2. rest = every * (q - d)
    BY <1>1, SMTT(30)
  <1>3. q - d >= 1 => every * (q - d) >= every
    BY <1>1, SMTT(30)
  <1>4. q - d <= -1 => every * (q - d) <= -every
    BY <1>1, SMTT(30)
  <1>5. q - d = 0
    BY <1>1, <1>2, <1>3, <1>4, SMTT(30)
  <1> QED
    BY <1>1, <1>2, <1>5, SMTT(30) DEF rest

\* In phase with a whole millisecond, a fixed-rate trigger stays on them.
LEMMA IntervalNextWhole ==
    ASSUME NEW every \in Nat \ {0}, NEW after \in Int, NEW anchor \in Int
    PROVE  \E k \in Int : /\ IntervalNext(unixTime(every), after, unixTime(anchor)) = unixTime(k)
                          /\ k >= anchor /\ (k - anchor) % every = 0
  <1> DEFINE e == unixTime(every)
             a == unixTime(anchor)
             q == (after - a) \div e
  <1>1. Milli \in Nat /\ Milli > 0
    BY TriggerAssumption
  <1>2. e \in Nat \ {0} /\ a \in Int
    BY <1>1, SMTT(30) DEF unixTime
  <1>3. CASE after < a
    <2>1. anchor >= anchor /\ (anchor - anchor) % every = 0
      BY SMTT(30)
    <2>2. IntervalNext(e, after, a) = a
      BY <1>3, ZenonT(60) DEF IntervalNext
    <2> QED  BY <2>1, <2>2, ZenonT(60)
  <1>4. CASE ~(after < a)
    <2> HIDE DEF e, a
    <2>1. q \in Int /\ q >= 0 /\ after - a = e * q + ((after - a) % e)
      BY <1>2, <1>4, SMTT(30)
    <2>2. (after - a) % e \in Int
      BY <1>2, SMTT(30)
    <2>3. IntervalNext(e, after, a) = after + (e - ((after - a) % e))
      BY <1>4, ZenonT(60) DEF IntervalNext
    <2> HIDE DEF q
    <2>4. IntervalNext(e, after, a) = a + e * q + e
      BY <1>2, <2>1, <2>2, <2>3, SMTT(30)
    <2> DEFINE k == anchor + every * q + every
    <2>5. k \in Int
      BY <2>1, SMTT(30)
    <2>6. a + e * q + e = unixTime(k)
      <3>1. (every * Milli) * q = (every * q) * Milli
        BY <1>1, <2>1, SMTT(30)
      <3>2. every * q \in Int
        BY <2>1, SMTT(30)
      <3>3. \A x, y, z \in Int : x * Milli + y * Milli + z * Milli = (x + y + z) * Milli
        BY <1>1, SMTT(30)
      <3>4. a + e * q + e = anchor * Milli + (every * q) * Milli + every * Milli
        <4>1. e = every * Milli /\ a = anchor * Milli
          BY ZenonT(60) DEF a, e, unixTime
        <4>2. e * q = (every * q) * Milli
          BY <3>1, <4>1, ZenonT(60)
        <4> QED  BY <4>1, <4>2, ZenonT(60)
      <3>5. anchor * Milli + (every * q) * Milli + every * Milli = (anchor + every * q + every) * Milli
        <4>1. anchor \in Int /\ every \in Int
          OBVIOUS
        <4> QED  BY <3>2, <3>3, <4>1, SMTT(30)
      <3> QED  BY <3>4, <3>5, ZenonT(60) DEF unixTime
    <2>7. k >= anchor /\ k - anchor = every * (q + 1)
      <3>1. every * (q + 1) = every * q + every /\ every * (q + 1) \in Nat
        BY <2>1, SMTT(30)
      <3> QED  BY <2>1, <3>1, SMTT(30)
    <2>8. (k - anchor) % every = 0
      <3>1. q + 1 \in Int
        BY <2>1, SMTT(30)
      <3> HIDE DEF k
      <3> QED  BY <2>7, <3>1, WholePeriods, ZenonT(60)
    <2> HIDE DEF k
    <2>9. \E j \in Int : /\ IntervalNext(e, after, a) = unixTime(j)
                         /\ j >= anchor /\ (j - anchor) % every = 0
      BY <2>4, <2>5, <2>6, <2>7, <2>8, ZenonT(60)
    <2> QED  BY <2>9, ZenonT(60) DEF e, a
  <1> QED
    BY <1>3, <1>4, ZenonT(60)

\* Triggers fire at whole milliseconds, and at those they stand for.
LEMMA TriggerNextWhole ==
    ASSUME NEW t \in Trigger, NEW after \in Int, NEW anchor \in Int
    PROVE  \/ TriggerNext(t, after, unixTime(anchor)) = None
           \/ \E k \in Int : /\ TriggerNext(t, after, unixTime(anchor)) = unixTime(k)
                             /\ Matches(t, k, anchor)
  <1>1. CASE ~compile(t)
    BY <1>1, ZenonT(60) DEF TriggerNext
  <1>2. CASE compile(t) /\ t.kind = "cron"
    <2> DEFINE S == {x \in {unixTime(ms) : ms \in t.expr} : x > after}
    <2>1. /\ S \in SUBSET Int /\ \A x \in S : x > after
          /\ \A x \in S : \E k \in Int : x = unixTime(k) /\ k \in t.expr
      BY Conversions DEF Trigger
    <2>2. TriggerNext(t, after, unixTime(anchor)) = Earliest(S)
      BY <1>2, ZenonT(60) DEF TriggerNext, ExprNext
    <2> HIDE DEF S
    <2>3. (S = {} => Earliest(S) = None) /\ (S # {} => Earliest(S) \in S)
      BY <2>1, EarliestMember, ZenonT(60)
    <2>4. \A k \in t.expr : Matches(t, k, anchor)
      BY <1>2, ZenonT(60) DEF Matches
    <2> QED
      BY <2>1, <2>2, <2>3, <2>4, ZenonT(60)
  <1>3. CASE compile(t) /\ t.kind = "interval"
    <2>1. t.every \in Nat \ {0}
      BY <1>3, TriggerAssumption DEF compile, Trigger
    <2>2. TriggerNext(t, after, unixTime(anchor))
            = IntervalNext(unixTime(t.every), after, unixTime(anchor))
      BY <1>3, ZenonT(60) DEF TriggerNext
    <2>3. PICK k \in Int : /\ IntervalNext(unixTime(t.every), after, unixTime(anchor)) = unixTime(k)
                           /\ k >= anchor /\ (k - anchor) % t.every = 0
      BY <2>1, IntervalNextWhole, ZenonT(60)
    <2>4. Matches(t, k, anchor)
      BY <1>3, <2>3, ZenonT(60) DEF Matches
    <2> QED
      BY <2>2, <2>3, <2>4, ZenonT(60)
  <1>4. CASE compile(t) /\ t.kind = "once"
    <2>1. t.at \in Int
      BY <1>4, ZenonT(60) DEF compile, Trigger, Instant
    <2>2. Matches(t, t.at, anchor)
      BY <1>4, ZenonT(60) DEF Matches
    <2>3. TriggerNext(t, after, unixTime(anchor))
            = IF unixTime(t.at) > after THEN unixTime(t.at) ELSE None
      BY <1>4, ZenonT(60) DEF TriggerNext
    <2> QED
      BY <2>1, <2>2, <2>3, ZenonT(60)
  <1> QED
    BY <1>1, <1>2, <1>3, <1>4, ZenonT(60) DEF Trigger

\* ... so a cursor, though truncated to milliseconds, is past the instant it
\* was computed from.
LEMMA CursorIsLater ==
    ASSUME NEW s, Timed(s), NEW after \in Int
    PROVE  LET next == toMs(nextFire(s, after))
           IN  /\ next \in Instant
               /\ next # None => next > unixMs(after) /\ unixTime(next) = nextFire(s, after)
  <1> DEFINE floor == unixTime(s.startsAt) - 1
             from  == IF s.startsAt # None /\ after < floor THEN floor ELSE after
             anchor == IF s.startsAt # None THEN s.startsAt ELSE s.anchorAt
             next == nextFire(s, after)
  <1>1. from \in Int
    BY Conversions DEF Timed, Instant
  <1>2. anchor \in Int /\ anchorOf(s) = unixTime(anchor)
    BY ZenonT(60) DEF Timed, Instant, anchorOf
  <1>3. next = None \/ next = TriggerNext(s.trigger, from, anchorOf(s))
    BY ZenonT(60) DEF nextFire
  <1> HIDE DEF from, anchor
  <1>4. next = None \/ \E k \in Int : next = unixTime(k)
    <2> HIDE DEF next
    <2>1. s.trigger \in Trigger
      BY ZenonT(60) DEF Timed
    <2>2. \/ TriggerNext(s.trigger, from, unixTime(anchor)) = None
          \/ \E k \in Int : TriggerNext(s.trigger, from, unixTime(anchor)) = unixTime(k)
      BY <1>1, <1>2, <2>1, TriggerNextWhole, ZenonT(60)
    <2> QED  BY <1>2, <1>3, <2>2, ZenonT(60)
  <1>5. next \in Instant /\ (next # None => next > after)
    BY NextFireAfter, ZenonT(60)
  <1> HIDE DEF next
  <1>6. CASE next = None
    BY <1>6, Conversions, ZenonT(60) DEF next, Instant
  <1>7. CASE next # None
    <2>1. PICK k \in Int : next = unixTime(k)
      BY <1>4, <1>7, ZenonT(60)
    <2>2. unixMs(after) \in Int /\ unixTime(unixMs(after)) <= after
      BY Conversions, DueByClock, SMTT(30)
    <2>3. next > unixTime(unixMs(after))
      <3>1. unixTime(unixMs(after)) \in Int /\ next \in Int
        BY <1>5, <1>7, <2>2, Conversions, ZenonT(60) DEF Instant
      <3> QED  BY <1>5, <1>7, <2>2, <3>1, SMTT(30)
    <2>4. k > unixMs(after) /\ unixMs(next) = k
      BY <2>1, <2>2, <2>3, Multiples, ZenonT(60)
    <2>5. toMs(next) = k /\ k # None
      BY <1>7, <2>4, TriggerAssumption, ZenonT(60) DEF toMs
    <2> QED  BY <2>1, <2>4, <2>5, ZenonT(60) DEF next, Instant
  <1> QED
    BY <1>6, <1>7, ZenonT(60)

\* Persisted instants are ordered as the instants they stand for.
LEMMA SameOrder ==
    ASSUME NEW k \in Int, NEW u \in Int, unixTime(k) >= unixTime(u)
    PROVE  k >= u
  <1>1. unixTime(k + 1) = unixTime(k) + Milli /\ Milli \in Nat /\ Milli > 0
    BY TriggerAssumption, SMTT(30) DEF unixTime
  <1>2. unixTime(k) \in Int /\ unixTime(u) \in Int /\ k + 1 \in Int
    BY Conversions, SMTT(30)
  <1>3. unixTime(k + 1) > unixTime(u)
    BY <1>1, <1>2, SMTT(30)
  <1>4. k + 1 > u
    BY <1>2, <1>3, Multiples, ZenonT(60)
  <1> QED
    BY <1>4, SMTT(30)

\* What nextFire yields is an occurrence of the trigger inside the window.
LEMMA NextOccurs ==
    ASSUME NEW s, Timed(s), NEW after \in Int, toMs(nextFire(s, after)) # None
    PROVE  Occurs(s, toMs(nextFire(s, after)))
  <1> DEFINE floor == unixTime(s.startsAt) - 1
             from  == IF s.startsAt # None /\ after < floor THEN floor ELSE after
             anchor == IF s.startsAt # None THEN s.startsAt ELSE s.anchorAt
             fires == nextFire(s, after)
             next == toMs(fires)
  <1>1. from \in Int
    BY Conversions DEF Timed, Instant
  <1>2. anchor \in Int /\ anchorOf(s) = unixTime(anchor) /\ s.trigger \in Trigger
    BY ZenonT(60) DEF Timed, Instant, anchorOf
  <1>3. fires = None \/ fires = TriggerNext(s.trigger, from, anchorOf(s))
    BY ZenonT(60) DEF nextFire
  <1>4. next \in Int /\ unixTime(next) = fires
    BY CursorIsLater, ZenonT(60) DEF Instant
  <1>5. fires # None
    BY Conversions, ZenonT(60)
  <1>6. /\ s.startsAt # None => fires >= unixTime(s.startsAt)
        /\ s.endsAt # None => fires <= unixTime(s.endsAt)
    BY <1>5, NextFireAfter, ZenonT(60)
  <1> HIDE DEF from, next, fires
  <1>7. Matches(s.trigger, next, anchor)
    <2> HIDE DEF anchor
    <2>1. PICK k \in Int : fires = unixTime(k) /\ Matches(s.trigger, k, anchor)
      <3>1. \/ TriggerNext(s.trigger, from, unixTime(anchor)) = None
            \/ \E k \in Int : /\ TriggerNext(s.trigger, from, unixTime(anchor)) = unixTime(k)
                              /\ Matches(s.trigger, k, anchor)
        BY <1>1, <1>2, TriggerNextWhole, ZenonT(60)
      <3> QED  BY <1>2, <1>3, <1>5, <3>1, ZenonT(60)
    <2>2. next = k
      BY <1>4, <2>1, Multiples, ZenonT(60)
    <2> QED  BY <2>1, <2>2, ZenonT(60)
  <1>8. ASSUME s.startsAt # None PROVE next >= s.startsAt
    <2>1. s.startsAt \in Int
      BY <1>8, ZenonT(60) DEF Timed, Instant
    <2> QED  BY <1>4, <1>6, <1>8, <2>1, SameOrder, ZenonT(60)
  <1>9. ASSUME s.endsAt # None PROVE next <= s.endsAt
    <2>1. s.endsAt \in Int /\ unixTime(s.endsAt) \in Int /\ unixTime(next) \in Int
      BY <1>4, <1>9, Conversions, ZenonT(60) DEF Timed, Instant
    <2>2. unixTime(s.endsAt) >= unixTime(next)
      BY <1>4, <1>6, <1>9, <2>1, SMTT(30)
    <2>3. s.endsAt >= next
      BY <1>4, <2>1, <2>2, SameOrder, ZenonT(60)
    <2> QED  BY <1>4, <2>1, <2>3, SMTT(30)
  <1>10. Occurs(s, next)
    BY <1>7, <1>8, <1>9, ZenonT(60) DEF Occurs
  <1> QED
    BY <1>10, ZenonT(60) DEF next, fires

\* Products with the clock's resolution keep the order.
LEMMA LaterTimes ==
    ASSUME NEW k \in Int, NEW u \in Int, k >= u
    PROVE  unixTime(k) >= unixTime(u)
  BY TriggerAssumption, SMTT(30) DEF unixTime

\* A fixed-rate trigger passes no instant that is in phase.
LEMMA IntervalNextFirst ==
    ASSUME NEW every \in Nat \ {0}, NEW after \in Int, NEW anchor \in Int,
           NEW m \in Int, m >= anchor, (m - anchor) % every = 0, unixTime(m) > after
    PROVE  IntervalNext(unixTime(every), after, unixTime(anchor)) <= unixTime(m)
  <1> DEFINE e == unixTime(every)
             a == unixTime(anchor)
             q == (after - a) \div e
             rest == (after - a) % e
             p == (m - anchor) \div every
  <1>1. Milli \in Nat /\ Milli > 0
    BY TriggerAssumption
  <1>2. e \in Nat \ {0} /\ a \in Int /\ unixTime(m) \in Int
    BY <1>1, SMTT(30) DEF unixTime
  <1>3. CASE after < a
    <2>1. IntervalNext(e, after, a) = a
      BY <1>3, ZenonT(60) DEF IntervalNext
    <2>2. unixTime(m) >= a
      BY LaterTimes, ZenonT(60)
    <2> QED  BY <1>2, <2>1, <2>2, SMTT(30)
  <1>4. CASE ~(after < a)
    <2>1. p \in Int /\ m - anchor = every * p
      BY SMTT(30)
    <2>2. unixTime(m) = a + e * p
      <3> HIDE DEF p
      <3>1. m = anchor + every * p
        BY <2>1, SMTT(30)
      <3>2. (anchor + every * p) * Milli = anchor * Milli + (every * Milli) * p
        BY <1>1, <2>1, SMTT(30)
      <3> QED  BY <3>1, <3>2, ZenonT(60) DEF unixTime
    <2> HIDE DEF e, a, p
    <2>3. q \in Int /\ rest \in 0..(e - 1) /\ after - a = e * q + rest
      BY <1>2, SMTT(30)
    <2>4. IntervalNext(e, after, a) = after + (e - rest)
      BY <1>4, ZenonT(60) DEF IntervalNext
    <2> HIDE DEF q, rest
    <2>5. e * p \in Int /\ e * q \in Int /\ e * p > e * q
      BY <1>2, <2>1, <2>2, <2>3, SMTT(30)
    <2>6. p > q
      <3>1. p <= q => e * p <= e * q
        BY <1>2, <2>1, <2>3, SMTT(30)
      <3> QED  BY <2>1, <2>3, <2>5, <3>1, SMTT(30)
    <2>7. e * p >= e * q + e
      <3>1. p >= q + 1 => e * p >= e * (q + 1)
        BY <1>2, <2>1, <2>3, SMTT(30)
      <3>2. e * (q + 1) = e * q + e
        BY <1>2, <2>3, SMTT(30)
      <3> QED  BY <2>1, <2>3, <2>6, <3>1, <3>2, SMTT(30)
    <2>8. after + (e - rest) <= a + e * p
      BY <1>2, <2>3, <2>5, <2>7, SMTT(30)
    <2> QED  BY <2>2, <2>4, <2>8, ZenonT(60) DEF e, a
  <1> QED
    BY <1>3, <1>4, ZenonT(60)

\* A valid trigger passes no instant that it stands for.
LEMMA TriggerNextFirst ==
    ASSUME NEW t \in Trigger, compile(t), NEW after \in Int, NEW anchor \in Int,
           NEW m \in Int, Matches(t, m, anchor), unixTime(m) > after
    PROVE  /\ TriggerNext(t, after, unixTime(anchor)) # None
           /\ TriggerNext(t, after, unixTime(anchor)) <= unixTime(m)
  <1>0. unixTime(m) \in Int
    BY Conversions, ZenonT(60)
  <1>1. CASE t.kind = "cron"
    <2> DEFINE S == {x \in {unixTime(ms) : ms \in t.expr} : x > after}
    <2>1. S \in SUBSET Int /\ \A x \in S : x > after
      BY Conversions DEF Trigger
    <2>2. TriggerNext(t, after, unixTime(anchor)) = Earliest(S)
      BY <1>1, ZenonT(60) DEF TriggerNext, ExprNext
    <2>3. unixTime(m) \in S
      BY <1>1, ZenonT(60) DEF Matches
    <2> HIDE DEF S
    <2>4. Earliest(S) \in S /\ Earliest(S) <= unixTime(m)
      BY <2>1, <2>3, EarliestMember, ZenonT(60)
    <2> QED
      BY <2>1, <2>2, <2>4, TriggerAssumption, ZenonT(60)
  <1>2. CASE t.kind = "interval"
    <2>1. t.every \in Nat \ {0}
      BY <1>2, TriggerAssumption DEF compile, Trigger
    <2>2. TriggerNext(t, after, unixTime(anchor))
            = IntervalNext(unixTime(t.every), after, unixTime(anchor))
      BY <1>2, ZenonT(60) DEF TriggerNext
    <2>3. m >= anchor /\ (m - anchor) % t.every = 0
      BY <1>2, ZenonT(60) DEF Matches
    <2>4. IntervalNext(unixTime(t.every), after, unixTime(anchor)) <= unixTime(m)
      BY <2>1, <2>3, IntervalNextFirst, ZenonT(60)
    <2>5. \E k \in Int : IntervalNext(unixTime(t.every), after, unixTime(anchor)) = unixTime(k)
      BY <2>1, IntervalNextWhole, ZenonT(60)
    <2> QED
      BY <2>2, <2>4, <2>5, Conversions, TriggerAssumption, ZenonT(60)
  <1>3. CASE t.kind = "once"
    <2>1. m = t.at
      BY <1>3, ZenonT(60) DEF Matches
    <2>2. TriggerNext(t, after, unixTime(anchor)) = unixTime(m)
      BY <1>3, <2>1, ZenonT(60) DEF TriggerNext
    <2>3. unixTime(m) <= unixTime(m)
      BY <1>0, SMTT(30)
    <2> QED
      BY <1>0, <2>2, <2>3, TriggerAssumption, ZenonT(60)
  <1> QED
    BY <1>1, <1>2, <1>3, ZenonT(60) DEF Trigger

\* nextFire passes no occurrence inside the window.
LEMMA NextFireFirst ==
    ASSUME NEW s, Timed(s), compile(s.trigger), NEW after \in Int,
           NEW m \in Int, Occurs(s, m), unixTime(m) > after
    PROVE  nextFire(s, after) # None /\ nextFire(s, after) <= unixTime(m)
  <1> DEFINE floor == unixTime(s.startsAt) - 1
             from  == IF s.startsAt # None /\ after < floor THEN floor ELSE after
             anchor == IF s.startsAt # None THEN s.startsAt ELSE s.anchorAt
             next == TriggerNext(s.trigger, from, anchorOf(s))
  <1>1. from \in Int /\ unixTime(m) \in Int
    BY Conversions DEF Timed, Instant
  <1>2. anchor \in Int /\ anchorOf(s) = unixTime(anchor) /\ s.trigger \in Trigger
    BY ZenonT(60) DEF Timed, Instant, anchorOf
  <1>3. Matches(s.trigger, m, anchor)
    BY ZenonT(60) DEF Occurs
  <1>4. unixTime(m) > from
    <2>1. CASE s.startsAt # None
      <3>1. s.startsAt \in Int /\ m >= s.startsAt
        BY <2>1, ZenonT(60) DEF Timed, Instant, Occurs
      <3>2. unixTime(m) >= unixTime(s.startsAt) /\ unixTime(s.startsAt) \in Int
        BY <3>1, LaterTimes, Conversions, ZenonT(60)
      <3> QED  BY <1>1, <3>2, SMTT(30)
    <2>2. CASE s.startsAt = None
      BY <2>2, ZenonT(60)
    <2> QED  BY <2>1, <2>2, ZenonT(60)
  <1> HIDE DEF from, anchor
  <1>5. next # None /\ next <= unixTime(m)
    BY <1>1, <1>2, <1>3, <1>4, TriggerNextFirst, ZenonT(60)
  <1>6. next \in Int
    BY <1>1, <1>2, <1>5, Conversions, TriggerNextAfter, ZenonT(60) DEF Instant
  <1>7. s.endsAt # None => ~(next > unixTime(s.endsAt))
    <2> SUFFICES ASSUME s.endsAt # None PROVE ~(next > unixTime(s.endsAt))
      BY ZenonT(60)
    <2>1. s.endsAt \in Int /\ m <= s.endsAt
      BY ZenonT(60) DEF Timed, Instant, Occurs
    <2>2. s.endsAt >= m
      BY <2>1, SMTT(30)
    <2>3. unixTime(s.endsAt) >= unixTime(m) /\ unixTime(s.endsAt) \in Int
      BY <2>1, <2>2, LaterTimes, Conversions, ZenonT(60)
    <2> HIDE DEF next
    <2> QED  BY <1>1, <1>5, <1>6, <2>3, SMTT(30)
  <1>8. nextFire(s, after) = next
    BY <1>7, ZenonT(60) DEF nextFire, from, floor
  <1> QED
    BY <1>5, <1>8, ZenonT(60)

\* The stepping of a trigger and the window around it compute what they stand
\* for: the cursor that nextFire yields is the first occurrence after the queried
\* instant, and there is none exactly when the schedule is exhausted.  This holds
\* for every valid trigger (TriggerSpec.Validate), window, anchor and instant.
THEOREM NextFireIsFirst ==
    ASSUME NEW s, Timed(s), compile(s.trigger), NEW after \in Int
    PROVE  toMs(nextFire(s, after)) = Earliest({m \in Int : Occurs(s, m) /\ unixTime(m) > after})
  <1> DEFINE L == {m \in Int : Occurs(s, m) /\ unixTime(m) > after}
             fires == nextFire(s, after)
             next == toMs(fires)
  <1>1. /\ next \in Instant /\ fires \in Instant
        /\ next # None => unixTime(next) = fires
        /\ next = None <=> fires = None
        /\ fires # None => fires > after
    BY CursorIsLater, NextFireAfter, Conversions, ZenonT(60)
  <1>2. \A m \in L : fires # None /\ fires <= unixTime(m)
    BY NextFireFirst, ZenonT(60)
  <1>3. next # None => Occurs(s, next)
    BY NextOccurs, ZenonT(60)
  <1> HIDE DEF next, fires
  <1>4. CASE next = None
    <2>1. L = {}
      BY <1>1, <1>2, <1>4, ZenonT(60)
    <2> HIDE DEF L
    <2>2. next = Earliest(L)
      BY <1>4, <2>1, ZenonT(60) DEF Earliest
    <2> QED  BY <2>2, ZenonT(60) DEF L, next, fires
  <1>5. CASE next # None
    <2>1. next \in Int /\ next \in L
      BY <1>1, <1>3, <1>5, ZenonT(60) DEF Instant
    <2>2. ASSUME NEW m \in L PROVE next <= m
      <3>1. unixTime(next) <= unixTime(m) /\ m \in Int
        BY <1>1, <1>2, <1>5, <2>2, ZenonT(60)
      <3>2. unixTime(m) >= unixTime(next)
        BY <2>1, <3>1, Conversions, SMTT(30)
      <3>3. m >= next
        BY <2>1, <3>1, <3>2, SameOrder, ZenonT(60)
      <3> QED  BY <2>1, <3>1, <3>3, SMTT(30)
    <2>3. L \in SUBSET Int /\ L # {}
      BY <2>1, ZenonT(60)
    <2> HIDE DEF L
    <2>4. Earliest(L) = CHOOSE x \in L : \A y \in L : x <= y
      BY <2>3, ZenonT(60) DEF Earliest
    <2>5. Earliest(L) \in L /\ Earliest(L) <= next /\ next <= Earliest(L)
      BY <2>1, <2>2, <2>4, ZenonT(60)
    <2>6. Earliest(L) \in Int
      BY <2>3, <2>5, ZenonT(60)
    <2>7. \A x, y \in Int : x <= y /\ y <= x => x = y
      BY SMTT(30)
    <2>8. Earliest(L) = next
      BY <2>1, <2>5, <2>6, <2>7, ZenonT(60)
    <2> QED  BY <2>8, ZenonT(60) DEF L, next, fires
  <1> QED
    BY <1>4, <1>5, ZenonT(60)

\* A claim's decision is well formed, and the cursor it leaves is strictly past
\* the occurrence it took: an occurrence is never claimed twice.
LEMMA DecisionGoesForward ==
    ASSUME NEW s, Timed(s), s.next \in Int, NEW t \in Int, NEW threshold \in Nat,
           unixTime(s.next) <= t
    PROVE  LET d == decide(s, t, threshold)
           IN  /\ d.fire \in BOOLEAN
               /\ d.missedFrom \in Int
               /\ d.next \in Instant
               /\ d.next # None => d.next > unixTime(s.next)
  <1> DEFINE d == decide(s, t, threshold)
  <1>1. unixTime(s.next) \in Int
    BY Conversions, ZenonT(60)
  <1>2. advanceFrom(s, t, threshold) \in Int /\ advanceFrom(s, t, threshold) >= unixTime(s.next)
    BY <1>1 DEF advanceFrom
  <1>3. d.next = nextFire(s, advanceFrom(s, t, threshold))
    BY ZenonT(60) DEF decide
  <1>4. d.next \in Instant /\ (d.next # None => d.next > unixTime(s.next))
    <2> HIDE DEF d
    <2>1. nextFire(s, advanceFrom(s, t, threshold)) \in Instant
      BY <1>2, NextFireAfter, ZenonT(60)
    <2>2. nextFire(s, advanceFrom(s, t, threshold)) # None =>
            nextFire(s, advanceFrom(s, t, threshold)) > advanceFrom(s, t, threshold)
      BY <1>2, NextFireAfter, ZenonT(60)
    <2> QED
      BY <1>1, <1>2, <1>3, <2>1, <2>2, TriggerAssumption DEF Instant
  <1>5. firstOverdue(s) \in Int
    <2>1. TriggerNext(s.trigger, unixTime(s.next), anchorOf(s)) \in Instant
      BY <1>1, AnchorIsInstant, TriggerNextAfter, ZenonT(60) DEF Timed
    <2> QED
      BY <1>1, <2>1, TriggerAssumption, ZenonT(60) DEF firstOverdue, Instant
  <1>6. d.missedFrom \in {unixTime(s.next), firstOverdue(s)}
    BY ZenonT(60) DEF decide
  <1>7. d.fire \in BOOLEAN
    BY ZenonT(60) DEF decide
  <1> HIDE DEF d
  <1> QED
    BY <1>1, <1>4, <1>5, <1>6, <1>7, ZenonT(60) DEF d

\* The cursor a claim stores is a later millisecond than the one it took.
LEMMA CursorAdvances ==
    ASSUME NEW s, Timed(s), s.next \in Int, NEW t \in Int, unixTime(s.next) <= t
    PROVE  LET next == toMs(decide(s, t, MisfireThreshold).next)
           IN  next \in Instant /\ (next # None => next > s.next)
  <1> DEFINE from == advanceFrom(s, t, MisfireThreshold)
             next == toMs(nextFire(s, from))
  <1>1. unixTime(s.next) \in Int
    BY Conversions, ZenonT(60)
  <1>2. from \in Int /\ from >= unixTime(s.next)
    BY <1>1 DEF advanceFrom
  <1>3. toMs(decide(s, t, MisfireThreshold).next) = next
    BY ZenonT(60) DEF decide
  <1> HIDE DEF from
  <1>4. next \in Instant /\ (next # None => unixTime(next) = nextFire(s, from))
    BY <1>2, CursorIsLater, ZenonT(60)
  <1>5. nextFire(s, from) \in Instant /\ (nextFire(s, from) # None => nextFire(s, from) > from)
    BY <1>2, NextFireAfter, ZenonT(60)
  <1>6. next # None => nextFire(s, from) # None
    BY Conversions, ZenonT(60)
  <1> HIDE DEF next
  <1>7. ASSUME next # None PROVE next > s.next
    <2>1. nextFire(s, from) \in Int /\ next \in Int
      BY <1>4, <1>5, <1>6, <1>7, ZenonT(60) DEF Instant
    <2>2. unixTime(next) > unixTime(s.next)
      BY <1>1, <1>2, <1>4, <1>5, <1>6, <1>7, <2>1, SMTT(30)
    <2> QED  BY <2>1, <2>2, Multiples, ZenonT(60)
  <1> QED
    BY <1>3, <1>4, <1>7, ZenonT(60)

\* A later clock shows no earlier millisecond.
LEMMA LaterMillis ==
    ASSUME NEW t \in Int, NEW u \in Int, t <= u
    PROVE  unixMs(t) <= unixMs(u)
  <1>1. unixMs(t) \in Int /\ unixMs(u) \in Int
    BY Conversions, ZenonT(60)
  <1>2. Milli \in Nat /\ Milli > 0
    BY TriggerAssumption
  <1>3. unixTime(unixMs(t)) <= t
    BY <1>1, DueByClock, SMTT(30)
  <1>4. u < unixTime(unixMs(u) + 1)
    BY <1>2, SMTT(30) DEF unixTime, unixMs
  <1>5. unixMs(u) + 1 \in Int /\ unixTime(unixMs(u) + 1) \in Int /\ unixTime(unixMs(t)) \in Int
    BY <1>1, Conversions, SMTT(30)
  <1>6. unixTime(unixMs(u) + 1) > unixTime(unixMs(t))
    BY <1>3, <1>4, <1>5, SMTT(30)
  <1>7. unixMs(u) + 1 > unixMs(t)
    BY <1>1, <1>5, <1>6, Multiples, ZenonT(60)
  <1> QED
    BY <1>1, <1>7, SMTT(30)

\* Clocks k milliseconds apart show milliseconds at most k apart.
LEMMA CloseMillis ==
    ASSUME NEW t \in Int, NEW u \in Int, NEW k \in Int, u - t <= unixTime(k)
    PROVE  unixMs(u) <= unixMs(t) + k
  <1> DEFINE q == unixMs(t)
  <1>1. q \in Int /\ unixMs(u) \in Int /\ unixTime(k) \in Int
    BY Conversions, ZenonT(60)
  <1>2. Milli \in Nat /\ Milli > 0
    BY TriggerAssumption
  <1>3. unixTime(unixMs(u)) <= u
    BY <1>1, DueByClock, SMTT(30)
  <1>4. t < unixTime(q + 1)
    BY <1>2, SMTT(30) DEF unixTime, unixMs
  <1> HIDE DEF q
  <1>5. unixTime(q + 1) + unixTime(k) = unixTime(q + 1 + k)
    BY <1>1, <1>2, SMTT(30) DEF unixTime
  <1>6. /\ q + 1 + k \in Int /\ unixTime(q + 1 + k) \in Int /\ unixTime(unixMs(u)) \in Int
        /\ unixTime(q + 1) \in Int
    BY <1>1, Conversions, SMTT(30)
  <1>7. unixTime(q + 1 + k) > unixTime(unixMs(u))
    BY <1>1, <1>3, <1>4, <1>5, <1>6, SMTT(30)
  <1>8. q + 1 + k > unixMs(u)
    BY <1>1, <1>6, <1>7, Multiples, ZenonT(60)
  <1> QED
    BY <1>1, <1>8, SMTT(30) DEF q

\* What refreshNextFire stores is a millisecond, or no cursor.
LEMMA RefreshedCursor ==
    ASSUME NEW s, Timed(s), NEW after \in Int
    PROVE  toMs(nextFire(s, after)) \in Instant
  BY NextFireAfter, Conversions, ZenonT(60)

-----------------------------------------------------------------------------
(***************************************************************************)
(* The schedule manager.                                                   *)
(***************************************************************************)

\* A manager operation that writes one schedule and perhaps its requests.
LEMMA ManageKeeps ==
    ASSUME JournalInv, NEW n \in Node, NEW s \in Sched, NEW row \in ScheduleRow \cup {None},
           Manage(n, s, row),
           created' \in SUBSET Sched,
           manual' \in 0..MaxManual,
           request' \subseteq Request,
           RequestsLinked',
           \A q \in request' \ request : q.kind = "manual",
           \A p, q \in request' : p.id = q.id => p = q,
           row = None => \A q \in request' : q.sched # s,
           \A q \in request' \ request : q.sched = s
    PROVE  JournalInv'
  <1>1. UNCHANGED <<now, run, node, fire, doomed, requeued, events>>
        /\ schedule' = [schedule EXCEPT ![s] = row]
    BY ZenonT(60) DEF Manage
  <1>2. schedule \in [Sched -> ScheduleRow \cup {None}]
    BY ZenonT(60) DEF JournalInv, TypeOK
  <1>3. /\ schedule' \in [Sched -> ScheduleRow \cup {None}]
        /\ schedule'[s] = row
        /\ \A u \in Sched \ {s} : schedule'[u] = schedule[u]
    BY <1>1, <1>2, ZenonT(60)
  <1>4. TypeOK'
    BY <1>1, <1>3, ZenonT(60) DEF JournalInv, TypeOK
  <1>5. EventsMatchJournal' /\ DoomedTerminal'
    BY <1>1, ZenonT(60) DEF JournalInv, EventsMatchJournal, DoomedTerminal
  <1>6. \A r \in RunId : RunLinked(r)'
    BY <1>1, ZenonT(60) DEF JournalInv, RunLinked, Running
  <1>7. NoOrphanRequest'
    <2>1. ASSUME NEW q \in request' PROVE schedule'[q.sched] # None
      <3>1. q.sched \in Sched
        BY ZenonT(60) DEF Request
      <3>2. CASE q.sched = s
        BY <1>3, <3>2, ZenonT(60)
      <3>3. CASE q.sched # s
        BY <1>3, <3>1, <3>3, ZenonT(60) DEF JournalInv, NoOrphanRequest
      <3> QED  BY <3>2, <3>3, ZenonT(60)
    <2> QED  BY <2>1, ZenonT(60) DEF NoOrphanRequest
  <1>8. RequeuedOnce'
    <2>1. \A q \in request' : q.kind = "manual" => q.source = None
      BY ZenonT(60) DEF RequestsLinked
    <2>2. \A q \in request' : q.kind = "recovery" => q \in request
      BY ZenonT(60)
    <2>3. \A q \in request' : q.kind \in {"manual", "recovery"}
      BY ZenonT(60) DEF Request
    <2>4. \A p, q \in request' : p.source = q.source /\ p.source # None => p = q
      BY <2>1, <2>2, <2>3, ZenonT(60) DEF JournalInv, RequeuedOnce
    <2> QED
      BY <1>1, <2>2, <2>4, ZenonT(60) DEF JournalInv, RequeuedOnce
  <1> QED
    BY <1>4, <1>5, <1>6, <1>7, <1>8, ZenonT(60) DEF JournalInv

\* The rows the manager writes are schedule rows.
LEMMA ManagedRows ==
    ASSUME NEW t \in Int
    PROVE  /\ \A spec \in Specs, a \in Int : materialize(spec, a) \in ScheduleRow
           /\ \A row \in ScheduleRow : refreshNextFire(row, t) \in ScheduleRow
  <1>1. ASSUME NEW spec \in Specs, NEW a \in Int
        PROVE  materialize(spec, a) \in ScheduleRow
    <2>1. spec \in [trigger : Trigger, startsAt : Instant, endsAt : Instant,
                    misfire : {None, "fire_now", "skip"}, policy : {None, "allow", "forbid"},
                    recover : BOOLEAN, job : STRING, enabled : BOOLEAN]
      BY SpecsAssumption, ZenonT(60)
    <2>2. /\ normalizeMisfirePolicy(spec.misfire) \in {"fire_now", "skip"}
          /\ normalizeConcurrencyPolicy(spec.policy) \in {"allow", "forbid"}
      BY <2>1, ZenonT(60) DEF normalizeMisfirePolicy, normalizeConcurrencyPolicy
    <2> QED
      BY <2>1, <2>2, ZenonT(60) DEF materialize, ScheduleRow, Instant
  <1>2. ASSUME NEW row \in ScheduleRow
        PROVE  refreshNextFire(row, t) \in ScheduleRow
    <2>1. toMs(nextFire(row, t)) \in Instant
      <3>1. Timed(row)
        BY ZenonT(60) DEF ScheduleRow, Timed
      <3> QED  BY <3>1, RefreshedCursor, ZenonT(60)
    <2>2. \A x \in Instant : [row EXCEPT !.next = x] \in ScheduleRow
      BY ZenonT(60) DEF ScheduleRow
    <2>3. (IF row.enabled THEN toMs(nextFire(row, t)) ELSE None) \in Instant
      BY <2>1, ZenonT(60) DEF Instant
    <2> QED
      BY <2>2, <2>3, ZenonT(60) DEF refreshNextFire
  <1> QED
    BY <1>1, <1>2, ZenonT(60)

\* Every manager operation keeps the journal invariant.
LEMMA ManagerKeeps ==
    ASSUME JournalInv, NEW n \in Node, NEW s \in Sched,
           \/ \E spec \in Specs : Create(n, s, spec) \/ Update(n, s, spec)
           \/ Delete(n, s)
           \/ Pause(n, s)
           \/ Resume(n, s)
           \/ TriggerNow(n, s)
    PROVE  JournalInv'
  <1>1. /\ schedule \in [Sched -> ScheduleRow \cup {None}]
        /\ created \in SUBSET Sched /\ manual \in 0..MaxManual /\ request \subseteq Request
        /\ RequestsLinked
        /\ \A p, q \in request : p.id = q.id => p = q
    BY ZenonT(60) DEF JournalInv, TypeOK
  <1>2. clock(n) \in Int /\ unixMs(clock(n)) \in Int
    BY StoreAssumption, TriggerAssumption, SMTT(30) DEF JournalInv, TypeOK, clock, unixMs
  <1>3. ASSUME NEW row \in ScheduleRow, Manage(n, s, row), UNCHANGED <<request, manual>>,
               created' \in SUBSET Sched
        PROVE  JournalInv'
    <2>1. RequestsLinked'
      BY <1>1, <1>3, ZenonT(60) DEF RequestsLinked
    <2>2. row # None /\ row \in ScheduleRow \cup {None}
      BY NoneAssumption, ZenonT(60)
    <2> QED
      BY <1>1, <1>3, <2>1, <2>2, ManageKeeps, ZenonT(60)
  <1>4. ASSUME NEW spec \in Specs, Create(n, s, spec) PROVE JournalInv'
    <2> DEFINE row == refreshNextFire(materialize(spec, unixMs(clock(n))), clock(n))
    <2>1. row \in ScheduleRow
      BY <1>2, ManagedRows, ZenonT(60)
    <2>2. Manage(n, s, row) /\ UNCHANGED <<request, manual>> /\ created' \in SUBSET Sched
      BY <1>1, <1>4, ZenonT(60) DEF Create
    <2> HIDE DEF row
    <2> QED  BY <1>3, <2>1, <2>2, ZenonT(60)
  <1>5. ASSUME NEW spec \in Specs, Update(n, s, spec) PROVE JournalInv'
    <2> DEFINE current == schedule[s]
               kept == [materialize(spec, current.anchorAt) EXCEPT !.next = current.next,
                                                                   !.last = current.last]
               rearm == \/ ~sameScheduleTiming(current, kept)
                        \/ kept.enabled /\ ~current.enabled /\ current.next = None
               row == IF rearm THEN refreshNextFire(kept, clock(n)) ELSE kept
    <2>1. current \in ScheduleRow
      BY <1>1, <1>5, ZenonT(60) DEF Update
    <2>2. current.anchorAt \in Int /\ current.next \in Instant /\ current.last \in Instant
      BY <2>1, ZenonT(60) DEF ScheduleRow
    <2>3. \A x \in ScheduleRow, a, b \in Instant : [x EXCEPT !.next = a, !.last = b] \in ScheduleRow
      BY ZenonT(60) DEF ScheduleRow
    <2>4. kept \in ScheduleRow
      <3>1. materialize(spec, current.anchorAt) \in ScheduleRow
        BY <1>2, <2>2, ManagedRows, ZenonT(60)
      <3> QED  BY <2>2, <2>3, <3>1, ZenonT(60)
    <2>5. Manage(n, s, row) /\ UNCHANGED <<request, manual>> /\ created' \in SUBSET Sched
      BY <1>1, <1>5, ZenonT(60) DEF Update
    <2> HIDE DEF current, kept, rearm
    <2>6. row \in ScheduleRow
      BY <1>2, <2>4, ManagedRows, ZenonT(60)
    <2> HIDE DEF row
    <2> QED  BY <1>3, <2>5, <2>6, ZenonT(60)
  <1>6. CASE Delete(n, s)
    <2>1. /\ Manage(n, s, None) /\ request' = {q \in request : q.sched # s}
          /\ UNCHANGED <<created, manual>>
      BY <1>6, ZenonT(60) DEF Delete
    <2>2. RequestsLinked'
      BY <1>1, <2>1, ZenonT(60) DEF RequestsLinked
    <2> QED
      BY <1>1, <2>1, <2>2, ManageKeeps, ZenonT(60)
  <1>7. CASE Pause(n, s)
    <2> DEFINE row == [schedule[s] EXCEPT !.enabled = FALSE]
    <2>1. row \in ScheduleRow
      <3>1. schedule[s] \in ScheduleRow
        BY <1>1, <1>7, ZenonT(60) DEF Pause
      <3> QED  BY <3>1, ZenonT(60) DEF ScheduleRow
    <2>2. Manage(n, s, row) /\ UNCHANGED <<request, manual>> /\ created' \in SUBSET Sched
      BY <1>1, <1>7, ZenonT(60) DEF Pause
    <2> HIDE DEF row
    <2> QED  BY <1>3, <2>1, <2>2, ZenonT(60)
  <1>8. CASE Resume(n, s)
    <2> DEFINE on == [schedule[s] EXCEPT !.enabled = TRUE]
               row == IF on.next = None THEN refreshNextFire(on, clock(n)) ELSE on
    <2>1. on \in ScheduleRow
      <3>1. schedule[s] \in ScheduleRow
        BY <1>1, <1>8, ZenonT(60) DEF Resume
      <3> QED  BY <3>1, ZenonT(60) DEF ScheduleRow
    <2>2. Manage(n, s, row) /\ UNCHANGED <<request, manual>> /\ created' \in SUBSET Sched
      BY <1>1, <1>8, ZenonT(60) DEF Resume
    <2> HIDE DEF on
    <2>3. row \in ScheduleRow
      BY <1>2, <2>1, ManagedRows, ZenonT(60)
    <2> HIDE DEF row
    <2> QED  BY <1>3, <2>2, <2>3, ZenonT(60)
  <1>9. CASE TriggerNow(n, s)
    <2> DEFINE q0 == ManualRequest(s, clock(n))
    <2>1. /\ Manage(n, s, schedule[s]) /\ schedule[s] # None /\ manual < MaxManual
          /\ request' = request \cup {q0} /\ manual' = manual + 1 /\ UNCHANGED created
      BY <1>9, ZenonT(60) DEF TriggerNow
    <2>2. manual \in Nat /\ manual + 1 \in 0..MaxManual
      BY <1>1, <2>1, StoreAssumption, SMTT(30)
    <2>3. q0 \in Request /\ q0.kind = "manual" /\ q0.source = None /\ q0.id = manual + 1 /\ q0.sched = s
      BY <1>2, <2>2, SMTT(30) DEF ManualRequest, Request
    <2> HIDE DEF q0
    <2>4. \A q \in request : q.id \in Nat /\ q.id # manual + 1
      <3>1. TAKE q \in request
      <3>2. q.kind \in {"manual", "recovery"}
        BY <1>1, ZenonT(60) DEF Request
      <3>3. q.kind = "manual" => q.id \in 1..manual
        BY <1>1, ZenonT(60) DEF RequestsLinked
      <3>4. q.kind = "recovery" => q.id = MaxManual + q.source /\ q.source \in Nat /\ q.source > 0
        BY <1>1, SMTT(30) DEF RequestsLinked, RunId
      <3> QED
        BY <2>1, <2>2, <3>2, <3>3, <3>4, StoreAssumption, SMTT(30)
    <2>5. RequestsLinked'
      <3>1. \A i \in 1..manual : i \in 1..(manual + 1)
        BY <2>2, SMTT(30)
      <3> QED
        BY <1>1, <2>1, <2>2, <2>3, <3>1, SMTT(30) DEF RequestsLinked
    <2>6. schedule[s] \in ScheduleRow \cup {None}
      BY <1>1, ZenonT(60)
    <2>7. /\ \A q \in request' \ request : q.kind = "manual" /\ q.sched = s
          /\ \A p, q \in request' : p.id = q.id => p = q
          /\ request' \subseteq Request
      BY <1>1, <2>1, <2>3, <2>4, SMTT(30)
    <2>8. created' \in SUBSET Sched /\ manual' \in 0..MaxManual
      BY <1>1, <2>1, <2>2, ZenonT(60)
    <2> QED
      BY <2>1, <2>5, <2>6, <2>7, <2>8, ManageKeeps, ZenonT(60)
  <1> QED
    BY <1>4, <1>5, <1>6, <1>7, <1>8, <1>9, ZenonT(60)

\* Every schedule row has what nextFire and decide read of it.
LEMMA RowsAreTimed ==
    ASSUME NEW row \in ScheduleRow
    PROVE  Timed(row)
  BY ZenonT(60) DEF ScheduleRow, Timed

\* A row written from a specification.
Specified(row, spec) ==
    row.recover = spec.recover /\ row.policy = normalizeConcurrencyPolicy(spec.policy)

\* No cursor, or one past the node's clock.
Ahead(next, n) == next = None \/ (next \in Int /\ next > unixMs(clock(n)))

\* The cursor of a row is an occurrence of its trigger, which its timing decides.
OnTrigger(row) == row.next # None => Occurs(row, row.next)
SameTiming(u, row) ==
    /\ u.trigger = row.trigger /\ u.startsAt = row.startsAt /\ u.endsAt = row.endsAt
    /\ u.anchorAt = row.anchorAt

\* Rows of the same timing have the same occurrences.
LEMMA TimingDecides ==
    ASSUME NEW u, NEW row, SameTiming(u, row)
    PROVE  /\ \A m : Occurs(u, m) <=> Occurs(row, m)
           /\ u.next = row.next /\ OnTrigger(row) => OnTrigger(u)
  BY ZenonT(60) DEF SameTiming, OnTrigger, Occurs

\* What a manager operation on node n makes of schedule s: it is deleted with
\* its requests, created, or kept with its history.
Makes(n, s) ==
    /\ \A u \in Sched \ {s} : schedule'[u] = schedule[u]
    /\ \A q \in request : q.sched # s => q \in request'
    /\ \A q \in request' \ request : q.kind = "manual"
    /\ \/ schedule'[s] = None /\ created' = created
       \/ /\ schedule'[s] # None /\ request \subseteq request'
          /\ s \notin created /\ created' = created \cup {s}
          /\ schedule'[s].last = None
          /\ \E spec \in Specs : Specified(schedule'[s], spec)
          /\ OnTrigger(schedule'[s])
       \/ /\ schedule'[s] # None /\ request \subseteq request'
          /\ schedule[s] # None /\ created' = created
          /\ schedule'[s].last = schedule[s].last
          /\ \/ /\ schedule'[s].recover = schedule[s].recover
                /\ schedule'[s].policy = schedule[s].policy
             \/ \E spec \in Specs : Specified(schedule'[s], spec)
          /\ schedule'[s].next = schedule[s].next \/ Ahead(schedule'[s].next, n)
          /\ OnTrigger(schedule[s]) => OnTrigger(schedule'[s])

\* refreshNextFire changes the cursor only, and leaves it past the clock and on
\* the trigger.
LEMMA Refreshed ==
    ASSUME NEW row \in ScheduleRow, NEW n \in Node, clock(n) \in Int
    PROVE  LET u == refreshNextFire(row, clock(n))
           IN  /\ u \in ScheduleRow /\ u.last = row.last /\ u.recover = row.recover
               /\ u.policy = row.policy
               /\ Ahead(u.next, n)
               /\ OnTrigger(u)
  <1> DEFINE next == IF row.enabled THEN toMs(nextFire(row, clock(n))) ELSE None
             u == refreshNextFire(row, clock(n))
  <1>1. u \in ScheduleRow
    BY ManagedRows, ZenonT(60)
  <1>2. u = [row EXCEPT !.next = next]
    BY ZenonT(60) DEF refreshNextFire
  <1>3. next = None \/ (next \in Int /\ next > unixMs(clock(n)))
    <2>1. Timed(row)
      BY RowsAreTimed, ZenonT(60)
    <2> QED  BY <2>1, CursorIsLater, ZenonT(60) DEF Instant
  <1> HIDE DEF next, u
  <1>4. /\ u.last = row.last /\ u.recover = row.recover /\ u.policy = row.policy
        /\ u.next = next /\ SameTiming(u, row)
    BY <1>2, SMTT(30) DEF ScheduleRow, SameTiming
  <1>5. OnTrigger(u)
    <2>1. next # None => Occurs(row, next)
      BY RowsAreTimed, NextOccurs, ZenonT(60) DEF next
    <2> QED  BY <1>4, <2>1, TimingDecides, ZenonT(60) DEF OnTrigger
  <1> QED
    BY <1>1, <1>3, <1>4, <1>5, ZenonT(60) DEF u, Ahead

\* Every manager operation does one of these.
LEMMA ManagerMakes ==
    ASSUME JournalInv, Manager
    PROVE  \E n \in Node, s \in Sched : Makes(n, s)
  <1>1. PICK n \in Node, s \in Sched :
           \/ \E spec \in Specs : Create(n, s, spec) \/ Update(n, s, spec)
           \/ Delete(n, s) \/ Pause(n, s) \/ Resume(n, s) \/ TriggerNow(n, s)
    BY ZenonT(60) DEF Manager
  <1>2. schedule \in [Sched -> ScheduleRow \cup {None}]
    BY ZenonT(60) DEF JournalInv, TypeOK
  <1>3. clock(n) \in Int /\ unixMs(clock(n)) \in Int
    BY StoreAssumption, TriggerAssumption, SMTT(30) DEF JournalInv, TypeOK, clock, unixMs
  <1>4. ASSUME NEW row, Manage(n, s, row)
        PROVE  schedule'[s] = row /\ \A u \in Sched \ {s} : schedule'[u] = schedule[u]
    BY <1>2, <1>4, ZenonT(60) DEF Manage
  <1>5. \A spec \in Specs, a \in Int :
            /\ materialize(spec, a) \in ScheduleRow
            /\ materialize(spec, a).last = None
            /\ Specified(materialize(spec, a), spec)
    <2>1. \A spec \in Specs, a \in Int : materialize(spec, a) \in ScheduleRow
      BY <1>3, ManagedRows, ZenonT(60)
    <2>2. \A spec, a : materialize(spec, a).last = None /\ Specified(materialize(spec, a), spec)
      BY ZenonT(60) DEF materialize, Specified
    <2> QED  BY <2>1, <2>2, ZenonT(60)
  <1>6. ASSUME NEW spec \in Specs, Create(n, s, spec) PROVE Makes(n, s)
    <2> DEFINE m == materialize(spec, unixMs(clock(n)))
               row == refreshNextFire(m, clock(n))
    <2>1. m \in ScheduleRow /\ m.last = None /\ Specified(m, spec)
      BY <1>3, <1>5, ZenonT(60)
    <2>2. /\ row \in ScheduleRow /\ row.last = m.last /\ row.recover = m.recover
          /\ row.policy = m.policy /\ OnTrigger(row)
      <3> HIDE DEF m
      <3> QED  BY <1>3, <2>1, Refreshed, ZenonT(60)
    <2>3. /\ Manage(n, s, row) /\ s \notin created /\ created' = created \cup {s}
          /\ request' = request
      BY <1>6, ZenonT(60) DEF Create
    <2> HIDE DEF m, row
    <2>4. row # None /\ row.last = None /\ Specified(row, spec)
      BY <2>1, <2>2, NoneAssumption, ZenonT(60) DEF Specified
    <2> QED
      BY <1>4, <2>2, <2>3, <2>4, ZenonT(60) DEF Makes
  <1>7. ASSUME NEW spec \in Specs, Update(n, s, spec) PROVE Makes(n, s)
    <2> DEFINE current == schedule[s]
               kept == [materialize(spec, current.anchorAt) EXCEPT !.next = current.next,
                                                                   !.last = current.last]
               rearm == \/ ~sameScheduleTiming(current, kept)
                        \/ kept.enabled /\ ~current.enabled /\ current.next = None
               row == IF rearm THEN refreshNextFire(kept, clock(n)) ELSE kept
    <2>1. current \in ScheduleRow
      BY <1>2, <1>7, ZenonT(60) DEF Update
    <2>2. current.anchorAt \in Int /\ current.next \in Instant /\ current.last \in Instant
      BY <2>1, ZenonT(60) DEF ScheduleRow
    <2>3. \A x \in ScheduleRow, a, b \in Instant : [x EXCEPT !.next = a, !.last = b] \in ScheduleRow
      BY ZenonT(60) DEF ScheduleRow
    <2>4. /\ kept \in ScheduleRow /\ kept.next = current.next /\ kept.last = current.last
          /\ kept.anchorAt = current.anchorAt /\ Specified(kept, spec)
      <3> DEFINE m == materialize(spec, current.anchorAt)
      <3>1. m \in ScheduleRow /\ Specified(m, spec) /\ m.anchorAt = current.anchorAt
        BY <1>5, <2>2, ZenonT(60) DEF materialize
      <3>2. kept = [m EXCEPT !.next = current.next, !.last = current.last]
        BY ZenonT(60)
      <3> HIDE DEF m, kept
      <3>3. kept \in ScheduleRow
        BY <2>2, <2>3, <3>1, <3>2, ZenonT(60)
      <3>4. /\ kept.next = current.next /\ kept.last = current.last
            /\ kept.recover = m.recover /\ kept.policy = m.policy /\ kept.anchorAt = m.anchorAt
        BY <3>1, <3>2, SMTT(30) DEF ScheduleRow
      <3> QED  BY <3>1, <3>3, <3>4, ZenonT(60) DEF Specified
    <2>5. Manage(n, s, row) /\ request' = request /\ created' = created /\ current # None
      BY <1>7, ZenonT(60) DEF Update
    <2> HIDE DEF kept, rearm
    <2>6. /\ row \in ScheduleRow /\ row.last = kept.last /\ Specified(row, spec)
          /\ row.next = kept.next \/ Ahead(row.next, n)
      BY <1>3, <2>4, Refreshed, ZenonT(60) DEF Specified
    <2>7. OnTrigger(current) => OnTrigger(row)
      <3>1. CASE rearm
        BY <1>3, <2>4, <3>1, Refreshed, ZenonT(60)
      <3>2. CASE ~rearm
        <4>1. sameScheduleTiming(current, kept)
          BY <3>2, ZenonT(60) DEF rearm
        <4>2. SameTiming(kept, current)
          BY <2>4, <4>1, ZenonT(60) DEF sameScheduleTiming, SameTiming
        <4> QED  BY <2>4, <3>2, <4>2, TimingDecides, ZenonT(60)
      <3> QED  BY <3>1, <3>2, ZenonT(60)
    <2> HIDE DEF row
    <2> QED
      BY <1>4, <2>4, <2>5, <2>6, <2>7, NoneAssumption, ZenonT(60) DEF Makes
  <1>8. ASSUME NEW row \in ScheduleRow, Manage(n, s, row), schedule[s] # None,
               created' = created, request \subseteq request',
               \A q \in request' \ request : q.kind = "manual",
               row.last = schedule[s].last, row.recover = schedule[s].recover,
               row.policy = schedule[s].policy,
               row.next = schedule[s].next \/ Ahead(row.next, n),
               OnTrigger(schedule[s]) => OnTrigger(row)
        PROVE  Makes(n, s)
    BY <1>4, <1>8, NoneAssumption, ZenonT(60) DEF Makes
  <1>9. ASSUME NEW on \in BOOLEAN, NEW row \in ScheduleRow
        PROVE  LET u == [row EXCEPT !.enabled = on]
               IN  /\ u \in ScheduleRow /\ u.last = row.last /\ u.next = row.next
                   /\ u.recover = row.recover /\ u.policy = row.policy
                   /\ OnTrigger(row) => OnTrigger(u)
    <2> DEFINE u == [row EXCEPT !.enabled = on]
    <2>1. /\ u \in ScheduleRow /\ u.last = row.last /\ u.next = row.next
          /\ u.recover = row.recover /\ u.policy = row.policy /\ SameTiming(u, row)
      BY SMTT(30) DEF ScheduleRow, SameTiming
    <2> HIDE DEF u
    <2> QED  BY <2>1, TimingDecides, ZenonT(60) DEF u
  <1>10. CASE Delete(n, s)
    <2>1. /\ Manage(n, s, None) /\ request' = {q \in request : q.sched # s}
          /\ created' = created
      BY <1>10, ZenonT(60) DEF Delete
    <2> QED  BY <1>4, <2>1, ZenonT(60) DEF Makes
  <1>11. CASE Pause(n, s)
    <2> DEFINE row == [schedule[s] EXCEPT !.enabled = FALSE]
    <2>1. schedule[s] \in ScheduleRow /\ schedule[s] # None
      BY <1>2, <1>11, ZenonT(60) DEF Pause
    <2>2. Manage(n, s, row) /\ request' = request /\ created' = created
      BY <1>11, ZenonT(60) DEF Pause
    <2>3. /\ row \in ScheduleRow /\ row.last = schedule[s].last /\ row.next = schedule[s].next
          /\ row.recover = schedule[s].recover /\ row.policy = schedule[s].policy
          /\ OnTrigger(schedule[s]) => OnTrigger(row)
      BY <1>9, <2>1, ZenonT(60)
    <2> HIDE DEF row
    <2> QED  BY <1>8, <2>1, <2>2, <2>3, ZenonT(60)
  <1>12. CASE Resume(n, s)
    <2> DEFINE on == [schedule[s] EXCEPT !.enabled = TRUE]
               row == IF on.next = None THEN refreshNextFire(on, clock(n)) ELSE on
    <2>1. schedule[s] \in ScheduleRow /\ schedule[s] # None
      BY <1>2, <1>12, ZenonT(60) DEF Resume
    <2>2. Manage(n, s, row) /\ request' = request /\ created' = created
      BY <1>12, ZenonT(60) DEF Resume
    <2>3. /\ on \in ScheduleRow /\ on.last = schedule[s].last /\ on.next = schedule[s].next
          /\ on.recover = schedule[s].recover /\ on.policy = schedule[s].policy
          /\ OnTrigger(schedule[s]) => OnTrigger(on)
      BY <1>9, <2>1, ZenonT(60)
    <2> HIDE DEF on
    <2>4. /\ row \in ScheduleRow /\ row.last = on.last
          /\ row.recover = on.recover /\ row.policy = on.policy
          /\ row.next = on.next \/ Ahead(row.next, n)
          /\ OnTrigger(on) => OnTrigger(row)
      BY <1>3, <2>3, Refreshed, ZenonT(60)
    <2> HIDE DEF row
    <2> QED  BY <1>8, <2>1, <2>2, <2>3, <2>4, ZenonT(60)
  <1>13. CASE TriggerNow(n, s)
    <2>1. /\ schedule[s] \in ScheduleRow /\ schedule[s] # None
          /\ Manage(n, s, schedule[s]) /\ created' = created
          /\ request' = request \cup {ManualRequest(s, clock(n))}
      BY <1>2, <1>13, ZenonT(60) DEF TriggerNow
    <2>2. ManualRequest(s, clock(n)).kind = "manual"
      BY ZenonT(60) DEF ManualRequest
    <2> QED  BY <1>8, <2>1, <2>2, ZenonT(60)
  <1> QED
    BY <1>1, <1>6, <1>7, <1>10, <1>11, <1>12, <1>13, ZenonT(60)

-----------------------------------------------------------------------------
(***************************************************************************)
(* The claim transaction.                                                  *)
(***************************************************************************)

\* A non-empty finite set of integers has a greatest element.
LEMMA GreatestInteger ==
    ASSUME NEW S \in SUBSET Int, IsFiniteSet(S), S # {}
    PROVE  Max(S) \in S /\ \A y \in S : Max(S) >= y
  <1> DEFINE Above(x) == {y \in S : y > x}
             Counts == {Cardinality(Above(x)) : x \in S}
  <1>1. \A x \in S : IsFiniteSet(Above(x)) /\ Cardinality(Above(x)) \in Nat
    BY FS_Subset, FS_CardinalityType, ZenonT(60)
  <1>2. Counts \subseteq Int /\ \A c \in Counts : c > 0 - 1
    <2> HIDE DEF Above
    <2> QED  BY <1>1
  <1>3. Counts # {}
    <2>1. PICK x \in S : TRUE
      BY ZenonT(60)
    <2>2. Cardinality(Above(x)) \in Counts
      OBVIOUS
    <2> QED  BY <2>2, ZenonT(60)
  <1>4. PICK c \in Counts : \A d \in Counts : c <= d
    <2> HIDE DEF Counts
    <2>1. 0 - 1 \in Int
      OBVIOUS
    <2> QED  BY <1>2, <1>3, <2>1, LeastInteger, ZenonT(60)
  <1>5. PICK x \in S : c = Cardinality(Above(x))
    BY ZenonT(60)
  <1>6. ASSUME NEW y \in S, y > x PROVE FALSE
    <2>1. Above(y) \subseteq Above(x) /\ y \in Above(x) /\ y \notin Above(y)
      <3>1. \A z \in S : z > y => z > x
        <4>1. x \in Int /\ y \in Int /\ S \subseteq Int
          OBVIOUS
        <4> QED  BY <1>6, <4>1, SMTT(30)
      <3>2. ~(y > y)
        <4>1. y \in Int
          OBVIOUS
        <4> QED  BY <4>1
      <3> HIDE DEF Counts
      <3> QED  BY <1>6, <3>1, <3>2, ZenonT(60)
    <2>2. Cardinality(Above(y)) <= Cardinality(Above(x)) /\ Cardinality(Above(y)) # Cardinality(Above(x))
      <3> HIDE DEF Above
      <3> QED  BY <1>1, <2>1, FS_Subset, ZenonT(60)
    <2>3. Cardinality(Above(y)) \in Counts
      BY ZenonT(60)
    <2> HIDE DEF Above, Counts
    <2> QED  BY <1>1, <1>4, <1>5, <2>2, <2>3
  <1>7. \A y \in S : x >= y
    BY <1>6
  <1> QED
    BY <1>7, ZenonT(60) DEF Max

\* The image of a finite set under a function is finite, and no larger.
LEMMA FiniteImage ==
    ASSUME NEW S, IsFiniteSet(S), NEW f
    PROVE  IsFiniteSet({f[x] : x \in S}) /\ Cardinality({f[x] : x \in S}) <= Cardinality(S)
  <1> DEFINE T == {f[x] : x \in S}
             g == [x \in S |-> f[x]]
  <1>1. g \in Surjection(S, T)
    BY ZenonT(60) DEF Surjection
  <1> HIDE DEF g, T
  <1>2. IsFiniteSet(T) /\ Cardinality(T) <= Cardinality(S)
    BY <1>1, FS_Surjection, ZenonT(60)
  <1> QED
    BY <1>2, ZenonT(60) DEF T

\* Pending requests are finitely many: their ids are distinct and bounded.
LEMMA FiniteRequests ==
    ASSUME JournalInv
    PROVE  IsFiniteSet(request)
  <1> DEFINE ids == 1..(MaxManual + MaxRun)
             f == [q \in request |-> q.id]
  <1>1. \A q \in request : q.id \in ids
    <2>1. TAKE q \in request
    <2>2. q.kind \in {"manual", "recovery"} /\ manual \in 0..MaxManual
      BY ZenonT(60) DEF JournalInv, TypeOK, Request
    <2>3. /\ q.kind = "manual" => q.id \in 1..manual
          /\ q.kind = "recovery" => q.source \in 1..MaxRun /\ q.id = MaxManual + q.source
      BY ZenonT(60) DEF JournalInv, RequestsLinked, RunId
    <2> QED  BY <2>2, <2>3, StoreAssumption, SMTT(30)
  <1>2. \A p, q \in request : p.id = q.id => p = q
    BY ZenonT(60) DEF JournalInv
  <1>3. f \in Injection(request, ids)
    BY <1>1, <1>2, ZenonT(60) DEF Injection, IsInjective
  <1>4. IsFiniteSet(ids)
    BY StoreAssumption, FS_Interval, SMTT(30)
  <1> QED
    BY <1>3, <1>4, FS_Injection, ZenonT(60)

\* The recovery requests of a set of runs are finitely many.
LEMMA FinitelyQueued ==
    ASSUME NEW R \in SUBSET RunId
    PROVE  IsFiniteSet({RecoveryRequest(r) : r \in R})
  <1>1. IsFiniteSet(R)
    <2>1. 1 \in Int /\ MaxRun \in Int
      BY StoreAssumption, SMTT(30)
    <2>2. IsFiniteSet(RunId)
      BY <2>1, FS_Interval, ZenonT(60) DEF RunId
    <2> QED  BY <2>2, FS_Subset, ZenonT(60)
  <1> DEFINE f == [r \in R |-> RecoveryRequest(r)]
  <1>2. {RecoveryRequest(r) : r \in R} = {f[r] : r \in R}
    OBVIOUS
  <1> HIDE DEF f
  <1> QED
    BY <1>1, <1>2, FiniteImage, ZenonT(60)

\* A claim's work is finite.
LEMMA FiniteWork ==
    ASSUME NEW due \in SUBSET Sched, NEW requests, IsFiniteSet(requests)
    PROVE  IsFiniteSet(fireWork(due, requests))
  <1> DEFINE f == [s \in due |-> [sched |-> s, at |-> schedule[s].next, request |-> None]]
             g == [q \in requests |-> [sched |-> q.sched, at |-> q.at, request |-> q]]
  <1>1. IsFiniteSet(due)
    BY FS_Subset, StoreAssumption, ZenonT(60)
  <1>2. fireWork(due, requests) = {f[s] : s \in due} \cup {g[q] : q \in requests}
    BY ZenonT(60) DEF fireWork
  <1> HIDE DEF f, g
  <1>3. IsFiniteSet({f[s] : s \in due}) /\ IsFiniteSet({g[q] : q \in requests})
    BY <1>1, FiniteImage, ZenonT(60)
  <1> QED
    BY <1>2, <1>3, FS_Union, ZenonT(60)

\* The stale runs of a takeover are running rows of the locked schedules.
LEMMA StaleAreRunning ==
    ASSUME NEW S, NEW t
    PROVE  \A r \in Stale(S, t) : r \in RunId /\ Running(r) /\ run[r].sched \in S
  BY ZenonT(60) DEF Stale, staleRunning

\* Work items belong to locked, existing schedules and carry an instant.
WorkOK(W, S) ==
    \A i \in W :
        /\ i = [sched |-> i.sched, at |-> i.at, request |-> i.request]
        /\ i.sched \in S
        /\ i.at \in Int
        /\ \/ i.request = None /\ schedule[i.sched].next = i.at
           \/ i.request \in Request /\ i.request.sched = i.sched /\ i.request.at = i.at

\* Only existing, enabled schedules are locked by a claim.
LEMMA LockedSchedules ==
    ASSUME JournalInv, NEW n \in Node, NEW free, NEW limit, NEW t
    PROVE  /\ \A s \in lockDueSchedules(n, free, limit, t) :
                 /\ s \in Sched /\ schedule[s] \in ScheduleRow
                 /\ schedule[s].next \in Int /\ schedule[s].next <= unixMs(t)
           /\ \A s \in lockRequestedSchedules(n, free, limit) :
                 s \in Sched /\ schedule[s] \in ScheduleRow
  <1>1. \A s \in Claimable(n) : s \in Sched /\ schedule[s] \in ScheduleRow
    BY ZenonT(60) DEF Claimable, JournalInv, TypeOK
  <1>2. lockRequestedSchedules(n, free, limit) \subseteq Claimable(n)
    BY ZenonT(60) DEF lockRequestedSchedules, FirstBy
  <1>3. \A s \in lockDueSchedules(n, free, limit, t) :
            s \in Claimable(n) /\ schedule[s].next # None /\ schedule[s].next <= unixMs(t)
    BY ZenonT(60) DEF lockDueSchedules, FirstBy
  <1>4. \A row \in ScheduleRow : row.next # None => row.next \in Int
    BY ZenonT(60) DEF ScheduleRow, Instant
  <1> QED
    BY <1>1, <1>2, <1>3, <1>4, ZenonT(60)

\* fireWork over locked schedules and their requests yields such items.
LEMMA WorkIsOK ==
    ASSUME NEW due, NEW S, NEW requests,
           due \subseteq S, \A s \in due : schedule[s].next \in Int,
           requests \subseteq Request, \A q \in requests : q.sched \in S
    PROVE  WorkOK(fireWork(due, requests), S)
  BY DEF WorkOK, fireWork, Request

\* The decision on a due schedule: a well-formed one, with a later cursor.
LEMMA DueDecision ==
    ASSUME NEW row \in ScheduleRow, row.next \in Int, NEW t \in Int, row.next <= unixMs(t)
    PROVE  /\ decide(row, t, MisfireThreshold).fire \in BOOLEAN
           /\ unixMs(decide(row, t, MisfireThreshold).missedFrom) \in Int
           /\ toMs(decide(row, t, MisfireThreshold).next) \in Instant
  <1> DEFINE d == decide(row, t, MisfireThreshold)
  <1>1. Timed(row) /\ unixTime(row.next) <= t
    BY RowsAreTimed, DueByClock, ZenonT(60)
  <1>2. d.fire \in BOOLEAN /\ d.missedFrom \in Int /\ d.next \in Instant
    BY <1>1, DecisionGoesForward, StoreAssumption, ZenonT(60)
  <1> HIDE DEF d
  <1>3. unixMs(d.missedFrom) \in Int /\ toMs(d.next) \in Instant
    BY <1>2, Conversions, ZenonT(60)
  <1> QED
    BY <1>2, <1>3, ZenonT(60) DEF d

\* Journal rows are well formed: running, skipped or missed rows of locked
\* schedules, the running ones with their instant and heartbeat.
LEMMA RowsOK ==
    ASSUME JournalInv, NEW S \in SUBSET Sched, NEW W, NEW reached, NEW active, NEW t \in Int,
           reached \subseteq W, WorkOK(W, S),
           \A i \in W : schedule[i.sched] \in ScheduleRow
                        /\ (i.request = None => schedule[i.sched].next <= unixMs(t)),
           NEW x \in journalRows(reached, W, active, t)
    PROVE  /\ x[3] \in RunRow
           /\ x[3].sched \in S
           /\ x[3].status \in {"running", "skipped", "missed"}
           /\ x[3].status = "running" => x[3].at \in Int /\ x[3].heartbeat \in Int
  <1>0. unixMs(t) \in Int /\ FinishedAt(t) \in Instant
    BY Conversions, StoreAssumption, ZenonT(60) DEF FinishedAt, Instant
  <1>1. CASE \E i \in reached : x = <<i, 1, newRunRow(i, W, active, t)>>
    <2>1. PICK i \in reached : x = <<i, 1, newRunRow(i, W, active, t)>>
      BY <1>1, ZenonT(60)
    <2>2. i.sched \in S /\ i.sched \in Sched /\ i.at \in Int /\ (i.request = None \/ i.request \in Request)
      BY ZenonT(60) DEF WorkOK
    <2>3. /\ (IF i.request = None THEN "regular" ELSE i.request.kind) \in {"regular", "manual", "recovery"}
          /\ (IF i.request = None THEN None ELSE i.request.source) \in RunId \cup {None}
      BY <2>2, ZenonT(60) DEF Request
    <2>4. x[3] = newRunRow(i, W, active, t)
      BY <2>1, ZenonT(60)
    <2> QED
      BY <1>0, <2>2, <2>3, <2>4, ZenonT(60) DEF newRunRow, NoRun, RunRow, Terminal, Instant
  <1>2. CASE \E i \in reached : i.request = None /\ x = <<i, 2, missedRow(i, t)>>
    <2>1. PICK i \in reached : i.request = None /\ x = <<i, 2, missedRow(i, t)>>
      BY <1>2, ZenonT(60)
    <2>2. i.sched \in S /\ i.sched \in Sched /\ schedule[i.sched].next \in Int
      BY <2>1, NoneAssumption, ZenonT(60) DEF WorkOK
    <2>3. unixMs(decide(schedule[i.sched], t, MisfireThreshold).missedFrom) \in Int
      BY <2>1, <2>2, DueDecision, ZenonT(60)
    <2>4. x[3] = missedRow(i, t)
      BY <2>1, ZenonT(60)
    <2> QED
      BY <1>0, <2>2, <2>3, <2>4, ZenonT(60) DEF missedRow, NoRun, RunRow, Terminal, Instant
  <1> QED
    BY <1>1, <1>2, ZenonT(60) DEF journalRows

\* The schedules a claim writes back are rows again.
LEMMA AdvancedOK ==
    ASSUME JournalInv, NEW s \in Sched, NEW S \in SUBSET Sched, NEW W, NEW reached, NEW active, NEW t \in Int,
           reached \subseteq W, WorkOK(W, S), IsFiniteSet(W),
           schedule[s] \in ScheduleRow,
           \A i \in W : i.request = None => schedule[i.sched].next <= unixMs(t)
    PROVE  Advanced(s, reached, W, active, t) \in ScheduleRow
  <1> DEFINE mine == {i \in reached : i.sched = s /\ ~PassedOver(i, W, active, t)}
             regular == {i \in mine : i.request = None}
             asked == {i \in mine : i.request # None}
             d == decide(schedule[s], t, MisfireThreshold)
             base == IF regular # {} /\ d.fire THEN schedule[s].next ELSE schedule[s].last
             picked == {i \in asked : \A g \in regular : d.fire => Before(g, i)}
             later == {i.at : i \in picked}
             forward == {a \in later : base = None \/ a > base}
             next == IF regular # {} THEN toMs(d.next) ELSE schedule[s].next
             last == IF forward = {} THEN base ELSE Max(forward)
  <1>1. base \in Instant
    BY ZenonT(60) DEF ScheduleRow
  <1>2. next \in Instant
    <2>1. CASE regular = {}
      BY <2>1, ZenonT(60) DEF ScheduleRow
    <2>2. CASE regular # {}
      <3>1. PICK i \in W : i.sched = s /\ i.request = None
        BY <2>2, ZenonT(60)
      <3>2. schedule[s].next \in Int /\ schedule[s].next <= unixMs(t)
        BY <3>1, NoneAssumption, ZenonT(60) DEF WorkOK
      <3>3. toMs(d.next) \in Instant
        BY <3>2, DueDecision, ZenonT(60)
      <3> QED
        BY <2>2, <3>3, ZenonT(60)
    <2> QED
      BY <2>1, <2>2, ZenonT(60)
  <1>3. IsFiniteSet(forward) /\ forward \subseteq Int
    <2>1. IsFiniteSet(picked) /\ picked \subseteq W
      BY FS_Subset, ZenonT(60)
    <2>2. later \subseteq Int
      BY <2>1, ZenonT(60) DEF WorkOK
    <2>3. IsFiniteSet(later)
      <3> DEFINE f == [i \in picked |-> i.at]
      <3>1. later = {f[i] : i \in picked}
        BY ZenonT(60)
      <3> HIDE DEF f, later, picked
      <3> QED
        BY <2>1, <3>1, FiniteImage, ZenonT(60)
    <2> HIDE DEF later
    <2> QED
      BY <2>2, <2>3, FS_Subset, ZenonT(60)
  <1>4. last \in Instant
    <2>1. CASE forward = {}
      BY <1>1, <2>1, ZenonT(60)
    <2>2. CASE forward # {}
      <3> HIDE DEF forward, base
      <3> QED
        BY <1>3, <2>2, GreatestInteger, ZenonT(60) DEF Instant
    <2> QED
      BY <2>1, <2>2, ZenonT(60)
  <1>5. Advanced(s, reached, W, active, t) = [schedule[s] EXCEPT !.next = next, !.last = last]
    BY ZenonT(60) DEF Advanced
  <1> HIDE DEF next, last
  <1> QED
    BY <1>2, <1>4, <1>5, ZenonT(60) DEF ScheduleRow

\* What the claim transaction computes.
BatchOK(b) ==
    /\ b.locked \subseteq Sched
    /\ \A s \in b.locked : schedule[s] \in ScheduleRow
    /\ \A r \in b.abandoned : r \in RunId /\ Running(r) /\ run[r].sched \in b.locked
    /\ b.queued = {RecoveryRequest(r) : r \in recoverable(b.abandoned)}
    /\ \A x \in b.rows : /\ x[3] \in RunRow
                         /\ x[3].sched \in b.locked
                         /\ x[3].status \in {"running", "skipped", "missed"}
                         /\ x[3].status = "running" => x[3].at \in Int /\ x[3].heartbeat \in Int
    /\ b.schedule \in [Sched -> ScheduleRow \cup {None}]
    /\ \A s \in Sched : schedule[s] # None => b.schedule[s] # None

\* The claim computes rows of the right shape, for the schedules it locked.
LEMMA BatchFacts ==
    ASSUME JournalInv, NEW n \in Node, NEW free \in SUBSET Sched, NEW limit, NEW t \in Int
    PROVE  BatchOK(claimBatch(n, free, limit, t))
  <1> DEFINE b == claimBatch(n, free, limit, t)
  <1> DEFINE due == lockDueSchedules(n, free, limit, t)
             S == lockRequestedSchedules(n, free, limit) \cup due
             orphans == Stale(S, t)
             active == Active(S, t)
             queued == {RecoveryRequest(r) : r \in recoverable(orphans)}
             requests == lockFireRequests(request \cup queued, S, orphans, limit)
             W == fireWork(due, requests)
             reached == Reached(W, active, t, limit)
  <1>1. /\ S \subseteq Sched /\ due \subseteq S /\ due \subseteq Sched
        /\ \A s \in S : schedule[s] \in ScheduleRow
        /\ \A s \in due : schedule[s].next \in Int /\ schedule[s].next <= unixMs(t)
    BY LockedSchedules, ZenonT(60)
  <1>2. \A r \in orphans : r \in RunId /\ Running(r) /\ run[r].sched \in S
    BY StaleAreRunning, ZenonT(60)
  <1>3. recoverable(orphans) \subseteq orphans
    BY ZenonT(60) DEF recoverable
  <1> HIDE DEF S, due, orphans, active
  <1>4. queued \subseteq Request /\ IsFiniteSet(queued)
    <2>1. queued \subseteq Request
      <3>1. ASSUME NEW r \in recoverable(orphans) PROVE RecoveryRequest(r) \in Request
        <4>1. r \in RunId /\ Running(r)
          BY <1>2, <1>3, ZenonT(60)
        <4>2. run[r].sched \in Sched /\ run[r].at \in Int
          BY <4>1, ZenonT(60) DEF JournalInv, RunLinked
        <4>3. MaxManual + r \in Nat
          BY <4>1, StoreAssumption DEF RunId
        <4> QED
          BY <4>1, <4>2, <4>3, ZenonT(60) DEF RecoveryRequest, Request
      <3> QED
        BY <3>1, ZenonT(60)
    <2>2. IsFiniteSet(queued)
      BY <1>2, <1>3, FinitelyQueued, ZenonT(60)
    <2> QED  BY <2>1, <2>2, ZenonT(60)
  <1>5. /\ requests \subseteq Request /\ IsFiniteSet(requests)
        /\ \A q \in requests : q.sched \in S
    <2>1. request \subseteq Request /\ IsFiniteSet(request)
      BY FiniteRequests, ZenonT(60) DEF JournalInv, TypeOK
    <2>2. IsFiniteSet(request \cup queued)
      BY <1>4, <2>1, FS_Union, ZenonT(60)
    <2>3. requests \subseteq request \cup queued /\ \A q \in requests : q.sched \in S
      BY ZenonT(60) DEF lockFireRequests
    <2> HIDE DEF queued, requests
    <2> QED
      BY <1>4, <2>1, <2>2, <2>3, FS_Subset, ZenonT(60)
  <1> HIDE DEF queued, requests
  <1>6. WorkOK(W, S) /\ IsFiniteSet(W)
    BY <1>1, <1>5, WorkIsOK, FiniteWork, ZenonT(60)
  <1>7. \A i \in W : i.request = None => schedule[i.sched].next <= unixMs(t)
    BY <1>1, <1>5, NoneAssumption, SMTT(30) DEF fireWork
  <1>8. reached \subseteq W
    BY ZenonT(60) DEF Reached
  <1>9. \A i \in W : schedule[i.sched] \in ScheduleRow
    BY <1>1, <1>6, ZenonT(60) DEF WorkOK
  <1> HIDE DEF W, reached
  <1>10. b = [locked    |-> S,
              abandoned |-> orphans,
              queued    |-> queued,
              rows      |-> journalRows(reached, W, active, t),
              consumed  |-> {i.request : i \in {i \in reached : /\ i.request # None
                                                               /\ ~PassedOver(i, W, active, t)}},
              schedule  |-> [s \in Sched |-> IF s \in S THEN Advanced(s, reached, W, active, t)
                                                        ELSE schedule[s]]]
    BY ZenonT(60) DEF claimBatch, W, reached, S, due, orphans, active, queued, requests
  <1> HIDE DEF b
  <1>11. \A x \in journalRows(reached, W, active, t) :
            /\ x[3] \in RunRow
            /\ x[3].sched \in S
            /\ x[3].status \in {"running", "skipped", "missed"}
            /\ x[3].status = "running" => x[3].at \in Int /\ x[3].heartbeat \in Int
    BY <1>1, <1>6, <1>7, <1>8, <1>9, RowsOK, ZenonT(60)
  <1>12. \A s \in S : Advanced(s, reached, W, active, t) \in ScheduleRow
    BY <1>1, <1>6, <1>7, <1>8, AdvancedOK, ZenonT(60)
  <1>13. schedule \in [Sched -> ScheduleRow \cup {None}]
    BY ZenonT(60) DEF JournalInv, TypeOK
  <1>14. /\ b.locked = S /\ b.abandoned = orphans /\ b.queued = queued
         /\ b.rows = journalRows(reached, W, active, t)
         /\ b.schedule = [s \in Sched |-> IF s \in S THEN Advanced(s, reached, W, active, t)
                                                     ELSE schedule[s]]
    BY <1>10, ZenonT(60)
  <1>15. b.schedule \in [Sched -> ScheduleRow \cup {None}]
    BY <1>1, <1>12, <1>13, <1>14, SMTT(30)
  <1>16. \A s \in Sched : schedule[s] # None => b.schedule[s] # None
    BY <1>12, <1>14, NoneAssumption, SMTT(30)
  <1>17. b.queued = {RecoveryRequest(r) : r \in recoverable(b.abandoned)}
    BY <1>14, ZenonT(60) DEF queued
  <1>18. BatchOK(b)
    BY <1>1, <1>2, <1>11, <1>14, <1>15, <1>16, <1>17, ZenonT(60) DEF BatchOK
  <1> QED
    BY <1>18, ZenonT(60) DEF b

\* Requests of a claim's work are told apart by their ids.
Distinct(W) ==
    \A i, j \in W : i.request # None /\ j.request # None /\ i.request.id = j.request.id
                       => i.request = j.request

\* mergeFireWork's order tells any two items apart.
LEMMA ItemsOrdered ==
    ASSUME NEW W, NEW S \in SUBSET Sched, WorkOK(W, S), Distinct(W),
           NEW i \in W, NEW j \in W, i # j
    PROVE  Before(i, j) \/ Before(j, i)
  <1>1. /\ i.at \in Int /\ j.at \in Int
        /\ i = [sched |-> i.sched, at |-> i.at, request |-> i.request]
        /\ j = [sched |-> j.sched, at |-> j.at, request |-> j.request]
        /\ i.sched \in S /\ j.sched \in S
    BY ZenonT(60) DEF WorkOK
  <1>2. CASE i.at # j.at
    BY <1>1, <1>2, SMTT(30) DEF Before
  <1>3. CASE i.at = j.at /\ (i.request = None \/ j.request = None)
    <2>1. CASE i.request = None /\ j.request = None
      <3>1. i.sched # j.sched
        BY <1>1, <1>3, <2>1, ZenonT(60)
      <3>2. i.sched \in Nat /\ j.sched \in Nat
        BY <1>1, StoreAssumption, ZenonT(60)
      <3> QED  BY <1>3, <2>1, <3>1, <3>2, SMTT(30) DEF Before
    <2>2. CASE i.request # None \/ j.request # None
      BY <1>3, <2>2, ZenonT(60) DEF Before
    <2> QED  BY <2>1, <2>2, ZenonT(60)
  <1>4. CASE i.at = j.at /\ i.request # None /\ j.request # None
    <2>1. i.request \in Request /\ j.request \in Request
      BY <1>4, ZenonT(60) DEF WorkOK
    <2>2. i.request.id \in Nat /\ j.request.id \in Nat
      BY <2>1, ZenonT(60) DEF Request
    <2>3. i.request.id # j.request.id
      <3>1. i.request = j.request => i.sched = j.sched
        BY <1>4, ZenonT(60) DEF WorkOK
      <3>2. i.request # j.request
        BY <1>1, <1>4, <3>1, ZenonT(60)
      <3> QED  BY <1>4, <3>2, ZenonT(60) DEF Distinct
    <2> QED
      BY <1>4, <2>2, <2>3, SMTT(30) DEF Before
  <1> QED
    BY <1>2, <1>3, <1>4, ZenonT(60)

\* ... and is a strict order.
LEMMA BeforeIsOrder ==
    ASSUME NEW W, NEW S \in SUBSET Sched, WorkOK(W, S)
    PROVE  /\ \A i \in W : ~Before(i, i)
           /\ \A i, j, k \in W : Before(i, j) /\ Before(j, k) => Before(i, k)
  <1>1. \A i \in W : /\ i.at \in Int /\ i.sched \in Nat
                     /\ i.request # None => i.request.id \in Nat
    <2>1. \A q \in Request : q.id \in Nat
      BY ZenonT(60) DEF Request
    <2> QED  BY <2>1, StoreAssumption, ZenonT(60) DEF WorkOK
  <1>2. \A i \in W : ~Before(i, i)
    BY <1>1, SMTT(30) DEF Before
  <1>3. ASSUME NEW i \in W, NEW j \in W, NEW k \in W, Before(i, j), Before(j, k)
        PROVE  Before(i, k)
    BY <1>1, <1>3, SMTT(30) DEF Before
  <1> QED
    BY <1>2, <1>3, ZenonT(60)

\* Some item of a finite, non-empty part of the work comes last.
LEMMA LastItem ==
    ASSUME NEW W, NEW S \in SUBSET Sched, WorkOK(W, S),
           NEW A \in SUBSET W, IsFiniteSet(A), A # {}
    PROVE  \E i \in A : \A j \in A : ~Before(i, j)
  <1> DEFINE After(i) == {j \in A : Before(i, j)}
             Counts == {Cardinality(After(i)) : i \in A}
  <1>1. \A i \in A : IsFiniteSet(After(i)) /\ Cardinality(After(i)) \in Nat
    BY FS_Subset, FS_CardinalityType, ZenonT(60)
  <1>2. Counts \subseteq Int /\ \A c \in Counts : c > 0 - 1
    <2> HIDE DEF After
    <2> QED  BY <1>1
  <1>3. Counts # {}
    <2>1. PICK i \in A : TRUE
      BY ZenonT(60)
    <2>2. Cardinality(After(i)) \in Counts
      OBVIOUS
    <2> QED  BY <2>2, ZenonT(60)
  <1>4. PICK c \in Counts : \A d \in Counts : c <= d
    <2> HIDE DEF Counts
    <2>1. 0 - 1 \in Int
      OBVIOUS
    <2> QED  BY <1>2, <1>3, <2>1, LeastInteger, ZenonT(60)
  <1>5. PICK i \in A : c = Cardinality(After(i))
    BY ZenonT(60)
  <1>6. ASSUME NEW j \in A, Before(i, j) PROVE FALSE
    <2>1. After(j) \subseteq After(i) /\ j \in After(i) /\ j \notin After(j)
      <3> HIDE DEF Counts
      <3> QED  BY <1>6, BeforeIsOrder, ZenonT(60)
    <2>2. Cardinality(After(j)) <= Cardinality(After(i)) /\ Cardinality(After(j)) # Cardinality(After(i))
      <3> HIDE DEF After
      <3> QED  BY <1>1, <2>1, FS_Subset, ZenonT(60)
    <2>3. Cardinality(After(j)) \in Counts
      BY ZenonT(60)
    <2> HIDE DEF After, Counts
    <2> QED  BY <1>1, <1>4, <1>5, <2>2, <2>3
  <1> QED
    BY <1>6, ZenonT(60)

\* The work of one claim, and what the batch makes of it.
Parts(b, W, active, limit, t) ==
    /\ b.locked \subseteq Sched
    /\ WorkOK(W, b.locked) /\ IsFiniteSet(W) /\ Distinct(W)
    /\ \A i \in W : /\ schedule[i.sched] \in ScheduleRow
                    /\ i.request = None => schedule[i.sched].next <= unixMs(t)
                    /\ i.request # None => i.request \in request \cup b.queued
    /\ b.rows = journalRows(Reached(W, active, t, limit), W, active, t)
    /\ b.consumed = {i.request : i \in {i \in Reached(W, active, t, limit) :
                                           /\ i.request # None
                                           /\ ~PassedOver(i, W, active, t)}}
    /\ b.schedule = [s \in Sched |->
                        IF s \in b.locked
                        THEN Advanced(s, Reached(W, active, t, limit), W, active, t)
                        ELSE schedule[s]]

\* What claimBatch computes, part by part.
LEMMA BatchParts ==
    ASSUME JournalInv, NEW n \in Node, NEW free \in SUBSET Sched, NEW limit, NEW t \in Int
    PROVE  \E W, active : Parts(claimBatch(n, free, limit, t), W, active, limit, t)
  <1> DEFINE b == claimBatch(n, free, limit, t)
             due == lockDueSchedules(n, free, limit, t)
             S == lockRequestedSchedules(n, free, limit) \cup due
             orphans == Stale(S, t)
             active == Active(S, t)
             R == recoverable(orphans)
             queued == {RecoveryRequest(r) : r \in R}
             requests == lockFireRequests(request \cup queued, S, orphans, limit)
             W == fireWork(due, requests)
             reached == Reached(W, active, t, limit)
  <1>1. /\ S \subseteq Sched /\ due \subseteq S /\ due \subseteq Sched
        /\ \A s \in S : schedule[s] \in ScheduleRow
        /\ \A s \in due : schedule[s].next \in Int /\ schedule[s].next <= unixMs(t)
    BY LockedSchedules, ZenonT(60)
  <1>2. R \in SUBSET RunId /\ \A r \in R : Running(r)
    BY StaleAreRunning, ZenonT(60) DEF recoverable
  <1>3. /\ b.locked = S /\ b.queued = queued
        /\ b.rows = journalRows(reached, W, active, t)
        /\ b.consumed = {i.request : i \in {i \in reached : /\ i.request # None
                                                           /\ ~PassedOver(i, W, active, t)}}
        /\ b.schedule = [s \in Sched |-> IF s \in S THEN Advanced(s, reached, W, active, t)
                                                    ELSE schedule[s]]
    BY ZenonT(60) DEF claimBatch
  <1> HIDE DEF b, S, due, orphans, active, R
  <1>4. /\ requests \subseteq request \cup queued
        /\ \A q \in requests : q.sched \in S
        /\ \A p, q \in request \cup queued : p.id = q.id => p = q
        /\ request \cup queued \subseteq Request
    <2>1. request \subseteq Request /\ queued \subseteq Request
      BY <1>2, RecoveryRequestTyped, SMTT(30) DEF JournalInv, TypeOK
    <2> QED
      BY <1>2, <2>1, DistinctIds, ZenonT(60) DEF lockFireRequests
  <1>5. IsFiniteSet(requests)
    <2>1. IsFiniteSet(request \cup queued)
      BY <1>2, FiniteRequests, FinitelyQueued, FS_Union, ZenonT(60)
    <2> HIDE DEF queued, requests
    <2> QED  BY <1>4, <2>1, FS_Subset, ZenonT(60)
  <1> HIDE DEF queued, requests
  <1>6. WorkOK(W, S) /\ IsFiniteSet(W)
    <2>1. requests \subseteq Request
      BY <1>4, ZenonT(60)
    <2> QED
      BY <1>1, <1>4, <1>5, <2>1, WorkIsOK, FiniteWork, ZenonT(60)
  <1>7. \A i \in W : i.request = None \/ i.request \in requests
    BY SMTT(30) DEF fireWork
  <1>8. Distinct(W)
    BY <1>4, <1>7, ZenonT(60) DEF Distinct
  <1>9. \A i \in W : i.request = None => schedule[i.sched].next <= unixMs(t)
    <2>1. None \notin requests
      BY <1>4, NoneAssumption, ZenonT(60)
    <2> QED  BY <1>1, <2>1, SMTT(30) DEF fireWork
  <1>10. \A i \in W : schedule[i.sched] \in ScheduleRow
    BY <1>1, <1>6, ZenonT(60) DEF WorkOK
  <1> HIDE DEF W
  <1>11. Parts(b, W, active, limit, t)
    BY <1>1, <1>3, <1>4, <1>6, <1>7, <1>8, <1>9, <1>10, ZenonT(60) DEF Parts
  <1> QED
    BY <1>11, ZenonT(60) DEF b

\* A running row the claim writes for a schedule that forbids overlap is its
\* only one: every row of that schedule still running is taken over.
AloneOK(b) ==
    \A x \in b.rows :
        (x[3].status = "running" /\ schedule[x[3].sched].policy # "allow") =>
            /\ \A q \in RunId : Running(q) /\ run[q].sched = x[3].sched => q \in b.abandoned
            /\ \A y \in b.rows : y[3].status = "running" /\ y[3].sched = x[3].sched => y = x

\* ConcurrencyForbid inside one claim transaction.
LEMMA BatchStartsAlone ==
    ASSUME JournalInv, NEW n \in Node, NEW free \in SUBSET Sched, NEW limit, NEW t \in Int
    PROVE  AloneOK(claimBatch(n, free, limit, t))
  <1> DEFINE b == claimBatch(n, free, limit, t)
             due == lockDueSchedules(n, free, limit, t)
             S == lockRequestedSchedules(n, free, limit) \cup due
             orphans == Stale(S, t)
             active == Active(S, t)
             R == recoverable(orphans)
             queued == {RecoveryRequest(r) : r \in R}
             requests == lockFireRequests(request \cup queued, S, orphans, limit)
             W == fireWork(due, requests)
             reached == Reached(W, active, t, limit)
  <1>1. /\ S \subseteq Sched /\ due \subseteq S /\ due \subseteq Sched
        /\ \A s \in S : schedule[s] \in ScheduleRow
        /\ \A s \in due : schedule[s].next \in Int /\ schedule[s].next <= unixMs(t)
    BY LockedSchedules, ZenonT(60)
  <1>2. \A r \in orphans : r \in RunId /\ Running(r) /\ run[r].sched \in S
    BY StaleAreRunning, ZenonT(60)
  <1>3. R \in SUBSET RunId /\ \A r \in R : Running(r)
    BY <1>2, ZenonT(60) DEF recoverable
  <1>4. \A q \in RunId : Running(q) /\ run[q].sched \in S => q \in orphans \/ run[q].sched \in active
    BY ZenonT(60) DEF Stale, Active
  <1>5. reached \subseteq W
    BY ZenonT(60) DEF Reached
  <1>6. b.rows = journalRows(reached, W, active, t) /\ b.abandoned = orphans
    BY ZenonT(60) DEF claimBatch
  <1> HIDE DEF b, S, due, orphans, active, R, reached
  <1>7. /\ requests \subseteq request \cup queued
        /\ \A q \in requests : q.sched \in S
        /\ \A p, q \in request \cup queued : p.id = q.id => p = q
        /\ request \cup queued \subseteq Request
    <2>1. request \subseteq Request /\ queued \subseteq Request
      BY <1>3, RecoveryRequestTyped, SMTT(30) DEF JournalInv, TypeOK
    <2> QED
      BY <1>3, <2>1, DistinctIds, ZenonT(60) DEF lockFireRequests
  <1> HIDE DEF queued, requests
  <1>8. WorkOK(W, S)
    <2>1. requests \subseteq Request
      BY <1>7, ZenonT(60)
    <2> QED
      BY <1>1, <1>7, <2>1, WorkIsOK, ZenonT(60)
  <1>9. Distinct(W)
    <2>1. \A i \in W : i.request = None \/ i.request \in requests
      BY SMTT(30) DEF fireWork
    <2> QED  BY <1>7, <2>1, ZenonT(60) DEF Distinct
  <1> HIDE DEF W
  <1>10. ASSUME NEW x \in b.rows, x[3].status = "running"
         PROVE  \E i \in W : /\ x = <<i, 1, newRunRow(i, W, active, t)>>
                             /\ x[3].sched = i.sched /\ i.sched \in S
                             /\ Fires(i, t) /\ ~suppressed(i, W, active, t)
    <2>1. \/ \E i \in reached : x = <<i, 1, newRunRow(i, W, active, t)>> /\ Fires(i, t)
          \/ \E i \in reached : x = <<i, 2, missedRow(i, t)>>
      BY <1>6, ZenonT(60) DEF journalRows
    <2>2. \A i : missedRow(i, t).status = "missed"
      BY ZenonT(60) DEF missedRow, NoRun
    <2>3. \A i : /\ newRunRow(i, W, active, t).sched = i.sched
                 /\ newRunRow(i, W, active, t).status = "running" => ~suppressed(i, W, active, t)
      BY ZenonT(60) DEF newRunRow, NoRun
    <2>4. PICK i \in reached : x = <<i, 1, newRunRow(i, W, active, t)>> /\ Fires(i, t)
      BY <1>10, <2>1, <2>2, SMTT(30)
    <2> QED
      BY <1>5, <1>8, <1>10, <2>3, <2>4, ZenonT(60) DEF WorkOK
  <1>11. ASSUME NEW x \in b.rows, x[3].status = "running", schedule[x[3].sched].policy # "allow"
         PROVE  /\ \A q \in RunId : Running(q) /\ run[q].sched = x[3].sched => q \in b.abandoned
                /\ \A y \in b.rows : y[3].status = "running" /\ y[3].sched = x[3].sched => y = x
    <2>1. PICK i \in W : /\ x = <<i, 1, newRunRow(i, W, active, t)>>
                         /\ x[3].sched = i.sched /\ i.sched \in S
                         /\ Fires(i, t) /\ ~suppressed(i, W, active, t)
      BY <1>10, <1>11, ZenonT(60)
    <2>2. i.sched \notin active /\ \A j \in W : j.sched = i.sched /\ Fires(j, t) => ~Before(j, i)
      BY <1>11, <2>1, ZenonT(60) DEF suppressed
    <2>3. ASSUME NEW y \in b.rows, y[3].status = "running", y[3].sched = x[3].sched
          PROVE  y = x
      <3>1. PICK j \in W : /\ y = <<j, 1, newRunRow(j, W, active, t)>>
                           /\ y[3].sched = j.sched
                           /\ Fires(j, t) /\ ~suppressed(j, W, active, t)
        BY <1>10, <2>3, ZenonT(60)
      <3>2. ~Before(i, j)
        BY <1>11, <2>1, <2>3, <3>1, ZenonT(60) DEF suppressed
      <3>3. i = j
        <4>1. j.sched = i.sched
          BY <2>1, <2>3, <3>1, ZenonT(60)
        <4>2. ~Before(j, i)
          BY <2>2, <3>1, <4>1, ZenonT(60)
        <4> QED
          BY <1>1, <1>8, <1>9, <3>2, <4>2, ItemsOrdered, ZenonT(60)
      <3> QED  BY <2>1, <3>1, <3>3, ZenonT(60)
    <2>4. \A q \in RunId : Running(q) /\ run[q].sched = x[3].sched => q \in b.abandoned
      BY <1>4, <1>6, <2>1, <2>2, ZenonT(60)
    <2> QED  BY <2>3, <2>4, ZenonT(60)
  <1>12. AloneOK(b)
    BY <1>11, ZenonT(60) DEF AloneOK
  <1> QED
    BY <1>12, ZenonT(60) DEF b
=============================================================================
