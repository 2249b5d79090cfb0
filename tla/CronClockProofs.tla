-------------------------- MODULE CronClockProofs ---------------------------
(***************************************************************************)
(* What depends on the clocks of the nodes.  Each occurrence fires once on *)
(* clocks that agree (CursorInv); runs renewed in time are not taken over  *)
(* (OwnedInv) and handlers do not overlap (AloneInv) on clocks that are    *)
(* close.                                                                  *)
(***************************************************************************)
EXTENDS CronJournalProofs

(***************************************************************************)
(* Each occurrence fires once, on nodes whose clocks agree.                *)
(***************************************************************************)

\* A fire of a regular occurrence that was in the journal before.
LEMMA SpentBefore ==
    ASSUME JournalInv, [Next]_vars, NEW r \in RunId, Spent(r)', run[r].status # "none"
    PROVE  Spent(r) /\ run'[r].at = run[r].at /\ run'[r].sched = run[r].sched
  <1>1. Continues(r)
    BY RowsContinue, ZenonT(60)
  <1>2. [NoRun EXCEPT !.status = "pruned"].kind = None /\ None # "regular"
    BY NoneAssumption, ZenonT(60) DEF NoRun
  <1>3. CASE run'[r] = run[r]
    BY <1>3, ZenonT(60) DEF Spent
  <1>4. CASE run[r].status = "running" /\ SameOrigin(run'[r], run[r])
    BY <1>4, ZenonT(60) DEF Spent, SameOrigin
  <1>5. CASE run'[r] = [NoRun EXCEPT !.status = "pruned"]
    BY <1>2, <1>5, ZenonT(60) DEF Spent
  <1> QED
    BY <1>1, <1>3, <1>4, <1>5, ZenonT(60) DEF Continues

\* The item of a claim that is the due occurrence of schedule s.
DueItem(i, s, n, W, active) ==
    /\ i \in Reached(W, active, clock(n), claimLimit(n))
    /\ i = [sched |-> s, at |-> schedule[s].next, request |-> None]
    /\ schedule[s] \in ScheduleRow
    /\ schedule[s].next \in Int /\ schedule[s].next <= unixMs(clock(n))

\* Row r is the fire of a due occurrence the claim took.
TakesDue(r, b, id, n, W, active) ==
    \E i : /\ DueItem(i, run'[r].sched, n, W, active)
           /\ r = id[FireOf(i, W, active, clock(n))]
           /\ run'[r].sched \in b.locked
           /\ run'[r].at = schedule[run'[r].sched].next

\* A fire of a regular occurrence that a claim starts is the due one.
LEMMA SpentBegins ==
    ASSUME JournalInv, OriginInv, NEW n \in Node, NEW b, NEW id, NEW W, NEW active,
           BatchOK(b), Lands(b, id, n, W, active), NEW r \in RunId, run[r].status = "none", Spent(r)'
    PROVE  TakesDue(r, b, id, n, W, active)
  <1> DEFINE t == clock(n)
  <1>0. run'[r].kind = "regular" /\ run'[r].status # "missed"
    BY ZenonT(60) DEF Spent
  <1>1. run'[r] # run[r]
    <2>0. NoRun.kind = None
      BY ZenonT(60) DEF NoRun
    <2>1. run[r].kind = None
      BY <2>0, ZenonT(60) DEF OriginInv
    <2> QED  BY <1>0, <2>1, NoneAssumption, ZenonT(60)
  <1>2. Begins(r, id, n, W, active)
    BY <1>1, RowBegins, ZenonT(60)
  <1>3. PICK i \in Reached(W, active, t, claimLimit(n)) :
           /\ r = id[FireOf(i, W, active, t)]
           /\ FiredRow(run'[r], i, suppressed(i, W, active, t), t)
    BY <1>0, <1>2, ZenonT(60) DEF Begins
  <1>4. Parts(b, W, active, claimLimit(n), t)
    BY ZenonT(60) DEF Lands
  <1>5. /\ i \in W /\ WorkOK(W, b.locked)
        /\ schedule[i.sched] \in ScheduleRow
        /\ i.request = None => schedule[i.sched].next <= unixMs(t)
    BY <1>3, <1>4, ZenonT(60) DEF Parts, Reached
  <1>6. /\ i = [sched |-> i.sched, at |-> i.at, request |-> i.request]
        /\ i.sched \in b.locked /\ i.at \in Int
        /\ \/ i.request = None /\ schedule[i.sched].next = i.at
           \/ i.request \in Request
    BY <1>5, ZenonT(60) DEF WorkOK
  <1>7. i.request = None
    <2>1. run'[r].kind = IF i.request = None THEN "regular" ELSE i.request.kind
      BY <1>3, ZenonT(60) DEF FiredRow
    <2>2. i.request \in Request => i.request.kind \in {"manual", "recovery"}
      BY ZenonT(60) DEF Request
    <2> QED  BY <1>0, <1>6, <2>1, <2>2, ZenonT(60)
  <1>8. schedule[i.sched].next = i.at
    BY <1>6, <1>7, NoneAssumption, ZenonT(60)
  <1>9. run'[r].sched = i.sched /\ run'[r].at = i.at
    BY <1>3, ZenonT(60) DEF FiredRow
  <1>10. i = [sched |-> i.sched, at |-> schedule[i.sched].next, request |-> None]
    BY <1>6, <1>7, <1>8, ZenonT(60)
  <1>11. DueItem(i, i.sched, n, W, active)
    BY <1>3, <1>5, <1>6, <1>7, <1>8, <1>10, ZenonT(60) DEF DueItem
  <1> QED
    BY <1>3, <1>6, <1>8, <1>9, <1>11, ZenonT(60) DEF TakesDue

\* The cursor of schedule s after a claim is past the occurrence it took, and
\* unchanged when it took none.
LEMMA ClaimedCursor ==
    ASSUME JournalInv, NEW n \in Node, NEW b, NEW id, NEW W, NEW active,
           BatchOK(b), Lands(b, id, n, W, active), schedule' = b.schedule,
           NEW s \in Sched, schedule[s] # None, schedule'[s].next # None
    PROVE  \/ schedule'[s].next = schedule[s].next /\ \A i : ~DueItem(i, s, n, W, active)
           \/ /\ schedule[s].next \in Int /\ schedule'[s].next \in Int
              /\ schedule'[s].next > schedule[s].next
  <1> DEFINE t == clock(n)
             reached == Reached(W, active, t, claimLimit(n))
  <1>1. Parts(b, W, active, claimLimit(n), t)
    BY ZenonT(60) DEF Lands
  <1>2. \A i \in reached : i \in W /\ i.sched \in b.locked
    BY <1>1, ZenonT(60) DEF Parts, WorkOK, Reached
  <1>3. ASSUME NEW i, DueItem(i, s, n, W, active)
        PROVE  i \in reached /\ i.sched = s /\ i.request = None
    <2>1. i \in reached /\ i = [sched |-> s, at |-> schedule[s].next, request |-> None]
      BY <1>3, ZenonT(60) DEF DueItem
    <2> QED  BY <2>1, SMTT(30)
  <1>4. CASE s \notin b.locked
    <2>1. schedule'[s] = schedule[s]
      BY <1>1, <1>4, ZenonT(60) DEF Parts
    <2> QED  BY <1>2, <1>3, <1>4, <2>1, ZenonT(60)
  <1>5. CASE s \in b.locked
    <2>1. AdvanceOK(s, schedule'[s], reached, W, active, t)
      BY <1>1, <1>5, ClaimedSchedules, ZenonT(60)
    <2>2. CASE \A i \in reached : i.sched = s => i.request # None
      <3>1. schedule'[s].next = schedule[s].next
        BY <2>1, <2>2, ZenonT(60) DEF AdvanceOK
      <3> QED  BY <1>3, <2>2, <3>1, ZenonT(60)
    <2>3. CASE \E i \in reached : i.sched = s /\ i.request = None
      <3>1. schedule'[s].next = toMs(decide(schedule[s], t, MisfireThreshold).next)
        BY <2>1, <2>3, ZenonT(60) DEF AdvanceOK
      <3>2. PICK i \in W : i.sched = s /\ i.request = None
        BY <1>2, <2>3, ZenonT(60)
      <3>3. /\ schedule[s] \in ScheduleRow /\ schedule[s].next <= unixMs(t)
            /\ WorkOK(W, b.locked)
        BY <1>1, <3>2, ZenonT(60) DEF Parts
      <3>4. schedule[s].next \in Int
        BY <3>2, <3>3, NoneAssumption, ZenonT(60) DEF WorkOK
      <3>5. t \in Int
        BY Clocks, ZenonT(60) DEF JournalInv
      <3>6. Timed(schedule[s]) /\ unixTime(schedule[s].next) <= t
        BY <3>3, <3>4, <3>5, RowsAreTimed, DueByClock, ZenonT(60)
      <3>7. /\ schedule'[s].next \in Instant
            /\ schedule'[s].next > schedule[s].next
        BY <3>1, <3>4, <3>5, <3>6, CursorAdvances, ZenonT(60)
      <3> QED  BY <3>4, <3>7, ZenonT(60) DEF Instant
    <2> QED  BY <2>2, <2>3, ZenonT(60)
  <1> QED
    BY <1>4, <1>5, ZenonT(60)

\* A claim keeps the cursors past what fired.
LEMMA ClaimKeepsCursor ==
    ASSUME ClocksAgree, JournalInv, OriginInv, CursorInv, [Next]_vars,
           NEW n \in Node, NEW free \in SUBSET Sched, NEW reported \in BOOLEAN,
           Claim(n, free, reported)
    PROVE  CursorInv'
  <1>1. PICK b, id, W, active : /\ BatchOK(b) /\ Lands(b, id, n, W, active)
                                /\ schedule' = b.schedule
    BY ClaimLands, ZenonT(60)
  <1>2. now' = now
    BY ZenonT(60) DEF Claim
  <1>3. \A m \in Node : clock(m) \in Int /\ clock(m)' = clock(m) /\ clock(m) = clock(n)
    BY <1>2, Clocks, ZenonT(60) DEF JournalInv, ClocksAgree, clock
  <1> DEFINE Old(r) == /\ Spent(r) /\ run[r].status # "none"
                       /\ run'[r].at = run[r].at /\ run'[r].sched = run[r].sched
             New(r) == TakesDue(r, b, id, n, W, active)
  <1>4. ASSUME NEW r \in RunId, Spent(r)' PROVE Old(r) \/ New(r)
    <2>1. CASE run[r].status # "none"
      <3>1. Spent(r) /\ run'[r].at = run[r].at /\ run'[r].sched = run[r].sched
        BY <1>4, <2>1, SpentBefore, ZenonT(60)
      <3> QED  BY <2>1, <3>1, ZenonT(60)
    <2>2. CASE run[r].status = "none"
      <3>1. New(r)
        BY <1>1, <1>4, <2>2, SpentBegins, ZenonT(60)
      <3> QED  BY <3>1, ZenonT(60)
    <2> QED  BY <2>1, <2>2, ZenonT(60)
  <1>5. ASSUME NEW r \in RunId, New(r)
        PROVE  /\ run'[r].sched \in Sched /\ schedule[run'[r].sched] # None
               /\ run'[r].at \in Int /\ run'[r].at = schedule[run'[r].sched].next
               /\ run'[r].at <= unixMs(clock(n))
    <2>1. PICK i : /\ DueItem(i, run'[r].sched, n, W, active)
                   /\ run'[r].sched \in b.locked /\ run'[r].at = schedule[run'[r].sched].next
      BY <1>5, ZenonT(60) DEF TakesDue
    <2> QED  BY <1>1, <2>1, NoneAssumption, ZenonT(60) DEF DueItem, BatchOK
  <1>6. ASSUME NEW p \in RunId, NEW r \in RunId, Old(p), New(r), run'[p].sched = run'[r].sched
        PROVE  run'[p].at < run'[r].at
    <2>1. /\ schedule[run[p].sched] # None /\ schedule[run[p].sched].next # None
          /\ run'[r].at = schedule[run[p].sched].next
      BY <1>5, <1>6, TriggerAssumption, ZenonT(60)
    <2> QED  BY <1>6, <2>1, ZenonT(60) DEF CursorInv
  <1>7. OccurrenceOnce'
    <2> SUFFICES ASSUME NEW p \in RunId, NEW r \in RunId, p # r, Spent(p)', Spent(r)',
                        run'[p].sched = run'[r].sched, run'[p].at = run'[r].at
                 PROVE  FALSE
      BY ZenonT(60) DEF OccurrenceOnce, Spent
    <2>0. ASSUME NEW q \in RunId, Spent(q)' PROVE run'[q].at \in Int
      BY <1>4, <1>5, <2>0, ZenonT(60) DEF CursorInv
    <2>1. ~(run'[p].at < run'[r].at) /\ ~(run'[r].at < run'[p].at)
      BY <2>0, SMTT(30)
    <2>2. CASE Old(p) /\ Old(r)
      BY <2>2, ZenonT(60) DEF CursorInv, OccurrenceOnce, Spent
    <2>3. CASE New(p) /\ New(r)
      <3>1. PICK i : /\ DueItem(i, run'[p].sched, n, W, active)
                     /\ p = id[FireOf(i, W, active, clock(n))]
        BY <2>3, ZenonT(60) DEF TakesDue
      <3>2. PICK j : /\ DueItem(j, run'[r].sched, n, W, active)
                     /\ r = id[FireOf(j, W, active, clock(n))]
        BY <2>3, ZenonT(60) DEF TakesDue
      <3>3. i = j
        BY <3>1, <3>2, ZenonT(60) DEF DueItem
      <3> QED  BY <3>1, <3>2, <3>3, ZenonT(60)
    <2> HIDE DEF Old, New
    <2> QED  BY <1>4, <1>6, <2>1, <2>2, <2>3, ZenonT(60)
  <1>8. ASSUME NEW r \in RunId, Spent(r)'
        PROVE  /\ run'[r].at \in Int
               /\ \A m \in Node : run'[r].at <= unixMs(clock(m)')
    <2>1. CASE Old(r)
      BY <1>3, <2>1, ZenonT(60) DEF CursorInv
    <2>2. CASE New(r)
      BY <1>3, <1>5, <2>2, ZenonT(60)
    <2> QED  BY <1>4, <1>8, <2>1, <2>2, ZenonT(60)
  <1>9. ASSUME NEW r \in RunId, Spent(r)',
               schedule'[run'[r].sched] # None, schedule'[run'[r].sched].next # None
        PROVE  run'[r].at < schedule'[run'[r].sched].next
    <2> DEFINE s == run'[r].sched
    <2>1. s \in Sched /\ schedule[s] # None
      <3>1. CASE Old(r)
        <4>1. run[r].status \notin {"none", "pruned"} /\ run[r].sched = s
          BY <3>1, NoneAssumption, ZenonT(60) DEF OriginInv, Spent
        <4>2. s \in created /\ created \subseteq Sched
          BY <4>1, ZenonT(60) DEF OriginInv, JournalInv, TypeOK
        <4> QED  BY <1>9, <4>2, SchedulesEnd, ZenonT(60)
      <3>2. CASE New(r)
        BY <1>5, <3>2, ZenonT(60)
      <3> QED  BY <1>4, <1>9, <3>1, <3>2, ZenonT(60)
    <2>2. \/ schedule'[s].next = schedule[s].next /\ \A i : ~DueItem(i, s, n, W, active)
          \/ /\ schedule[s].next \in Int /\ schedule'[s].next \in Int
             /\ schedule'[s].next > schedule[s].next
      <3> HIDE DEF s
      <3> QED  BY <1>1, <1>9, <2>1, ClaimedCursor, ZenonT(60) DEF s
    <2>3. CASE Old(r)
      <3>1. schedule[s].next # None => run'[r].at < schedule[s].next
        BY <2>1, <2>3, ZenonT(60) DEF CursorInv
      <3>2. run'[r].at \in Int
        BY <1>8, <1>9, ZenonT(60)
      <3>3. schedule[s].next # None
        BY <1>9, <2>2, TriggerAssumption, ZenonT(60)
      <3>4. CASE schedule'[s].next = schedule[s].next
        BY <3>1, <3>3, <3>4, ZenonT(60)
      <3>5. CASE /\ schedule[s].next \in Int /\ schedule'[s].next \in Int
                 /\ schedule'[s].next > schedule[s].next
        <4>1. run'[r].at < schedule'[s].next
          <5> HIDE DEF s
          <5> QED  BY <3>1, <3>2, <3>3, <3>5, SMTT(30)
        <4> QED  BY <4>1, ZenonT(60)
      <3> QED  BY <2>2, <3>4, <3>5, ZenonT(60)
    <2>4. CASE New(r)
      <3>1. run'[r].at = schedule[s].next /\ \E i : DueItem(i, s, n, W, active)
        BY <2>4, ZenonT(60) DEF TakesDue
      <3>2. schedule[s].next \in Int /\ schedule'[s].next \in Int /\ schedule'[s].next > schedule[s].next
        BY <2>2, <3>1, ZenonT(60)
      <3>3. schedule[s].next < schedule'[s].next
        <4> HIDE DEF s
        <4> QED  BY <3>2, SMTT(30)
      <3> QED  BY <3>1, <3>3, ZenonT(60)
    <2> HIDE DEF Old, New
    <2> QED  BY <1>4, <1>9, <2>3, <2>4, ZenonT(60)
  <1> HIDE DEF Old, New
  <1> QED
    BY <1>7, <1>8, <1>9, ZenonT(60) DEF CursorInv

\* The clock moves in its own steps.
LEMMA OnlyTicks ==
    ASSUME JournalInv, Manager \/ Engine \/ Executor \/ Lifecycle \/ UNCHANGED vars
    PROVE  now' = now
  <1>1. CASE Manager
    BY <1>1, ManagerWrites, ZenonT(60)
  <1>2. CASE Engine
    <2>1. \A m \in Node, free \in SUBSET Sched, reported \in BOOLEAN :
             sweepAbandoned(m, free, reported) \/ Claim(m, free, reported) => now' = now
      BY ZenonT(60) DEF sweepAbandoned, Claim
    <2> QED  BY <1>2, <2>1, ZenonT(60) DEF Engine, renewHeartbeats, pruneSelect, pruneDelete
  <1>3. CASE Executor
    BY <1>3, ZenonT(60) DEF Executor, Track, Return, writeOutcome, findOutcome, giveUp, finish
  <1>4. CASE Lifecycle
    BY <1>4, ZenonT(60) DEF Lifecycle, Stop, stopRuns, stopHeartbeats, Stopped, Crash, Start, Enter
  <1>5. CASE UNCHANGED vars
    BY <1>5, ZenonT(60) DEF vars
  <1> QED
    BY <1>1, <1>2, <1>3, <1>4, <1>5, ZenonT(60)

\* The clocks only go forward.
LEMMA ClocksGoOn ==
    ASSUME JournalInv, [Next]_vars, NEW n \in Node
    PROVE  clock(n) \in Int /\ clock(n)' \in Int /\ unixMs(clock(n)) <= unixMs(clock(n)')
  <1>1. now \in Int /\ Skew[n] \in Int
    BY StoreAssumption, SMTT(30) DEF JournalInv, TypeOK
  <1>2. now' = now \/ now' = now + 1
    <2>1. CASE Tick
      BY <2>1, ZenonT(60) DEF Tick
    <2> QED  BY <2>1, OnlyTicks, ZenonT(60) DEF Next
  <1>3. clock(n) \in Int /\ clock(n)' \in Int /\ clock(n) <= clock(n)'
    BY <1>1, <1>2, SMTT(30) DEF clock
  <1> QED
    BY <1>3, LaterMillis, ZenonT(60)

\* So does every other step: an edit re-arms a schedule past the clock, and a
\* deleted schedule does not come back.
LEMMA OtherKeepsCursor ==
    ASSUME ClocksAgree, JournalInv, OriginInv, CursorInv, [Next]_vars,
           ~\E n \in Node, free \in SUBSET Sched, reported \in BOOLEAN : Claim(n, free, reported)
    PROVE  CursorInv'
  <1>1. ASSUME NEW r \in RunId, Spent(r)'
        PROVE  Spent(r) /\ run'[r].at = run[r].at /\ run'[r].sched = run[r].sched
    <2>1. CASE run[r].status # "none"
      BY <1>1, <2>1, SpentBefore, ZenonT(60)
    <2>2. CASE run[r].status = "none"
      <3>1. run[r].status \notin Terminal \cup {"running", "pruned"}
        BY <2>2, ZenonT(60) DEF Terminal
      <3>2. run'[r] = run[r]
        BY <3>1, OtherRows, ZenonT(60)
      <3> QED  BY <1>1, <3>2, ZenonT(60) DEF Spent
    <2> QED  BY <2>1, <2>2, ZenonT(60)
  <1>2. OccurrenceOnce'
    <2> SUFFICES ASSUME NEW p \in RunId, NEW r \in RunId, p # r, Spent(p)', Spent(r)',
                        run'[p].sched = run'[r].sched, run'[p].at = run'[r].at
                 PROVE  FALSE
      BY ZenonT(60) DEF OccurrenceOnce, Spent
    <2> QED  BY <1>1, ZenonT(60) DEF CursorInv, OccurrenceOnce, Spent
  <1>3. ASSUME NEW r \in RunId, Spent(r)'
        PROVE  /\ run'[r].at \in Int
               /\ \A m \in Node : run'[r].at <= unixMs(clock(m)')
    <2>1. run'[r].at \in Int /\ \A m \in Node : run'[r].at <= unixMs(clock(m))
      BY <1>1, <1>3, ZenonT(60) DEF CursorInv
    <2>2. ASSUME NEW m \in Node PROVE run'[r].at <= unixMs(clock(m)')
      <3>1. /\ unixMs(clock(m)) \in Int /\ unixMs(clock(m)') \in Int
            /\ unixMs(clock(m)) <= unixMs(clock(m)')
        BY ClocksGoOn, Conversions, ZenonT(60)
      <3> QED  BY <2>1, <3>1, SMTT(30)
    <2> QED  BY <2>1, <2>2, ZenonT(60)
  <1>4. ASSUME NEW r \in RunId, Spent(r)',
               schedule'[run'[r].sched] # None, schedule'[run'[r].sched].next # None
        PROVE  run'[r].at < schedule'[run'[r].sched].next
    <2> DEFINE s == run[r].sched
    <2>1. /\ run'[r].sched = s /\ run'[r].at = run[r].at /\ Spent(r)
      BY <1>1, <1>4, ZenonT(60)
    <2>2. run[r].status \notin {"none", "pruned"}
      <3>1. NoRun.kind = None
        BY ZenonT(60) DEF NoRun
      <3> QED  BY <2>1, <3>1, NoneAssumption, ZenonT(60) DEF OriginInv, Spent
    <2>3. s \in created /\ created \subseteq Sched
      BY <2>2, ZenonT(60) DEF OriginInv, JournalInv, TypeOK
    <2>4. s \in Sched /\ schedule[s] # None
      BY <1>4, <2>1, <2>3, SchedulesEnd, ZenonT(60)
    <2>5. schedule[s].next # None => run[r].at < schedule[s].next
      BY <2>1, <2>4, ZenonT(60) DEF CursorInv
    <2>6. CASE schedule'[s].next = schedule[s].next
      BY <1>4, <2>1, <2>5, <2>6, ZenonT(60)
    <2>7. CASE \E n \in Node : Ahead(schedule'[s].next, n)
      <3>1. PICK n \in Node : Ahead(schedule'[s].next, n)
        BY <2>7, ZenonT(60)
      <3>2. schedule'[s].next \in Int /\ schedule'[s].next > unixMs(clock(n))
        BY <1>4, <2>1, <3>1, ZenonT(60) DEF Ahead
      <3>3. run[r].at \in Int /\ run[r].at <= unixMs(clock(n)) /\ unixMs(clock(n)) \in Int
        BY <2>1, Clocks, ZenonT(60) DEF CursorInv, JournalInv
      <3>4. run[r].at < schedule'[s].next
        <4> HIDE DEF s
        <4> QED  BY <3>2, <3>3, SMTT(30)
      <3> QED  BY <2>1, <3>4, ZenonT(60)
    <2>8. schedule'[s].next = schedule[s].next \/ \E n \in Node : Ahead(schedule'[s].next, n)
      <3>1. CASE Manager
        <4>1. PICK n \in Node, u \in Sched : Makes(n, u)
          BY <3>1, ManagerMakes, ZenonT(60)
        <4>2. CASE u = s
          <5>1. schedule'[s] # None
            BY <1>4, <2>1, ZenonT(60)
          <5> HIDE DEF s
          <5> QED  BY <2>3, <4>1, <4>2, <5>1, ZenonT(60) DEF Makes
        <4>3. CASE u # s
          <5> HIDE DEF s
          <5> QED  BY <2>4, <4>1, <4>3, ZenonT(60) DEF Makes
        <4> QED  BY <4>2, <4>3, ZenonT(60)
      <3>2. CASE ~Manager
        BY <3>2, QuietSteps, ZenonT(60)
      <3> QED  BY <3>1, <3>2, ZenonT(60)
    <2> QED  BY <2>6, <2>7, <2>8, ZenonT(60)
  <1> QED
    BY <1>2, <1>3, <1>4, ZenonT(60) DEF CursorInv

\* On nodes whose clocks agree, no two fires of a schedule carry the same
\* logical time: an occurrence is claimed once, whatever nodes claim, crash,
\* restart, edit, pause and resume it (claimDueBatch, decide, refreshNextFire).
THEOREM OccurrencesFireOnce == ClocksAgree => (Spec => []OccurrenceOnce)
  <1> SUFFICES ASSUME ClocksAgree PROVE Spec => []OccurrenceOnce
    OBVIOUS
  <1>1. ASSUME Init PROVE CursorInv
    <2>1. \A r \in RunId : run[r].kind = None
      BY <1>1, ZenonT(60) DEF Init, NoRun
    <2> QED  BY <2>1, NoneAssumption, ZenonT(60) DEF CursorInv, OccurrenceOnce, Spent
  <1>2. ASSUME JournalInv, OriginInv, CursorInv, [Next]_vars PROVE CursorInv'
    BY <1>2, ClaimKeepsCursor, OtherKeepsCursor, ZenonT(60)
  <1>3. CursorInv => OccurrenceOnce
    BY ZenonT(60) DEF CursorInv
  <1> QED
    BY <1>1, <1>2, <1>3, OriginCorrect, JournalCorrect, PTL DEF Spec

-----------------------------------------------------------------------------
(***************************************************************************)
(* Runs whose node renews them in time.                                    *)
(***************************************************************************)

\* Only a run some node's clock finds stale is taken over.
LEMMA TakenAreStale ==
    ASSUME JournalInv, [Next]_vars, NEW r \in RunId, Running(r), run'[r].status = "abandoned"
    PROVE  \E n \in Node : staleRunning(r, clock(n))
  <1>0. run \in [RunId -> RunRow] /\ run[r] \in RunRow
    BY ZenonT(60) DEF JournalInv, TypeOK
  <1>1. CASE \E n \in Node, free \in SUBSET Sched, reported \in BOOLEAN : Claim(n, free, reported)
    <2>1. PICK n \in Node, free \in SUBSET Sched, reported \in BOOLEAN : Claim(n, free, reported)
      BY <1>1, ZenonT(60)
    <2>2. PICK b, id, W, active : /\ b = claimBatch(n, free, claimLimit(n), clock(n))
                                  /\ BatchOK(b) /\ Lands(b, id, n, W, active)
      BY <2>1, ClaimLands, ZenonT(60)
    <2>3. \A q \in b.abandoned : staleRunning(q, clock(n))
      <3>1. \E S : b.abandoned = Stale(S, clock(n))
        BY <2>2, ZenonT(60) DEF claimBatch
      <3> QED  BY <3>1, ZenonT(60) DEF Stale
    <2> DEFINE marked == markAbandoned(b.abandoned, clock(n))
    <2>4. \A x \in b.rows : id[x] # r
      BY <2>2, ZenonT(60) DEF Lands, Running
    <2>5. run'[r] = marked[r]
      BY <2>2, <2>4, ZenonT(60) DEF Lands
    <2>6. r \notin b.abandoned => marked[r] = run[r]
      <3>1. b.abandoned \in SUBSET RunId
        BY <2>2, ZenonT(60) DEF BatchOK
      <3> QED  BY <3>1, AbandonedRows, ZenonT(60)
    <2> HIDE DEF marked
    <2>7. r \in b.abandoned
      BY <2>5, <2>6, ZenonT(60) DEF Running
    <2> QED  BY <2>3, <2>7, ZenonT(60)
  <1>2. CASE \E n \in Node, free \in SUBSET Sched, reported \in BOOLEAN : sweepAbandoned(n, free, reported)
    <2>1. PICK n \in Node, free \in SUBSET Sched, reported \in BOOLEAN : sweepAbandoned(n, free, reported)
      BY <1>2, ZenonT(60)
    <2>2. PICK gone \in SUBSET RunId : /\ \A q \in gone : staleRunning(q, clock(n))
                                       /\ run' = markAbandoned(gone, clock(n))
      BY <2>1, SweepRows, ZenonT(60)
    <2>3. r \notin gone => run'[r] = run[r]
      BY <2>2, AbandonedRows, ZenonT(60)
    <2> QED  BY <2>2, <2>3, ZenonT(60) DEF Running
  <1>3. CASE \E q \in RunId, reported \in BOOLEAN : writeOutcome(q, reported)
    <2>1. PICK q \in RunId, reported \in BOOLEAN : writeOutcome(q, reported)
      BY <1>3, ZenonT(60)
    <2>2. /\ fire[q].phase = "returned"
          /\ run' = [run EXCEPT ![q].status = fire[q].outcome,
                                ![q].finished = FinishedAt(clock(fire[q].node))]
      BY <2>1, ZenonT(60) DEF writeOutcome
    <2>3. fire[q].outcome \in {"succeeded", "failed", "canceled"}
      BY <2>2, ZenonT(60) DEF JournalInv, RunLinked, TypeOK, Fire
    <2>4. r # q => run'[r] = run[r]
      BY <1>0, <2>2, ZenonT(60)
    <2>5. r = q => run'[r].status = fire[q].outcome
      BY <1>0, <2>2, SMTT(30) DEF RunRow
    <2> QED  BY <2>3, <2>4, <2>5, ZenonT(60) DEF Running
  <1>4. CASE \E n \in Node : renewHeartbeats(n)
    <2>1. \A at : [run[r] EXCEPT !.heartbeat = at].status = run[r].status
      BY <1>0, ZenonT(60) DEF RunRow
    <2>2. run'[r] = run[r] \/ \E at : run'[r] = [run[r] EXCEPT !.heartbeat = at]
      BY <1>4, ZenonT(60) DEF renewHeartbeats
    <2> QED  BY <2>1, <2>2, ZenonT(60) DEF Running
  <1>5. CASE \E n \in Node : pruneDelete(n)
    <2>1. [NoRun EXCEPT !.status = "pruned"].status = "pruned"
      BY ZenonT(60) DEF NoRun
    <2>2. run'[r] = run[r] \/ run'[r] = [NoRun EXCEPT !.status = "pruned"]
      BY <1>5, ZenonT(60) DEF pruneDelete
    <2> QED  BY <2>1, <2>2, ZenonT(60) DEF Running
  <1>6. CASE run' = run
    BY <1>6, ZenonT(60) DEF Running
  <1> QED
    <2>1. CASE Engine
      BY <2>1, <1>1, <1>2, <1>4, <1>5, <1>6, ZenonT(60) DEF Engine, pruneSelect
    <2>2. CASE Executor
      BY <2>2, <1>3, <1>6, ZenonT(60) DEF Executor, Track, Return, findOutcome, giveUp, finish
    <2>3. CASE Manager
      BY <1>6, <2>3, ManagerWrites, ZenonT(60)
    <2>4. CASE Lifecycle \/ Tick
      BY <2>4, <1>6, ZenonT(60) DEF Lifecycle, Tick, Stop, stopRuns, stopHeartbeats, Stopped, Crash, Start, Enter
    <2>5. CASE UNCHANGED vars
      BY <2>5, <1>6, ZenonT(60) DEF vars
    <2> QED
      BY <2>1, <2>2, <2>3, <2>4, <2>5, ZenonT(60) DEF Next

\* No node's clock finds an owned run stale.
LEMMA OwnedAreFresh ==
    ASSUME ClocksClose, JournalInv, OwnedInv, NEW r \in RunId, Owned(r), NEW n \in Node
    PROVE  ~staleRunning(r, clock(n))
  <1> SUFFICES ASSUME staleRunning(r, clock(n)) PROVE FALSE
    OBVIOUS
  <1> DEFINE m == fire[r].node
             window == AbandonedAfter - HeartbeatInterval
  <1>1. m \in Node /\ Running(r) /\ run[r].heartbeat \in Int
    BY ZenonT(60) DEF JournalInv, RunLinked, Owned, staleRunning
  <1>2. unixMs(clock(m)) - run[r].heartbeat <= HeartbeatInterval
    BY <1>1, ZenonT(60) DEF OwnedInv, InTime
  <1>3. run[r].heartbeat < unixMs(clock(n)) - AbandonedAfter
    BY ZenonT(60) DEF staleRunning
  <1> HIDE DEF m
  <1>4. /\ clock(m) \in Int /\ clock(n) \in Int
        /\ unixMs(clock(m)) \in Int /\ unixMs(clock(n)) \in Int
    BY <1>1, Clocks, ZenonT(60) DEF JournalInv
  <1>5. window \in Int /\ Skew[n] - Skew[m] <= unixTime(window)
    BY <1>1, StoreAssumption, SMTT(30) DEF ClocksClose, unixTime
  <1>6. clock(n) - clock(m) <= unixTime(window)
    <2>1. now \in Int /\ Skew[n] \in Int /\ Skew[m] \in Int /\ unixTime(window) \in Int
      <3>1. now \in Int
        BY SMTT(30) DEF JournalInv, TypeOK
      <3>2. Skew[n] \in Int /\ Skew[m] \in Int
        BY <1>1, StoreAssumption, SMTT(30)
      <3>3. unixTime(window) \in Int
        <4> HIDE DEF window
        <4> QED  BY <1>5, Conversions, ZenonT(60)
      <3> QED  BY <3>1, <3>2, <3>3
    <2> HIDE DEF window
    <2> QED  BY <1>5, <2>1, SMTT(30) DEF clock
  <1>7. unixMs(clock(n)) <= unixMs(clock(m)) + window
    <2> HIDE DEF window
    <2> QED  BY <1>4, <1>5, <1>6, CloseMillis, ZenonT(60)
  <1> QED
    BY <1>1, <1>2, <1>3, <1>4, <1>7, StoreAssumption, SMTT(30)

\* Outside a claim, what is owned after a step was owned before it, by the same
\* node and no further on.
LEMMA OwnedBefore ==
    ASSUME JournalInv, [Next]_vars, NEW r \in RunId, Owned(r)',
           ~\E n \in Node, free \in SUBSET Sched, reported \in BOOLEAN : Claim(n, free, reported)
    PROVE  /\ Owned(r) /\ fire'[r].node = fire[r].node
           /\ fire'[r].phase \in {"claimed", "tracked"} => fire[r].phase \in {"claimed", "tracked"}
  <1>1. Idle.phase = "idle"
    BY ZenonT(60) DEF Idle
  <1>2. /\ fire[r].phase # "idle" /\ fire'[r].node = fire[r].node
        /\ fire'[r].phase \in {"claimed", "tracked"} => fire[r].phase \in {"claimed", "tracked"}
    BY <1>1, OtherFires, ZenonT(60) DEF Owned
  <1> DEFINE m == fire[r].node
  <1>3. m \in Node /\ r \in Holds(m) /\ node'[m] # "released"
    BY <1>2, ZenonT(60) DEF Owned, JournalInv, RunLinked, Holds
  <1>4. node[m] # "released"
    <2>1. CASE Lifecycle
      <3>1. PICK n \in Node : Stop(n) \/ stopRuns(n) \/ stopHeartbeats(n) \/ Stopped(n) \/ Crash(n) \/ Start(n)
        BY <2>1, ZenonT(60) DEF Lifecycle
      <3>2. m # n => node'[m] = node[m]
        <4>1. \E state : node' = [node EXCEPT ![n] = state]
          BY <3>1, ZenonT(60) DEF Stop, stopRuns, stopHeartbeats, Stopped, Crash, Start, Enter
        <4>2. DOMAIN node = Node
          BY ZenonT(60) DEF JournalInv, TypeOK
        <4> HIDE DEF m
        <4> QED  BY <4>1, <4>2, <1>3, ZenonT(60)
      <3>3. m = n => ~Stopped(n)
        BY <1>3, ZenonT(60) DEF Stopped
      <3>4. m = n => ~Crash(n)
        <4>1. Crash(n) /\ m = n => fire'[r] = Idle
          BY ZenonT(60) DEF Crash
        <4> QED  BY <4>1, <1>1, ZenonT(60) DEF Owned
      <3>5. m = n => ~stopHeartbeats(n)
        <4>1. stopHeartbeats(n) => node'[n] = "released"
          BY <3>1, ZenonT(60) DEF stopHeartbeats, Enter, JournalInv, TypeOK
        <4> QED  BY <4>1, <1>3, ZenonT(60)
      <3>6. CASE m = n
        <4>1. Stop(n) \/ stopRuns(n) \/ Start(n)
          BY <3>1, <3>3, <3>4, <3>5, <3>6, ZenonT(60)
        <4>2. node[n] \in {"up", "draining", "down"}
          BY <4>1, ZenonT(60) DEF Stop, stopRuns, Start
        <4> QED  BY <3>6, <4>2, ZenonT(60)
      <3> QED  BY <1>3, <3>2, <3>6, ZenonT(60)
    <2>2. CASE node' = node
      BY <1>3, <2>2, ZenonT(60)
    <2>3. CASE Engine
      BY <2>3, <2>2, ZenonT(60) DEF Engine, sweepAbandoned, renewHeartbeats, pruneSelect, pruneDelete
    <2>4. CASE Executor
      BY <2>4, <2>2, ZenonT(60) DEF Executor, Track, Return, writeOutcome, findOutcome, giveUp, finish
    <2>5. CASE Manager
      BY <2>2, <2>5, ManagerWrites, ZenonT(60)
    <2>6. CASE Tick \/ UNCHANGED vars
      BY <2>6, <2>2, ZenonT(60) DEF Tick, vars
    <2> QED
      BY <2>1, <2>3, <2>4, <2>5, <2>6, ZenonT(60) DEF Next
  <1> QED
    BY <1>2, <1>4, ZenonT(60) DEF Owned

\* A claim starts its runs in time and leaves the owned ones alone.
LEMMA ClaimKeepsOwned ==
    ASSUME ClocksClose, JournalInv, OwnedInv, NEW r \in RunId, Owned(r)',
           NEW n \in Node, NEW free \in SUBSET Sched, NEW reported \in BOOLEAN,
           Claim(n, free, reported)
    PROVE  InTime(r)'
  <1>0. [Next]_vars /\ node' = node /\ now' = now
    <2>1. node' = node /\ now' = now
      BY ZenonT(60) DEF Claim
    <2>2. Next
      BY ZenonT(60) DEF Next, Engine
    <2> QED  BY <2>1, <2>2, ZenonT(60)
  <1>1. PICK b, id, W, active : BatchOK(b) /\ Lands(b, id, n, W, active)
    BY ClaimLands, ZenonT(60)
  <1>2. \A m : clock(m)' = clock(m)
    BY <1>0, ZenonT(60) DEF clock
  <1>3. CASE fire'[r] = fire[r]
    <2>1. Owned(r)
      BY <1>0, <1>3, ZenonT(60) DEF Owned
    <2>2. InTime(r) /\ run[r].status # "none"
      BY <2>1, ZenonT(60) DEF OwnedInv, Owned, JournalInv, RunLinked
    <2>3. CASE Running(r)
      <3>1. run'[r].status # "abandoned"
        BY <1>0, <2>1, <2>3, TakenAreStale, OwnedAreFresh, ZenonT(60)
      <3> DEFINE marked == markAbandoned(b.abandoned, clock(n))
      <3>2. \A x \in b.rows : id[x] # r
        <4>1. \A x \in b.rows : run[id[x]].status = "none"
          BY <1>1, ZenonT(60) DEF Lands
        <4> QED  BY <2>2, <4>1, ZenonT(60)
      <3>3. run'[r] = marked[r]
        BY <1>1, <3>2, ZenonT(60) DEF Lands
      <3>4. marked[r].status = "abandoned" \/ marked[r] = run[r]
        <4>1. b.abandoned \in SUBSET RunId
          BY <1>1, ZenonT(60) DEF BatchOK
        <4> QED  BY <4>1, AbandonedRows, ZenonT(60)
      <3> HIDE DEF marked
      <3>5. run'[r] = run[r]
        BY <3>1, <3>3, <3>4, ZenonT(60)
      <3> QED
        BY <1>2, <1>3, <2>2, <3>5, ZenonT(60) DEF InTime, Running
    <2>4. CASE ~Running(r)
      <3>1. fire'[r].phase \notin {"claimed", "tracked"}
        BY <1>3, <2>2, <2>4, ZenonT(60) DEF InTime
      <3>2. [NoRun EXCEPT !.status = "pruned"].status = "pruned"
        BY ZenonT(60) DEF NoRun
      <3>3. ~Running(r)'
        BY <1>0, <2>2, <2>4, <3>2, RowsContinue, ZenonT(60) DEF Continues, Running
      <3> QED  BY <3>1, <3>3, ZenonT(60) DEF InTime
    <2> QED  BY <2>3, <2>4
  <1>4. CASE fire'[r] # fire[r]
    <2>1. PICK x \in b.rows : /\ id[x] = r /\ x[3].status = "running"
                              /\ fire'[r] = Claimed(n, schedule[run'[r].sched].recover)
      BY <1>1, <1>4, ZenonT(60) DEF Lands
    <2>2. run[r].status = "none" /\ run'[r] = x[3]
      BY <1>1, <2>1, ZenonT(60) DEF Lands
    <2>3. run'[r].status = "running" /\ fire'[r].node = n
      <3>1. \A recover : Claimed(n, recover).node = n
        BY ZenonT(60) DEF Claimed, Idle
      <3> QED  BY <2>1, <2>2, <3>1, ZenonT(60)
    <2>4. Begins(r, id, n, W, active)
      BY <1>1, <2>2, <2>3, RowBegins, ZenonT(60)
    <2>5. run'[r].heartbeat = unixMs(clock(n))
      BY <2>3, <2>4, ZenonT(60) DEF Begins, FiredRow
    <2>6. unixMs(clock(n)) \in Int
      BY Clocks, ZenonT(60) DEF JournalInv
    <2>7. unixMs(clock(fire[r].node))' - run'[r].heartbeat <= HeartbeatInterval
      <3>1. unixMs(clock(fire[r].node))' = unixMs(clock(n))
        BY <1>0, <2>3, ZenonT(60) DEF clock, unixMs
      <3> QED  BY <2>5, <2>6, <3>1, StoreAssumption, SMTT(30)
    <2> QED
      BY <2>3, <2>7, ZenonT(60) DEF InTime, Running
  <1> QED  BY <1>3, <1>4

\* So does every other step but the clock's.
LEMMA OtherKeepsOwned ==
    ASSUME ClocksClose, JournalInv, OwnedInv, NEW r \in RunId, Owned(r)', now' = now, [Next]_vars,
           ~\E n \in Node, free \in SUBSET Sched, reported \in BOOLEAN : Claim(n, free, reported)
    PROVE  InTime(r)'
  <1>1. /\ Owned(r) /\ fire'[r].node = fire[r].node
        /\ fire'[r].phase \in {"claimed", "tracked"} => fire[r].phase \in {"claimed", "tracked"}
    BY OwnedBefore, ZenonT(60)
  <1>2. InTime(r)
    BY <1>1, ZenonT(60) DEF OwnedInv
  <1>3. \A m : clock(m)' = clock(m)
    BY ZenonT(60) DEF clock
  <1>4. CASE run'[r] = run[r]
    BY <1>1, <1>2, <1>3, <1>4, ZenonT(60) DEF InTime, Running
  <1>5. CASE ~Running(r)' /\ fire'[r].phase \notin {"claimed", "tracked"}
    BY <1>5, ZenonT(60) DEF InTime
  <1>6. ASSUME NEW n \in Node, NEW free \in SUBSET Sched, NEW reported \in BOOLEAN,
               sweepAbandoned(n, free, reported)
        PROVE  InTime(r)'
    <2>1. PICK gone \in SUBSET RunId : /\ \A q \in gone : staleRunning(q, clock(n))
                                       /\ run' = markAbandoned(gone, clock(n))
      BY <1>6, SweepRows, ZenonT(60)
    <2>2. r \notin gone
      BY <1>1, <2>1, OwnedAreFresh, ZenonT(60)
    <2>3. run'[r] = run[r]
      BY <2>1, <2>2, AbandonedRows, ZenonT(60)
    <2> QED  BY <1>4, <2>3, ZenonT(60)
  <1>7. ASSUME NEW n \in Node, renewHeartbeats(n)
        PROVE  InTime(r)'
    <2>1. \/ run'[r] = run[r]
          \/ /\ Running(r) /\ fire[r].node = n
             /\ run'[r] = [run[r] EXCEPT !.heartbeat = unixMs(clock(n))]
      BY <1>7, ZenonT(60) DEF renewHeartbeats, Holds
    <2>2. CASE /\ Running(r) /\ fire[r].node = n
               /\ run'[r] = [run[r] EXCEPT !.heartbeat = unixMs(clock(n))]
      <3>1. run[r] \in RunRow
        BY ZenonT(60) DEF JournalInv, TypeOK
      <3>2. run'[r].heartbeat = unixMs(clock(n)) /\ run'[r].status = run[r].status
        BY <2>2, <3>1, ZenonT(60) DEF RunRow
      <3>3. unixMs(clock(n)) \in Int
        BY Clocks, ZenonT(60) DEF JournalInv
      <3>4. unixMs(clock(fire[r].node))' - run'[r].heartbeat <= HeartbeatInterval
        <4>1. unixMs(clock(fire[r].node))' = unixMs(clock(n))
          BY <1>1, <2>2, ZenonT(60) DEF clock, unixMs
        <4> QED  BY <3>2, <3>3, <4>1, StoreAssumption, SMTT(30)
      <3> QED
        BY <2>2, <3>2, <3>4, ZenonT(60) DEF InTime, Running
    <2> QED  BY <1>4, <2>1, <2>2, ZenonT(60)
  <1>8. ASSUME NEW n \in Node, pruneDelete(n)
        PROVE  InTime(r)'
    <2>1. [NoRun EXCEPT !.status = "pruned"].status = "pruned"
      BY ZenonT(60) DEF NoRun
    <2>2. CASE r \in doomed[n]
      <3>1. ~Running(r)
        BY <2>2, ZenonT(60) DEF JournalInv, DoomedTerminal, Running, Terminal
      <3>2. ~Running(r)'
        BY <1>8, <2>1, <2>2, ZenonT(60) DEF pruneDelete, Running
      <3> QED  BY <1>1, <1>2, <1>5, <3>1, <3>2, ZenonT(60) DEF InTime
    <2>3. CASE r \notin doomed[n]
      BY <1>4, <1>8, <2>3, ZenonT(60) DEF pruneDelete
    <2> QED  BY <2>2, <2>3
  <1>9. ASSUME NEW q \in RunId, NEW reported \in BOOLEAN, writeOutcome(q, reported)
        PROVE  InTime(r)'
    <2>0. run \in [RunId -> RunRow] /\ fire \in [RunId -> Fire]
      BY ZenonT(60) DEF JournalInv, TypeOK
    <2>1. /\ fire[q].phase = "returned"
          /\ run' = [run EXCEPT ![q].status = fire[q].outcome,
                                ![q].finished = FinishedAt(clock(fire[q].node))]
      BY <1>9, ZenonT(60) DEF writeOutcome
    <2>2. CASE r = q
      <3>1. fire[q].outcome \in {"succeeded", "failed", "canceled"}
        BY <2>1, ZenonT(60) DEF JournalInv, RunLinked, TypeOK, Fire
      <3>2. run'[r].status = fire[q].outcome
        BY <2>0, <2>1, <2>2, SMTT(30) DEF RunRow
      <3>3. fire[r].phase \notin {"claimed", "tracked"}
        BY <2>1, <2>2, ZenonT(60)
      <3> QED  BY <1>1, <1>5, <3>1, <3>2, <3>3, ZenonT(60) DEF Running
    <2>3. CASE r # q
      BY <1>4, <2>0, <2>1, <2>3, ZenonT(60)
    <2> QED  BY <2>2, <2>3
  <1>10. CASE run' = run
    BY <1>4, <1>10, ZenonT(60)
  <1>11. CASE Engine
    BY <1>6, <1>7, <1>8, <1>10, <1>11, ZenonT(60) DEF Engine, pruneSelect
  <1>12. CASE Executor
    BY <1>9, <1>10, <1>12, ZenonT(60) DEF Executor, Track, Return, findOutcome, giveUp, finish
  <1>13. CASE Manager
    BY <1>10, <1>13, ManagerWrites, ZenonT(60)
  <1>14. CASE Lifecycle \/ Tick
    BY <1>10, <1>14, ZenonT(60) DEF Lifecycle, Tick, Stop, stopRuns, stopHeartbeats, Stopped, Crash, Start, Enter
  <1>15. CASE UNCHANGED vars
    BY <1>10, <1>15, ZenonT(60) DEF vars
  <1> QED
    BY <1>11, <1>12, <1>13, <1>14, <1>15, ZenonT(60) DEF Next

\* So timely steps keep owned runs in time.
LEMMA StepKeepsOwned ==
    ASSUME ClocksClose, JournalInv, OwnedInv, [Timely]_vars
    PROVE  OwnedInv'
  <1> SUFFICES ASSUME NEW r \in RunId, Owned(r)' PROVE InTime(r)'
    BY ZenonT(60) DEF OwnedInv
  <1>1. CASE TimelyTick
    <2>1. /\ now' = now + 1 /\ UNCHANGED <<run, fire, node>>
          /\ Owned(r) /\ Running(r)
                => unixMs(clock(fire[r].node) + 1) - run[r].heartbeat <= HeartbeatInterval
      BY <1>1, ZenonT(60) DEF TimelyTick, Tick
    <2>2. Owned(r) /\ (Running(r)' <=> Running(r))
      BY <2>1, ZenonT(60) DEF Owned, Running
    <2>3. fire[r].node \in Node
      BY <2>2, ZenonT(60) DEF Owned, JournalInv, RunLinked
    <2>4. clock(fire[r].node)' = clock(fire[r].node) + 1
      <3>1. now \in Int /\ Skew[fire[r].node] \in Int
        BY <2>3, StoreAssumption, SMTT(30) DEF JournalInv, TypeOK
      <3>2. now + 1 + Skew[fire[r].node] = now + Skew[fire[r].node] + 1
        BY <3>1, SMTT(30)
      <3> QED  BY <2>1, <3>2, ZenonT(60) DEF clock
    <2>5. unixMs(clock(fire[r].node))' = unixMs(clock(fire[r].node) + 1)
      BY <2>4, ZenonT(60) DEF unixMs
    <2>6. InTime(r)
      BY <2>2, ZenonT(60) DEF OwnedInv
    <2> QED
      BY <2>1, <2>2, <2>5, <2>6, ZenonT(60) DEF InTime
  <1>2. CASE Manager \/ Engine \/ Executor \/ Lifecycle \/ UNCHANGED vars
    <2>1. [Next]_vars
      BY <1>2, ZenonT(60) DEF Next
    <2>2. now' = now
      BY <1>2, OnlyTicks, ZenonT(60)
    <2> QED
      BY <2>1, <2>2, ClaimKeepsOwned, OtherKeepsOwned, ZenonT(60)
  <1> QED
    BY <1>1, <1>2, ZenonT(60) DEF Timely

\* A timely step is a step.
LEMMA TimelySteps == [Timely]_vars => [Next]_vars
  BY ZenonT(60) DEF Timely, TimelyTick, Next

\* Timely behaviours keep the journal linked and the owned runs in time.
LEMMA OwnedCorrect == ClocksClose => (TimelySpec => []JournalInv /\ []OwnedInv)
  <1> SUFFICES ASSUME ClocksClose PROVE TimelySpec => []JournalInv /\ []OwnedInv
    OBVIOUS
  <1>1. ASSUME Init PROVE OwnedInv
    <2>1. \A r \in RunId : fire[r].phase = "idle"
      BY <1>1, ZenonT(60) DEF Init, Idle
    <2> QED  BY <2>1, ZenonT(60) DEF OwnedInv, Owned
  <1>2. ASSUME JournalInv, OwnedInv, [Timely]_vars PROVE OwnedInv'
    BY <1>2, StepKeepsOwned, ZenonT(60)
  <1>3. ASSUME JournalInv, [Timely]_vars PROVE JournalInv'
    BY <1>3, TimelySteps, StepKeepsJournal, ZenonT(60)
  <1> QED
    BY <1>1, <1>2, <1>3, InitialJournal, PTL DEF TimelySpec

\* takeOverRunning: on any number of nodes whose clocks differ by no more than
\* AbandonedAfter - HeartbeatInterval, a run whose node renews it within
\* HeartbeatInterval is never taken over.
THEOREM OwnedRunsAreKept == ClocksClose => (TimelySpec => OwnedRunsNotTaken)
  <1> SUFFICES ASSUME ClocksClose PROVE TimelySpec => OwnedRunsNotTaken
    OBVIOUS
  <1>1. ASSUME JournalInv, OwnedInv, [Timely]_vars
        PROVE  [\A r \in RunId : Running(r) /\ run'[r].status = "abandoned" => ~Owned(r)]_vars
    <2>1. [Next]_vars
      BY <1>1, TimelySteps, ZenonT(60)
    <2> QED
      BY <1>1, <2>1, TakenAreStale, OwnedAreFresh, ZenonT(60)
  <1> QED
    BY <1>1, OwnedCorrect, PTL DEF TimelySpec, OwnedRunsNotTaken

\* When no spec allows overlap, a step leaves a schedule at most one running row.
LEMMA StepKeepsAlone ==
    ASSUME NothingOverlaps, JournalInv, AloneInv, [Next]_vars
    PROVE  AloneInv'
  <1>1. ASSUME NEW s \in Sched, schedule'[s] # None
        PROVE  schedule'[s].policy = "forbid"
    <2>1. CASE schedule[s] # None /\ schedule'[s].policy = schedule[s].policy
      BY <2>1, ZenonT(60) DEF AloneInv
    <2>2. CASE \E spec \in Specs : Specified(schedule'[s], spec)
      <3>1. PICK spec \in Specs : Specified(schedule'[s], spec)
        BY <2>2, ZenonT(60)
      <3>2. spec.policy \in {None, "allow", "forbid"}
        BY SpecsAssumption, ZenonT(60)
      <3> QED  BY <3>1, <3>2, ZenonT(60) DEF Specified, NothingOverlaps, normalizeConcurrencyPolicy
    <2> QED
      BY <1>1, <2>1, <2>2, PoliciesKept, ZenonT(60)
  <1>2. [NoRun EXCEPT !.status = "pruned"].status = "pruned"
    BY ZenonT(60) DEF NoRun
  <1>3. ASSUME NEW r \in RunId, Running(r)', Running(r)
        PROVE  run'[r].sched = run[r].sched
    <2>1. Continues(r)
      BY <1>3, RowsContinue, ZenonT(60) DEF Running
    <2> QED
      BY <1>2, <1>3, <2>1, ZenonT(60) DEF Continues, SameOrigin, Running
  <1>4. ASSUME NEW r \in RunId, Running(r)', ~Running(r), NEW q \in RunId \ {r}, Running(q)'
        PROVE  run'[q].sched # run'[r].sched
    <2>1. run[r].status = "none"
      BY <1>2, <1>4, RowsContinue, ZenonT(60) DEF Continues, Running
    <2>2. PICK s \in Sched : run'[r].sched = s /\ schedule[s] # None
      BY <1>4, <2>1, BegunRows, ZenonT(60) DEF Running
    <2>3. schedule[run'[r].sched].policy # "allow"
      BY <2>2, ZenonT(60) DEF AloneInv
    <2>4. StartsAlone(r)
      BY StepStartsAlone, ZenonT(60)
    <2> QED
      BY <1>4, <2>3, <2>4, ZenonT(60) DEF StartsAlone, Running
  <1>5. ASSUME NEW p \in RunId, NEW r \in RunId, Running(p)', Running(r)', run'[p].sched = run'[r].sched
        PROVE  p = r
    <2>1. CASE ~Running(p) \/ ~Running(r)
      BY <1>4, <1>5, <2>1, ZenonT(60)
    <2>2. CASE Running(p) /\ Running(r)
      <3>1. run[p].sched = run[r].sched
        BY <1>3, <1>5, <2>2, ZenonT(60)
      <3> QED  BY <2>2, <3>1, ZenonT(60) DEF AloneInv
    <2> QED  BY <2>1, <2>2
  <1> QED
    BY <1>1, <1>5, ZenonT(60) DEF AloneInv

\* ConcurrencyForbid, end to end: under the same assumptions, when no spec
\* allows overlap, two handlers of one schedule never execute at the same time
\* on nodes that have not given up their runs.
THEOREM HandlersNeverOverlap ==
    ClocksClose /\ NothingOverlaps => (TimelySpec => []HandlersExclusive)
  <1> SUFFICES ASSUME ClocksClose, NothingOverlaps PROVE TimelySpec => []HandlersExclusive
    OBVIOUS
  <1>1. ASSUME Init PROVE AloneInv
    <2>1. \A r \in RunId : ~Running(r)
      BY <1>1, ZenonT(60) DEF Init, NoRun, Running
    <2>2. \A s \in Sched : schedule[s] = None
      BY <1>1, ZenonT(60) DEF Init
    <2> QED  BY <2>1, <2>2, ZenonT(60) DEF AloneInv
  <1>2. ASSUME JournalInv, AloneInv, [Timely]_vars PROVE AloneInv'
    BY <1>2, TimelySteps, StepKeepsAlone, ZenonT(60)
  <1>3. ASSUME OwnedInv, AloneInv PROVE HandlersExclusive
    <2>1. \A r \in RunId : fire[r].phase = "tracked" /\ Owned(r) => Running(r)
      BY <1>3, ZenonT(60) DEF OwnedInv, InTime
    <2> QED  BY <1>3, <2>1, ZenonT(60) DEF AloneInv, HandlersExclusive
  <1> QED
    BY <1>1, <1>2, <1>3, OwnedCorrect, PTL DEF TimelySpec
=============================================================================
