------------------------------ MODULE CronStore ------------------------------
(***************************************************************************)
(* The persistent scheduler of internal/cron/store: several nodes share a  *)
(* table of schedules, a journal of runs and a table of fire requests.     *)
(* Each node claims due work in one transaction, executes what it claimed, *)
(* proves liveness by heartbeats, journals the outcome, and takes over the *)
(* running rows other nodes left behind; the manager creates, edits,       *)
(* pauses, resumes, triggers and deletes schedules meanwhile.              *)
(*                                                                         *)
(* A database transaction is one step: the claim, the sweep, the outcome   *)
(* write and every manager operation lock schedule -> run -> request, and  *)
(* re-read what they decide on under those locks.  What the transaction    *)
(* does not protect is between steps: a node crashing with claimed fires,  *)
(* a commit whose report is lost, a handler outliving its lease, an        *)
(* outcome racing a takeover, a delete racing a re-queue.                  *)
(***************************************************************************)
EXTENDS CronTrigger, FiniteSetsExt

CONSTANTS
    Node,              \* engine processes sharing the database
    Sched,             \* schedule ids, numbers in order of creation
    JobsOf,            \* node -> the job names its registry holds
    Specs,             \* schedule specifications the manager is given
    BatchSize,
    MaxConcurrent,     \* executor slots of a node
    SweepBatch,        \* sweepBatchSize
    HeartbeatInterval,
    AbandonedAfter,    \* milliseconds without a heartbeat
    MisfireThreshold,
    Retention,         \* RunRetention; None when the journal is never pruned
    Skew,              \* node -> offset of its clock
    MaxRun,            \* bound: journal rows ever written
    MaxManual,         \* bound: TriggerNow calls
    MaxTime            \* bound: the clock

ASSUME StoreAssumption ==
    /\ Sched \subseteq Nat /\ IsFiniteSet(Sched)
    /\ BatchSize \in Nat \ {0} /\ MaxConcurrent \in Nat \ {0} /\ SweepBatch \in Nat \ {0}
    /\ HeartbeatInterval \in Nat /\ AbandonedAfter \in Nat
    /\ AbandonedAfter >= 2 * HeartbeatInterval
    /\ MaxRun \in Nat /\ MaxManual \in Nat /\ MaxTime \in Nat
    /\ MisfireThreshold \in Nat /\ Retention \in Nat \cup {None}
    /\ Skew \in [Node -> Int]
    /\ None \notin Node

\* A spec leaves a policy None for its default.
ASSUME SpecsAssumption ==
    Specs \subseteq [trigger : Trigger, startsAt : Instant, endsAt : Instant,
                     misfire : {None, "fire_now", "skip"}, policy : {None, "allow", "forbid"},
                     recover : BOOLEAN, job : STRING, enabled : BOOLEAN]

RunId == 1..MaxRun

Terminal == {"succeeded", "failed", "skipped", "missed", "canceled", "abandoned"}

ScheduleRow ==
    [trigger : Trigger, startsAt : Instant, endsAt : Instant, anchorAt : Int,
     misfire : {"fire_now", "skip"}, policy : {"allow", "forbid"}, recover : BOOLEAN,
     job : STRING, enabled : BOOLEAN, next : Instant, last : Instant]
RunRow ==
    [status : Terminal \cup {"none", "pruned", "running"}, sched : Sched \cup {None},
     at : Instant, heartbeat : Instant, finished : Instant,
     kind : {None, "regular", "manual", "recovery"}, source : RunId \cup {None}]
Request ==
    [sched : Sched, kind : {"manual", "recovery"}, at : Int, source : RunId \cup {None}, id : Nat]
Fire ==
    [phase : {"idle", "claimed", "tracked", "returned", "journaled"}, node : Node \cup {None},
     recover : BOOLEAN, outcome : {None, "succeeded", "failed", "canceled"}]

\* nil is not a row of any table, nor an outcome or the kind of a run.
ASSUME NoneAssumption ==
    None \notin ScheduleRow /\ None \notin Request /\ None \notin Terminal /\ None # "regular"

VARIABLES
    now,       \* global time; a node reads clock(n)
    schedule,  \* Sched -> its row, or None when not created or deleted
    created,   \* ids already used: an id never comes back
    run,       \* RunId -> journal row
    request,   \* pending fire requests
    manual,    \* TriggerNow calls so far, which number the manual requests
    node,      \* "up", "draining" (claim loop stopped), "canceling" (stopRuns),
               \* "released" (stop budget spent: no heartbeats either), "down"
    fire,      \* RunId -> what an executor goroutine holds in memory
    doomed,    \* node -> run ids the pruner has selected and not yet deleted
    requeued,  \* history: RunId -> recovery requests ever queued for it
    events     \* history: RunId -> run events published for it, by kind

vars == <<now, schedule, created, run, request, manual, node, fire, doomed, requeued, events>>

\* status "none" is an id not written yet, "pruned" one whose row was deleted.
\* kind and source record where a row came from; the code does not store them.
NoRun == [status |-> "none", sched |-> None, at |-> None, heartbeat |-> None,
          finished |-> None, kind |-> None, source |-> None]
Idle == [phase |-> "idle", node |-> None, recover |-> FALSE, outcome |-> None]

clock(n) == now + Skew[n]

\* A node runs code, and a node still renews heartbeats while it drains.
Alive(n) == node[n] # "down"
Holds(n) == {r \in RunId : fire[r].node = n}

Init ==
    /\ now = 0
    /\ schedule = [s \in Sched |-> None]
    /\ created = {}
    /\ run = [r \in RunId |-> NoRun]
    /\ request = {}
    /\ manual = 0
    /\ node = [n \in Node |-> "up"]
    /\ fire = [r \in RunId |-> Idle]
    /\ doomed = [n \in Node |-> {}]
    /\ requeued = [r \in RunId |-> 0]
    /\ events = [r \in RunId |-> [failed |-> 0, abandoned |-> 0]]

Tick ==
    /\ now < MaxTime
    /\ now' = now + 1
    /\ UNCHANGED <<schedule, created, run, request, manual, node, fire, doomed, requeued, events>>

(***************************************************************************)
(* Requests and takeover.                                                  *)
(***************************************************************************)

Running(r) == run[r].status = "running"

\* A run whose heartbeat is older than the window; the boundary is still live.
staleRunning_Late(r, t) == Running(r) /\ run[r].heartbeat < unixMs(t) - AbandonedAfter - 1
staleRunning_Inclusive(r, t) == Running(r) /\ run[r].heartbeat <= unixMs(t) - AbandonedAfter
staleRunning(r, t) == Running(r) /\ run[r].heartbeat < unixMs(t) - AbandonedAfter

\* The run id is the unique source of its recovery request.  Ids order requests
\* of equal logical time: manual ones by call, then recoveries by source run.
\* (The code's ids follow creation; on such a tie a recovery queued before a
\* manual request would go first.)
RecoveryRequest(r) ==
    [sched |-> run[r].sched, kind |-> "recovery", at |-> run[r].at,
     source |-> r, id |-> MaxManual + r]
ManualRequest(s, t) ==
    [sched |-> s, kind |-> "manual", at |-> unixMs(t), source |-> None, id |-> manual + 1]

\* A recovery waits while a run of its non-Allow schedule is running; gone is
\* the set of running rows the same transaction has just abandoned.
runnableFireRequest_NotForbid(q, gone) ==
    q.kind # "recovery" \/ schedule[q.sched] = None \/ schedule[q.sched].policy = "allow"
runnableFireRequest(q, gone) ==
    \/ q.kind # "recovery"
    \/ schedule[q.sched] = None
    \/ schedule[q.sched].policy = "allow"
    \/ \A r \in RunId \ gone : Running(r) => run[r].sched # q.sched

\* takeOverRunning over the locked schedules S.
Stale(S, t) == {r \in RunId : run[r].sched \in S /\ staleRunning(r, t)}
Active_None(S, t) == {}
Active(S, t) ==
    {s \in S : \E r \in RunId : run[r].sched = s /\ Running(r) /\ ~staleRunning(r, t)}

FinishedAt(t) == IF Retention = None THEN None ELSE unixMs(t)

markAbandoned(R, t) ==
    [r \in RunId |->
        IF r \in R THEN [run[r] EXCEPT !.status = "abandoned", !.finished = FinishedAt(t)]
                   ELSE run[r]]

recoverable(R) == {r \in R : schedule[run[r].sched] # None /\ schedule[run[r].sched].recover}

\* The unique source column: a second request for the same run fails the
\* transaction as a whole.
SourceFree(R) == \A q \in request : q.source \notin R

Requeued(R) == [r \in RunId |-> requeued[r] + (IF r \in R THEN 1 ELSE 0)]
Announce(kind, R) ==
    [r \in RunId |-> IF r \in R THEN [events[r] EXCEPT ![kind] = @ + 1] ELSE events[r]]

(***************************************************************************)
(* The claim (claim.go), for a node whose clock reads t.                   *)
(***************************************************************************)

Claimable(n) ==
    {s \in Sched : /\ schedule[s] # None
                   /\ schedule[s].enabled
                   /\ schedule[s].job \in JobsOf[n]}

\* ORDER BY key, id LIMIT k over a set of schedules.
FirstBy(S, key, k) ==
    {s \in S : Cardinality({u \in S : \/ key[u] < key[s]
                                      \/ key[u] = key[s] /\ u < s}) < k}

\* free names the rows no other transaction holds: SKIP LOCKED passes over
\* the rest and fills the batch from what remains.
lockRequestedSchedules(n, free, limit) ==
    LET asked == {s \in free \cap Claimable(n) :
                     \E q \in request : q.sched = s /\ runnableFireRequest(q, {})}
        oldest == [s \in asked |-> Min({q.at : q \in {q \in request :
                                            q.sched = s /\ runnableFireRequest(q, {})}})]
    IN  FirstBy(asked, oldest, limit)

lockDueSchedules(n, free, limit, t) ==
    LET due == {s \in free \cap Claimable(n) :
                   schedule[s].next # None /\ schedule[s].next <= unixMs(t)}
    IN  FirstBy(due, [s \in due |-> schedule[s].next], limit)

lockFireRequests(Q, S, gone, limit) ==
    LET open == {q \in Q : q.sched \in S /\ runnableFireRequest(q, gone)}
    IN  {q \in open : Cardinality({p \in open : \/ p.at < q.at
                                                \/ p.at = q.at /\ p.id < q.id}) < limit}

\* One item per due schedule (request None) and one per request.
fireWork(due, requests) ==
    {[sched |-> s, at |-> schedule[s].next, request |-> None] : s \in due}
        \cup {[sched |-> q.sched, at |-> q.at, request |-> q] : q \in requests}

\* The order of mergeFireWork: logical time, a regular occurrence before a
\* request, then ids.
Before(i, j) ==
    \/ i.at < j.at
    \/ /\ i.at = j.at
       /\ \/ i.request = None /\ j.request # None
          \/ i.request = None /\ j.request = None /\ i.sched < j.sched
          \/ i.request # None /\ j.request # None /\ i.request.id < j.request.id

\* Whether an item is a fire at all: a regular occurrence may only be missed.
Fires(i, t) == i.request # None \/ decide(schedule[i.sched], t, MisfireThreshold).fire

\* ConcurrencyForbid: a live run of the schedule, or an earlier item of this
\* batch that fired for it.
suppressed_ActiveOnly(i, W, active, t) == schedule[i.sched].policy # "allow" /\ i.sched \in active
suppressed(i, W, active, t) ==
    /\ schedule[i.sched].policy # "allow"
    /\ \/ i.sched \in active
       \/ \E j \in W : j.sched = i.sched /\ Before(j, i) /\ Fires(j, t)

Starts(i, W, active, t) == Fires(i, t) /\ ~suppressed(i, W, active, t)

\* The loop stops at the first item found with limit fires already made.
Reached(W, active, t, limit) ==
    {i \in W : Cardinality({j \in W : Before(j, i) /\ Starts(j, W, active, t)}) < limit}

\* A suppressed recovery is passed over and stays pending.
PassedOver(i, W, active, t) ==
    i.request # None /\ i.request.kind = "recovery" /\ suppressed(i, W, active, t)

\* Journal rows, in the order the loop appends them.
newRunRow(i, W, active, t) ==
    [NoRun EXCEPT !.status = IF suppressed(i, W, active, t) THEN "skipped" ELSE "running",
                  !.sched = i.sched,
                  !.at = i.at,
                  !.heartbeat = IF suppressed(i, W, active, t) THEN None ELSE unixMs(t),
                  !.finished = IF suppressed(i, W, active, t) THEN FinishedAt(t) ELSE None,
                  !.kind = IF i.request = None THEN "regular" ELSE i.request.kind,
                  !.source = IF i.request = None THEN None ELSE i.request.source]
missedRow(i, t) ==
    [NoRun EXCEPT !.status = "missed",
                  !.sched = i.sched,
                  !.at = unixMs(decide(schedule[i.sched], t, MisfireThreshold).missedFrom),
                  !.finished = FinishedAt(t),
                  !.kind = "regular"]
journalRows(reached, W, active, t) ==
    {<<i, 1, newRunRow(i, W, active, t)>> :
        i \in {i \in reached : Fires(i, t) /\ ~PassedOver(i, W, active, t)}}
    \cup
    {<<i, 2, missedRow(i, t)>> :
        i \in {i \in reached : /\ i.request = None
                               /\ decide(schedule[i.sched], t, MisfireThreshold).missed > 0}}

RowBefore(x, y) == Before(x[1], y[1]) \/ (x[1] = y[1] /\ x[2] < y[2])

\* The next unused ids, handed out in that order.
Fresh(count) ==
    {r \in RunId : run[r].status = "none"
                   /\ Cardinality({q \in RunId : q < r /\ run[q].status = "none"}) < count}

\* advance and recordRequestedFire: a regular occurrence moves the cursor and
\* sets the last fire; requests only ever move the last fire forward.
Advanced_KeepsCursor(s, reached, W, active, t) == schedule[s]
Advanced_AlwaysFires(s, reached, W, active, t) ==
    LET regular == {i \in reached : i.sched = s /\ i.request = None}
    IN  IF regular = {} THEN schedule[s]
        ELSE [schedule[s] EXCEPT !.next = toMs(decide(schedule[s], t, MisfireThreshold).next),
                                 !.last = schedule[s].next]
Advanced(s, reached, W, active, t) ==
    LET mine == {i \in reached : i.sched = s /\ ~PassedOver(i, W, active, t)}
        regular == {i \in mine : i.request = None}
        asked == {i \in mine : i.request # None}
        d == decide(schedule[s], t, MisfireThreshold)
        base == IF regular # {} /\ d.fire THEN schedule[s].next ELSE schedule[s].last
        later == {i.at : i \in {i \in asked : \A g \in regular : d.fire => Before(g, i)}}
        forward == {a \in later : base = None \/ a > base}
    IN  [schedule[s] EXCEPT !.next = IF regular # {} THEN toMs(d.next) ELSE @,
                            !.last = IF forward = {} THEN base ELSE Max(forward)]

\* tick: never more than the free slots.
claimLimit_BatchOnly(n) == BatchSize
claimLimit(n) == Min({BatchSize, MaxConcurrent - Cardinality(Holds(n))})

\* What one claim transaction decides: the stale runs it takes over and their
\* recovery requests, the journal rows, the requests consumed, the schedules.
claimBatch(n, free, limit, t) ==
    LET due == lockDueSchedules(n, free, limit, t)
        S == lockRequestedSchedules(n, free, limit) \cup due
        orphans == Stale(S, t)
        active == Active(S, t)
        queued == {RecoveryRequest(r) : r \in recoverable(orphans)}
        W == fireWork(due, lockFireRequests(request \cup queued, S, orphans, limit))
        reached == Reached(W, active, t, limit)
    IN  [locked    |-> S,
         abandoned |-> orphans,
         queued    |-> queued,
         rows      |-> journalRows(reached, W, active, t),
         consumed  |-> {i.request : i \in {i \in reached : /\ i.request # None
                                                           /\ ~PassedOver(i, W, active, t)}},
         schedule  |-> [s \in Sched |-> IF s \in S THEN Advanced(s, reached, W, active, t)
                                                   ELSE schedule[s]]]

\* reported says whether the node learns that the transaction committed: when
\* it does not, the rows stay running and nobody executes them.
Claim(n, free, reported) ==
    /\ node[n] = "up"
    /\ claimLimit(n) > 0
    /\ \E b \in {claimBatch(n, free, claimLimit(n), clock(n))} :
          /\ b.locked # {}
          /\ SourceFree(recoverable(b.abandoned))
          /\ Cardinality(Fresh(MaxRun)) >= Cardinality(b.rows)
          /\ \E id \in [b.rows -> Fresh(Cardinality(b.rows))] :
                /\ \A x, y \in b.rows : RowBefore(x, y) => id[x] < id[y]
                /\ run' = [r \in RunId |->
                              IF \E x \in b.rows : id[x] = r
                              THEN (CHOOSE x \in b.rows : id[x] = r)[3]
                              ELSE markAbandoned(b.abandoned, clock(n))[r]]
                /\ fire' = [r \in RunId |->
                              IF reported /\ \E x \in b.rows : id[x] = r /\ x[3].status = "running"
                              THEN [Idle EXCEPT !.phase = "claimed", !.node = n,
                                      !.recover = schedule[run'[r].sched].recover]
                              ELSE fire[r]]
          /\ schedule' = b.schedule
          /\ request' = (request \cup b.queued) \ b.consumed
          /\ requeued' = Requeued(recoverable(b.abandoned))
          /\ events' = IF reported THEN Announce("abandoned", b.abandoned) ELSE events
    /\ UNCHANGED <<now, created, manual, node, doomed>>

(***************************************************************************)
(* Recovery: the sweep (recovery.go).                                      *)
(***************************************************************************)

FirstRuns(R, k) == {r \in R : Cardinality({q \in R : q < r}) < k}

sweepAbandoned(n, free, reported) ==
    LET t == clock(n)
        held == {s \in free : schedule[s] # None /\ Stale({s}, t) # {}}
        S == FirstBy(held, [s \in held |-> 0], SweepBatch)
        orphans == Stale(S, t)
        scheduleless == FirstRuns({r \in RunId : staleRunning(r, t) /\ schedule[run[r].sched] = None},
                                  Max({SweepBatch - Cardinality(orphans), 0}))
        gone == orphans \cup scheduleless
    IN  /\ node[n] = "up"
        /\ gone # {}
        /\ SourceFree(recoverable(orphans))
        /\ run' = markAbandoned(gone, t)
        /\ request' = request \cup {RecoveryRequest(r) : r \in recoverable(orphans)}
        /\ requeued' = Requeued(recoverable(orphans))
        /\ events' = IF reported THEN Announce("abandoned", gone) ELSE events
        /\ UNCHANGED <<now, schedule, created, manual, node, fire, doomed>>
(***************************************************************************)
(* Execution of a claimed fire (engine.go execute, complete) and its       *)
(* heartbeats (heartbeat.go).                                              *)
(***************************************************************************)

Track(r) ==
    /\ fire[r].phase = "claimed"
    /\ fire' = [fire EXCEPT ![r].phase = "tracked"]
    /\ UNCHANGED <<now, schedule, created, run, request, manual, node, doomed, requeued, events>>

\* The handler returns (or panics, or times out): the state of the run's
\* context outranks the handler's own answer.
Outcomes(n) ==
    IF node[n] \in {"canceling", "released"} THEN {"canceled", "failed"}
                                             ELSE {"succeeded", "failed"}
Return(r) ==
    /\ fire[r].phase = "tracked"
    /\ \E o \in Outcomes(fire[r].node) :
           fire' = [fire EXCEPT ![r].phase = "returned", ![r].outcome = o]
    /\ UNCHANGED <<now, schedule, created, run, request, manual, node, doomed, requeued, events>>

renewHeartbeats_AnyStatus(n) ==
    LET ids == {r \in Holds(n) : fire[r].phase # "claimed"}
    IN  /\ node[n] \in {"up", "draining", "canceling"}
        /\ ids # {}
        /\ run' = [r \in RunId |-> IF r \in ids THEN [run[r] EXCEPT !.heartbeat = unixMs(clock(n))]
                                                ELSE run[r]]
        /\ UNCHANGED <<now, schedule, created, request, manual, node, fire, doomed, requeued, events>>
renewHeartbeats(n) ==
    LET ids == {r \in Holds(n) : fire[r].phase # "claimed" /\ Running(r)}
    IN  /\ node[n] \in {"up", "draining", "canceling"}
        /\ ids # {}
        /\ run' = [r \in RunId |-> IF r \in ids THEN [run[r] EXCEPT !.heartbeat = unixMs(clock(n))]
                                                ELSE run[r]]
        /\ UNCHANGED <<now, schedule, created, request, manual, node, fire, doomed, requeued, events>>

\* A canceled run of a recoverable schedule is re-queued, if the schedule is
\* still there.
Requeues_DeletedToo(r) == fire[r].outcome = "canceled" /\ fire[r].recover
Requeues_Never(r) == FALSE
Requeues(r) ==
    fire[r].outcome = "canceled" /\ fire[r].recover /\ schedule[run[r].sched] # None

writeOutcome_NoGuard(r, reported) ==
    LET again == IF Requeues(r) THEN {r} ELSE {}
    IN  /\ fire[r].phase = "returned"
        /\ SourceFree(again)
        /\ run' = [run EXCEPT ![r].status = fire[r].outcome]
        /\ request' = request \cup {RecoveryRequest(q) : q \in again}
        /\ requeued' = Requeued(again)
        /\ fire' = IF reported THEN [fire EXCEPT ![r].phase = "journaled"] ELSE fire
        /\ UNCHANGED <<now, schedule, created, manual, node, doomed, events>>
\* The compare-and-set of writeOutcome.  When the commit is not reported the
\* loop comes round again and finds its own outcome in the journal.
writeOutcome(r, reported) ==
    LET again == IF Requeues(r) THEN {r} ELSE {}
    IN  /\ fire[r].phase = "returned"
        /\ Running(r)
        /\ SourceFree(again)
        /\ run' = [run EXCEPT ![r].status = fire[r].outcome,
                              ![r].finished = FinishedAt(clock(fire[r].node))]
        /\ request' = request \cup {RecoveryRequest(q) : q \in again}
        /\ requeued' = Requeued(again)
        /\ fire' = IF reported THEN [fire EXCEPT ![r].phase = "journaled"] ELSE fire
        /\ UNCHANGED <<now, schedule, created, manual, node, doomed, events>>

outcomeAlreadyLanded_Any(r) == TRUE
outcomeAlreadyLanded(r) == run[r].status = fire[r].outcome

\* The row is not running any more: this run's own outcome, or a takeover.
findOutcome(r) ==
    /\ fire[r].phase = "returned"
    /\ ~Running(r)
    /\ fire' = [fire EXCEPT ![r] = IF outcomeAlreadyLanded(r) THEN [@ EXCEPT !.phase = "journaled"]
                                                              ELSE Idle]
    /\ UNCHANGED <<now, schedule, created, run, request, manual, node, doomed, requeued, events>>

\* The completion window closes, or the write fails for another reason.
giveUp(r) ==
    /\ fire[r].phase = "returned"
    /\ fire' = [fire EXCEPT ![r] = Idle]
    /\ UNCHANGED <<now, schedule, created, run, request, manual, node, doomed, requeued, events>>

\* The run event, then Untrack and the slot.
finish(r) ==
    /\ fire[r].phase = "journaled"
    /\ events' = IF fire[r].outcome = "failed" THEN Announce("failed", {r}) ELSE events
    /\ fire' = [fire EXCEPT ![r] = Idle]
    /\ UNCHANGED <<now, schedule, created, run, request, manual, node, doomed, requeued>>

(***************************************************************************)
(* Shutdown (engine.go Stop), crash and restart.                           *)
(***************************************************************************)

Enter(n, state) ==
    /\ node' = [node EXCEPT ![n] = state]
    /\ UNCHANGED <<now, schedule, created, run, request, manual, requeued, events>>

\* stopLoop: the claim loop, the sweep and the pruner stop with it.
Stop(n) ==
    /\ node[n] = "up"
    /\ Enter(n, "draining")
    /\ doomed' = [doomed EXCEPT ![n] = {}]
    /\ UNCHANGED fire

\* The drain window elapsed with runs still executing.
stopRuns(n) ==
    /\ node[n] = "draining"
    /\ Holds(n) # {}
    /\ Enter(n, "canceling")
    /\ UNCHANGED <<fire, doomed>>

\* The stop budget elapsed: executors are left to themselves.
stopHeartbeats(n) ==
    /\ node[n] = "canceling"
    /\ Holds(n) # {}
    /\ Enter(n, "released")
    /\ UNCHANGED <<fire, doomed>>

\* Stop returned with every executor done.
Stopped(n) ==
    /\ node[n] \in {"draining", "canceling", "released"}
    /\ Holds(n) = {}
    /\ Enter(n, "down")
    /\ UNCHANGED <<fire, doomed>>

\* The process dies with whatever it held in memory.
Crash(n) ==
    /\ Alive(n)
    /\ Enter(n, "down")
    /\ fire' = [r \in RunId |-> IF fire[r].node = n THEN Idle ELSE fire[r]]
    /\ doomed' = [doomed EXCEPT ![n] = {}]

Start(n) ==
    /\ node[n] = "down"
    /\ Enter(n, "up")
    /\ UNCHANGED <<fire, doomed>>
(***************************************************************************)
(* The journal pruner (pruner.go): it selects ids, then deletes by id.     *)
(***************************************************************************)

pruneSelect(n) ==
    LET old == {r \in RunId : /\ run[r].status \in Terminal
                              /\ run[r].finished < unixMs(clock(n)) - Retention}
    IN  /\ Retention # None
        /\ node[n] = "up"
        /\ doomed[n] = {}
        /\ \E ids \in SUBSET old : ids # {} /\ doomed' = [doomed EXCEPT ![n] = ids]
        /\ UNCHANGED <<now, schedule, created, run, request, manual, node, fire, requeued, events>>

pruneDelete(n) ==
    /\ doomed[n] # {}
    /\ run' = [r \in RunId |-> IF r \in doomed[n] THEN [NoRun EXCEPT !.status = "pruned"]
                                                  ELSE run[r]]
    /\ doomed' = [doomed EXCEPT ![n] = {}]
    /\ UNCHANGED <<now, schedule, created, request, manual, node, fire, requeued, events>>

(***************************************************************************)
(* The schedule manager (manager.go), called on node n.                    *)
(***************************************************************************)

normalizeMisfirePolicy(policy) == IF policy = None THEN "fire_now" ELSE policy
normalizeConcurrencyPolicy_Raw(policy) == policy
normalizeConcurrencyPolicy(policy) == IF policy = None THEN "forbid" ELSE policy

\* What materialize refuses: a job the node does not know, a trigger that does
\* not compile, a window that ends before it starts.  (The name, the timeout and
\* the parameters it also checks are not part of a model's spec.)
validSpec(n, spec) ==
    /\ spec.job \in JobsOf[n]
    /\ compile(spec.trigger)
    /\ (spec.startsAt # None /\ spec.endsAt # None) => spec.startsAt < spec.endsAt

materialize(spec, anchorAt) ==
    [trigger |-> spec.trigger, startsAt |-> spec.startsAt, endsAt |-> spec.endsAt,
     anchorAt |-> anchorAt,
     misfire |-> normalizeMisfirePolicy(spec.misfire),
     policy |-> normalizeConcurrencyPolicy(spec.policy),
     recover |-> spec.recover, job |-> spec.job, enabled |-> spec.enabled,
     next |-> None, last |-> None]

Manage(n, s, row) ==
    /\ Alive(n)
    /\ schedule' = [schedule EXCEPT ![s] = row]
    /\ UNCHANGED <<now, run, node, fire, doomed, requeued, events>>

Create(n, s, spec) ==
    LET row == refreshNextFire(materialize(spec, unixMs(clock(n))), clock(n))
    IN  /\ s \notin created /\ \A u \in Sched : u < s => u \in created
        /\ validSpec(n, spec)
        /\ ~neverFires(row)
        /\ Manage(n, s, row)
        /\ created' = created \cup {s}
        /\ UNCHANGED <<request, manual>>

\* The spec replaces everything but the identity, the anchor and the fire
\* history; the cursor is recomputed only when the timing changed, or when a
\* schedule without one is enabled.
Update(n, s, spec) ==
    LET current == schedule[s]
        kept == [materialize(spec, current.anchorAt) EXCEPT !.next = current.next,
                                                            !.last = current.last]
        rearm == \/ ~sameScheduleTiming(current, kept)
                 \/ kept.enabled /\ ~current.enabled /\ current.next = None
        row == IF rearm THEN refreshNextFire(kept, clock(n)) ELSE kept
    IN  /\ current # None
        /\ validSpec(n, spec)
        /\ rearm => ~neverFires(row)
        /\ Manage(n, s, row)
        /\ UNCHANGED <<created, request, manual>>

Delete(n, s) ==
    /\ schedule[s] # None
    /\ Manage(n, s, None)
    /\ request' = {q \in request : q.sched # s}
    /\ UNCHANGED <<created, manual>>

Pause(n, s) ==
    /\ schedule[s] # None
    /\ Manage(n, s, [schedule[s] EXCEPT !.enabled = FALSE])
    /\ UNCHANGED <<created, request, manual>>

Resume(n, s) ==
    /\ schedule[s] # None
    /\ ~schedule[s].enabled
    /\ LET row == [schedule[s] EXCEPT !.enabled = TRUE]
       IN  Manage(n, s, IF row.next = None THEN refreshNextFire(row, clock(n)) ELSE row)
    /\ UNCHANGED <<created, request, manual>>

TriggerNow(n, s) ==
    /\ schedule[s] # None
    /\ schedule[s].enabled
    /\ manual < MaxManual
    /\ Manage(n, s, schedule[s])
    /\ request' = request \cup {ManualRequest(s, clock(n))}
    /\ manual' = manual + 1
    /\ UNCHANGED created

-----------------------------------------------------------------------------

Manager ==
    \E n \in Node, s \in Sched :
        \/ \E spec \in Specs : Create(n, s, spec) \/ Update(n, s, spec)
        \/ Delete(n, s)
        \/ Pause(n, s)
        \/ Resume(n, s)
        \/ TriggerNow(n, s)

Engine ==
    \E n \in Node :
        \/ \E free \in SUBSET Sched, reported \in BOOLEAN :
               Claim(n, free, reported) \/ sweepAbandoned(n, free, reported)
        \/ renewHeartbeats(n)
        \/ pruneSelect(n)
        \/ pruneDelete(n)

Executor ==
    \E r \in RunId :
        \/ Track(r)
        \/ Return(r)
        \/ \E reported \in BOOLEAN : writeOutcome(r, reported)
        \/ findOutcome(r)
        \/ giveUp(r)
        \/ finish(r)

Lifecycle ==
    \E n \in Node : Stop(n) \/ stopRuns(n) \/ stopHeartbeats(n) \/ Stopped(n) \/ Crash(n) \/ Start(n)

Next == Tick \/ Manager \/ Engine \/ Executor \/ Lifecycle

Spec == Init /\ [][Next]_vars

-----------------------------------------------------------------------------
\* The shape of the tables and of the engines' memory.
TypeOK ==
    /\ now \in Nat
    /\ schedule \in [Sched -> ScheduleRow \cup {None}]
    /\ created \in SUBSET Sched
    /\ run \in [RunId -> RunRow]
    /\ request \subseteq Request
    /\ manual \in 0..MaxManual
    /\ node \in [Node -> {"up", "draining", "canceling", "released", "down"}]
    /\ fire \in [RunId -> Fire]
    /\ doomed \in [Node -> SUBSET RunId]
    /\ requeued \in [RunId -> Nat]
    /\ events \in [RunId -> [failed : Nat, abandoned : Nat]]

\* ConcurrencyForbid (claimDueBatch): a row of a schedule that forbids overlap
\* becomes running only when no other row of that schedule is running then,
\* whichever nodes and requests the two rows come from.
StartsAlone(r) ==
    /\ run[r].status # "running"
    /\ run'[r].status = "running"
    /\ schedule[run'[r].sched].policy # "allow"
    => \A q \in RunId \ {r} : run'[q].status = "running" => run'[q].sched # run'[r].sched
ForbidNeverOverlaps == [][\A r \in RunId : StartsAlone(r)]_vars

\* A terminal row is never rewritten, by a late outcome, a late heartbeat or a
\* takeover; only the pruner removes it, and never a running row.
StaysFinal(r) ==
    /\ run[r].status \in Terminal => run'[r] = run[r] \/ run'[r].status = "pruned"
    /\ run[r].status \in {"running", "none"} => run'[r].status # "pruned"
TerminalIsFinal == [][\A r \in RunId : StaysFinal(r)]_vars

\* "two terminal events for one run": at most one run event is published for a
\* run (complete, reportAbandoned), and it names the status in the journal.
EventsMatchJournal ==
    \A r \in RunId :
        /\ events[r].failed + events[r].abandoned <= 1
        /\ events[r].failed > 0 => run[r].status \in {"failed", "pruned"}
        /\ events[r].abandoned > 0 => run[r].status \in {"abandoned", "pruned"}

\* The run id is the fence of recovery (enqueueRecoverable, writeOutcome): a
\* run is re-queued at most once, only after it ended as abandoned or canceled,
\* and no insert ever meets a pending request of the same run.
RequeuedOnce ==
    /\ \A r \in RunId :
          /\ requeued[r] <= 1
          /\ requeued[r] > 0 => run[r].status \in {"abandoned", "canceled", "pruned"}
    /\ \A q \in request : q.kind = "recovery" => requeued[q.source] = 1
    /\ \A p, q \in request : p.source = q.source /\ p.source # None => p = q

\* A request always has its schedule: Delete removes them together, and an
\* outcome written after the delete queues nothing (lockScheduleAlive).
NoOrphanRequest == \A q \in request : schedule[q.sched] # None

\* No interrupted run of a recoverable schedule is lost, whether its node
\* crashed, was taken over or shut down gracefully ("graceful shutdown must not
\* deliver weaker semantics than a crash"): it is re-queued, and the request is
\* pending or became a row that was not suppressed, unless the schedule is gone.
RecoveryKept ==
    \A r \in RunId :
        /\ run[r].status \in {"abandoned", "canceled"}
        /\ schedule[run[r].sched] # None
        /\ \A spec \in Specs : spec.recover
        => /\ requeued[r] = 1
           /\ \/ \E q \in request : q.source = r
              \/ \E p \in RunId : run[p].source = r /\ run[p].status # "skipped"
              \/ \E p \in RunId : run[p].status = "pruned"

\* A regular occurrence is journaled by one claim only: no two regular fires
\* of a schedule carry the same logical time.
OccurrenceOnce ==
    \A p, r \in RunId :
        (/\ p # r
         /\ run[p].kind = "regular" /\ run[r].kind = "regular"
         /\ run[p].sched = run[r].sched
         /\ run[p].status # "missed" /\ run[r].status # "missed")
        => run[p].at # run[r].at

\* The cursor of a schedule only ever points at an occurrence of its trigger
\* inside its window, whatever mixture of claims, late claims, edits, pauses and
\* restarts produced it (refreshNextFire, advance, sameScheduleTiming).
CursorIsOccurrence ==
    \A s \in Sched : schedule[s] # None /\ schedule[s].next # None
                        => Occurs(schedule[s], schedule[s].next)

\* Executor slots: a node never holds more fires than it has slots (tick's
\* limit is taken from the free ones).
SlotsBounded == \A n \in Node : Cardinality(Holds(n)) <= MaxConcurrent

\* last_fire_at is the logical time of a fire in the journal, executed or
\* suppressed, never of a missed occurrence (advance, recordRequestedFire).
LastFireJournaled ==
    \A s \in Sched :
        (schedule[s] # None /\ schedule[s].last # None) =>
            \E r \in RunId : \/ run[r].status = "pruned"
                             \/ /\ run[r].sched = s
                                /\ run[r].at = schedule[s].last
                                /\ run[r].status \notin {"none", "missed"}
(***************************************************************************)
(* Timeliness: the clock waits for heartbeats.  A node that has not given  *)
(* up its runs renews each within HeartbeatInterval of its own clock.      *)
(***************************************************************************)

Owned(r) == fire[r].phase # "idle" /\ node[fire[r].node] # "released"

TimelyTick ==
    /\ \A r \in RunId : Owned(r) /\ Running(r)
            => unixMs(clock(fire[r].node) + 1) - run[r].heartbeat <= HeartbeatInterval
    /\ Tick

\* A run whose node renews it in time is not taken over (takeOverRunning), even
\* by a node whose clock is ahead by AbandonedAfter - HeartbeatInterval.
OwnedRunsNotTaken ==
    [][\A r \in RunId : Running(r) /\ run'[r].status = "abandoned" => ~Owned(r)]_vars

\* ... so two handlers of a schedule that forbids overlap never execute at the
\* same time, on any nodes.
HandlersExclusive ==
    \A p, r \in RunId :
        (/\ p # r
         /\ fire[p].phase = "tracked" /\ Owned(p)
         /\ fire[r].phase = "tracked" /\ Owned(r)
         /\ schedule[run[p].sched] # None /\ schedule[run[p].sched].policy = "forbid")
        => run[p].sched # run[r].sched

(***************************************************************************)
(* Progress.  steady is a node that stays up; its loop keeps claiming and  *)
(* sweeping (nextDelay bounds every sleep) and its transactions do not     *)
(* fail for ever.  Handlers return and outcome writes end.                 *)
(***************************************************************************)

\* Claim(n, Sched, TRUE) can change the state: its enabling condition.
ClaimReady(n) ==
    /\ node[n] = "up"
    /\ claimLimit(n) > 0
    /\ \E b \in {claimBatch(n, Sched, claimLimit(n), clock(n))} :
          /\ b.rows # {} \/ b.abandoned # {}
          /\ SourceFree(recoverable(b.abandoned))
          /\ Cardinality(Fresh(MaxRun)) >= Cardinality(b.rows)

Progress(steady) ==
    /\ WF_vars(TimelyTick)
    /\ ([]<>~ClaimReady(steady)) \/ ([]<><<Claim(steady, Sched, TRUE)>>_vars)
    /\ WF_vars(sweepAbandoned(steady, Sched, TRUE))
    /\ \A n \in Node : WF_vars(renewHeartbeats(n))
    /\ \A r \in RunId : /\ WF_vars(Track(r))
                        /\ WF_vars(Return(r))
                        /\ WF_vars(writeOutcome(r, TRUE) \/ findOutcome(r) \/ giveUp(r))
                        /\ WF_vars(finish(r))

\* A running row nobody executes any more is taken over, once its heartbeat
\* can age past the window before the model's clock ends.
OrphanTakenOver ==
    \A r \in RunId :
        (Running(r) /\ fire[r].phase = "idle" /\ run[r].heartbeat + AbandonedAfter < MaxTime)
            ~> ~Running(r)

\* A recovery request is claimed in the end, whichever of the schedule's own
\* occurrences run, are suppressed or come due beside it (claimDueBatch), and
\* also when the interrupted run was a recovery itself.
RecoveryServed ==
    \A r \in RunId : (\E q \in request : q.source = r) ~> (\A q \in request : q.source # r)

(***************************************************************************)
(* What the journal, the requests and the executors' memory owe one        *)
(* another: the inductive strengthening of the safety properties above.    *)
(***************************************************************************)

\* A row, the executor that may hold it and its history.
RunLinked(r) ==
    /\ Running(r) => run[r].sched \in Sched /\ run[r].at \in Int /\ run[r].heartbeat \in Int
    /\ run[r].status \in {"none", "running"} =>
          requeued[r] = 0 /\ events[r].failed = 0 /\ events[r].abandoned = 0
    /\ run[r].status = "none" => fire[r].phase = "idle"
    /\ fire[r].phase # "idle" => fire[r].node \in Node /\ events[r].failed = 0
    /\ fire[r].phase \in {"returned", "journaled"} => fire[r].outcome # None
    /\ fire[r].phase = "journaled" =>
          run[r].status \in {fire[r].outcome, "pruned"} /\ events[r].abandoned = 0

\* The id of a pending request tells its kind and, of a recovery, its source.
RequestsLinked ==
    \A q \in request :
        /\ q.kind = "manual" => q.source = None /\ q.id \in 1..manual
        /\ q.kind = "recovery" => q.source \in RunId /\ q.id = MaxManual + q.source

\* The pruner only ever selected terminal rows.
DoomedTerminal == \A n \in Node : \A r \in doomed[n] : run[r].status \in Terminal \cup {"pruned"}

JournalInv ==
    /\ TypeOK
    /\ EventsMatchJournal
    /\ RequeuedOnce
    /\ NoOrphanRequest
    /\ \A r \in RunId : RunLinked(r)
    /\ RequestsLinked
    /\ DoomedTerminal
    /\ \A p, q \in request : p.id = q.id => p = q
(***************************************************************************)
(* Where rows and requests come from: what the remaining properties need   *)
(* besides JournalInv.                                                     *)
(***************************************************************************)

\* An unused id is blank, a row names a schedule that was created, and a
\* recovery request is one of its source's schedule.
OriginInv ==
    /\ \A r \in RunId : run[r].status = "none" => run[r] = NoRun
    /\ \A r \in RunId : run[r].status = "pruned" => run[r].kind = None
    /\ \A r \in RunId : run[r].status \notin {"none", "pruned"} => run[r].sched \in created
    /\ \A s \in Sched : schedule[s] # None => s \in created
    /\ \A q \in request : /\ q.kind = "recovery"
                          /\ run[q.source].status # "pruned"
                          => q.sched = run[q.source].sched

\* When every spec recovers, so do the schedules and the claimed fires.
AllRecover == \A spec \in Specs : spec.recover
RecoveryInv ==
    /\ RecoveryKept
    /\ AllRecover => \A s \in Sched : schedule[s] # None => schedule[s].recover
    /\ AllRecover => \A r \in RunId : fire[r].phase # "idle" => fire[r].recover

\* When the clocks agree, the occurrences that fired are over, and the cursor
\* is past them.
ClocksAgree == \A m, n \in Node : Skew[m] = Skew[n]
Spent(r) == run[r].kind = "regular" /\ run[r].status # "missed"
CursorInv ==
    /\ OccurrenceOnce
    /\ \A r \in RunId : Spent(r) =>
          /\ run[r].at \in Int
          /\ \A n \in Node : run[r].at <= unixMs(clock(n))
          /\ schedule[run[r].sched] # None /\ schedule[run[r].sched].next # None
                => run[r].at < schedule[run[r].sched].next

\* Timely heartbeats, on clocks that differ by less than the takeover window
\* leaves, keep owned runs out of reach of a takeover.
Timely == TimelyTick \/ Manager \/ Engine \/ Executor \/ Lifecycle
TimelySpec == Init /\ [][Timely]_vars
ClocksClose ==
    \A m, n \in Node : Skew[m] - Skew[n] <= (AbandonedAfter - HeartbeatInterval) * Milli
NothingOverlaps == \A spec \in Specs : spec.policy # "allow"
InTime(r) ==
    /\ Running(r) => unixMs(clock(fire[r].node)) - run[r].heartbeat <= HeartbeatInterval
    /\ fire[r].phase \in {"claimed", "tracked"} => Running(r)
OwnedInv == \A r \in RunId : Owned(r) => InTime(r)
AloneInv ==
    /\ \A s \in Sched : schedule[s] # None => schedule[s].policy = "forbid"
    /\ \A p, r \in RunId : Running(p) /\ Running(r) /\ run[p].sched = run[r].sched => p = r
=============================================================================
