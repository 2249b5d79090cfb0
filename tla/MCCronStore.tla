----------------------------- MODULE MCCronStore -----------------------------
(***************************************************************************)
(* Instances of CronStore.  The whole next-state relation over two nodes   *)
(* is too large for one run, so each run takes the part of it that its     *)
(* question is about.                                                      *)
(***************************************************************************)
EXTENDS CronStore, TLC

CONSTANTS n1, n2

Every(k, policy, recover) ==
    [trigger |-> [kind |-> "interval", expr |-> {}, every |-> k, at |-> None],
     startsAt |-> None, endsAt |-> None, misfire |-> "fire_now",
     policy |-> policy, recover |-> recover, job |-> "j", enabled |-> TRUE]

MCNode == {n1, n2}
MCJobs == [n \in MCNode |-> {"j"}]
MCSkew == [n \in MCNode |-> 0]
Symmetry == Permutations(MCNode)

OneNode == {n1}
OneJobs == [n \in OneNode |-> {"j"}]
OneSkew == [n \in OneNode |-> 0]

(***************************************************************************)
(* Failures: one schedule that forbids overlap and recovers its runs;      *)
(* nodes claim, sweep, stop, crash and restart.                            *)
(***************************************************************************)
ForbidRecover == {Every(1, "forbid", TRUE)}

FailureNext ==
    \/ Tick
    \/ now = 0 /\ \E n \in Node, s \in Sched, spec \in Specs : Create(n, s, spec)
    \/ now > 0 /\ \E n \in Node, s \in Sched : TriggerNow(n, s)
    \/ Engine
    \/ Executor
    \/ Lifecycle
FailureSpec == Init /\ [][FailureNext]_vars
(***************************************************************************)
(* Manager: a schedule under one policy, then under another with a window, *)
(* edited, paused, resumed, triggered and deleted while one node claims,   *)
(* misses, stops and restarts.                                             *)
(***************************************************************************)
Managed == {[Every(1, None, TRUE) EXCEPT !.misfire = "skip"],
            [Every(2, "allow", FALSE) EXCEPT !.startsAt = 1, !.endsAt = 2]}

(***************************************************************************)
(* Progress: a schedule with two occurrences, so that rows are left for    *)
(* every recovery.  n1 stays up; n2, whose clock is ahead by an interval,  *)
(* may stop or crash for good.  Heartbeats are on time.                    *)
(***************************************************************************)
TwiceRecover == {[Every(1, "forbid", TRUE) EXCEPT !.endsAt = 2]}
AheadSkew == [n \in MCNode |-> IF n = n2 THEN 1 ELSE 0]

TimelyNext ==
    \/ TimelyTick
    \/ now = 0 /\ \E s \in Sched, spec \in Specs : Create(n1, s, spec)
    \/ \E n \in Node, reported \in BOOLEAN : Claim(n, Sched, reported)
    \/ \E n \in Node : sweepAbandoned(n, Sched, TRUE) \/ renewHeartbeats(n)
    \/ \E r \in RunId : Track(r) \/ Return(r) \/ writeOutcome(r, TRUE)
                                 \/ findOutcome(r) \/ giveUp(r) \/ finish(r)
    \/ Stop(n2) \/ stopRuns(n2) \/ stopHeartbeats(n2) \/ Stopped(n2) \/ Crash(n2)
LiveSpec == Init /\ [][TimelyNext]_vars /\ Progress(n1)
=============================================================================
