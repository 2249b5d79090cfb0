----------------------------- MODULE CronTrigger -----------------------------
(***************************************************************************)
(* The arithmetic of a schedule (cron/trigger.go and                       *)
(* internal/cron/store/decision.go): when a trigger fires next, how many   *)
(* occurrences a gap holds, and what a claim does with an occurrence that  *)
(* is on time or late.                                                     *)
(*                                                                         *)
(* The process clock is finer than the persisted instants: an instant is   *)
(* an integer number of clock units, a persisted instant an integer number *)
(* of milliseconds, and Milli clock units make a millisecond.              *)
(***************************************************************************)
EXTENDS Integers, FiniteSets

CONSTANTS
    None,         \* the nil pointer: no instant, no cursor
    Milli,        \* clock units per millisecond
    MinInterval,  \* the smallest rate of an interval trigger, in ms
    MissedCap     \* missedCap: where misfire accounting stops counting

ASSUME TriggerAssumption ==
    /\ Milli \in Nat \ {0}
    /\ MinInterval \in Nat \ {0}
    /\ MissedCap \in Nat
    /\ None \notin Int

unixTime(ms) == ms * Milli

unixMs(t) == t \div Milli

\* An instant or nil, and the shape of a trigger.
Instant == Int \cup {None}
Trigger == [kind : {"cron", "interval", "once"}, expr : SUBSET Int, every : Nat, at : Instant]

\* The least element of a set of instants, None when it is empty.
Earliest(S) == IF S = {} THEN None ELSE CHOOSE x \in S : \A y \in S : x <= y

(***************************************************************************)
(* Triggers.  "expr" stands for a parsed cron expression in its timezone:  *)
(* the set of milliseconds at which it matches.  A descriptor "@every d"   *)
(* matches no fixed set: its next fire is d after the instant asked about. *)
(* It is left out.                                                         *)
(***************************************************************************)

hasFieldConflict(t) ==
    \/ t.kind = "cron" /\ (t.every # 0 \/ t.at # None)
    \/ t.kind = "interval" /\ (t.expr # {} \/ t.at # None)
    \/ t.kind = "once" /\ (t.expr # {} \/ t.every # 0)

compile(t) ==
    /\ ~hasFieldConflict(t)
    /\ \/ t.kind = "cron"
       \/ t.kind = "interval" /\ t.every >= MinInterval
       \/ t.kind = "once" /\ t.at # None

\* robfig/cron's Schedule.Next: the first match strictly after an instant.
ExprNext(expr, after) == Earliest({x \in {unixTime(ms) : ms \in expr} : x > after})

\* The fixed-rate step: strictly after "after", in phase with the anchor.
IntervalNext(every, after, anchor) ==
    IF after < anchor THEN anchor ELSE after + (every - ((after - anchor) % every))

TriggerNext(t, after, anchor) ==
    IF ~compile(t) THEN None
    ELSE CASE t.kind = "cron"     -> ExprNext(t.expr, after)
           [] t.kind = "interval" -> IntervalNext(unixTime(t.every), after, anchor)
           [] t.kind = "once"     -> IF unixTime(t.at) > after THEN unixTime(t.at) ELSE None

\* The k-th fire after "from", reached as the counting loop reaches it.
Walk(t, from, anchor, limit) ==
    LET w[k \in 0..limit] ==
            IF k = 0 THEN from
            ELSE LET cursor == w[k - 1]
                 IN  IF cursor = None THEN None ELSE TriggerNext(t, cursor, anchor)
    IN  w

Occurrences(t, from, to, anchor, limit) ==
    IF to <= from THEN 0
    ELSE LET w == Walk(t, from, anchor, limit)
             Within(x) == x # None /\ x <= to
         IN  Cardinality({k \in 1..limit : Within(w[k])})

(***************************************************************************)
(* Schedules: the window, the phase anchor and the fire decision.          *)
(***************************************************************************)

anchorOf(s) == unixTime(IF s.startsAt # None THEN s.startsAt ELSE s.anchorAt)

nextFire(s, after) ==
    LET floor == unixTime(s.startsAt) - 1
        from  == IF s.startsAt # None /\ after < floor THEN floor ELSE after
        next  == TriggerNext(s.trigger, from, anchorOf(s))
    IN  IF next # None /\ s.endsAt # None /\ next > unixTime(s.endsAt) THEN None ELSE next

toMs(t) == IF t = None THEN None ELSE unixMs(t)

onTime(s, now, threshold) == now - unixTime(s.next) <= threshold

\* Where misfire accounting ends: now, or the end of the window before it.
horizonOf_NoWindow(s, now) == now
horizonOf(s, now) ==
    IF s.endsAt # None /\ unixTime(s.endsAt) < now THEN unixTime(s.endsAt) ELSE now

\* The occurrences strictly after the due one that a late claim also consumes.
overdueOf(s, now) ==
    Occurrences(s.trigger, unixTime(s.next), horizonOf(s, now), anchorOf(s), MissedCap)

\* The earliest overdue occurrence; the due one if the trigger yields none.
firstOverdue(s) ==
    LET first == TriggerNext(s.trigger, unixTime(s.next), anchorOf(s))
    IN  IF first = None THEN unixTime(s.next) ELSE first

\* The instant the cursor advances from: a late claim skips the whole gap.
advanceFrom(s, now, threshold) == IF onTime(s, now, threshold) THEN unixTime(s.next) ELSE now

decide(s, now, threshold) ==
    LET late    == ~onTime(s, now, threshold)
        skip    == late /\ s.misfire = "skip"
        overdue == IF late THEN overdueOf(s, now) ELSE 0
    IN  [fire       |-> ~skip,
         missed     |-> IF skip THEN 1 + overdue ELSE overdue,
         missedFrom |-> IF skip \/ overdue = 0 THEN unixTime(s.next) ELSE firstOverdue(s),
         next       |-> nextFire(s, advanceFrom(s, now, threshold))]

(***************************************************************************)
(* What the manager does with a cursor (manager.go).                       *)
(***************************************************************************)

Schedule(timing, misfire, enabled, anchorAt) ==
    [trigger  |-> timing.trigger,
     startsAt |-> timing.startsAt,
     endsAt   |-> timing.endsAt,
     anchorAt |-> anchorAt,
     misfire  |-> misfire,
     enabled  |-> enabled,
     next     |-> None,
     last     |-> None]

\* Disabled schedules carry no cursor.
refreshNextFire_Inclusive(s, after) ==
    [s EXCEPT !.next = IF s.enabled THEN toMs(nextFire(s, after - 1)) ELSE None]
refreshNextFire(s, after) ==
    [s EXCEPT !.next = IF s.enabled THEN toMs(nextFire(s, after)) ELSE None]

\* ErrScheduleNeverFires: an enabled schedule whose trigger yields nothing.
neverFires(s) == s.enabled /\ s.next = None

sameScheduleTiming_KindOnly(s, u) == s.trigger.kind = u.trigger.kind
sameScheduleTiming(s, u) ==
    s.trigger = u.trigger /\ s.startsAt = u.startsAt /\ s.endsAt = u.endsAt

(***************************************************************************)
(* What a trigger and a window mean, without any stepping: the             *)
(* milliseconds at which the schedule is to run.                           *)
(***************************************************************************)

Matches(t, m, anchor) ==
    CASE t.kind = "cron"     -> m \in t.expr
      [] t.kind = "interval" -> m >= anchor /\ (m - anchor) % t.every = 0
      [] t.kind = "once"     -> m = t.at

Occurs(s, m) ==
    /\ Matches(s.trigger, m, IF s.startsAt # None THEN s.startsAt ELSE s.anchorAt)
    /\ s.startsAt # None => m >= s.startsAt
    /\ s.endsAt # None => m <= s.endsAt
=============================================================================
