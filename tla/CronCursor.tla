------------------------------ MODULE CronCursor ------------------------------
(***************************************************************************)
(* The life of one schedule's fire cursor (next_fire_at_unix_ms): created  *)
(* by the manager, moved by the claims of the engine, kept by Pause and    *)
(* Resume, recomputed by an Update that changes the timing.  Requests,     *)
(* runs and nodes are the matter of CronStore; here a claim is the effect  *)
(* of decide and advance on the schedule row, and the journal is reduced   *)
(* to the occurrences it fired and the ones it recorded as missed.         *)
(***************************************************************************)
EXTENDS CronTrigger

CONSTANTS
    Timings,           \* the timing shapes a spec may have: trigger, startsAt, endsAt
    Misfires,          \* misfire policies, a subset of {"fire_now", "skip"}
    MisfireThreshold,  \* clock units
    MaxClock           \* bound on the clock

VARIABLES
    now,       \* the clock
    row,       \* the schedule row
    armedAt,   \* history: the instant from which the cursor was last computed
    fired,     \* history: milliseconds fired since then
    missed,    \* history: milliseconds journaled as missed since then
    counted,   \* history: the sum of the journaled missed counts since then
    uncounted, \* history: milliseconds a claim passed after its count was capped
    lastClaim  \* history: the occurrence the last claim took

vars == <<now, row, armedAt, fired, missed, counted, uncounted, lastClaim>>

Horizon == (MaxClock \div Milli) + 4

\* The milliseconds up to the model's horizon at which the schedule is to run.
Due(s) == {m \in 0..Horizon : Occurs(s, m)}

\* What the cursor has to account for: occurrences after it was computed.
Owed == {m \in Due(row) : unixTime(m) > armedAt}

\* The occurrences a missed row stands for: count of them, from the first.
Covered(from, count) ==
    {m \in Owed : m >= from /\ Cardinality({k \in Owed : from <= k /\ k < m}) < count}

\* What a gap still holds after the ones its missed row stands for.
Beyond(covered) == {m \in Owed : unixTime(m) <= now /\ \A c \in covered \cup {row.next} : c < m}

-----------------------------------------------------------------------------

Init ==
    /\ now \in 0..(2 * Milli)
    /\ \E timing \in Timings, misfire \in Misfires, enabled \in BOOLEAN :
           LET s == refreshNextFire(Schedule(timing, misfire, enabled, unixMs(now)), now)
           IN  ~neverFires(s) /\ row = s
    /\ armedAt = now
    /\ fired = {}
    /\ missed = {}
    /\ counted = 0
    /\ uncounted = {}
    /\ lastClaim = None

Advance ==
    /\ now < MaxClock
    /\ now' = now + 1
    /\ UNCHANGED <<row, armedAt, fired, missed, counted, uncounted, lastClaim>>

Claim ==
    /\ row.enabled
    /\ row.next # None
    /\ row.next <= unixMs(now)
    /\ LET d       == decide(row, now, MisfireThreshold)
           covered == IF d.missed > 0 THEN Covered(unixMs(d.missedFrom), d.missed) ELSE {}
           overdue == IF d.fire THEN d.missed ELSE d.missed - 1
       IN  /\ row' = [row EXCEPT !.next = toMs(d.next),
                                 !.last = IF d.fire THEN row.next ELSE row.last]
           /\ fired' = IF d.fire THEN fired \cup {row.next} ELSE fired
           /\ missed' = missed \cup covered
           /\ counted' = counted + d.missed
           /\ uncounted' = IF overdue < MissedCap THEN uncounted
                           ELSE uncounted \cup Beyond(covered)
           /\ lastClaim' = row.next
    /\ UNCHANGED <<now, armedAt>>

Pause ==
    /\ row' = [row EXCEPT !.enabled = FALSE]
    /\ UNCHANGED <<now, armedAt, fired, missed, counted, uncounted, lastClaim>>

\* The cursor is computed from the present: what came before it is settled.
Rearm == armedAt' = now /\ fired' = {} /\ missed' = {} /\ counted' = 0 /\ uncounted' = {}

Keep == UNCHANGED <<armedAt, fired, missed, counted, uncounted>>

Resume ==
    /\ ~row.enabled
    /\ LET s == [row EXCEPT !.enabled = TRUE]
       IN  IF row.next = None
           THEN row' = refreshNextFire(s, now) /\ Rearm
           ELSE row' = s /\ Keep
    /\ UNCHANGED <<now, lastClaim>>

Update(timing, misfire, enabled) ==
    LET s       == [Schedule(timing, misfire, enabled, row.anchorAt)
                       EXCEPT !.next = row.next, !.last = row.last]
        refresh == \/ ~sameScheduleTiming(row, timing)
                   \/ enabled /\ ~row.enabled /\ row.next = None
    IN  /\ IF refresh
           THEN /\ ~neverFires(refreshNextFire(s, now))
                /\ row' = refreshNextFire(s, now)
                /\ Rearm
           ELSE row' = s /\ Keep
        /\ UNCHANGED <<now, lastClaim>>

Next ==
    \/ Advance
    \/ Claim
    \/ Pause
    \/ Resume
    \/ \E timing \in Timings, misfire \in Misfires, enabled \in BOOLEAN :
           Update(timing, misfire, enabled)

Spec == Init /\ [][Next]_vars

-----------------------------------------------------------------------------

\* Every occurrence the trigger owes since the cursor was last computed is
\* accounted exactly once: the cursor is one of them, behind it they were fired
\* or journaled as missed and never both, ahead of it neither, and the counts of
\* the missed rows add up.  Only the newest of a gap longer than missedCap pass
\* uncounted.  This is what decide's counting loop, the first missed instant and
\* the new cursor have to agree on, through pauses, late claims and the end of
\* the window.
EachOccurrenceOnce ==
    LET settled == fired \cup missed \cup uncounted
    IN  /\ fired \cap missed = {} /\ (fired \cup missed) \cap uncounted = {}
        /\ row.next # None => row.next \in Owed /\ settled = {m \in Owed : m < row.next}
        /\ row.next = None /\ (row.enabled \/ settled # {}) => settled = Owed
        /\ counted = Cardinality(missed)

\* Claims go forward in logical time: no claim takes an occurrence at or before
\* one that an earlier claim took, also after the cursor was recomputed.
ClaimsGoForward ==
    [][Claim /\ lastClaim # None => row.next > lastClaim]_vars
=============================================================================
