----------------------------- MODULE MCCronCursor -----------------------------
(***************************************************************************)
(* Timing shapes for CronCursor: rates with and without a window, a window *)
(* that opens after creation, one-shots inside and outside the horizon,    *)
(* and an irregular cron expression.                                       *)
(***************************************************************************)
EXTENDS CronCursor

Interval(e) == [kind |-> "interval", every |-> e, at |-> None, expr |-> {}]
Once(m)     == [kind |-> "once", every |-> 0, at |-> m, expr |-> {}]
Cron(S)     == [kind |-> "cron", every |-> 0, at |-> None, expr |-> S]

Shape(t, from, to) == [trigger |-> t, startsAt |-> from, endsAt |-> to]

MCTimings ==
    {Shape(Interval(1), None, None),
     Shape(Interval(2), 3, 6),
     Shape(Interval(3), None, 5),
     Shape(Once(4), None, None),
     Shape(Once(2), 1, None),
     Shape(Cron({1, 2, 5, 6, 10}), 2, None)}
=============================================================================
