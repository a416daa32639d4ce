----------------------------- MODULE MCLegPlan -----------------------------
(* Locktimes on both sides of every threshold: the four hours an audit asks *)
(* of the initiator's leg, the twenty-six a plan asks, and half hours, which *)
(* rounding turns either way.                                              *)
EXTENDS LegPlan

SomeLockHours == {0, 3}
SomeSpans == {2 * Hour, 4 * Hour + 1800, 26 * Hour - 1, 26 * Hour + 1799, 51 * Hour}
SomeJumps == {5 * Hour + 1, 23 * Hour}
SomeDrifts == {-60}
OneDay == 24 * Hour
=============================================================================
