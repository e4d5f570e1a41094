--------------------------- MODULE MC_ScheduleHours ---------------------------
(* One day, which two requests may set, delete and set again, twice over.       *)
EXTENDS ScheduleHours, TLC

CONSTANTS i1, i2, h1, h2, r1, r2

MCSymmetry == Permutations({i1, i2}) \union Permutations({h1, h2}) \union Permutations({r1, r2})
=============================================================================
