------------------------- MODULE MC_AnalyticsConsumer -------------------------
(* Three events of one key, two of them in the same second. *)
EXTENDS AnalyticsConsumer

Told(k, v, at) == [key |-> k, value |-> v, stamp |-> at]

MCMessage ==
  {Told("k1", "pending", 1), Told("k1", "completed", 2), Told("k1", "cancelled", 3),
   Garbage}
=============================================================================
