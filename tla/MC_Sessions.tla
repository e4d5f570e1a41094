----------------------------- MODULE MC_Sessions -----------------------------
(* Two requests at a time, over three seconds.  The key expires before the      *)
(* token in it, which REDIS_TTL_MINUTE can be set to; by default (30 days       *)
(* against 7) it is the other way round and the key is there all the time.      *)
EXTENDS Sessions, TLC

CONSTANTS p1, p2

MCSymmetry == Permutations({p1, p2})
=============================================================================
