---------------------------- MODULE MC_RateLimiter ----------------------------
(* Two addresses, two requests at a time.  A full bucket is a request and a    *)
(* half, half a token comes with each unit of time, and three idle ones fill   *)
(* it.  Two buckets are in the table and one is held by a request astray.      *)
EXTENDS RateLimiter, TLC

CONSTANTS i1, i2, h1, h2, b1, b2, b3

MCSymmetry == Permutations(Ip) \union Permutations(Handler) \union Permutations(Bucket)
=============================================================================
