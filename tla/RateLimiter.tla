----------------------------- MODULE RateLimiter -----------------------------
(***************************************************************************)
(* The rate limiter in front of every route of the API gateway             *)
(* (services/api-gateway/internal/middleware/rate_limiter.go).             *)
(*                                                                         *)
(* A request takes the mutex twice: once to find the bucket of its address *)
(* or make one, once to draw a token from the bucket it found.  Between    *)
(* the two the cleanup goroutine may have deleted that bucket from the     *)
(* table, and another request may have made a new one.                     *)
(*                                                                         *)
(* A bucket is an object: it lives as long as the table or a request       *)
(* refers to it.  Tokens are counted in parts, of which a request needs    *)
(* Cost, so that fractions of a token accrue as they do in a float64.      *)
(***************************************************************************)
EXTENDS Integers, FiniteSets

CONSTANTS
  Ip,         \* client addresses
  Handler,    \* requests that may be in the middleware at the same time
  Bucket,     \* the objects allocated
  Burst,      \* rl.burst, in parts of a token
  Cost,       \* one token
  Rate,       \* rl.rps: parts gained in a unit of time
  IdleTime,   \* ten minutes
  MaxTime,    \* bound: the last instant
  NoBucket,   \* an address that is not in the table
  NoRequest,  \* a handler that is not between get and allow
  NoOutcome   \* nothing has been answered yet

TokenBucket == [tokens : 0..Burst, lastSeen : 0..MaxTime]  \* lastTime = lastSeen
Request == [ip : Ip, bucket : Bucket]
Outcome == [ip : Ip, allowed : BOOLEAN]

ASSUME RateLimiterAssumption ==
  /\ IsFiniteSet(Handler)
  /\ Burst \in Nat /\ Cost \in Nat /\ Rate \in Nat /\ IdleTime \in Nat /\ MaxTime \in Nat
  /\ Burst <= IdleTime * Rate       \* an idle bucket is full when it is deleted
  /\ NoBucket \notin Bucket /\ NoRequest \notin Request /\ NoOutcome \notin Outcome

VARIABLES
  clock,    \* now
  buckets,  \* [Ip -> Bucket \union {NoBucket}]: rl.buckets
  heap,     \* [Bucket -> TokenBucket]
  req,      \* [Handler -> Request \union {NoRequest}]: has got a bucket, not drawn yet
  outcome,  \* what was answered last
  mark,     \* history: the beginning of a span of time
  count     \* history: [Ip -> metered requests let through since then]

vars == <<clock, buckets, heap, req, outcome, mark, count>>

-----------------------------------------------------------------------------
Init ==
  /\ clock = 0
  /\ buckets = [ip \in Ip |-> NoBucket]
  /\ heap = [b \in Bucket |-> [tokens |-> Burst, lastSeen |-> 0]]
  /\ req = [h \in Handler |-> NoRequest]
  /\ outcome = NoOutcome
  /\ mark = 0
  /\ count = [ip \in Ip |-> 0]

Garbage(b) ==
  /\ \A ip \in Ip : buckets[ip] # b
  /\ \A h \in Handler : req[h] # NoRequest => req[h].bucket # b

\* get: under the mutex.  It does not touch lastSeen of a bucket it finds.
Get(h, ip) ==
  /\ req[h] = NoRequest
  /\ \E b \in Bucket :
       /\ IF buckets[ip] # NoBucket
            THEN b = buckets[ip] /\ UNCHANGED <<buckets, heap>>
            ELSE /\ Garbage(b)
                 /\ heap' = [heap EXCEPT ![b] = [tokens |-> Burst, lastSeen |-> clock]]
                 /\ buckets' = [buckets EXCEPT ![ip] = b]
       /\ req' = [req EXCEPT ![h] = [ip |-> ip, bucket |-> b]]
  /\ UNCHANGED <<clock, outcome, mark, count>>

\* Mutant of Refilled: the bucket has no max.
RefilledOver(b) == heap[b].tokens + (clock - heap[b].lastSeen) * Rate

\* The tokens that allow finds in a bucket.
Refilled(b) ==
  LET t == heap[b].tokens + (clock - heap[b].lastSeen) * Rate
  IN  IF t > Burst THEN Burst ELSE t

\* The bucket of h is the one in the table.
Metered(h) == buckets[req[h].ip] = req[h].bucket

\* allow: under the mutex; lastTime and lastSeen move on also when it refuses.
Allow(h) ==
  /\ req[h] # NoRequest
  /\ LET b == req[h].bucket
         ip == req[h].ip
         allowed == Refilled(b) >= Cost
     IN  /\ heap' = [heap EXCEPT ![b] =
              [tokens |-> IF allowed THEN Refilled(b) - Cost ELSE Refilled(b),
               lastSeen |-> clock]]
         /\ outcome' = [ip |-> ip, allowed |-> allowed]
         /\ count' = IF allowed /\ Metered(h) THEN [count EXCEPT ![ip] = @ + 1] ELSE count
  /\ req' = [req EXCEPT ![h] = NoRequest]
  /\ UNCHANGED <<clock, buckets, mark>>

\* Mutant of IsIdle: a bucket is deleted as soon as time has passed since it was used.
IsIdleSoon(ip) == buckets[ip] # NoBucket /\ clock > heap[buckets[ip]].lastSeen

IsIdle(ip) == buckets[ip] # NoBucket /\ clock - heap[buckets[ip]].lastSeen > IdleTime

\* cleanup: every five minutes, here whenever it likes.
Cleanup ==
  /\ \E ip \in Ip : IsIdle(ip)
  /\ buckets' = [ip \in Ip |-> IF IsIdle(ip) THEN NoBucket ELSE buckets[ip]]
  /\ UNCHANGED <<clock, heap, req, outcome, mark, count>>

Tick ==
  /\ clock < MaxTime
  /\ clock' = clock + 1
  /\ UNCHANGED <<buckets, heap, req, outcome, mark, count>>

\* A span of time to count in begins.
Mark ==
  /\ mark' = clock
  /\ count' = [ip \in Ip |-> 0]
  /\ UNCHANGED <<clock, buckets, heap, req, outcome>>

Next ==
  \/ \E h \in Handler : Allow(h) \/ \E ip \in Ip : Get(h, ip)
  \/ Cleanup
  \/ Tick
  \/ Mark

Spec == Init /\ [][Next]_vars

-----------------------------------------------------------------------------
TypeOK ==
  /\ clock \in 0..MaxTime
  /\ buckets \in [Ip -> Bucket \union {NoBucket}]
  /\ heap \in [Bucket -> TokenBucket]
  /\ req \in [Handler -> Request \union {NoRequest}]
  /\ outcome \in Outcome \union {NoOutcome}
  /\ mark \in 0..clock
  /\ count \in [Ip -> Nat]

\* rate_limiter.go:18-34.  In any span of time an address gets no more requests through
\* its bucket than a full bucket and the refill of that time pay for, although the bucket
\* is thrown away and made anew in between.
RateBound ==
  \A ip \in Ip : count[ip] * Cost <= Burst + (clock - mark) * Rate

\* What the address could draw now.
Level(ip) == IF buckets[ip] = NoBucket THEN Burst ELSE Refilled(buckets[ip])

\* The requests of ip that hold a bucket which is no longer in the table.
Astray(ip) == {h \in Handler : req[h] # NoRequest /\ req[h].ip = ip /\ ~Metered(h)}

\* rate_limiter.go:53-83 and :92-96.  Seen from outside, the table with its cleanup is a
\* meter for each address that never forgets; a request escapes it only if its bucket was
\* deleted between get and allow, and then the meter was full.
Meter == INSTANCE TokenMeter
           WITH level    <- [ip \in Ip |-> Level(ip)],
                astray   <- [ip \in Ip |-> Cardinality(Astray(ip))],
                outcome  <- outcome,
                InFlight <- Cardinality(Handler)
ImplementsMeter == Meter!Spec

-----------------------------------------------------------------------------
(* Why they hold: the invariant that RateLimiterProofs shows to be inductive. *)

\* A bucket is of one address.
BucketsAreOwned ==
  /\ \A i, j \in Ip : buckets[i] # NoBucket /\ buckets[i] = buckets[j] => i = j
  /\ \A h \in Handler, i \in Ip :
       req[h] # NoRequest /\ buckets[i] = req[h].bucket => i = req[h].ip

SeenBefore == \A b \in Bucket : heap[b].lastSeen <= clock

\* What was drawn and what is left were full at the beginning, or came with time.
LevelBound ==
  \A ip \in Ip : Level(ip) + count[ip] * Cost <= Burst + (clock - mark) * Rate

MeterInv == BucketsAreOwned /\ SeenBefore /\ LevelBound

=============================================================================
