-------------------------- MODULE RateLimiterProofs --------------------------
(***************************************************************************)
(* Proofs about RateLimiter for any addresses, requests, buckets and       *)
(* rates: the bound on what an address gets through, and the refinement of *)
(* the meter that never forgets.                                           *)
(***************************************************************************)
EXTENDS RateLimiter, FiniteSetTheorems, TLAPS

-----------------------------------------------------------------------------
(* Arithmetic. *)

\* One more unit of time is worth Rate.
LEMMA OneMore ==
  ASSUME NEW n \in Nat, NEW r \in Nat
  PROVE  (n + 1) * r = n * r + r
  BY SMT

LEMMA TimesNat ==
  ASSUME NEW n \in Nat, NEW r \in Nat
  PROVE  n * r \in Nat
  BY SMT

\* A time longer than IdleTime fills a bucket.
LEMMA IdleFills ==
  ASSUME NEW n \in Nat, n > IdleTime
  PROVE  Burst <= n * Rate
<1>1. PICK k \in Nat : n = IdleTime + k
  BY RateLimiterAssumption, n - IdleTime \in Nat, n = IdleTime + (n - IdleTime)
<1>2. n * Rate = IdleTime * Rate + k * Rate
  BY <1>1, RateLimiterAssumption, SMT
<1>3. k * Rate \in Nat /\ IdleTime * Rate \in Nat
  BY TimesNat, RateLimiterAssumption
<1> QED
  BY <1>2, <1>3, RateLimiterAssumption

-----------------------------------------------------------------------------
(* Types. *)

LEMMA InitType == Init => TypeOK
  BY RateLimiterAssumption DEF Init, TypeOK, TokenBucket

\* What allow finds is between nothing and a full bucket.
LEMMA RefilledType ==
  ASSUME TypeOK, SeenBefore, NEW b \in Bucket
  PROVE  Refilled(b) \in 0..Burst
<1>1. heap[b].tokens \in 0..Burst /\ clock - heap[b].lastSeen \in Nat
  BY DEF TypeOK, TokenBucket, SeenBefore
<1>2. (clock - heap[b].lastSeen) * Rate \in Nat
  BY <1>1, TimesNat, RateLimiterAssumption
<1> QED
  BY <1>1, <1>2, RateLimiterAssumption DEF Refilled

LEMMA LevelType ==
  ASSUME TypeOK, SeenBefore, NEW ip \in Ip
  PROVE  Level(ip) \in 0..Burst
  BY RefilledType, RateLimiterAssumption DEF Level, TypeOK

LEMMA ReqType ==
  ASSUME TypeOK, NEW h \in Handler, req[h] # NoRequest
  PROVE  req[h].ip \in Ip /\ req[h].bucket \in Bucket
  BY DEF TypeOK, Request

-----------------------------------------------------------------------------
(* One step keeps the types and BucketsAreOwned, SeenBefore. *)

LEMMA NextType == TypeOK /\ SeenBefore /\ [Next]_vars => TypeOK'
<1> SUFFICES ASSUME TypeOK, SeenBefore, [Next]_vars PROVE TypeOK'
  OBVIOUS
<1> USE RateLimiterAssumption
<1>1. ASSUME NEW h \in Handler, NEW ip \in Ip, Get(h, ip) PROVE TypeOK'
  <2>1. PICK b \in Bucket :
          /\ IF buckets[ip] # NoBucket
               THEN b = buckets[ip] /\ UNCHANGED <<buckets, heap>>
               ELSE /\ Garbage(b)
                    /\ heap' = [heap EXCEPT ![b] = [tokens |-> Burst, lastSeen |-> clock]]
                    /\ buckets' = [buckets EXCEPT ![ip] = b]
          /\ req' = [req EXCEPT ![h] = [ip |-> ip, bucket |-> b]]
    BY <1>1 DEF Get
  <2>2. [tokens |-> Burst, lastSeen |-> clock] \in TokenBucket
    BY DEF TypeOK, TokenBucket
  <2>3. [ip |-> ip, bucket |-> b] \in Request
    BY DEF Request
  <2>4. heap' \in [Bucket -> TokenBucket] /\ buckets' \in [Ip -> Bucket \union {NoBucket}]
    BY <2>1, <2>2 DEF TypeOK
  <2>5. req' \in [Handler -> Request \union {NoRequest}]
    BY <2>1, <2>3 DEF TypeOK
  <2> QED
    BY <1>1, <2>4, <2>5 DEF Get, TypeOK
<1>2. ASSUME NEW h \in Handler, Allow(h) PROVE TypeOK'
  <2> DEFINE b == req[h].bucket
             ip == req[h].ip
             allowed == Refilled(b) >= Cost
             t == IF allowed THEN Refilled(b) - Cost ELSE Refilled(b)
  <2>1. ip \in Ip /\ b \in Bucket
    BY <1>2, ReqType DEF Allow
  <2>2. Refilled(b) \in 0..Burst
    BY <2>1, RefilledType
  <2>3. t \in 0..Burst
    BY <2>2
  <2>4. heap' = [heap EXCEPT ![b] = [tokens |-> t, lastSeen |-> clock]]
    BY <1>2 DEF Allow
  <2>5. [tokens |-> t, lastSeen |-> clock] \in TokenBucket
    BY <2>3 DEF TypeOK, TokenBucket
  <2>6. heap' \in [Bucket -> TokenBucket]
    BY <2>1, <2>4, <2>5 DEF TypeOK
  <2>7. allowed \in BOOLEAN
    OBVIOUS
  <2>8. outcome' \in Outcome \union {NoOutcome}
    BY <1>2, <2>1, <2>7 DEF Allow, Outcome
  <2>9. count' \in [Ip -> Nat]
    BY <1>2, <2>1 DEF Allow, TypeOK
  <2>10. req' \in [Handler -> Request \union {NoRequest}]
    BY <1>2 DEF Allow, TypeOK
  <2> QED
    BY <1>2, <2>6, <2>8, <2>9, <2>10 DEF Allow, TypeOK
<1>3. CASE Cleanup
  BY <1>3 DEF Cleanup, TypeOK
<1>4. CASE Tick
  BY <1>4 DEF Tick, TypeOK
<1>5. CASE Mark
  BY <1>5 DEF Mark, TypeOK
<1>6. CASE UNCHANGED vars
  BY <1>6 DEF vars, TypeOK
<1> QED
  BY <1>1, <1>2, <1>3, <1>4, <1>5, <1>6 DEF Next

LEMMA NextOwned == TypeOK /\ BucketsAreOwned /\ [Next]_vars => BucketsAreOwned'
<1> SUFFICES ASSUME TypeOK, BucketsAreOwned, [Next]_vars PROVE BucketsAreOwned'
  OBVIOUS
<1> USE RateLimiterAssumption
<1>1. ASSUME NEW h \in Handler, NEW ip \in Ip, Get(h, ip) PROVE BucketsAreOwned'
  <2>1. PICK b \in Bucket :
          /\ IF buckets[ip] # NoBucket
               THEN b = buckets[ip] /\ UNCHANGED <<buckets, heap>>
               ELSE /\ Garbage(b)
                    /\ heap' = [heap EXCEPT ![b] = [tokens |-> Burst, lastSeen |-> clock]]
                    /\ buckets' = [buckets EXCEPT ![ip] = b]
          /\ req' = [req EXCEPT ![h] = [ip |-> ip, bucket |-> b]]
    BY <1>1 DEF Get
  <2>2. \A g \in Handler : req'[g] = IF g = h THEN [ip |-> ip, bucket |-> b] ELSE req[g]
    BY <2>1 DEF TypeOK
  <2>3. CASE buckets[ip] # NoBucket
    BY <2>1, <2>2, <2>3 DEF BucketsAreOwned, TypeOK
  <2>4. CASE buckets[ip] = NoBucket
    <3>1. \A i \in Ip : buckets'[i] = IF i = ip THEN b ELSE buckets[i]
      BY <2>1, <2>4 DEF TypeOK
    <3>2. Garbage(b)
      BY <2>1, <2>4
    <3> QED
      BY <2>2, <3>1, <3>2 DEF BucketsAreOwned, Garbage, TypeOK
  <2> QED
    BY <2>3, <2>4
<1>2. ASSUME NEW h \in Handler, Allow(h) PROVE BucketsAreOwned'
  BY <1>2 DEF Allow, BucketsAreOwned, TypeOK
<1>3. CASE Cleanup
  BY <1>3 DEF Cleanup, BucketsAreOwned, TypeOK, Request
<1>4. CASE Tick \/ Mark \/ UNCHANGED vars
  BY <1>4 DEF Tick, Mark, vars, BucketsAreOwned
<1> QED
  BY <1>1, <1>2, <1>3, <1>4 DEF Next

LEMMA NextSeen == TypeOK /\ SeenBefore /\ [Next]_vars => SeenBefore'
<1> SUFFICES ASSUME TypeOK, SeenBefore, [Next]_vars PROVE SeenBefore'
  OBVIOUS
<1>0. /\ clock \in Nat
      /\ \A b \in Bucket : heap[b].lastSeen \in Nat /\ heap[b].lastSeen <= clock
  BY RateLimiterAssumption DEF TypeOK, SeenBefore, TokenBucket
<1>1. ASSUME NEW h \in Handler, NEW ip \in Ip, Get(h, ip) PROVE SeenBefore'
  <2>1. \A b \in Bucket : heap'[b].lastSeen \in {heap[b].lastSeen, clock}
    BY <1>1 DEF Get, TypeOK
  <2> QED
    BY <1>0, <1>1, <2>1 DEF Get, SeenBefore
<1>2. ASSUME NEW h \in Handler, Allow(h) PROVE SeenBefore'
  <2>1. \A b \in Bucket : heap'[b].lastSeen \in {heap[b].lastSeen, clock}
    BY <1>2 DEF Allow, TypeOK
  <2> QED
    BY <1>0, <1>2, <2>1 DEF Allow, SeenBefore
<1>3. CASE Tick
  BY <1>0, <1>3 DEF Tick, SeenBefore
<1>4. CASE Cleanup \/ Mark \/ UNCHANGED vars
  BY <1>4 DEF Cleanup, Mark, vars, SeenBefore
<1> QED
  BY <1>1, <1>2, <1>3, <1>4 DEF Next

-----------------------------------------------------------------------------
(* What each step does to the level of an address. *)

\* A bucket that is left alone gives what it gave, as long as no time passes.
LEMMA RefilledSame ==
  ASSUME NEW b \in Bucket, heap'[b] = heap[b], clock' = clock
  PROVE  Refilled(b)' = Refilled(b)
  BY DEF Refilled

\* A bucket looked at in the moment it was written gives what was written.
LEMMA RefilledNow ==
  ASSUME NEW b \in Bucket, NEW t \in 0..Burst, clock \in Nat, clock' = clock,
         heap'[b] = [tokens |-> t, lastSeen |-> clock]
  PROVE  Refilled(b)' = t
<1>1. (clock' - heap'[b].lastSeen) * Rate = 0
  BY RateLimiterAssumption
<1> QED
  BY <1>1, RateLimiterAssumption DEF Refilled

LEMMA GetLevel ==
  ASSUME TypeOK, NEW h \in Handler, NEW ip \in Ip, Get(h, ip)
  PROVE  \A i \in Ip : Level(i)' = Level(i)
<1> SUFFICES ASSUME NEW i \in Ip PROVE Level(i)' = Level(i)
  OBVIOUS
<1> USE RateLimiterAssumption
<1>1. PICK b \in Bucket :
        /\ IF buckets[ip] # NoBucket
             THEN b = buckets[ip] /\ UNCHANGED <<buckets, heap>>
             ELSE /\ Garbage(b)
                  /\ heap' = [heap EXCEPT ![b] = [tokens |-> Burst, lastSeen |-> clock]]
                  /\ buckets' = [buckets EXCEPT ![ip] = b]
        /\ req' = [req EXCEPT ![h] = [ip |-> ip, bucket |-> b]]
  BY DEF Get
<1>2. clock' = clock /\ clock \in Nat
  BY DEF Get, TypeOK
<1>3. CASE buckets[ip] # NoBucket
  BY <1>1, <1>2, <1>3 DEF Level, Refilled
<1>4. CASE buckets[ip] = NoBucket
  <2>1. /\ Garbage(b)
        /\ heap'[b] = [tokens |-> Burst, lastSeen |-> clock]
        /\ \A c \in Bucket : c # b => heap'[c] = heap[c]
        /\ \A j \in Ip : buckets'[j] = IF j = ip THEN b ELSE buckets[j]
    BY <1>1, <1>4 DEF TypeOK
  <2>2. CASE i = ip
    BY <1>2, <1>4, <2>1, <2>2, RefilledNow DEF Level
  <2>3. CASE i # ip
    BY <1>2, <2>1, <2>3, RefilledSame DEF Level, Garbage, TypeOK
  <2> QED
    BY <2>2, <2>3
<1> QED
  BY <1>3, <1>4

\* Drawing a token changes the level of the address if its bucket is in the table,
\* and nothing else.
LEMMA AllowLevel ==
  ASSUME TypeOK, SeenBefore, BucketsAreOwned, NEW h \in Handler, Allow(h),
         NEW ip \in Ip, NEW b \in Bucket, req[h].ip = ip, req[h].bucket = b
  PROVE  /\ \A i \in Ip \ {ip} : Level(i)' = Level(i)
         /\ ~Metered(h) => Level(ip)' = Level(ip)
         /\ Metered(h) => /\ Level(ip) = Refilled(b)
                          /\ Level(ip)' = IF Level(ip) >= Cost THEN Level(ip) - Cost ELSE Level(ip)
<1> USE RateLimiterAssumption
<1>1. PICK t \in 0..Burst :
        /\ t = IF Refilled(b) >= Cost THEN Refilled(b) - Cost ELSE Refilled(b)
        /\ heap'[b] = [tokens |-> t, lastSeen |-> clock]
  <2>1. Refilled(b) \in 0..Burst
    BY RefilledType
  <2> QED
    BY <2>1 DEF Allow, TypeOK
<1>2. /\ \A c \in Bucket : c # b => heap'[c] = heap[c]
      /\ clock' = clock /\ clock \in Nat
      /\ buckets' = buckets
      /\ req[h] # NoRequest
  BY DEF Allow, TypeOK
<1>3. Refilled(b)' = t
  BY <1>1, <1>2, RefilledNow
<1>4. ASSUME NEW i \in Ip, buckets[i] # b PROVE Level(i)' = Level(i)
  <2>1. CASE buckets[i] = NoBucket
    BY <1>2, <2>1 DEF Level
  <2>2. CASE buckets[i] # NoBucket
    <3>1. buckets[i] \in Bucket /\ heap'[buckets[i]] = heap[buckets[i]]
      BY <1>2, <1>4, <2>2 DEF TypeOK
    <3> QED
      BY <1>2, <2>2, <3>1 DEF Level, Refilled
  <2> QED
    BY <2>1, <2>2
<1>5. \A i \in Ip : buckets[i] = b => i = ip
  BY <1>2 DEF BucketsAreOwned
<1>6. ASSUME Metered(h) PROVE Level(ip) = Refilled(b) /\ Level(ip)' = t
  <2>1. buckets[ip] = b /\ buckets'[ip] = b /\ b # NoBucket
    BY <1>2, <1>6 DEF Metered
  <2> QED
    BY <1>3, <2>1 DEF Level
<1> QED
  BY <1>1, <1>4, <1>5, <1>6 DEF Metered

LEMMA IdleIsFull ==
  ASSUME TypeOK, SeenBefore, NEW ip \in Ip, IsIdle(ip)
  PROVE  Level(ip) = Burst
<1> DEFINE b == buckets[ip]
<1>1. b \in Bucket /\ b # NoBucket
  BY DEF IsIdle, TypeOK
<1>2. clock - heap[b].lastSeen \in Nat /\ heap[b].tokens \in 0..Burst
  BY <1>1, RateLimiterAssumption DEF TypeOK, TokenBucket, SeenBefore
<1>3. Burst <= (clock - heap[b].lastSeen) * Rate
  BY <1>2, IdleFills DEF IsIdle
<1>4. (clock - heap[b].lastSeen) * Rate \in Nat
  BY <1>2, TimesNat, RateLimiterAssumption
<1>5. Refilled(b) = Burst
  BY <1>2, <1>3, <1>4, RateLimiterAssumption DEF Refilled
<1> QED
  BY <1>1, <1>5 DEF Level

LEMMA CleanupLevel ==
  ASSUME TypeOK, SeenBefore, Cleanup
  PROVE  \A i \in Ip : Level(i)' = Level(i)
<1> SUFFICES ASSUME NEW i \in Ip PROVE Level(i)' = Level(i)
  OBVIOUS
<1>1. buckets'[i] = IF IsIdle(i) THEN NoBucket ELSE buckets[i]
  BY DEF Cleanup
<1>2. heap' = heap /\ clock' = clock
  BY DEF Cleanup
<1>3. CASE IsIdle(i)
  BY <1>1, <1>3, IdleIsFull DEF Level
<1>4. CASE ~IsIdle(i)
  BY <1>1, <1>2, <1>4, RateLimiterAssumption DEF Level, Refilled
<1> QED
  BY <1>3, <1>4

\* A unit of time adds Rate, up to a full bucket.
LEMMA TickLevel ==
  ASSUME TypeOK, SeenBefore, Tick
  PROVE  \A i \in Ip : Level(i)' = IF Level(i) + Rate > Burst THEN Burst ELSE Level(i) + Rate
<1> SUFFICES ASSUME NEW i \in Ip
             PROVE Level(i)' = IF Level(i) + Rate > Burst THEN Burst ELSE Level(i) + Rate
  OBVIOUS
<1> USE RateLimiterAssumption
<1>1. buckets' = buckets /\ heap' = heap /\ clock' = clock + 1 /\ clock \in Nat
  BY DEF Tick, TypeOK
<1>2. CASE buckets[i] = NoBucket
  BY <1>1, <1>2 DEF Level
<1>3. CASE buckets[i] # NoBucket
  <2> DEFINE b == buckets[i]
             n == clock - heap[b].lastSeen
  <2>1. b \in Bucket
    BY <1>3 DEF TypeOK
  <2>2. n \in Nat /\ heap[b].tokens \in 0..Burst /\ heap[b].lastSeen \in Nat
    BY <2>1 DEF TypeOK, TokenBucket, SeenBefore
  <2>3. clock' - heap'[b].lastSeen = n + 1
    BY <1>1, <2>2
  <2>4. (n + 1) * Rate = n * Rate + Rate /\ n * Rate \in Nat
    BY <2>2, OneMore, TimesNat
  <2>5. Refilled(b)' = IF heap[b].tokens + (n * Rate + Rate) > Burst THEN Burst
                       ELSE heap[b].tokens + (n * Rate + Rate)
    BY <1>1, <2>3, <2>4 DEF Refilled
  <2>6. Refilled(b) = IF heap[b].tokens + n * Rate > Burst THEN Burst
                      ELSE heap[b].tokens + n * Rate
    BY DEF Refilled
  <2>7. Level(i) = Refilled(b) /\ Level(i)' = Refilled(b)'
    BY <1>1, <1>3 DEF Level
  <2> HIDE DEF n
  <2> QED
    BY <2>2, <2>4, <2>5, <2>6, <2>7
<1> QED
  BY <1>2, <1>3

-----------------------------------------------------------------------------
(* The bound. *)

\* The numbers that LevelBound compares.
LEMMA BoundTypes ==
  ASSUME TypeOK, SeenBefore, NEW ip \in Ip
  PROVE  /\ Level(ip) \in 0..Burst
         /\ count[ip] \in Nat /\ count[ip] * Cost \in Nat
         /\ clock - mark \in Nat /\ (clock - mark) * Rate \in Nat
<1>1. count[ip] \in Nat /\ clock - mark \in Nat
  BY RateLimiterAssumption DEF TypeOK
<1> QED
  BY <1>1, LevelType, TimesNat, RateLimiterAssumption

LEMMA InitMeterInv == Init => MeterInv
<1> SUFFICES ASSUME Init PROVE MeterInv
  OBVIOUS
<1>1. BucketsAreOwned /\ SeenBefore
  BY RateLimiterAssumption DEF Init, BucketsAreOwned, SeenBefore
<1>2. ASSUME NEW ip \in Ip
      PROVE  Level(ip) + count[ip] * Cost <= Burst + (clock - mark) * Rate
  <2>1. count[ip] * Cost = 0 /\ (clock - mark) * Rate = 0 /\ Level(ip) = Burst
    BY RateLimiterAssumption DEF Init, Level
  <2> QED
    BY <2>1, RateLimiterAssumption
<1> QED
  BY <1>1, <1>2 DEF MeterInv, LevelBound

LEMMA NextBound == TypeOK /\ MeterInv /\ [Next]_vars => LevelBound'
<1> SUFFICES ASSUME TypeOK, MeterInv, [Next]_vars, NEW ip \in Ip
             PROVE  Level(ip)' + count'[ip] * Cost <= Burst + (clock' - mark') * Rate
  BY DEF LevelBound
<1> USE RateLimiterAssumption
<1>0. SeenBefore /\ BucketsAreOwned
  BY DEF MeterInv
<1>b. Level(ip) + count[ip] * Cost <= Burst + (clock - mark) * Rate
  BY DEF MeterInv, LevelBound
<1>t. /\ Level(ip) \in 0..Burst
      /\ count[ip] \in Nat /\ count[ip] * Cost \in Nat
      /\ clock - mark \in Nat /\ (clock - mark) * Rate \in Nat
  BY <1>0, BoundTypes
<1>1. ASSUME NEW h \in Handler, NEW i \in Ip, Get(h, i)
      PROVE  Level(ip)' + count'[ip] * Cost <= Burst + (clock' - mark') * Rate
  BY <1>1, <1>b, GetLevel DEF Get
<1>2. ASSUME NEW h \in Handler, Allow(h)
      PROVE  Level(ip)' + count'[ip] * Cost <= Burst + (clock' - mark') * Rate
  <2>1. PICK i \in Ip, b \in Bucket : req[h].ip = i /\ req[h].bucket = b
    BY <1>2, ReqType DEF Allow
  <2>2. /\ \A j \in Ip \ {i} : Level(j)' = Level(j)
        /\ ~Metered(h) => Level(i)' = Level(i)
        /\ Metered(h) => /\ Level(i) = Refilled(b)
                         /\ Level(i)' = IF Level(i) >= Cost THEN Level(i) - Cost ELSE Level(i)
    BY <1>0, <1>2, <2>1, AllowLevel
  <2>3. /\ clock' = clock /\ mark' = mark
        /\ count' = IF Refilled(b) >= Cost /\ Metered(h) THEN [count EXCEPT ![i] = @ + 1] ELSE count
    BY <1>2, <2>1 DEF Allow
  <2>4. CASE ip = i /\ Metered(h) /\ Refilled(b) >= Cost
    <3>1. count'[ip] = count[ip] + 1
      BY <2>3, <2>4 DEF TypeOK
    <3>2. (count[ip] + 1) * Cost = count[ip] * Cost + Cost
      BY <1>t, OneMore
    <3>3. Level(ip)' = Level(ip) - Cost
      BY <2>2, <2>4
    <3>4. count'[ip] * Cost = count[ip] * Cost + Cost
      BY <3>1, <3>2
    <3> QED
      BY <1>b, <1>t, <2>3, <3>3, <3>4
  <2>5. CASE ~(ip = i /\ Metered(h) /\ Refilled(b) >= Cost)
    <3>1. count'[ip] = count[ip]
      BY <2>3, <2>5 DEF TypeOK
    <3>2. Level(ip)' = Level(ip)
      BY <2>2, <2>5
    <3> QED
      BY <1>b, <2>3, <3>1, <3>2
  <2> QED
    BY <2>4, <2>5
<1>3. CASE Cleanup
  BY <1>0, <1>3, <1>b, CleanupLevel DEF Cleanup
<1>4. CASE Tick
  <2>1. Level(ip)' <= Level(ip) + Rate /\ Level(ip)' \in Int
    BY <1>0, <1>4, <1>t, TickLevel
  <2>2. (clock - mark + 1) * Rate = (clock - mark) * Rate + Rate
    BY <1>t, OneMore
  <2>3. clock' - mark' = clock - mark + 1 /\ count' = count
    BY <1>4 DEF Tick, TypeOK
  <2>4. (clock' - mark') * Rate = (clock - mark) * Rate + Rate
    BY <2>2, <2>3
  <2> QED
    BY <1>b, <1>t, <2>1, <2>3, <2>4
<1>5. CASE Mark
  <2>1. clock' - mark' = 0 /\ count'[ip] = 0
    BY <1>5 DEF Mark, TypeOK
  <2>2. count'[ip] * Cost = 0 /\ (clock' - mark') * Rate = 0
    BY <2>1
  <2>3. Level(ip)' = Level(ip)
    BY <1>5 DEF Mark, Level, Refilled
  <2> QED
    BY <1>t, <2>2, <2>3
<1>6. CASE UNCHANGED vars
  BY <1>6, <1>b DEF vars, Level, Refilled
<1> QED
  BY <1>1, <1>2, <1>3, <1>4, <1>5, <1>6 DEF Next

LEMMA NextMeterInv == TypeOK /\ MeterInv /\ [Next]_vars => MeterInv'
  BY NextOwned, NextSeen, NextBound DEF MeterInv

\* The variables have their types, and the invariant holds, in every reachable state.
THEOREM MeterInvariant == Spec => [](TypeOK /\ MeterInv)
<1>1. Init => TypeOK /\ MeterInv
  BY InitType, InitMeterInv
<1>2. TypeOK /\ MeterInv /\ [Next]_vars => (TypeOK /\ MeterInv)'
  BY NextType, NextMeterInv DEF MeterInv
<1> QED
  BY <1>1, <1>2, PTL DEF Spec

\* rate_limiter.go:18-34.  Whatever the rate, the number of requests at a time and the
\* moments of the cleanup: no more gets through than a full bucket and its refill.
THEOREM RateIsBounded == Spec => []RateBound
<1>1. TypeOK /\ MeterInv => RateBound
  <2> SUFFICES ASSUME TypeOK, MeterInv, NEW ip \in Ip
               PROVE  count[ip] * Cost <= Burst + (clock - mark) * Rate
    BY DEF RateBound
  <2>1. Level(ip) + count[ip] * Cost <= Burst + (clock - mark) * Rate
    BY DEF MeterInv, LevelBound
  <2>2. /\ Level(ip) \in 0..Burst
        /\ count[ip] * Cost \in Nat
        /\ (clock - mark) * Rate \in Nat
    BY BoundTypes DEF MeterInv
  <2> QED
    BY <2>1, <2>2, RateLimiterAssumption
<1> QED
  BY <1>1, MeterInvariant, PTL

-----------------------------------------------------------------------------
(* The refinement. *)

LEMMA AstrayFinite ==
  ASSUME NEW ip \in Ip
  PROVE  /\ IsFiniteSet(Astray(ip))
         /\ Cardinality(Astray(ip)) \in 0..Cardinality(Handler)
<1>1. Astray(ip) \subseteq Handler
  BY DEF Astray
<1> QED
  BY <1>1, RateLimiterAssumption, FS_Subset, FS_CardinalityType

\* The sets of requests astray before and after a step, when no bucket is deleted.
LEMMA GetAstray ==
  ASSUME TypeOK, NEW h \in Handler, NEW ip \in Ip, Get(h, ip)
  PROVE  \A i \in Ip : Astray(i)' = Astray(i)
<1> SUFFICES ASSUME NEW i \in Ip, NEW g \in Handler
             PROVE  g \in Astray(i)' <=> g \in Astray(i)
  BY DEF Astray
<1>1. PICK b \in Bucket :
        /\ IF buckets[ip] # NoBucket
             THEN b = buckets[ip] /\ UNCHANGED <<buckets, heap>>
             ELSE /\ Garbage(b)
                  /\ heap' = [heap EXCEPT ![b] = [tokens |-> Burst, lastSeen |-> clock]]
                  /\ buckets' = [buckets EXCEPT ![ip] = b]
        /\ req' = [req EXCEPT ![h] = [ip |-> ip, bucket |-> b]]
  BY DEF Get
<1>2. /\ req[h] = NoRequest
      /\ req'[g] = IF g = h THEN [ip |-> ip, bucket |-> b] ELSE req[g]
      /\ [ip |-> ip, bucket |-> b] # NoRequest
      /\ buckets'[ip] = b
      /\ \A j \in Ip : j # ip => buckets'[j] = buckets[j]
  BY <1>1, RateLimiterAssumption DEF Get, TypeOK, Request
<1>3. CASE g = h
  BY <1>2, <1>3 DEF Astray, Metered
<1>4. CASE g # h
  <2>1. CASE req[g] = NoRequest \/ req[g].ip # i
    BY <1>2, <1>4, <2>1 DEF Astray
  <2>2. CASE req[g] # NoRequest /\ req[g].ip = i
    <3>1. req[g].bucket \in Bucket /\ req[g].bucket # NoBucket
      BY <2>2, ReqType, RateLimiterAssumption
    <3>2. buckets[ip] = NoBucket => req[g].bucket # b
      BY <1>1, <2>2 DEF Garbage
    <3>3. buckets[ip] # NoBucket => buckets[ip] = b
      BY <1>1
    <3>4. buckets'[i] = req[g].bucket <=> buckets[i] = req[g].bucket
      BY <1>2, <3>1, <3>2, <3>3
    <3> QED
      BY <1>2, <1>4, <2>2, <3>4 DEF Astray, Metered
  <2> QED
    BY <2>1, <2>2
<1> QED
  BY <1>3, <1>4

LEMMA AllowAstray ==
  ASSUME TypeOK, NEW h \in Handler, Allow(h)
  PROVE  \A i \in Ip : Astray(i)' = Astray(i) \ {h}
<1> SUFFICES ASSUME NEW i \in Ip, NEW g \in Handler
             PROVE  g \in Astray(i)' <=> g \in Astray(i) /\ g # h
  BY DEF Astray
<1>1. buckets' = buckets /\ req'[g] = IF g = h THEN NoRequest ELSE req[g]
  BY DEF Allow, TypeOK
<1> QED
  BY <1>1 DEF Astray, Metered

\* Requests go astray only with idle, hence full, buckets.
LEMMA CleanupAstray ==
  ASSUME TypeOK, Cleanup
  PROVE  \A i \in Ip : /\ Astray(i) \subseteq Astray(i)'
                       /\ Astray(i)' # Astray(i) => IsIdle(i)
<1> SUFFICES ASSUME NEW i \in Ip, NEW g \in Handler
             PROVE  /\ g \in Astray(i) => g \in Astray(i)'
                    /\ g \in Astray(i)' /\ g \notin Astray(i) => IsIdle(i)
  BY DEF Astray
<1>1. req' = req /\ buckets'[i] = IF IsIdle(i) THEN NoBucket ELSE buckets[i]
  BY DEF Cleanup
<1>2. req[g] # NoRequest => req[g].bucket # NoBucket
  BY ReqType, RateLimiterAssumption
<1> QED
  BY <1>1, <1>2 DEF Astray, Metered

\* A step that moves no level, leaves nobody astray and answers nothing.
LEMMA Stutters ==
  ASSUME \A i \in Ip : Level(i)' = Level(i), \A i \in Ip : Astray(i)' = Astray(i),
         outcome' = outcome
  PROVE  UNCHANGED Meter!vars
  BY DEF Meter!vars

LEMMA AllowRefines ==
  ASSUME TypeOK, MeterInv, NEW h \in Handler, Allow(h)
  PROVE  Meter!Next
<1>1. SeenBefore /\ BucketsAreOwned
  BY DEF MeterInv
<1>2. PICK ip \in Ip, b \in Bucket : req[h].ip = ip /\ req[h].bucket = b
  BY ReqType DEF Allow
<1>3. /\ \A i \in Ip \ {ip} : Level(i)' = Level(i)
      /\ ~Metered(h) => Level(ip)' = Level(ip)
      /\ Metered(h) => /\ Level(ip) = Refilled(b)
                       /\ Level(ip)' = IF Level(ip) >= Cost THEN Level(ip) - Cost ELSE Level(ip)
  BY <1>1, <1>2, AllowLevel
<1>4. \A i \in Ip : Astray(i)' = Astray(i) \ {h}
  BY AllowAstray
<1>5. outcome' = [ip |-> ip, allowed |-> Refilled(b) >= Cost] /\ req[h] # NoRequest
  BY <1>2 DEF Allow
<1>6. CASE Metered(h)
  <2>1. \A i \in Ip : Astray(i)' = Astray(i)
    BY <1>4, <1>6 DEF Astray
  <2>2. CASE Level(ip) >= Cost
    <3>1. [i \in Ip |-> Level(i)]' = [[i \in Ip |-> Level(i)] EXCEPT ![ip] = @ - Cost]
      BY <1>3, <1>6, <2>2
    <3>2. outcome' = [ip |-> ip, allowed |-> TRUE]
      BY <1>3, <1>5, <1>6, <2>2
    <3>3. Meter!Admit(ip)
      BY <2>1, <2>2, <3>1, <3>2 DEF Meter!Admit, Meter!Answer
    <3> QED
      BY <3>3 DEF Meter!Next
  <2>3. CASE ~(Level(ip) >= Cost)
    <3>1. Level(ip) < Cost
      BY <1>1, <2>3, LevelType, RateLimiterAssumption
    <3>2. \A i \in Ip : Level(i)' = Level(i)
      BY <1>3, <1>6, <2>3
    <3>3. outcome' = [ip |-> ip, allowed |-> FALSE]
      <4>1. ~(Refilled(b) >= Cost)
        BY <1>3, <1>6, <2>3
      <4>2. (Refilled(b) >= Cost) = FALSE
        BY <4>1, SMT
      <4> QED
        BY <1>5, <4>2, Zenon
    <3>4. Meter!Refuse(ip)
      BY <2>1, <3>1, <3>2, <3>3 DEF Meter!Refuse, Meter!Answer
    <3> QED
      BY <3>4 DEF Meter!Next
  <2> QED
    BY <2>2, <2>3
<1>7. CASE ~Metered(h)
  <2>1. h \in Astray(ip) /\ \A i \in Ip \ {ip} : h \notin Astray(i)
    BY <1>2, <1>5, <1>7 DEF Astray
  <2>2. \A i \in Ip \ {ip} : Astray(i)' = Astray(i)
    BY <1>4, <2>1
  <2>3. Cardinality(Astray(ip)') = Cardinality(Astray(ip)) - 1
    BY <1>4, <2>1, AstrayFinite, FS_RemoveElement
  <2>4. Cardinality(Astray(ip)) > 0
    <3>1. Cardinality(Astray(ip)) # 0
      BY <2>1, AstrayFinite, FS_EmptySet
    <3> QED
      BY <3>1, AstrayFinite, FS_CardinalityType
  <2>5. \A i \in Ip : Level(i)' = Level(i)
    BY <1>3, <1>7
  <2>6. \E allowed \in BOOLEAN : Meter!Answer(ip, allowed)
    <3>1. (Refilled(b) >= Cost) \in BOOLEAN
      BY SMT
    <3>2. Meter!Answer(ip, Refilled(b) >= Cost)
      BY <1>5 DEF Meter!Answer
    <3> QED
      BY <3>1, <3>2, Zenon
  <2>7. [i \in Ip |-> Cardinality(Astray(i))]'
          = [[i \in Ip |-> Cardinality(Astray(i))] EXCEPT ![ip] = @ - 1]
    BY <2>2, <2>3
  <2>8. Meter!AnswerAstray(ip)
    BY <2>4, <2>5, <2>6, <2>7 DEF Meter!AnswerAstray
  <2> QED
    BY <2>8 DEF Meter!Next
<1> QED
  BY <1>6, <1>7

LEMMA CleanupRefines ==
  ASSUME TypeOK, MeterInv, Cleanup
  PROVE  Meter!GoAstray
<1>1. SeenBefore
  BY DEF MeterInv
<1>2. \A i \in Ip : Level(i)' = Level(i)
  BY <1>1, CleanupLevel
<1>3. ASSUME NEW i \in Ip
      PROVE  Cardinality(Astray(i))' \in 0..Cardinality(Handler)
  <2>1. Astray(i)' \subseteq Handler
    BY DEF Astray
  <2> QED
    BY <2>1, RateLimiterAssumption, FS_Subset, FS_CardinalityType
<1>4. ASSUME NEW i \in Ip, Cardinality(Astray(i))' # Cardinality(Astray(i))
      PROVE  Cardinality(Astray(i))' > Cardinality(Astray(i)) /\ Level(i) = Burst
  <2>1. Astray(i) \subseteq Astray(i)' /\ Astray(i)' # Astray(i) /\ IsIdle(i)
    BY <1>4, CleanupAstray
  <2>2. Astray(i)' \subseteq Handler
    BY DEF Astray
  <2>3. IsFiniteSet(Astray(i)')
    BY <2>2, RateLimiterAssumption, FS_Subset
  <2>5. Cardinality(Astray(i)') \in Nat /\ Cardinality(Astray(i)) \in Nat
    BY <2>3, AstrayFinite, FS_CardinalityType
  <2>4. Cardinality(Astray(i)) < Cardinality(Astray(i)')
    BY <2>1, <2>3, <2>5, <1>4, FS_Subset
  <2> QED
    BY <1>1, <2>1, <2>4, <2>5, IdleIsFull
<1>5. outcome' = outcome
  BY DEF Cleanup
<1> QED
  BY <1>2, <1>3, <1>4, <1>5 DEF Meter!GoAstray

\* Every step of the limiter is a step of the meter or leaves it as it is.
LEMMA StepRefines ==
  ASSUME TypeOK, MeterInv, [Next]_vars
  PROVE  Meter!Next \/ UNCHANGED Meter!vars
<1>1. ASSUME NEW h \in Handler, NEW ip \in Ip, Get(h, ip) PROVE UNCHANGED Meter!vars
  BY <1>1, GetLevel, GetAstray, Stutters DEF Get
<1>2. ASSUME NEW h \in Handler, Allow(h) PROVE Meter!Next
  BY <1>2, AllowRefines
<1>3. CASE Cleanup
  BY <1>3, CleanupRefines DEF Meter!Next
<1>4. CASE Tick
  <2>1. \A i \in Ip : Level(i)' = IF Level(i) + Rate > Burst THEN Burst ELSE Level(i) + Rate
    BY <1>4, TickLevel DEF MeterInv
  <2>2. \A i \in Ip : Astray(i)' = Astray(i)
    BY <1>4 DEF Tick, Astray, Metered
  <2>3. outcome' = outcome
    BY <1>4 DEF Tick
  <2>4. Meter!Refill
    BY <2>1, <2>2, <2>3 DEF Meter!Refill
  <2> QED
    BY <2>4 DEF Meter!Next
<1>5. CASE Mark \/ UNCHANGED vars
  <2>1. UNCHANGED <<clock, buckets, heap, req, outcome>>
    BY <1>5 DEF Mark, vars
  <2>2. \A i \in Ip : Level(i)' = Level(i) /\ Astray(i)' = Astray(i)
    BY <2>1 DEF Level, Refilled, Astray, Metered
  <2> QED
    BY <2>1, <2>2, Stutters
<1> QED
  BY <1>1, <1>2, <1>3, <1>4, <1>5 DEF Next

LEMMA InitRefines == Init => Meter!Init
<1> SUFFICES ASSUME Init PROVE Meter!Init
  OBVIOUS
<1>1. \A i \in Ip : Level(i) = Burst
  BY DEF Init, Level
<1>2. \A i \in Ip : Astray(i) = {}
  BY DEF Init, Astray
<1>3. Cardinality({}) = 0
  BY FS_EmptySet
<1> QED
  BY <1>1, <1>2, <1>3 DEF Meter!Init, Init

\* rate_limiter.go:53-83.  Forgetting idle buckets is not noticed: the limiter is a meter
\* per address that never forgets, but for requests under way when a full one is deleted.
THEOREM LimiterIsMeter == Spec => ImplementsMeter
<1>1. Init => Meter!Init
  BY InitRefines
<1>2. TypeOK /\ MeterInv /\ [Next]_vars => [Meter!Next]_(Meter!vars)
  BY StepRefines
<1> QED
  BY <1>1, <1>2, MeterInvariant, PTL DEF Spec, ImplementsMeter, Meter!Spec

=============================================================================
