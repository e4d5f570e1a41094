----------------------------- MODULE TokenMeter ------------------------------
(***************************************************************************)
(* What the gateway's rate limiter promises to each client address: a      *)
(* meter that is never forgotten, fills up with time and is drawn on by    *)
(* each request that is let through.  The only requests that escape it are *)
(* those that were under way when a full meter was thrown away.            *)
(***************************************************************************)
EXTENDS Integers

CONSTANTS
  Ip,        \* client addresses
  Burst,     \* what a full meter holds
  Cost,      \* what a request draws
  Rate,      \* what a meter gains in a unit of time
  InFlight,  \* how many requests of an address may be under way
  NoOutcome

VARIABLES
  level,     \* [Ip -> 0..Burst]
  astray,    \* [Ip -> how many requests under way are no longer metered]
  outcome    \* the request answered last: its address, and was it let through

vars == <<level, astray, outcome>>

Init ==
  /\ level = [ip \in Ip |-> Burst]
  /\ astray = [ip \in Ip |-> 0]
  /\ outcome = NoOutcome

Answer(ip, allowed) == outcome' = [ip |-> ip, allowed |-> allowed]

Admit(ip) ==
  /\ level[ip] >= Cost
  /\ level' = [level EXCEPT ![ip] = @ - Cost]
  /\ Answer(ip, TRUE)
  /\ UNCHANGED astray

Refuse(ip) ==
  /\ level[ip] < Cost
  /\ Answer(ip, FALSE)
  /\ UNCHANGED <<level, astray>>

\* An answer that is not metered, whatever it is.
AnswerAstray(ip) ==
  /\ astray[ip] > 0
  /\ astray' = [astray EXCEPT ![ip] = @ - 1]
  /\ \E allowed \in BOOLEAN : Answer(ip, allowed)
  /\ UNCHANGED level

\* Requests go astray only where the meter is full.
GoAstray ==
  /\ astray' \in [Ip -> 0..InFlight]
  /\ \A ip \in Ip : astray'[ip] # astray[ip] => astray'[ip] > astray[ip] /\ level[ip] = Burst
  /\ UNCHANGED <<level, outcome>>

Refill ==
  /\ level' = [ip \in Ip |-> IF level[ip] + Rate > Burst THEN Burst ELSE level[ip] + Rate]
  /\ UNCHANGED <<astray, outcome>>

Next ==
  \/ \E ip \in Ip : Admit(ip) \/ Refuse(ip) \/ AnswerAstray(ip)
  \/ GoAstray
  \/ Refill

Spec == Init /\ [][Next]_vars

=============================================================================
