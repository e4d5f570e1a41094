------------------------------- MODULE Sessions -------------------------------
(***************************************************************************)
(* The session of one barber (services/staff/internal/service/service.go,  *)
(* 75-158): Redis keeps under session:<barber> the one refresh token that  *)
(* may be exchanged.  Login and RefreshToken write it, Logout deletes it,  *)
(* and RefreshToken reads it in a call of its own before that.             *)
(*                                                                         *)
(* A token carries nothing but the barber and the second it was made in    *)
(* (pkg/auth/jwt.go): two of the same second are the same token.           *)
(***************************************************************************)
EXTENDS Integers

CONSTANTS
  Handler,    \* requests served at a time
  MaxTime,    \* bound: the last second
  Life,       \* RefreshTokenTTL
  Ttl,        \* REDIS_TTL_MINUTE
  NoSession,  \* the key is not there
  NoToken,    \* of a request that presents, or has made, none
  Idle        \* a handler without a request

Token == 0..MaxTime
Session == [token : Token, until : Nat]
Request == [stage : {"check", "mint", "save", "answer", "delete"},
            old : Token \union {NoToken}, new : Token \union {NoToken}]

ASSUME SessionsAssumption ==
  /\ MaxTime \in Nat /\ Life \in Nat \ {0} /\ Ttl \in Nat \ {0}
  /\ NoSession \notin Session /\ NoToken \notin Token /\ Idle \notin Request

VARIABLES
  session,    \* the key session:<barber>
  clock,      \* now, in the seconds of a token
  req,        \* [Handler -> Request \union {Idle}]
  known,      \* the tokens that were answered to the barber's clients
  mine,       \* history: the token answered last
  minted,     \* history: the tokens that were made
  twins,      \* history: those made twice
  spent,      \* history: those exchanged for another
  reused,     \* history: those that passed the check after they had been exchanged
  away,       \* history: nobody has begun to log in since the last logout
  cut,        \* history: the requests that logout found between check and answer
  revived,    \* history: one of them has written its token since
  disturbed   \* history: since a token was written last, another request's was
              \* not answered yet, or an answer was lost

vars == <<session, clock, req, known, mine, minted, twins, spent, reused,
          away, cut, revived, disturbed>>

-----------------------------------------------------------------------------
Init ==
  /\ session = NoSession
  /\ clock = 0
  /\ req = [p \in Handler |-> Idle]
  /\ known = {} /\ mine = NoToken
  /\ minted = {} /\ twins = {} /\ spent = {} /\ reused = {}
  /\ away = TRUE /\ cut = {} /\ revived = FALSE /\ disturbed = FALSE

InStage(p, s) == req[p] # Idle /\ req[p].stage = s
Answering(p) == InStage(p, "answer")
\* p has passed its check and may still write its token.
Entitled(p) == InStage(p, "mint") \/ InStage(p, "save") \/ Answering(p)

\* ValidateToken: a token of ours that has not expired.
Valid(t) == t \in known /\ clock < t + Life

\* The session that Get answers, unless the key has expired.
Stored(t) == session # NoSession /\ clock < session.until /\ session.token = t

Begin(p, s, t) == req' = [req EXCEPT ![p] = [stage |-> s, old |-> t, new |-> NoToken]]
GoTo(p, s) == req' = [req EXCEPT ![p].stage = s]
End(p) == req' = [req EXCEPT ![p] = Idle] /\ cut' = cut \ {p}

\* The password is right.
Login(p) ==
  /\ req[p] = Idle
  /\ Begin(p, "mint", NoToken)
  /\ away' = FALSE
  /\ UNCHANGED <<session, clock, known, mine, minted, twins, spent, reused, cut, revived, disturbed>>

RefreshToken(p, t) ==
  /\ req[p] = Idle /\ Valid(t)
  /\ Begin(p, "check", t)
  /\ UNCHANGED <<session, clock, known, mine, minted, twins, spent, reused, away, cut, revived, disturbed>>

\* Any valid token will do, an access token or an old one too.
Logout(p) ==
  /\ req[p] = Idle /\ \E t \in Token : Valid(t)
  /\ Begin(p, "delete", NoToken)
  /\ UNCHANGED <<session, clock, known, mine, minted, twins, spent, reused, away, cut, revived, disturbed>>

\* Mutant of CheckPasses: a key that is there is enough.
CheckPassesAny(p) == InStage(p, "check") /\ \E t \in Token : Stored(t)

CheckPasses(p) == InStage(p, "check") /\ Stored(req[p].old)

\* Mutant of Check: the answer of Get is not looked at.
CheckNothing(p) ==
  /\ InStage(p, "check")
  /\ GoTo(p, "mint")
  /\ reused' = IF req[p].old \in spent THEN reused \union {req[p].old} ELSE reused
  /\ UNCHANGED <<session, clock, known, mine, minted, twins, spent, away, cut, revived, disturbed>>

Check(p) ==
  /\ CheckPasses(p)
  /\ GoTo(p, "mint")
  /\ reused' = IF req[p].old \in spent THEN reused \union {req[p].old} ELSE reused
  /\ UNCHANGED <<session, clock, known, mine, minted, twins, spent, away, cut, revived, disturbed>>

\* GenerateRefreshToken.
Mint(p) ==
  /\ InStage(p, "mint")
  /\ req' = [req EXCEPT ![p].stage = "save", ![p].new = clock]
  /\ minted' = minted \union {clock}
  /\ twins' = IF clock \in minted THEN twins \union {clock} ELSE twins
  /\ UNCHANGED <<session, clock, known, mine, spent, reused, away, cut, revived, disturbed>>

\* redis.Set.  The client library sends it again when the answer does not come, so that
\* it may be done once more.
Save(p) ==
  /\ InStage(p, "save") \/ Answering(p)
  /\ session' = [token |-> req[p].new, until |-> clock + Ttl]
  /\ GoTo(p, "answer")
  /\ spent' = spent \union ({req[p].old} \ {NoToken})
  /\ revived' = (revived \/ p \in cut)
  /\ disturbed' = \E q \in Handler \ {p} : Answering(q)
  /\ UNCHANGED <<clock, known, mine, minted, twins, reused, away, cut>>

\* Mutant of Answer: the client is given the token it came with.
AnswerOld(p) ==
  /\ Answering(p)
  /\ known' = known \union {req[p].old}
  /\ mine' = req[p].old
  /\ End(p)
  /\ UNCHANGED <<session, clock, minted, twins, spent, reused, away, revived, disturbed>>

Answer(p) ==
  /\ Answering(p)
  /\ known' = known \union {req[p].new}
  /\ mine' = req[p].new
  /\ End(p)
  /\ UNCHANGED <<session, clock, minted, twins, spent, reused, away, revived, disturbed>>

\* redis.Del, which may be sent again too.
Delete(p) ==
  /\ InStage(p, "delete")
  /\ session' = NoSession
  /\ away' = TRUE
  /\ cut' = {q \in Handler : Entitled(q)}
  /\ revived' = FALSE
  /\ UNCHANGED <<clock, req, known, mine, minted, twins, spent, reused, disturbed>>

\* The check fails, Redis fails before or after it has done what it was asked, the answer
\* is lost, or a logout is answered.
Finish(p) ==
  /\ req[p] # Idle
  /\ End(p)
  /\ disturbed' = (disturbed \/ Answering(p))
  /\ UNCHANGED <<session, clock, known, mine, minted, twins, spent, reused, away, revived>>

Tick ==
  /\ clock < MaxTime
  /\ clock' = clock + 1
  /\ UNCHANGED <<session, req, known, mine, minted, twins, spent, reused, away, cut, revived, disturbed>>

Next ==
  \/ \E p \in Handler :
       \/ Login(p) \/ Logout(p) \/ \E t \in Token : RefreshToken(p, t)
       \/ Check(p) \/ Mint(p) \/ Save(p) \/ Answer(p) \/ Delete(p) \/ Finish(p)
  \/ Tick

Spec == Init /\ [][Next]_vars

-----------------------------------------------------------------------------
TypeOK ==
  /\ session \in Session \union {NoSession}
  /\ clock \in 0..MaxTime
  /\ req \in [Handler -> Request \union {Idle}]
  /\ known \subseteq Token
  /\ mine \in Token \union {NoToken}
  /\ minted \subseteq Token /\ twins \subseteq Token
  /\ spent \subseteq Token /\ reused \subseteq Token
  /\ cut \subseteq Handler
  /\ away \in BOOLEAN /\ revived \in BOOLEAN /\ disturbed \in BOOLEAN

\* service.go:133-151.  A refresh token that has been exchanged passes the check again
\* only if a second one was made in the same second, which is the same token.  Two
\* requests that pass the check before either writes are the other way to exchange one
\* twice, and the only one.
SpentIsRefused == reused \subseteq twins

\* service.go:118 against :151.  After a logout there is a session only if somebody has
\* logged in since, or if a request that the logout overtook after its check has written
\* its token.
LogoutStands == away /\ session # NoSession => revived

\* service.go:103-109 and :151-157.  The token that was answered last is the one that is
\* kept: a client that neither logged out nor waited too long can go on, unless two
\* requests crossed between writing and answering, or an answer was lost.
NotLockedOut ==
  session # NoSession /\ ~disturbed /\ (\A p \in Handler : ~Answering(p))
    => session.token = mine

=============================================================================
