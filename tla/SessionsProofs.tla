---------------------------- MODULE SessionsProofs ----------------------------
(***************************************************************************)
(* What Sessions promises, for any number of requests, lengths of a        *)
(* session and of a token, and last second.                                *)
(***************************************************************************)
EXTENDS Sessions, TLAPS

Stages == {"check", "mint", "save", "answer", "delete"}

\* p has made x and has not answered it.
Carries(p, x) == (InStage(p, "save") \/ Answering(p)) /\ req[p].new = x

\* Where tokens come from.
TokensInv ==
  /\ \A p \in Handler : req[p] # Idle =>
       /\ req[p].old \in known \union {NoToken}
       /\ req[p].stage = "check" => req[p].old # NoToken
       /\ req[p].stage \in {"save", "answer"} => req[p].new \in minted
  /\ session # NoSession => session.token \in minted
  /\ known \subseteq minted /\ spent \subseteq known

\* A token that was made once has one request that carries it until it is answered, and
\* leaves the session for good when it is exchanged.
OnceInv ==
  \A x \in Token \ twins :
    /\ \A p, q \in Handler : Carries(p, x) /\ Carries(q, x) => p = q
    /\ x \in known => \A p \in Handler : ~Carries(p, x)
    /\ x \in spent => session = NoSession \/ session.token # x

\* What a logout leaves.
AwayInv ==
  away /\ ~revived =>
    /\ session = NoSession
    /\ \A p \in Handler : Entitled(p) => p \in cut

\* Whose token the session is.
OwnerInv ==
  ~disturbed =>
    /\ \A p, q \in Handler : Answering(p) /\ Answering(q) => p = q
    /\ \A p \in Handler : session # NoSession /\ Answering(p) => session.token = req[p].new

SessionInv == TokensInv /\ OnceInv /\ AwayInv /\ OwnerInv

-----------------------------------------------------------------------------
\* A request in progress has the fields of one.
LEMMA Fields ==
  ASSUME TypeOK, NEW p \in Handler, req[p] # Idle
  PROVE  /\ req[p] \in Request
         /\ req[p].stage \in Stages
         /\ req[p].old \in Token \union {NoToken} /\ req[p].new \in Token \union {NoToken}
         /\ req[p] = [stage |-> req[p].stage, old |-> req[p].old, new |-> req[p].new]
<1>1. req[p] \in Request
  BY DEF TypeOK
<1> QED
  BY <1>1 DEF Request, Stages

\* A record of a request, field by field.
LEMMA Records ==
  ASSUME NEW r \in Request, NEW s, NEW t
  PROVE  /\ [r EXCEPT !.stage = s] = [stage |-> s, old |-> r.old, new |-> r.new]
         /\ [r EXCEPT !.stage = s, !.new = t] = [stage |-> s, old |-> r.old, new |-> t]
<1> DEFINE q == [stage |-> s, old |-> r.old, new |-> r.new]
<1>1. [r EXCEPT !.stage = s] = q
  BY DEF Request
<1>2. [q EXCEPT !.new = t] = [stage |-> s, old |-> r.old, new |-> t]
  OBVIOUS
<1> HIDE DEF q
<1>3. [[r EXCEPT !.stage = s] EXCEPT !.new = t] = [stage |-> s, old |-> r.old, new |-> t]
  BY <1>1, <1>2
<1> QED
  BY <1>1, <1>3 DEF q

\* Three ways to change a request, and what they leave of the others.
LEMMA Replaced ==
  ASSUME TypeOK, NEW p \in Handler, NEW r \in Request \union {Idle},
         req' = [req EXCEPT ![p] = r]
  PROVE  /\ req' \in [Handler -> Request \union {Idle}]
         /\ req'[p] = r
         /\ \A q \in Handler : q # p => req'[q] = req[q]
  BY DEF TypeOK

\* A request that goes to its next stage.
LEMMA Gone ==
  ASSUME TypeOK, NEW p \in Handler, req[p] # Idle, NEW s \in Stages, GoTo(p, s)
  PROVE  /\ req' \in [Handler -> Request \union {Idle}]
         /\ req'[p] # Idle /\ req'[p].stage = s
         /\ req'[p].old = req[p].old /\ req'[p].new = req[p].new
         /\ \A q \in Handler : q # p => req'[q] = req[q]
<1> DEFINE r == [stage |-> s, old |-> req[p].old, new |-> req[p].new]
<1>0. /\ req[p].old \in Token \union {NoToken} /\ req[p].new \in Token \union {NoToken}
  BY Fields
<1>1. r \in Request
  BY <1>0 DEF Request, Stages
<1>4. r # Idle
  BY <1>1, SessionsAssumption
<1>2. req' = [req EXCEPT ![p] = r]
  <2>1. [req[p] EXCEPT !.stage = s] = r
    BY Fields, Records
  <2> QED
    BY <2>1 DEF GoTo
<1>3. r.stage = s /\ r.old = req[p].old /\ r.new = req[p].new
  OBVIOUS
<1> HIDE DEF r
<1> QED
  BY <1>1, <1>2, <1>3, <1>4, Replaced

\* A request that begins.
LEMMA Begun ==
  ASSUME TypeOK, NEW p \in Handler, NEW s \in Stages, NEW t \in Token \union {NoToken},
         Begin(p, s, t)
  PROVE  /\ req' \in [Handler -> Request \union {Idle}]
         /\ req'[p] # Idle /\ req'[p].stage = s
         /\ req'[p].old = t /\ req'[p].new = NoToken
         /\ \A q \in Handler : q # p => req'[q] = req[q]
<1> DEFINE r == [stage |-> s, old |-> t, new |-> NoToken]
<1>1. r \in Request
  BY DEF Request, Stages
<1>4. r # Idle
  BY <1>1, SessionsAssumption
<1>2. req' = [req EXCEPT ![p] = r]
  BY DEF Begin
<1>3. r.stage = s /\ r.old = t /\ r.new = NoToken
  OBVIOUS
<1> HIDE DEF r
<1> QED
  BY <1>1, <1>2, <1>3, <1>4, Replaced

\* A request that has made its token.
LEMMA Minted ==
  ASSUME TypeOK, NEW p \in Handler, Mint(p)
  PROVE  /\ req' \in [Handler -> Request \union {Idle}]
         /\ req'[p] # Idle /\ req'[p].stage = "save"
         /\ req'[p].old = req[p].old /\ req'[p].new = clock
         /\ \A q \in Handler : q # p => req'[q] = req[q]
<1> DEFINE r == [stage |-> "save", old |-> req[p].old, new |-> clock]
<1>0. req[p] # Idle /\ clock \in Token
  BY DEF Mint, InStage, TypeOK, Token
<1>5. req[p].old \in Token \union {NoToken}
  BY <1>0, Fields
<1>1. r \in Request
  BY <1>0, <1>5 DEF Request
<1>4. r # Idle
  BY <1>1, SessionsAssumption
<1>2. req' = [req EXCEPT ![p] = r]
  <2>1. [req[p] EXCEPT !.stage = "save", !.new = clock] = r
    <3>1. req[p] \in Request
      BY <1>0, Fields
    <3> QED
      BY <3>1, Records
  <2> QED
    BY <2>1 DEF Mint
<1>3. r.stage = "save" /\ r.old = req[p].old /\ r.new = clock
  OBVIOUS
<1> HIDE DEF r
<1> QED
  BY <1>1, <1>2, <1>3, <1>4, Replaced

\* A request that has ended.
LEMMA Ended ==
  ASSUME TypeOK, NEW p \in Handler, End(p)
  PROVE  /\ req' \in [Handler -> Request \union {Idle}]
         /\ req'[p] = Idle
         /\ \A q \in Handler : q # p => req'[q] = req[q]
  BY Replaced DEF End

-----------------------------------------------------------------------------
\* The variables keep their types.
LEMMA TypeStep == TypeOK /\ TokensInv /\ [Next]_vars => TypeOK'
<1> SUFFICES ASSUME TypeOK, TokensInv, [Next]_vars PROVE TypeOK'
  OBVIOUS
<1>1. ASSUME NEW p \in Handler, Login(p) PROVE TypeOK'
  <2>1. req' \in [Handler -> Request \union {Idle}]
    BY <1>1, Begun DEF Login, Stages
  <2> QED
    BY <1>1, <2>1 DEF Login, TypeOK
<1>2. ASSUME NEW p \in Handler, NEW t \in Token, RefreshToken(p, t) PROVE TypeOK'
  <2>1. req' \in [Handler -> Request \union {Idle}]
    BY <1>2, Begun DEF RefreshToken, Stages
  <2> QED
    BY <1>2, <2>1 DEF RefreshToken, TypeOK
<1>3. ASSUME NEW p \in Handler, Logout(p) PROVE TypeOK'
  <2>1. req' \in [Handler -> Request \union {Idle}]
    BY <1>3, Begun DEF Logout, Stages
  <2> QED
    BY <1>3, <2>1 DEF Logout, TypeOK
<1>4. ASSUME NEW p \in Handler, Check(p) PROVE TypeOK'
  <2>1. req' \in [Handler -> Request \union {Idle}]
    BY <1>4, Gone DEF Check, CheckPasses, InStage, Stages
  <2>2. reused' \subseteq reused \union spent
    BY <1>4 DEF Check
  <2> QED
    BY <1>4, <2>1, <2>2 DEF Check, TypeOK
<1>5. ASSUME NEW p \in Handler, Mint(p) PROVE TypeOK'
  <2>1. req' \in [Handler -> Request \union {Idle}]
    BY <1>5, Minted
  <2> QED
    BY <1>5, <2>1 DEF Mint, TypeOK, Token
<1>6. ASSUME NEW p \in Handler, Save(p) PROVE TypeOK'
  <2>0. req[p] # Idle /\ req[p].stage \in {"save", "answer"}
    BY <1>6 DEF Save, Answering, InStage
  <2>1. req' \in [Handler -> Request \union {Idle}]
    BY <1>6, <2>0, Gone DEF Save, Stages
  <2>2. req[p].old \in Token \union {NoToken} /\ req[p].new \in Token
    BY <2>0, Fields DEF TypeOK, TokensInv
  <2>3. clock + Ttl \in Nat
    BY SessionsAssumption DEF TypeOK
  <2>4. session' \in Session
    BY <1>6, <2>2, <2>3 DEF Save, Session
  <2>5. spent' \subseteq Token /\ revived' \in BOOLEAN /\ disturbed' \in BOOLEAN
    BY <1>6, <2>2 DEF Save, TypeOK
  <2> QED
    BY <1>6, <2>1, <2>4, <2>5 DEF Save, TypeOK
<1>7. ASSUME NEW p \in Handler, Answer(p) PROVE TypeOK'
  <2>0. req[p] # Idle /\ req[p].stage = "answer"
    BY <1>7 DEF Answer, Answering, InStage
  <2>1. req' \in [Handler -> Request \union {Idle}]
    BY <1>7, Ended DEF Answer
  <2>2. req[p].new \in Token
    BY <2>0 DEF TypeOK, TokensInv
  <2>3. known' \subseteq Token /\ mine' \in Token /\ cut' \subseteq Handler
    BY <1>7, <2>2 DEF Answer, End, TypeOK
  <2> QED
    BY <1>7, <2>1, <2>3 DEF Answer, TypeOK
<1>8. ASSUME NEW p \in Handler, Delete(p) PROVE TypeOK'
  BY <1>8 DEF Delete, TypeOK
<1>9. ASSUME NEW p \in Handler, Finish(p) PROVE TypeOK'
  <2>1. req' \in [Handler -> Request \union {Idle}]
    BY <1>9, Ended DEF Finish
  <2>2. cut' \subseteq Handler /\ disturbed' \in BOOLEAN
    BY <1>9 DEF Finish, End, TypeOK
  <2> QED
    BY <1>9, <2>1, <2>2 DEF Finish, TypeOK
<1>10. CASE Tick
  <2>1. clock' \in 0..MaxTime
    BY <1>10, SessionsAssumption DEF Tick, TypeOK
  <2> QED
    BY <1>10, <2>1 DEF Tick, TypeOK
<1>11. CASE UNCHANGED vars
  BY <1>11 DEF vars, TypeOK
<1> QED
  BY <1>1, <1>2, <1>3, <1>4, <1>5, <1>6, <1>7, <1>8, <1>9, <1>10, <1>11 DEF Next

\* Tokens come from where they should.
LEMMA TokensStep == TypeOK /\ TokensInv /\ [Next]_vars => TokensInv'
<1> SUFFICES ASSUME TypeOK, TokensInv, [Next]_vars PROVE TokensInv'
  OBVIOUS
<1>1. ASSUME NEW p \in Handler, Login(p) PROVE TokensInv'
  <2>1. /\ req'[p].stage = "mint" /\ req'[p].old = NoToken
        /\ \A q \in Handler : q # p => req'[q] = req[q]
    BY <1>1, Begun DEF Login, Stages
  <2> QED
    BY <1>1, <2>1 DEF Login, TokensInv
<1>2. ASSUME NEW p \in Handler, NEW t \in Token, RefreshToken(p, t) PROVE TokensInv'
  <2>1. /\ req'[p].stage = "check" /\ req'[p].old = t
        /\ \A q \in Handler : q # p => req'[q] = req[q]
    BY <1>2, Begun DEF RefreshToken, Stages
  <2>2. t \in known /\ t # NoToken
    BY <1>2, SessionsAssumption DEF RefreshToken, Valid
  <2> QED
    BY <1>2, <2>1, <2>2 DEF RefreshToken, TokensInv
<1>3. ASSUME NEW p \in Handler, Logout(p) PROVE TokensInv'
  <2>1. /\ req'[p].stage = "delete" /\ req'[p].old = NoToken
        /\ \A q \in Handler : q # p => req'[q] = req[q]
    BY <1>3, Begun DEF Logout, Stages
  <2> QED
    BY <1>3, <2>1 DEF Logout, TokensInv
<1>4. ASSUME NEW p \in Handler, Check(p) PROVE TokensInv'
  <2>0. req[p] # Idle
    BY <1>4 DEF Check, CheckPasses, InStage
  <2>1. /\ req'[p].stage = "mint" /\ req'[p].old = req[p].old
        /\ \A q \in Handler : q # p => req'[q] = req[q]
    BY <1>4, <2>0, Gone DEF Check, Stages
  <2> QED
    BY <1>4, <2>0, <2>1 DEF Check, TokensInv
<1>5. ASSUME NEW p \in Handler, Mint(p) PROVE TokensInv'
  <2>0. req[p] # Idle
    BY <1>5 DEF Mint, InStage
  <2>1. /\ req'[p].stage = "save" /\ req'[p].old = req[p].old /\ req'[p].new = clock
        /\ \A q \in Handler : q # p => req'[q] = req[q]
    BY <1>5, Minted
  <2>2. minted \subseteq minted' /\ clock \in minted'
    BY <1>5 DEF Mint
  <2>3. UNCHANGED <<session, known, spent>>
    BY <1>5 DEF Mint
  <2> QED
    BY <2>0, <2>1, <2>2, <2>3 DEF TokensInv
<1>6. ASSUME NEW p \in Handler, Save(p) PROVE TokensInv'
  <2>0. req[p] # Idle /\ req[p].stage \in {"save", "answer"}
    BY <1>6 DEF Save, Answering, InStage
  <2>1. /\ req'[p].stage = "answer" /\ req'[p].old = req[p].old /\ req'[p].new = req[p].new
        /\ \A q \in Handler : q # p => req'[q] = req[q]
    BY <1>6, <2>0, Gone DEF Save, Stages
  <2>2. session'.token = req[p].new
    BY <1>6 DEF Save
  <2>3. req[p].new \in minted /\ req[p].old \in known \union {NoToken}
    BY <2>0 DEF TokensInv
  <2> QED
    BY <1>6, <2>0, <2>1, <2>2, <2>3 DEF Save, TokensInv
<1>7. ASSUME NEW p \in Handler, Answer(p) PROVE TokensInv'
  <2>0. req[p] # Idle /\ req[p].stage = "answer"
    BY <1>7 DEF Answer, Answering, InStage
  <2>1. req'[p] = Idle /\ \A q \in Handler : q # p => req'[q] = req[q]
    BY <1>7, Ended DEF Answer
  <2> QED
    BY <1>7, <2>0, <2>1 DEF Answer, TokensInv
<1>8. ASSUME NEW p \in Handler, Delete(p) PROVE TokensInv'
  BY <1>8 DEF Delete, TokensInv
<1>9. ASSUME NEW p \in Handler, Finish(p) PROVE TokensInv'
  <2>1. req'[p] = Idle /\ \A q \in Handler : q # p => req'[q] = req[q]
    BY <1>9, Ended DEF Finish
  <2> QED
    BY <1>9, <2>1 DEF Finish, TokensInv
<1>10. CASE Tick
  BY <1>10 DEF Tick, TokensInv
<1>11. CASE UNCHANGED vars
  BY <1>11 DEF vars, TokensInv
<1> QED
  BY <1>1, <1>2, <1>3, <1>4, <1>5, <1>6, <1>7, <1>8, <1>9, <1>10, <1>11 DEF Next

\* Who carries a token after a step: a request carries what it carried, or has just made
\* it; one that ends carries nothing.
LEMMA CarriesStep ==
  ASSUME TypeOK, [Next]_vars, NEW p \in Handler, NEW x \in Token, Carries(p, x)'
  PROVE  Carries(p, x) \/ (Mint(p) /\ x = clock)
<1>1. ASSUME NEW q \in Handler, NEW t \in Token \union {NoToken}, NEW s \in {"mint", "check", "delete"},
             Begin(q, s, t)
      PROVE  Carries(p, x)
  <2>1. req'[q].stage = s /\ (q # p => req'[p] = req[p])
    BY <1>1, Begun DEF Stages
  <2> QED
    BY <2>1 DEF Carries, Answering, InStage
<1>2. ASSUME NEW q \in Handler, Check(q) PROVE Carries(p, x)
  <2>1. req[q] # Idle
    BY <1>2 DEF Check, CheckPasses, InStage
  <2>2. req'[q].stage = "mint" /\ (q # p => req'[p] = req[p])
    BY <1>2, <2>1, Gone DEF Check, Stages
  <2> QED
    BY <2>2 DEF Carries, Answering, InStage
<1>3. ASSUME NEW q \in Handler, Mint(q) PROVE Carries(p, x) \/ (Mint(p) /\ x = clock)
  <2>1. req'[q].new = clock /\ (q # p => req'[p] = req[p])
    BY <1>3, Minted
  <2> QED
    BY <1>3, <2>1 DEF Carries, Answering, InStage
<1>4. ASSUME NEW q \in Handler, Save(q) PROVE Carries(p, x)
  <2>1. req[q] # Idle
    BY <1>4 DEF Save, Answering, InStage
  <2>2. req'[q].new = req[q].new /\ (q # p => req'[p] = req[p])
    BY <1>4, <2>1, Gone DEF Save, Stages
  <2> QED
    BY <1>4, <2>2 DEF Carries, Save, Answering, InStage
<1>5. ASSUME NEW q \in Handler, End(q) PROVE Carries(p, x)
  <2>1. req'[q] = Idle /\ (q # p => req'[p] = req[p])
    BY <1>5, Ended
  <2> QED
    BY <2>1 DEF Carries, Answering, InStage
<1>6. ASSUME UNCHANGED req PROVE Carries(p, x)
  BY <1>6 DEF Carries, Answering, InStage
<1> QED
  BY <1>1, <1>2, <1>3, <1>4, <1>5, <1>6
  DEF Next, vars, Login, Logout, RefreshToken, Answer, Delete, Finish, Tick

\* A token that was made once is carried by one request, and exchanged once.
LEMMA OnceStep == TypeOK /\ TokensInv /\ OnceInv /\ [Next]_vars => OnceInv'
<1> SUFFICES ASSUME TypeOK, TokensInv, OnceInv, [Next]_vars,
                    NEW x \in Token, x \notin twins'
             PROVE  /\ \A p, q \in Handler : Carries(p, x)' /\ Carries(q, x)' => p = q
                    /\ x \in known' => \A p \in Handler : ~Carries(p, x)'
                    /\ x \in spent' => session' = NoSession \/ session'.token # x
  BY DEF OnceInv
<1>0. x \notin twins
  BY DEF Next, vars, Login, Logout, RefreshToken, Check, Mint, Save, Answer, Delete, Finish, Tick
<1>1. /\ \A p, q \in Handler : Carries(p, x) /\ Carries(q, x) => p = q
      /\ x \in known => \A p \in Handler : ~Carries(p, x)
      /\ x \in spent => session = NoSession \/ session.token # x
  BY <1>0 DEF OnceInv
<1>2. \A p \in Handler : Carries(p, x) => x \in minted
  BY DEF Carries, Answering, InStage, TokensInv
<1>3. ASSUME NEW r \in Handler, Mint(r), x = clock
      PROVE  x \notin known' /\ \A p \in Handler : ~Carries(p, x)
  <2>1. x \notin minted
    BY <1>3 DEF Mint
  <2> QED
    BY <1>2, <1>3, <2>1 DEF Mint, TokensInv
<1>4. ASSUME NEW p \in Handler, NEW q \in Handler, Mint(p), Mint(q) PROVE p = q
  <2>1. req'[p].stage = "save" /\ (q # p => req'[p] = req[p])
    BY <1>4, Minted
  <2> QED
    BY <1>4, <2>1 DEF Mint, InStage
<1>5. \A p, q \in Handler : Carries(p, x)' /\ Carries(q, x)' => p = q
  BY <1>1, <1>3, <1>4, CarriesStep
<1>6. ASSUME x \in known' PROVE \A p \in Handler : ~Carries(p, x)'
  <2>1. CASE x \in known
    BY <1>1, <1>3, <1>6, <2>1, CarriesStep
  <2>2. CASE x \notin known
    <3>1. PICK r \in Handler : Answer(r)
      BY <1>6, <2>2
      DEF Next, vars, Login, Logout, RefreshToken, Check, Mint, Save, Answer, Delete, Finish, Tick
    <3>2. Carries(r, x)
      BY <1>6, <2>2, <3>1 DEF Answer, Carries
    <3>3. req'[r] = Idle /\ \A q \in Handler : q # r => req'[q] = req[q]
      BY <3>1, Ended DEF Answer
    <3>4. \A q \in Handler : q # r => (Carries(q, x)' <=> Carries(q, x))
      BY <3>3 DEF Carries, Answering, InStage
    <3>5. ~Carries(r, x)'
      BY <3>3 DEF Carries, Answering, InStage
    <3> QED
      BY <1>1, <3>2, <3>4, <3>5
  <2> QED
    BY <2>1, <2>2
<1>7. ASSUME x \in spent' PROVE session' = NoSession \/ session'.token # x
  <2>1. ASSUME NEW p \in Handler, Save(p) PROVE session'.token # x
    <3>0. req[p] # Idle
      BY <2>1 DEF Save, Answering, InStage
    <3>1. x \in known
      BY <1>7, <2>1, <3>0 DEF Save, TokensInv
    <3>2. ~Carries(p, x)
      BY <1>1, <3>1
    <3> QED
      BY <2>1, <3>2 DEF Save, Carries
  <2>2. ASSUME NEW p \in Handler, Delete(p) PROVE session' = NoSession
    BY <2>2 DEF Delete
  <2>3. CASE UNCHANGED <<session, spent>>
    BY <1>1, <1>7, <2>3
  <2> QED
    BY <2>1, <2>2, <2>3
    DEF Next, vars, Login, Logout, RefreshToken, Check, Mint, Answer, Finish, Tick
<1> QED
  BY <1>5, <1>6, <1>7

\* Only Check and Login begin what may write the session.
LEMMA EntitledStep ==
  ASSUME TypeOK, [Next]_vars, NEW p \in Handler, Entitled(p)'
  PROVE  Entitled(p) \/ Login(p) \/ Check(p)
<1>1. ASSUME NEW q \in Handler, NEW t \in Token \union {NoToken}, NEW s \in {"check", "delete"},
             Begin(q, s, t)
      PROVE  Entitled(p)
  <2>1. req'[q].stage = s /\ (q # p => req'[p] = req[p])
    BY <1>1, Begun DEF Stages
  <2> QED
    BY <2>1 DEF Entitled, Answering, InStage
<1>2. ASSUME NEW q \in Handler, Login(q) PROVE Entitled(p) \/ Login(p)
  <2>1. q # p => req'[p] = req[p]
    BY <1>2, Begun DEF Login, Stages
  <2> QED
    BY <1>2, <2>1 DEF Entitled, Answering, InStage
<1>3. ASSUME NEW q \in Handler, Check(q) PROVE Entitled(p) \/ Check(p)
  <2>1. req[q] # Idle
    BY <1>3 DEF Check, CheckPasses, InStage
  <2>2. q # p => req'[p] = req[p]
    BY <1>3, <2>1, Gone DEF Check, Stages
  <2> QED
    BY <1>3, <2>2 DEF Entitled, Answering, InStage
<1>4. ASSUME NEW q \in Handler, Mint(q) PROVE Entitled(p)
  <2>1. q # p => req'[p] = req[p]
    BY <1>4, Minted
  <2> QED
    BY <1>4, <2>1 DEF Mint, Entitled, Answering, InStage
<1>5. ASSUME NEW q \in Handler, Save(q) PROVE Entitled(p)
  <2>1. req[q] # Idle
    BY <1>5 DEF Save, Answering, InStage
  <2>2. q # p => req'[p] = req[p]
    BY <1>5, <2>1, Gone DEF Save, Stages
  <2> QED
    BY <1>5, <2>2 DEF Save, Entitled, Answering, InStage
<1>6. ASSUME NEW q \in Handler, End(q) PROVE Entitled(p)
  <2>1. req'[q] = Idle /\ (q # p => req'[p] = req[p])
    BY <1>6, Ended
  <2> QED
    BY <2>1 DEF Entitled, Answering, InStage
<1>7. ASSUME UNCHANGED req PROVE Entitled(p)
  BY <1>7 DEF Entitled, Answering, InStage
<1> QED
  BY <1>1, <1>2, <1>3, <1>4, <1>5, <1>6, <1>7
  DEF Next, vars, Logout, RefreshToken, Answer, Delete, Finish, Tick

\* After a logout only the requests that it cut can write the session.
LEMMA AwayStep == TypeOK /\ AwayInv /\ [Next]_vars => AwayInv'
<1> SUFFICES ASSUME TypeOK, AwayInv, [Next]_vars, away', ~revived'
             PROVE  /\ session' = NoSession
                    /\ \A p \in Handler : Entitled(p)' => p \in cut'
  BY DEF AwayInv
<1>1. ASSUME NEW r \in Handler, Delete(r)
      PROVE  /\ session' = NoSession
             /\ \A p \in Handler : Entitled(p)' => p \in cut'
  BY <1>1 DEF Delete, Entitled, Answering, InStage
<1>2. CASE \A r \in Handler : ~Delete(r)
  <2>1. away /\ ~revived
    BY <1>2 DEF TypeOK, Next, vars, Login, Logout, RefreshToken, Check, Mint, Save, Answer, Finish, Tick
  <2>2. session = NoSession /\ \A p \in Handler : Entitled(p) => p \in cut
    BY <2>1 DEF AwayInv
  <2>3. \A r \in Handler : ~Login(r) /\ ~Check(r)
    BY <2>2 DEF Login, Check, CheckPasses, Stored
  <2>4. \A r \in Handler : ~Save(r)
    <3>1. \A r \in Handler : Save(r) => r \in cut
      BY <2>2 DEF Save, Entitled, Answering
    <3>2. \A r \in Handler : Save(r) /\ r \in cut => revived'
      BY Zenon DEF Save
    <3> QED
      BY <3>1, <3>2
  <2>5. session' = NoSession
    BY <1>2, <2>2, <2>3, <2>4 DEF Next, vars, Logout, RefreshToken, Mint, Answer, Finish, Tick
  <2>6. ASSUME NEW p \in Handler, Entitled(p)' PROVE p \in cut'
    <3>1. p \in cut
      BY <2>2, <2>3, <2>6, EntitledStep
    <3>2. ASSUME NEW r \in Handler, End(r) PROVE p \in cut'
      <4>1. req'[r] = Idle
        BY <3>2, Ended
      <4>2. p # r
        BY <2>6, <4>1 DEF Entitled, Answering, InStage
      <4> QED
        BY <3>1, <3>2, <4>2 DEF End
    <3>3. CASE UNCHANGED cut
      BY <3>1, <3>3
    <3> QED
      BY <1>2, <2>3, <2>4, <3>2, <3>3 DEF Next, vars, Logout, RefreshToken, Mint, Answer, Finish, Tick
  <2> QED
    BY <2>5, <2>6
<1> QED
  BY <1>1, <1>2

\* Only Save begins to answer.
LEMMA AnsweringStep ==
  ASSUME TypeOK, [Next]_vars, NEW p \in Handler, Answering(p)'
  PROVE  Save(p) \/ (Answering(p) /\ req'[p] = req[p])
<1>1. ASSUME NEW q \in Handler, NEW t \in Token \union {NoToken},
             NEW s \in {"mint", "check", "delete"}, Begin(q, s, t)
      PROVE  Answering(p) /\ req'[p] = req[p]
  <2>1. req'[q].stage = s /\ (q # p => req'[p] = req[p])
    BY <1>1, Begun DEF Stages
  <2> QED
    BY <2>1 DEF Answering, InStage
<1>2. ASSUME NEW q \in Handler, Check(q) PROVE Answering(p) /\ req'[p] = req[p]
  <2>1. req[q] # Idle
    BY <1>2 DEF Check, CheckPasses, InStage
  <2>2. req'[q].stage = "mint" /\ (q # p => req'[p] = req[p])
    BY <1>2, <2>1, Gone DEF Check, Stages
  <2> QED
    BY <2>2 DEF Answering, InStage
<1>3. ASSUME NEW q \in Handler, Mint(q) PROVE Answering(p) /\ req'[p] = req[p]
  <2>1. req'[q].stage = "save" /\ (q # p => req'[p] = req[p])
    BY <1>3, Minted
  <2> QED
    BY <2>1 DEF Answering, InStage
<1>4. ASSUME NEW q \in Handler, Save(q) PROVE Save(p) \/ (Answering(p) /\ req'[p] = req[p])
  <2>1. req[q] # Idle
    BY <1>4 DEF Save, Answering, InStage
  <2>2. q # p => req'[p] = req[p]
    BY <1>4, <2>1, Gone DEF Save, Stages
  <2> QED
    BY <1>4, <2>2 DEF Answering, InStage
<1>5. ASSUME NEW q \in Handler, End(q) PROVE Answering(p) /\ req'[p] = req[p]
  <2>1. req'[q] = Idle /\ (q # p => req'[p] = req[p])
    BY <1>5, Ended
  <2> QED
    BY <2>1 DEF Answering, InStage
<1>6. ASSUME UNCHANGED req PROVE Answering(p) /\ req'[p] = req[p]
  BY <1>6 DEF Answering, InStage
<1> QED
  BY <1>1, <1>2, <1>3, <1>4, <1>5, <1>6
  DEF Next, vars, Login, Logout, RefreshToken, Answer, Delete, Finish, Tick

\* Save makes p the one that answers, with the token of the session.
LEMMA SaveAnswers ==
  ASSUME TypeOK, NEW p \in Handler, Save(p)
  PROVE  Answering(p)' /\ req'[p].new = req[p].new
<1>1. req[p] # Idle
  BY DEF Save, Answering, InStage
<1> QED
  BY <1>1, Gone DEF Save, Stages, Answering, InStage

\* While nothing was disturbed the one that answers is the one that wrote the session.
LEMMA OwnerStep == TypeOK /\ OwnerInv /\ [Next]_vars => OwnerInv'
<1> SUFFICES ASSUME TypeOK, OwnerInv, [Next]_vars, ~disturbed'
             PROVE  /\ \A p, q \in Handler : Answering(p)' /\ Answering(q)' => p = q
                    /\ \A p \in Handler : session' # NoSession /\ Answering(p)'
                         => session'.token = req'[p].new
  BY DEF OwnerInv
<1>1. ASSUME NEW r \in Handler, Save(r)
      PROVE  /\ \A p, q \in Handler : Answering(p)' /\ Answering(q)' => p = q
             /\ \A p \in Handler : session' # NoSession /\ Answering(p)'
                  => session'.token = req'[p].new
  <2>1. \A q \in Handler : q # r => ~Answering(q)
    BY <1>1 DEF Save
  <2>2. req'[r].new = req[r].new /\ session'.token = req[r].new
    BY <1>1, SaveAnswers DEF Save
  <2>3. \A q \in Handler : q # r => ~Answering(q)'
    <3>1. req[r] # Idle
      BY <1>1 DEF Save, Answering, InStage
    <3>2. \A q \in Handler : q # r => req'[q] = req[q]
      BY <1>1, <3>1, Gone DEF Save, Stages
    <3> QED
      BY <2>1, <3>2 DEF Answering, InStage
  <2> QED
    BY <2>2, <2>3
<1>2. CASE \A r \in Handler : ~Save(r)
  <2>1. ~disturbed
    BY <1>2 DEF Next, vars, Login, Logout, RefreshToken, Check, Mint, Answer, Delete, Finish, Tick
  <2>2. session' = session \/ session' = NoSession
    BY <1>2 DEF Next, vars, Login, Logout, RefreshToken, Check, Mint, Answer, Delete, Finish, Tick
  <2>3. \A p \in Handler : Answering(p)' => Answering(p) /\ req'[p] = req[p]
    BY <1>2, AnsweringStep
  <2> QED
    BY <2>1, <2>2, <2>3 DEF OwnerInv
<1> QED
  BY <1>1, <1>2

-----------------------------------------------------------------------------
\* The first state has the types, and no token.
LEMMA InitTypes == Init => TypeOK /\ TokensInv
<1> SUFFICES ASSUME Init PROVE TypeOK /\ TokensInv
  OBVIOUS
<1>1. away \in BOOLEAN /\ revived \in BOOLEAN /\ disturbed \in BOOLEAN
  BY DEF Init
<1>2. req \in [Handler -> Request \union {Idle}] /\ clock \in 0..MaxTime
  BY SessionsAssumption DEF Init
<1>3. TypeOK
  BY <1>1, <1>2 DEF Init, TypeOK
<1>4. TokensInv
  BY DEF Init, TokensInv
<1> QED
  BY <1>3, <1>4

\* Every variable keeps its type.
THEOREM TypeCorrect == Spec => [](TypeOK /\ TokensInv)
<1>1. Init => TypeOK /\ TokensInv
  BY InitTypes
<1>2. TypeOK /\ TokensInv /\ [Next]_vars => (TypeOK /\ TokensInv)'
  BY TypeStep, TokensStep
<1> QED
  BY <1>1, <1>2, PTL DEF Spec

\* What relates requests, the session and the tokens.
THEOREM SessionsCorrect == Spec => [](TypeOK /\ SessionInv)
<1>1. Init => TypeOK /\ SessionInv
  <2>1. Init => OnceInv /\ AwayInv /\ OwnerInv
    BY DEF Init, OnceInv, AwayInv, OwnerInv, Carries, Answering, InStage, Entitled
  <2> QED
    BY <2>1, InitTypes DEF SessionInv
<1>2. TypeOK /\ SessionInv /\ [Next]_vars => (TypeOK /\ SessionInv)'
  BY TypeStep, TokensStep, OnceStep, AwayStep, OwnerStep DEF SessionInv
<1> QED
  BY <1>1, <1>2, PTL DEF Spec

\* service.go:133-151.  No token passes the check again once it was exchanged, unless it
\* was made twice in one second.
THEOREM ExchangedOnce == Spec => []SpentIsRefused
<1>1. Init => SpentIsRefused
  BY DEF Init, SpentIsRefused
<1>2. TypeOK /\ SessionInv /\ [Next]_vars /\ SpentIsRefused => SpentIsRefused'
  <2> SUFFICES ASSUME TypeOK, SessionInv, [Next]_vars, SpentIsRefused PROVE SpentIsRefused'
    OBVIOUS
  <2>1. twins \subseteq twins'
    BY DEF Next, vars, Login, Logout, RefreshToken, Check, Mint, Save, Answer, Delete, Finish, Tick
  <2>2. ASSUME NEW p \in Handler, Check(p) PROVE reused' \subseteq twins
    <3>1. /\ session # NoSession /\ session.token = req[p].old /\ req[p].old \in Token
      BY <2>2 DEF Check, CheckPasses, Stored, TypeOK, Session
    <3>2. req[p].old \in spent => req[p].old \in twins
      BY <3>1 DEF SessionInv, OnceInv
    <3> QED
      BY <2>2, <3>2 DEF Check, SpentIsRefused
  <2>3. CASE UNCHANGED reused
    BY <2>1, <2>3 DEF SpentIsRefused
  <2> QED
    BY <2>1, <2>2, <2>3
    DEF SpentIsRefused, Next, vars, Login, Logout, RefreshToken, Mint, Save, Answer, Delete, Finish, Tick
<1> QED
  BY <1>1, <1>2, SessionsCorrect, PTL DEF Spec

\* service.go:118 against :151.  A logout ends the session until somebody logs in, unless
\* it overtook a request that had passed its check.
THEOREM LogoutsStand == Spec => []LogoutStands
<1>1. TypeOK /\ SessionInv => LogoutStands
  BY DEF SessionInv, AwayInv, LogoutStands
<1> QED
  BY <1>1, SessionsCorrect, PTL

\* service.go:103-109 and :151-157.  The client holds the token of the session unless
\* requests crossed or an answer was lost.
THEOREM ClientsGoOn == Spec => []NotLockedOut
<1>1. Init => NotLockedOut
  BY DEF Init, NotLockedOut
<1>2. TypeOK /\ SessionInv /\ [Next]_vars /\ NotLockedOut => NotLockedOut'
  <2> SUFFICES ASSUME TypeOK, SessionInv, [Next]_vars, NotLockedOut,
                      session' # NoSession, ~disturbed', \A p \in Handler : ~Answering(p)'
               PROVE  session'.token = mine'
    BY DEF NotLockedOut
  <2>1. \A r \in Handler : ~Save(r)
    BY SaveAnswers
  <2>2. ~disturbed
    BY <2>1 DEF Next, vars, Login, Logout, RefreshToken, Check, Mint, Answer, Delete, Finish, Tick
  <2>3. session' = session
    BY <2>1 DEF Next, vars, Login, Logout, RefreshToken, Check, Mint, Answer, Delete, Finish, Tick
  <2>4. ASSUME NEW p \in Handler, Answer(p) PROVE session'.token = mine'
    <3>1. session.token = req[p].new
      BY <2>2, <2>3, <2>4 DEF SessionInv, OwnerInv, Answer
    <3> QED
      BY <2>3, <2>4, <3>1 DEF Answer
  <2>5. CASE \A p \in Handler : ~Answer(p)
    <3>1. mine' = mine
      BY <2>1, <2>5 DEF Next, vars, Login, Logout, RefreshToken, Check, Mint, Delete, Finish, Tick
    <3>2. ASSUME NEW p \in Handler, Answering(p) PROVE FALSE
      <4>1. ~Finish(p)
        BY <2>2, <3>2 DEF Finish
      <4>2. req'[p] = req[p]
        <5>1. ASSUME NEW q \in Handler, NEW t \in Token \union {NoToken},
                     NEW s \in {"mint", "check", "delete"}, req[q] = Idle, Begin(q, s, t)
              PROVE  req'[p] = req[p]
          <6>1. q # p
            BY <3>2, <5>1 DEF Answering, InStage
          <6> QED
            BY <5>1, <6>1, Begun DEF Stages
        <5>2. ASSUME NEW q \in Handler, Check(q) PROVE req'[p] = req[p]
          <6>1. q # p /\ req[q] # Idle
            BY <3>2, <5>2 DEF Check, CheckPasses, Answering, InStage
          <6> QED
            BY <5>2, <6>1, Gone DEF Check, Stages
        <5>3. ASSUME NEW q \in Handler, Mint(q) PROVE req'[p] = req[p]
          <6>1. q # p
            BY <3>2, <5>3 DEF Mint, Answering, InStage
          <6> QED
            BY <5>3, <6>1, Minted
        <5>4. ASSUME NEW q \in Handler, Finish(q) PROVE req'[p] = req[p]
          BY <4>1, <5>4, Ended DEF Finish
        <5> QED
          BY <2>1, <2>5, <5>1, <5>2, <5>3, <5>4
          DEF Next, vars, Login, Logout, RefreshToken, Delete, Tick
      <4> QED
        BY <3>2, <4>2 DEF Answering, InStage
    <3> QED
      BY <2>2, <2>3, <3>1, <3>2 DEF NotLockedOut
  <2> QED
    BY <2>4, <2>5
<1> QED
  BY <1>1, <1>2, SessionsCorrect, PTL DEF Spec

=============================================================================
