-------------------------- MODULE ApiTokensProofs --------------------------
(***************************************************************************)
(* Proofs about ApiTokens for every set of users, tokens and requests, and *)
(* for every lifetime, wrap-around point and leeway.                       *)
(***************************************************************************)
EXTENDS ApiTokens, TLAPS

(* What a request in flight knows of its user, and of the time.            *)
Sound(q) ==
    /\ q.barred => q.user \notin active
    /\ q.pc \in {"use_update", "create", "revoke", "revoke_update"} => ~q.barred
    /\ ~q.stale
    /\ q.pc = "revoke_update" => q.revokedAt \in 1 .. clock
    /\ q.pc = "use_update" => q.now <= clock

AuthInv ==
    /\ TypeOK
    /\ \A r \in Requests : Sound(req[r])
    /\ \A t \in Tokens : revokedAt[t] <= clock /\ lastUsedAt[t] <= clock
    /\ \A j \in jwts : j.exp <= j.iat + ttl

(* What is true of a token as long as no revocation overlaps another       *)
(* request for it: who revokes it is alone, who uses it has it unrevoked,  *)
(* and the time of a revocation is not before the last use.                *)
Orderly(t) ==
    /\ \A r, s \in Holders(t) : req[r].pc = "revoke_update" => s = r
    /\ \A r \in Holders(t) :
          /\ req[r].pc # "revoke_update" => revokedAt[t] = 0
          /\ req[r].pc = "revoke_update" =>
                /\ revokedAt[t] # 0 => req[r].revokedAt = revokedAt[t]
                /\ lastUsedAt[t] <= req[r].revokedAt
    /\ revokedAt[t] # 0 => lastUsedAt[t] <= revokedAt[t]

OrderInv == AuthInv /\ \A t \in Tokens \ raced : Orderly(t)

-----------------------------------------------------------------------------
(* Times and requests.                                                     *)

(* A sum that wraps around comes out smaller, never larger.                *)
LEMMA WrapsDown ==
  ASSUME NEW n \in Nat
  PROVE  n % Wrap \in 0 .. Wrap - 1 /\ n % Wrap <= n
  BY ApiTokensAssumption

LEMMA IdleRequest ==
  /\ Idle \in Request /\ Idle.pc = "idle" /\ Idle.barred = FALSE /\ Idle.stale = FALSE
  /\ AnyUser \in Users
  BY ApiTokensAssumption DEF Idle, Request, Times, AnyUser, AnyToken

LEMMA RequestFields ==
  ASSUME NEW q \in Request
  PROVE  /\ q.user \in Users /\ q.token \in Tokens /\ q.revokedAt \in Times /\ q.now \in Times
         /\ q.barred \in BOOLEAN /\ q.stale \in BOOLEAN
  BY DEF Request

LEMMA CurrentUserStep ==
  ASSUME AuthInv, NEW r \in Requests, CurrentUser(r), ~req[r].barred
  PROVE  \E q \in Request : /\ req' = [req EXCEPT ![r] = q] /\ Sound(q)
                            /\ q.pc \in {"create", "revoke"}
  <1>1. PICK handler \in {"create", "revoke"} :
          req' = [req EXCEPT ![r] = [Idle EXCEPT !.pc = handler, !.user = req[r].user,
                                                 !.barred = req[r].barred,
                                                 !.stale = req[r].stale]]
    BY DEF CurrentUser
  <1> DEFINE q == [Idle EXCEPT !.pc = handler, !.user = req[r].user,
                               !.barred = req[r].barred, !.stale = req[r].stale]
  <1>2. req[r] \in Request /\ Sound(req[r])
    BY DEF AuthInv, TypeOK
  <1>3. /\ q \in Request /\ q.pc = handler /\ q.user = req[r].user
        /\ q.barred = req[r].barred /\ q.stale = req[r].stale
    BY <1>2, IdleRequest DEF Request
  <1> HIDE DEF q
  <1>4. Sound(q)
    BY <1>2, <1>3 DEF Sound
  <1> QED BY <1>1, <1>3, <1>4 DEF q

Holding == {"revoke_update", "use_user", "use_update"}

(* The five ways in which a handler touches API tokens, q being the        *)
(* request it leaves behind: not at all, except that a row may be created  *)
(* and the owner of the token found active ...                             *)
Quiet(r, q) ==
    /\ \/ q.pc \notin Holding
       \/ q.pc = "use_update" /\ req[r].pc = "use_user" /\ q.token = req[r].token
    /\ issued \subseteq issued' /\ issued' \subseteq Tokens /\ owner' \in [Tokens -> Users]
    /\ UNCHANGED <<revokedAt, lastUsedAt, raced>>

(* ... by settling the time of a revocation, and by writing it ...         *)
RevokeClaim(q) ==
    /\ q.pc = "revoke_update" /\ q.token \in issued /\ q.revokedAt = RevokedAt(q.token)
    /\ Race(q.token, Holders(q.token))
    /\ UNCHANGED <<issued, columns>>

RevokeWrite(r, q) ==
    /\ q.pc \notin Holding /\ req[r].pc = "revoke_update"
    /\ revokedAt' = [revokedAt EXCEPT ![req[r].token] = req[r].revokedAt]
    /\ UNCHANGED <<issued, owner, lastUsedAt, raced>>

(* ... by finding a token usable, and by recording its use.                *)
UseClaim(q) ==
    /\ q.pc = "use_user" /\ TokenUsable(q.token)
    /\ Race(q.token, {s \in Holders(q.token) : req[s].pc = "revoke_update"})
    /\ UNCHANGED <<issued, columns>>

UseWrite(r, q) ==
    /\ q.pc \notin Holding /\ req[r].pc = "use_update"
    /\ lastUsedAt' = [lastUsedAt EXCEPT ![req[r].token] = req[r].now]
    /\ UNCHANGED <<issued, owner, revokedAt, raced>>

Moves(r, q) ==
    Quiet(r, q) \/ RevokeClaim(q) \/ RevokeWrite(r, q) \/ UseClaim(q) \/ UseWrite(r, q)

LEMMA HandleStep ==
  ASSUME AuthInv, NEW r \in Requests, Handle(r)
  PROVE  /\ UNCHANGED <<active, access, clock>>
         /\ \E q \in Request : req' = [req EXCEPT ![r] = q] /\ Sound(q) /\ Moves(r, q)
  <1>1. TypeOK /\ req[r] \in Request /\ Sound(req[r])
    BY DEF AuthInv, TypeOK
  <1>2. ASSUME Respond(r), UNCHANGED <<active, issued, columns, access, clock, raced>>
        PROVE  /\ UNCHANGED <<active, access, clock>>
               /\ \E q \in Request : req' = [req EXCEPT ![r] = q] /\ Sound(q) /\ Moves(r, q)
    <2>1. Sound(Idle) /\ Quiet(r, Idle)
      BY <1>1, <1>2, IdleRequest DEF Sound, Quiet, Holding, columns, TypeOK
    <2> QED BY <1>2, <2>1, IdleRequest DEF Respond, Moves
  <1>3. ASSUME NEW j \in jwts, UseAccess(r, j)
        PROVE  /\ UNCHANGED <<active, access, clock>>
               /\ \E q \in Request : req' = [req EXCEPT ![r] = q] /\ Sound(q) /\ Moves(r, q)
    <2>1. j.user \in Users /\ j.iat \in Nat /\ j.exp \in Nat /\ ttl \in Nat /\ clock \in Nat
      BY <1>1, ApiTokensAssumption DEF TypeOK, AccessJwt, Times
    <2>2. ~(j.exp + Leeway < clock) /\ j.exp <= j.iat + ttl
      BY <1>3 DEF UseAccess, VerifyAccessToken, AuthInv
    <2>3. ~(j.iat + ttl + Leeway < clock)
      BY <2>1, <2>2, ApiTokensAssumption
    <2> DEFINE out == j.user \notin active
               late == j.iat + ttl + Leeway < clock
               q == [Idle EXCEPT !.pc = "jwt_user", !.user = j.user, !.barred = out, !.stale = late]
    <2>4. req' = [req EXCEPT ![r] = q] /\ UNCHANGED <<active, issued, columns, access, clock, raced>>
      BY <1>3 DEF UseAccess, Begin
    <2>5. out \in BOOLEAN /\ late = FALSE /\ (out => j.user \notin active)
      BY <2>3
    <2> HIDE DEF out, late
    <2>6. /\ q \in Request /\ q.pc = "jwt_user" /\ q.user = j.user
          /\ q.barred = out /\ q.stale = late
      BY <2>1, <2>5, IdleRequest DEF Request
    <2> HIDE DEF q
    <2>7. Sound(q)
      BY <2>6, <2>5 DEF Sound
    <2>8. Moves(r, q)
      BY <1>1, <2>6, <2>4 DEF Moves, Quiet, Holding, columns, TypeOK
    <2> QED BY <2>6, <2>4, <2>7, <2>8
  <1>4. CASE JwtUser(r)
    <2>1. CASE OwnerAllowed(req[r].user)
      <3>1. ~req[r].barred
        BY <1>1, <2>1 DEF OwnerAllowed, Sound
      <3>2. PICK q \in Request : /\ req' = [req EXCEPT ![r] = q] /\ Sound(q)
                                 /\ q.pc \in {"create", "revoke"}
        BY <1>4, <2>1, <3>1, CurrentUserStep DEF JwtUser
      <3>3. Moves(r, q)
        BY <1>1, <1>4, <3>2 DEF JwtUser, Moves, Quiet, Holding, columns, TypeOK
      <3> QED BY <1>4, <3>2, <3>3 DEF JwtUser
    <2>2. CASE ~OwnerAllowed(req[r].user)
      BY <1>2, <1>4, <2>2 DEF JwtUser
    <2> QED BY <2>1, <2>2
  <1>5. ASSUME NEW t \in Tokens, CreateApiToken(r, t)
        PROVE  /\ UNCHANGED <<active, access, clock>>
               /\ \E q \in Request : req' = [req EXCEPT ![r] = q] /\ Sound(q) /\ Moves(r, q)
    <2>1. Sound(Idle) /\ Quiet(r, Idle)
      <3>1. owner' \in [Tokens -> Users]
        BY <1>1, <1>5, RequestFields DEF CreateApiToken, TypeOK
      <3> QED BY <1>1, <1>5, <3>1, IdleRequest DEF Sound, Quiet, Holding, CreateApiToken, TypeOK
    <2> QED BY <1>5, <2>1, IdleRequest DEF CreateApiToken, Respond, Moves
  <1>6. ASSUME NEW t \in Tokens, RevokeRead(r, t)
        PROVE  /\ UNCHANGED <<active, access, clock>>
               /\ \E q \in Request : req' = [req EXCEPT ![r] = q] /\ Sound(q) /\ Moves(r, q)
    <2>1. CASE ~(t \in issued /\ owner[t] = req[r].user)
      BY <1>2, <1>6, <2>1 DEF RevokeRead, columns
    <2>2. CASE t \in issued /\ owner[t] = req[r].user
      <3> DEFINE q == [req[r] EXCEPT !.pc = "revoke_update", !.token = t,
                                     !.revokedAt = RevokedAt(t)]
      <3>1. RevokedAt(t) \in 1 .. clock /\ RevokedAt(t) \in Times
        BY <1>1, ApiTokensAssumption DEF RevokedAt, TypeOK, AuthInv, Times
      <3>2. /\ q \in Request /\ q.pc = "revoke_update" /\ q.token = t
            /\ q.revokedAt = RevokedAt(t) /\ q.user = req[r].user
            /\ q.barred = req[r].barred /\ q.stale = req[r].stale
        BY <1>1, <3>1 DEF Request
      <3>3. req' = [req EXCEPT ![r] = q]
        BY <1>1, <1>6, <2>2 DEF RevokeRead, TypeOK, Request
      <3> HIDE DEF q
      <3>4. Sound(q)
        BY <1>1, <1>6, <3>1, <3>2 DEF Sound, RevokeRead
      <3>5. RevokeClaim(q)
        BY <1>6, <2>2, <3>2 DEF RevokeClaim, RevokeRead
      <3> QED BY <1>6, <3>2, <3>3, <3>4, <3>5 DEF RevokeRead, Moves
    <2> QED BY <2>1, <2>2
  <1>7. CASE RevokeUpdate(r)
    <2>1. Sound(Idle) /\ RevokeWrite(r, Idle)
      BY <1>7, IdleRequest DEF Sound, RevokeWrite, Holding, RevokeUpdate
    <2> QED BY <1>7, <2>1, IdleRequest DEF RevokeUpdate, Respond, Moves
  <1>8. ASSUME NEW t \in Tokens, UseToken(r, t)
        PROVE  /\ UNCHANGED <<active, access, clock>>
               /\ \E q \in Request : req' = [req EXCEPT ![r] = q] /\ Sound(q) /\ Moves(r, q)
    <2> DEFINE q == [Idle EXCEPT !.pc = "use_user", !.token = t, !.user = owner[t],
                                 !.revokedAt = revokedAt[t], !.barred = owner[t] \notin active]
    <2>1. owner[t] \in Users /\ revokedAt[t] \in Times
      BY <1>1 DEF TypeOK
    <2>2. /\ q \in Request /\ q.pc = "use_user" /\ q.token = t /\ q.user = owner[t]
          /\ q.barred = (owner[t] \notin active) /\ q.stale = FALSE
      BY <2>1, IdleRequest DEF Request
    <2>3. /\ req' = [req EXCEPT ![r] = q] /\ UNCHANGED <<active, issued, columns, access, clock>>
          /\ Race(t, {s \in Holders(t) : req[s].pc = "revoke_update"})
      BY <1>8 DEF UseToken, Begin
    <2> HIDE DEF q
    <2>4. Sound(q)
      BY <2>2 DEF Sound
    <2>5. UseClaim(q)
      BY <1>8, <2>2, <2>3 DEF UseClaim, UseToken
    <2> QED BY <2>2, <2>3, <2>4, <2>5 DEF Moves
  <1>9. CASE UseUser(r)
    <2>1. CASE ~OwnerAllowed(req[r].user)
      BY <1>2, <1>9, <2>1 DEF UseUser
    <2>2. CASE OwnerAllowed(req[r].user)
      <3> DEFINE q == [req[r] EXCEPT !.pc = "use_update", !.now = clock]
      <3>1. /\ q \in Request /\ q.pc = "use_update" /\ q.token = req[r].token /\ q.now = clock
            /\ q.user = req[r].user /\ q.barred = req[r].barred /\ q.stale = req[r].stale
        <4>1. clock \in Times
          BY <1>1 DEF TypeOK, Times
        <4> QED BY <1>1, <4>1 DEF Request
      <3>2. req' = [req EXCEPT ![r] = q] /\ req[r].pc = "use_user"
            /\ UNCHANGED <<active, issued, columns, access, clock, raced>>
        BY <1>1, <1>9, <2>2 DEF UseUser, TypeOK, Request
      <3> HIDE DEF q
      <3>3. clock <= clock
        BY <1>1 DEF TypeOK
      <3>4. Sound(q)
        BY <1>1, <2>2, <3>1, <3>3 DEF Sound, OwnerAllowed
      <3>5. Quiet(r, q)
        BY <1>1, <3>1, <3>2 DEF Quiet, columns, TypeOK
      <3> QED BY <3>1, <3>2, <3>4, <3>5 DEF Moves
    <2> QED BY <2>1, <2>2
  <1>10. CASE UseUpdate(r)
    <2>1. ~req[r].barred
      BY <1>1, <1>10 DEF Sound, UseUpdate
    <2>2. PICK q \in Request : /\ req' = [req EXCEPT ![r] = q] /\ Sound(q)
                               /\ q.pc \in {"create", "revoke"}
      BY <1>10, <2>1, CurrentUserStep DEF UseUpdate
    <2>3. UseWrite(r, q)
      BY <1>10, <2>2 DEF UseWrite, UseUpdate, Holding
    <2> QED BY <1>10, <2>2, <2>3 DEF UseUpdate, Moves
  <1>11. CASE Fail(r)
    BY <1>2, <1>11 DEF Fail
  <1> QED BY <1>3, <1>4, <1>5, <1>6, <1>7, <1>8, <1>9, <1>10, <1>11 DEF Handle

-----------------------------------------------------------------------------
(* What holds however requests interleave.                                 *)

LEMMA AuthInit == Init => AuthInv
  <1> SUFFICES ASSUME Init PROVE AuthInv
    OBVIOUS
  <1>1. TypeOK
    BY ApiTokensAssumption, IdleRequest DEF Init, TypeOK, Times
  <1>2. \A r \in Requests : Sound(req[r])
    BY IdleRequest DEF Init, Sound
  <1> QED BY <1>1, <1>2 DEF Init, AuthInv

LEMMA AuthHandle ==
  ASSUME AuthInv, NEW r \in Requests, Handle(r)
  PROVE  AuthInv'
  <1>1. TypeOK
    BY DEF AuthInv
  <1>2. UNCHANGED <<active, access, clock>>
    BY HandleStep
  <1>3. PICK q \in Request : req' = [req EXCEPT ![r] = q] /\ Sound(q) /\ Moves(r, q)
    BY HandleStep
  <1>4. /\ req' \in [Requests -> Request] /\ req'[r] = q
        /\ \A s \in Requests : s # r => req'[s] = req[s]
    BY <1>1, <1>3 DEF TypeOK
  <1>5. \A s \in Requests : Sound(req[s])'
    BY <1>2, <1>3, <1>4 DEF AuthInv, Sound
  <1>6. req[r] \in Request /\ Sound(req[r])
    BY DEF AuthInv, TypeOK
  <1>7. issued \subseteq issued' /\ issued' \subseteq Tokens /\ owner' \in [Tokens -> Users]
    BY <1>1, <1>3 DEF Moves, Quiet, RevokeClaim, RevokeWrite, UseClaim, UseWrite, columns, TypeOK
  <1>8. raced' \subseteq issued'
    BY <1>1, <1>3, <1>7 DEF Moves, Quiet, RevokeClaim, RevokeWrite, UseClaim, UseWrite, Race,
                            TokenUsable, TypeOK
  <1>9. /\ revokedAt' \in [Tokens -> Times] /\ lastUsedAt' \in [Tokens -> Times]
        /\ \A t \in Tokens : revokedAt'[t] <= clock /\ lastUsedAt'[t] <= clock
    <2>1. CASE UNCHANGED <<revokedAt, lastUsedAt>>
      BY <1>1, <2>1 DEF AuthInv, TypeOK
    <2>2. CASE RevokeWrite(r, q)
      <3>1. req[r].token \in Tokens /\ req[r].revokedAt \in Times /\ req[r].revokedAt <= clock
        BY <1>6, <2>2, RequestFields DEF RevokeWrite, Sound
      <3> QED BY <1>1, <2>2, <3>1 DEF RevokeWrite, AuthInv, TypeOK
    <2>3. CASE UseWrite(r, q)
      <3>1. req[r].token \in Tokens /\ req[r].now \in Times /\ req[r].now <= clock
        BY <1>6, <2>3, RequestFields DEF UseWrite, Sound
      <3> QED BY <1>1, <2>3, <3>1 DEF UseWrite, AuthInv, TypeOK
    <2> QED BY <1>3, <2>1, <2>2, <2>3 DEF Moves, Quiet, RevokeClaim, UseClaim, columns
  <1>10. TypeOK'
    BY <1>1, <1>2, <1>4, <1>7, <1>8, <1>9 DEF TypeOK, access
  <1> QED BY <1>2, <1>5, <1>9, <1>10 DEF AuthInv, access

(* The steps of nobody's request: those leave the tokens alone.            *)
Surroundings ==
    \/ \E u \in Users : SignAccessToken(u) \/ Disable(u) \/ Reactivate(u)
    \/ Tick
    \/ UNCHANGED vars

LEMMA AuthSurroundings ==
  ASSUME AuthInv, Surroundings
  PROVE  /\ AuthInv' /\ UNCHANGED <<issued, columns, raced>>
         /\ \A r \in Requests : /\ req'[r].pc = req[r].pc /\ req'[r].token = req[r].token
                                /\ req'[r].revokedAt = req[r].revokedAt
  <1>1. TypeOK
    BY DEF AuthInv
  <1>2. ASSUME NEW u \in Users, SignAccessToken(u)
        PROVE  AuthInv'
    <2>1. UNCHANGED <<active, issued, columns, ttl, clock, raced, req>>
      BY <1>2 DEF SignAccessToken
    <2>2. clock \in Nat /\ clock \in Times /\ ttl \in Nat
      BY <1>1, ApiTokensAssumption DEF TypeOK, Times
    <2>3. AccessExp(clock) \in 0 .. Wrap - 1 /\ AccessExp(clock) <= clock + ttl
      BY <2>2, WrapsDown DEF AccessExp
    <2>4. jwts' \subseteq AccessJwt /\ \A j \in jwts' : j.exp <= j.iat + ttl
      BY <1>1, <1>2, <2>2, <2>3 DEF SignAccessToken, AccessJwt, AuthInv, TypeOK
    <2>5. TypeOK'
      BY <1>1, <2>1, <2>4 DEF TypeOK, columns
    <2> QED BY <2>1, <2>4, <2>5 DEF AuthInv, Sound, columns
  <1>3. ASSUME NEW u \in Users, Disable(u)
        PROVE  AuthInv'
    BY <1>1, <1>3 DEF Disable, AuthInv, TypeOK, Sound, columns, access
  <1>4. ASSUME NEW u \in Users, Reactivate(u)
        PROVE  /\ AuthInv'
               /\ \A r \in Requests : /\ req'[r].pc = req[r].pc /\ req'[r].token = req[r].token
                                      /\ req'[r].revokedAt = req[r].revokedAt
    <2>1. ASSUME NEW r \in Requests
          PROVE  /\ req'[r] \in Request
                 /\ req'[r].pc = req[r].pc /\ req'[r].token = req[r].token
                 /\ req'[r].revokedAt = req[r].revokedAt /\ req'[r].user = req[r].user
                 /\ req'[r].now = req[r].now /\ req'[r].stale = req[r].stale
                 /\ req'[r].barred = IF req[r].user = u THEN FALSE ELSE req[r].barred
      <3>1. req[r] \in Request
        BY <1>1 DEF TypeOK
      <3>2. CASE req[r].user = u
        <4>1. req'[r] = [req[r] EXCEPT !.barred = FALSE]
          BY <1>4, <3>2 DEF Reactivate
        <4> QED BY <3>1, <3>2, <4>1 DEF Request
      <3>3. CASE req[r].user # u
        BY <1>4, <3>1, <3>3 DEF Reactivate
      <3> QED BY <3>2, <3>3
    <2>2. req' \in [Requests -> Request]
      BY <1>4, <2>1 DEF Reactivate
    <2>3. TypeOK'
      BY <1>1, <1>4, <2>2 DEF Reactivate, TypeOK, columns, access
    <2>4. ASSUME NEW r \in Requests
          PROVE  Sound(req[r])'
      <3>1. Sound(req[r])
        BY DEF AuthInv
      <3>2. active' = active \cup {u} /\ clock' = clock
        BY <1>4 DEF Reactivate
      <3> QED BY <2>1, <3>1, <3>2 DEF Sound
    <2> QED BY <1>4, <2>1, <2>3, <2>4 DEF AuthInv, Reactivate, columns, access
  <1>5. CASE Tick
    <2>1. clock' = clock + 1 /\ clock \in Nat /\ clock' \in 1 .. MaxTime
          /\ UNCHANGED <<active, issued, columns, access, raced, req>>
      BY <1>1, <1>5, ApiTokensAssumption DEF Tick, TypeOK
    <2>2. TypeOK'
      BY <1>1, <2>1 DEF TypeOK, columns, access
    <2>3. ASSUME NEW r \in Requests
          PROVE  Sound(req[r])'
      <3>1. Sound(req[r]) /\ req[r].now \in Nat /\ req[r].revokedAt \in Nat
        BY <1>1, RequestFields DEF AuthInv, TypeOK, Times
      <3> QED BY <2>1, <3>1 DEF Sound
    <2>4. \A t \in Tokens : revokedAt'[t] <= clock' /\ lastUsedAt'[t] <= clock'
      BY <1>1, <2>1 DEF AuthInv, TypeOK, Times, columns
    <2> QED BY <2>1, <2>2, <2>3, <2>4 DEF AuthInv, access
  <1>6. CASE UNCHANGED vars
    BY <1>1, <1>6 DEF vars, AuthInv, TypeOK, Sound, columns, access
  <1> QED BY <1>2, <1>3, <1>4, <1>5, <1>6
          DEF Surroundings, SignAccessToken, Disable, Reactivate, Tick, vars, columns

LEMMA AuthNext ==
  ASSUME AuthInv, [Next]_vars
  PROVE  AuthInv'
  BY AuthHandle, AuthSurroundings DEF Next, Surroundings

(* Every column, and every request in flight, holds values of its kind.    *)
THEOREM TypeCorrect == Spec => []TypeOK
  <1>1. AuthInv => TypeOK
    BY DEF AuthInv
  <1> QED BY <1>1, AuthInit, AuthNext, PTL DEF Spec

(* A request of a user who is disabled all along reaches no handler, by    *)
(* whichever credential: authenticate_bearer reads the status afresh.      *)
THEOREM DisabledRefused == Spec => []DisabledNotAdmitted
  <1>1. AuthInv => DisabledNotAdmitted
    BY DEF AuthInv, Sound, DisabledNotAdmitted, Admitted
  <1> QED BY <1>1, AuthInit, AuthNext, PTL DEF Spec

(* No access JWT admits anyone after its configured lifetime and the       *)
(* leeway, for every lifetime and every width of the integers: a sum that  *)
(* wraps around shortens the life of the JWT (issue_session_tokens).       *)
THEOREM ExpiredRefused == Spec => []ExpiredNotAdmitted
  <1>1. AuthInv => ExpiredNotAdmitted
    BY DEF AuthInv, Sound, ExpiredNotAdmitted, Admitted
  <1> QED BY <1>1, AuthInit, AuthNext, PTL DEF Spec

(* A revoked token stays revoked, also when requests that had found it     *)
(* usable go on to record their use (revoke_api_token,                     *)
(* authenticate_api_token).                                                *)
THEOREM RevocationFinal == Spec => RevokedForGood
  <1>1. ASSUME AuthInv, [Next]_vars
        PROVE  \A t \in Tokens : revokedAt[t] # 0 => revokedAt'[t] # 0
    <2>1. ASSUME NEW r \in Requests, Handle(r)
          PROVE  \A t \in Tokens : revokedAt[t] # 0 => revokedAt'[t] # 0
      <3>1. PICK q \in Request : Moves(r, q)
        BY <1>1, <2>1, HandleStep
      <3>2. TypeOK /\ Sound(req[r])
        BY <1>1 DEF AuthInv
      <3>3. CASE RevokeWrite(r, q)
        <4>1. req[r].revokedAt # 0
          BY <3>2, <3>3 DEF RevokeWrite, Sound
        <4> QED BY <3>2, <3>3, <4>1 DEF RevokeWrite, TypeOK
      <3> QED BY <3>1, <3>3 DEF Moves, Quiet, RevokeClaim, UseClaim, UseWrite, columns
    <2>2. CASE Surroundings
      BY <1>1, <2>2, AuthSurroundings DEF columns
    <2> QED BY <1>1, <2>1, <2>2 DEF Next, Surroundings
  <1> QED BY <1>1, AuthInit, AuthNext, PTL DEF Spec, RevokedForGood

-----------------------------------------------------------------------------
(* What holds of the tokens of which no revocation overlapped another      *)
(* request.                                                                *)

LEMMA OrderInit == Init => OrderInv
  <1> SUFFICES ASSUME Init PROVE OrderInv
    OBVIOUS
  <1>1. \A t \in Tokens : Holders(t) = {} /\ revokedAt[t] = 0
    BY IdleRequest DEF Init, Holders
  <1> QED BY <1>1, AuthInit DEF OrderInv, Orderly

LEMMA OrderHandle ==
  ASSUME OrderInv, NEW r \in Requests, Handle(r)
  PROVE  /\ OrderInv'
         /\ \A t \in Tokens \ raced : revokedAt[t] # 0 => revokedAt'[t] = revokedAt[t]
  <1>1. AuthInv /\ TypeOK /\ AuthInv' /\ req[r] \in Request
    BY AuthHandle DEF OrderInv, AuthInv, TypeOK
  <1>2. PICK q \in Request : req' = [req EXCEPT ![r] = q] /\ Moves(r, q)
    BY <1>1, HandleStep
  <1>3. req'[r] = q /\ \A s \in Requests : s # r => req'[s] = req[s]
    BY <1>1, <1>2 DEF TypeOK
  <1>4. raced \subseteq raced'
    BY <1>2 DEF Moves, Quiet, RevokeClaim, RevokeWrite, UseClaim, UseWrite, Race
  <1>5. ASSUME NEW t \in Tokens, NEW s \in Holders(t)', s # r
        PROVE  s \in Requests /\ s \in Holders(t) /\ req'[s] = req[s]
    BY <1>3, <1>5 DEF Holders
  <1>6. ASSUME NEW t \in Tokens, q.pc \notin Holding \/ q.token # t
        PROVE  \A s \in Holders(t)' : s # r
    BY <1>3, <1>6 DEF Holders, Holding
  <1>7. CASE Quiet(r, q)
    <2>1. UNCHANGED <<revokedAt, lastUsedAt, raced>>
      BY <1>7 DEF Quiet
    <2>2. ASSUME NEW t \in Tokens \ raced
          PROVE  Orderly(t)'
      <3>1. Orderly(t)
        BY <2>2 DEF OrderInv
      <3>2. ASSUME NEW s \in Holders(t)'
            PROVE  /\ s \in Holders(t)
                   /\ \/ req'[s] = req[s]
                      \/ req'[s].pc = "use_update" /\ req[s].pc = "use_user"
        BY <1>3, <1>5, <1>7, <3>2 DEF Quiet, Holders, Holding
      <3> QED BY <2>1, <3>1, <3>2 DEF Orderly
    <2> QED BY <1>1, <2>1, <2>2 DEF OrderInv
  <1>8. CASE RevokeClaim(q)
    <2>1. UNCHANGED <<revokedAt, lastUsedAt>> /\ q.pc = "revoke_update"
      BY <1>8 DEF RevokeClaim, columns
    <2>2. ASSUME NEW t \in Tokens \ raced'
          PROVE  Orderly(t)'
      <3>1. Orderly(t)
        BY <1>4, <2>2 DEF OrderInv
      <3>2. CASE t # q.token
        <4>1. \A s \in Holders(t)' : s \in Holders(t) /\ req'[s] = req[s]
          BY <1>5, <1>6, <3>2
        <4> QED BY <2>1, <3>1, <4>1 DEF Orderly
      <3>3. CASE t = q.token
        <4>1. Holders(t) = {}
          BY <1>8, <2>2, <3>3 DEF RevokeClaim, Race
        <4>2. \A s \in Holders(t)' : s = r
          BY <1>5, <4>1
        <4>3. q.revokedAt = RevokedAt(t)
          BY <1>8, <3>3 DEF RevokeClaim
        <4>4. revokedAt[t] # 0 => q.revokedAt = revokedAt[t]
          BY <4>3 DEF RevokedAt
        <4>5. lastUsedAt[t] <= q.revokedAt
          BY <1>1, <3>1, <4>3 DEF RevokedAt, Orderly, AuthInv
        <4> QED BY <1>3, <2>1, <3>1, <4>2, <4>4, <4>5 DEF Orderly
      <3> QED BY <3>2, <3>3
    <2> QED BY <1>1, <2>1, <2>2 DEF OrderInv
  <1>9. CASE RevokeWrite(r, q)
    <2>1. /\ UNCHANGED <<lastUsedAt, raced>> /\ q.pc \notin Holding /\ req[r].pc = "revoke_update"
          /\ revokedAt' = [revokedAt EXCEPT ![req[r].token] = req[r].revokedAt]
      BY <1>9 DEF RevokeWrite
    <2>2. ASSUME NEW t \in Tokens \ raced
          PROVE  Orderly(t)' /\ (revokedAt[t] # 0 => revokedAt'[t] = revokedAt[t])
      <3>1. Orderly(t)
        BY <2>2 DEF OrderInv
      <3>2. \A s \in Holders(t)' : s # r /\ s \in Holders(t) /\ req'[s] = req[s]
        BY <1>5, <1>6, <2>1
      <3>3. CASE t # req[r].token
        <4>1. revokedAt'[t] = revokedAt[t] /\ lastUsedAt'[t] = lastUsedAt[t]
          BY <1>1, <2>1, <3>3 DEF TypeOK
        <4> QED BY <3>1, <3>2, <4>1 DEF Orderly
      <3>4. CASE t = req[r].token
        <4>1. revokedAt'[t] = req[r].revokedAt
          BY <1>1, <2>1, <3>4 DEF TypeOK
        <4>2. r \in Holders(t)
          BY <2>1, <3>4 DEF Holders
        <4>3. /\ revokedAt[t] # 0 => req[r].revokedAt = revokedAt[t]
              /\ lastUsedAt[t] <= req[r].revokedAt
              /\ \A s \in Holders(t) : s = r
          BY <2>1, <3>1, <4>2 DEF Orderly
        <4>4. Holders(t)' = {}
          BY <3>2, <4>3
        <4> QED BY <2>1, <4>1, <4>3, <4>4 DEF Orderly
      <3> QED BY <3>3, <3>4
    <2> QED BY <1>1, <2>1, <2>2 DEF OrderInv
  <1>10. CASE UseClaim(q)
    <2>1. UNCHANGED <<revokedAt, lastUsedAt>> /\ q.pc = "use_user"
      BY <1>10 DEF UseClaim, columns
    <2>2. ASSUME NEW t \in Tokens \ raced'
          PROVE  Orderly(t)'
      <3>1. Orderly(t)
        BY <1>4, <2>2 DEF OrderInv
      <3>2. CASE t # q.token
        <4>1. \A s \in Holders(t)' : s \in Holders(t) /\ req'[s] = req[s]
          BY <1>5, <1>6, <3>2
        <4> QED BY <2>1, <3>1, <4>1 DEF Orderly
      <3>3. CASE t = q.token
        <4>1. \A s \in Holders(t) : req[s].pc # "revoke_update"
          BY <1>10, <2>2, <3>3 DEF UseClaim, Race
        <4>2. \A s \in Holders(t)' : req'[s].pc # "revoke_update"
          BY <1>3, <1>5, <2>1, <4>1
        <4>3. revokedAt'[t] = 0
          BY <1>10, <2>1, <3>3 DEF UseClaim, TokenUsable
        <4> QED BY <4>2, <4>3 DEF Orderly
      <3> QED BY <3>2, <3>3
    <2> QED BY <1>1, <2>1, <2>2 DEF OrderInv
  <1>11. CASE UseWrite(r, q)
    <2>1. /\ UNCHANGED <<revokedAt, raced>> /\ q.pc \notin Holding /\ req[r].pc = "use_update"
          /\ lastUsedAt' = [lastUsedAt EXCEPT ![req[r].token] = req[r].now]
      BY <1>11 DEF UseWrite
    <2>2. ASSUME NEW t \in Tokens \ raced
          PROVE  Orderly(t)'
      <3>1. Orderly(t)
        BY <2>2 DEF OrderInv
      <3>2. \A s \in Holders(t)' : s # r /\ s \in Holders(t) /\ req'[s] = req[s]
        BY <1>5, <1>6, <2>1
      <3>3. CASE t # req[r].token
        <4>1. revokedAt'[t] = revokedAt[t] /\ lastUsedAt'[t] = lastUsedAt[t]
          BY <1>1, <2>1, <3>3 DEF TypeOK
        <4> QED BY <3>1, <3>2, <4>1 DEF Orderly
      <3>4. CASE t = req[r].token
        <4>1. r \in Holders(t)
          BY <2>1, <3>4 DEF Holders
        <4>2. revokedAt[t] = 0 /\ \A s \in Holders(t) : req[s].pc # "revoke_update"
          BY <2>1, <3>1, <4>1 DEF Orderly
        <4> QED BY <2>1, <3>2, <4>2 DEF Orderly
      <3> QED BY <3>3, <3>4
    <2> QED BY <1>1, <2>1, <2>2 DEF OrderInv
  <1> QED BY <1>2, <1>7, <1>8, <1>9, <1>10, <1>11 DEF Moves

LEMMA OrderNext ==
  ASSUME OrderInv, [Next]_vars
  PROVE  /\ OrderInv'
         /\ \A t \in Tokens \ raced : revokedAt[t] # 0 => revokedAt'[t] = revokedAt[t]
  <1>1. CASE Surroundings
    <2>1. /\ AuthInv' /\ UNCHANGED <<revokedAt, lastUsedAt, raced>>
          /\ \A r \in Requests : /\ req'[r].pc = req[r].pc /\ req'[r].token = req[r].token
                                 /\ req'[r].revokedAt = req[r].revokedAt
      BY <1>1, AuthSurroundings DEF OrderInv, columns
    <2>2. \A t \in Tokens : Holders(t)' = Holders(t) /\ Holders(t) \subseteq Requests
      BY <2>1 DEF Holders
    <2>3. ASSUME NEW t \in Tokens \ raced
          PROVE  Orderly(t)'
      <3>1. Orderly(t)
        BY <2>3 DEF OrderInv
      <3> QED BY <2>1, <2>2, <3>1 DEF Orderly
    <2> QED BY <2>1, <2>3 DEF OrderInv
  <1> QED BY <1>1, OrderHandle DEF Next, Surroundings

(* revoked_at keeps the time of the first revocation, as long as no other  *)
(* request for the token was in flight while it was revoked                *)
(* (revoke_api_token).                                                     *)
THEOREM FirstRevocationKept == Spec => RevocationKept
  BY OrderInit, OrderNext, PTL DEF Spec, RevocationKept

(* No use of a token is recorded after its revocation, unless the two      *)
(* overlapped (authenticate_api_token, revoke_api_token).                  *)
THEOREM UsesBeforeRevocation == Spec => []UsedBeforeRevoked
  <1>1. OrderInv => UsedBeforeRevoked
    BY DEF OrderInv, Orderly, UsedBeforeRevoked
  <1> QED BY <1>1, OrderInit, OrderNext, PTL DEF Spec

=============================================================================
