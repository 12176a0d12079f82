----------------------------- MODULE ApiTokens -----------------------------
(***************************************************************************)
(* The bearer credentials of backend/src/services/auth.rs: access JWTs and *)
(* personal API tokens (authenticate_bearer, authenticate_api_token,       *)
(* create_api_token and revoke_api_token).                                 *)
(*                                                                         *)
(* Only the hash of an API token is stored and the hash is unique, so      *)
(* presenting one is presenting the id of its row.  An access JWT is not   *)
(* stored at all: whoever holds it may present it again.  That the key it  *)
(* was signed with is still found is the subject of JwtKeys.  Requests     *)
(* interleave between database statements.  A timestamp is taken from the  *)
(* clock of the instance when a statement is built and reaches the row     *)
(* when it is executed, after whatever ran in between.                     *)
(***************************************************************************)
EXTENDS Naturals, FiniteSets

CONSTANTS
    Users,
    Tokens,     \* ids of the rows that may ever be created
    Requests,   \* slots for requests in flight at the same time
    AccessTtls, \* the values of jwt_access_token_ttl_seconds
    Wrap,       \* where u64 arithmetic wraps around: 2^64 in the code
    Leeway,     \* the leeway of jsonwebtoken: 60 seconds in the code
    MaxAccess,  \* bound on the access JWTs that are ever signed
    MaxTime     \* bound on the clock

ASSUME ApiTokensAssumption ==
    /\ Users # {} /\ Tokens # {} /\ MaxTime \in Nat \ {0}
    /\ Wrap \in Nat \ {0} /\ AccessTtls \subseteq 0 .. Wrap - 1
    /\ Leeway \in Nat /\ MaxAccess \in Nat

VARIABLES
    active,     \* the users whose status is active
    issued,     \* the rows of user_api_token_records
    owner,      \* user_id of each row
    revokedAt,  \* revoked_at of each row, 0: none
    lastUsedAt, \* last_used_at of each row, 0: none
    ttl,        \* jwt_access_token_ttl_seconds, which never changes
    jwts,       \* the access JWTs that have been signed
    clock,
    raced,      \* history: the tokens of which a revocation and another request overlapped
    req         \* the requests in flight

columns == <<owner, revokedAt, lastUsedAt>>
access == <<ttl, jwts>>
vars == <<active, issued, columns, access, clock, raced, req>>

Times == 0 .. MaxTime
AccessJwt == [user: Users, iat: Times, exp: 0 .. Wrap - 1]

-----------------------------------------------------------------------------
(* Requests.  A request remembers the columns it has read and, for the     *)
(* properties, whether its user has been disabled ever since it began, and *)
(* whether its JWT had outlived the configured lifetime by then.           *)

AnyUser == CHOOSE u \in Users : TRUE
AnyToken == CHOOSE t \in Tokens : TRUE

Idle == [pc |-> "idle", user |-> AnyUser, token |-> AnyToken, revokedAt |-> 0, now |-> 0,
         barred |-> FALSE, stale |-> FALSE]

Request ==
    [pc: {"idle", "jwt_user", "use_user", "use_update", "create", "revoke", "revoke_update"},
     user: Users, token: Tokens, revokedAt: Times, now: Times, barred: BOOLEAN, stale: BOOLEAN]

Begin(r, q) == req[r].pc = "idle" /\ req' = [req EXCEPT ![r] = q]
Respond(r) == req' = [req EXCEPT ![r] = Idle]

(* The extractor hands the user to the handler of the route; a route with  *)
(* another handler leaves the same traces as one that then fails.          *)
CurrentUser(r) ==
    \E handler \in {"create", "revoke"} :
        req' = [req EXCEPT ![r] = [Idle EXCEPT !.pc = handler, !.user = req[r].user,
                                               !.barred = req[r].barred, !.stale = req[r].stale]]

-----------------------------------------------------------------------------
(* Access JWTs.                                                            *)

(* now + jwt_access_token_ttl_seconds, which wraps in a release build.     *)
AccessExp(iat) == (iat + ttl) % Wrap

(* login_user and refresh_session sign one for a user who was active when  *)
(* they looked, which may be some time ago.                                *)
SignAccessToken(u) ==
    /\ Cardinality(jwts) < MaxAccess
    /\ jwts' = jwts \cup {[user |-> u, iat |-> clock, exp |-> AccessExp(clock)]}
    /\ UNCHANGED <<active, issued, columns, ttl, clock, raced, req>>

(* Variant: only the signature, the issuer and the audience are validated. *)
VerifyAccessTokenSignature(j) == TRUE

(* jsonwebtoken rejects a token that expired more than the leeway ago; a   *)
(* rejected JWT is then tried as an API token, which it is not.            *)
VerifyAccessToken(j) == ~(j.exp + Leeway < clock)

(* authenticate_bearer verifies the JWT ...                                *)
UseAccess(r, j) ==
    /\ VerifyAccessToken(j)
    /\ Begin(r, [Idle EXCEPT !.pc = "jwt_user", !.user = j.user,
                             !.barred = j.user \notin active,
                             !.stale = j.iat + ttl + Leeway < clock])
    /\ UNCHANGED <<active, issued, columns, access, clock, raced>>

(* Variant: the status of the owner is not looked at.                      *)
OwnerAllowedAlways(u) == TRUE

OwnerAllowed(u) == u \in active

(* ... then reads the user, whatever the claims say of them.               *)
JwtUser(r) ==
    /\ req[r].pc = "jwt_user"
    /\ IF OwnerAllowed(req[r].user) THEN CurrentUser(r) ELSE Respond(r)
    /\ UNCHANGED <<active, issued, columns, access, clock, raced>>

-----------------------------------------------------------------------------
(* API tokens.                                                             *)

CreateApiToken(r, t) ==
    /\ req[r].pc = "create"
    /\ t \notin issued
    /\ issued' = issued \cup {t}
    /\ owner' = [owner EXCEPT ![t] = req[r].user]
    /\ Respond(r)
    /\ UNCHANGED <<active, revokedAt, lastUsedAt, access, clock, raced>>

(* The requests that have found a row usable, or their own, and go on.     *)
Holders(t) ==
    {r \in Requests : req[r].pc \in {"revoke_update", "use_user", "use_update"} /\ req[r].token = t}

(* History: a revocation overlaps the requests that are in the given set.  *)
Race(t, others) == raced' = IF others = {} THEN raced ELSE raced \cup {t}

(* Variant: every revocation takes a new time.                             *)
RevokedAtAgain(t) == clock

(* The revoked_at to write: the one in the row, or else the present time.  *)
RevokedAt(t) == IF revokedAt[t] # 0 THEN revokedAt[t] ELSE clock

(* revoke_api_token finds the row and that it is the caller's own.         *)
RevokeRead(r, t) ==
    /\ req[r].pc = "revoke"
    /\ IF t \in issued /\ owner[t] = req[r].user
       THEN /\ req' = [req EXCEPT ![r].pc = "revoke_update", ![r].token = t,
                                  ![r].revokedAt = RevokedAt(t)]
            /\ Race(t, Holders(t))
       ELSE Respond(r) /\ raced' = raced
    /\ UNCHANGED <<active, issued, columns, access, clock>>

RevokeUpdate(r) ==
    /\ req[r].pc = "revoke_update"
    /\ revokedAt' = [revokedAt EXCEPT ![req[r].token] = req[r].revokedAt]
    /\ Respond(r)
    /\ UNCHANGED <<active, issued, owner, lastUsedAt, access, clock, raced>>

(* Variant: revoked_at is not looked at.                                   *)
TokenUsableAlways(t) == t \in issued

TokenUsable(t) == t \in issued /\ revokedAt[t] = 0

(* authenticate_api_token reads the row ...                                *)
UseToken(r, t) ==
    /\ TokenUsable(t)
    /\ Begin(r, [Idle EXCEPT !.pc = "use_user", !.token = t, !.user = owner[t],
                             !.revokedAt = revokedAt[t], !.barred = owner[t] \notin active])
    /\ Race(t, {s \in Holders(t) : req[s].pc = "revoke_update"})
    /\ UNCHANGED <<active, issued, columns, access, clock>>

(* ... then the owner's status, and takes the time ...                     *)
UseUser(r) ==
    /\ req[r].pc = "use_user"
    /\ IF OwnerAllowed(req[r].user)
       THEN req' = [req EXCEPT ![r].pc = "use_update", ![r].now = clock]
       ELSE Respond(r)
    /\ UNCHANGED <<active, issued, columns, access, clock, raced>>

(* Variant: the whole row is written back as it was read.                  *)
UseUpdateRow(r) ==
    /\ req[r].pc = "use_update"
    /\ lastUsedAt' = [lastUsedAt EXCEPT ![req[r].token] = req[r].now]
    /\ revokedAt' = [revokedAt EXCEPT ![req[r].token] = req[r].revokedAt]
    /\ CurrentUser(r)
    /\ UNCHANGED <<active, issued, owner, access, clock, raced>>

(* Variant: the time lands in the column before, which is user_id.         *)
UseUpdateColumn(r) ==
    /\ req[r].pc = "use_update"
    /\ owner' = [owner EXCEPT ![req[r].token] = req[r].now]
    /\ CurrentUser(r)
    /\ UNCHANGED <<active, issued, revokedAt, lastUsedAt, access, clock, raced>>

(* ... and writes last_used_at.                                            *)
UseUpdate(r) ==
    /\ req[r].pc = "use_update"
    /\ lastUsedAt' = [lastUsedAt EXCEPT ![req[r].token] = req[r].now]
    /\ CurrentUser(r)
    /\ UNCHANGED <<active, issued, owner, revokedAt, access, clock, raced>>

(* A database error, or the death of the instance.                         *)
Fail(r) ==
    /\ req[r].pc # "idle"
    /\ Respond(r)
    /\ UNCHANGED <<active, issued, columns, access, clock, raced>>

-----------------------------------------------------------------------------
(* The rest of the system: the account lifecycle and time.                 *)

Disable(u) ==
    /\ u \in active
    /\ active' = active \ {u}
    /\ UNCHANGED <<issued, columns, access, clock, raced, req>>

Reactivate(u) ==
    /\ u \notin active
    /\ active' = active \cup {u}
    /\ req' = [r \in Requests |-> IF req[r].user = u THEN [req[r] EXCEPT !.barred = FALSE]
                                                     ELSE req[r]]
    /\ UNCHANGED <<issued, columns, access, clock, raced>>

Tick ==
    /\ clock < MaxTime
    /\ clock' = clock + 1
    /\ UNCHANGED <<active, issued, columns, access, raced, req>>

Init ==
    /\ active = Users
    /\ issued = {}
    /\ owner = [t \in Tokens |-> AnyUser]
    /\ revokedAt = [t \in Tokens |-> 0]
    /\ lastUsedAt = [t \in Tokens |-> 0]
    /\ ttl \in AccessTtls
    /\ jwts = {}
    /\ clock = 1
    /\ raced = {}
    /\ req = [r \in Requests |-> Idle]

Handle(r) ==
    \/ \E j \in jwts : UseAccess(r, j)
    \/ \E t \in Tokens : CreateApiToken(r, t) \/ RevokeRead(r, t) \/ UseToken(r, t)
    \/ RevokeUpdate(r) \/ JwtUser(r) \/ UseUser(r) \/ UseUpdate(r) \/ Fail(r)

Next ==
    \/ \E r \in Requests : Handle(r)
    \/ \E u \in Users : SignAccessToken(u) \/ Disable(u) \/ Reactivate(u)
    \/ Tick

Spec == Init /\ [][Next]_vars

-----------------------------------------------------------------------------
(* Properties.                                                             *)

(* Every column holds a value of its kind.                                 *)
TypeOK ==
    /\ active \subseteq Users
    /\ issued \subseteq Tokens
    /\ owner \in [Tokens -> Users]
    /\ revokedAt \in [Tokens -> Times]
    /\ lastUsedAt \in [Tokens -> Times]
    /\ ttl \in AccessTtls
    /\ jwts \subseteq AccessJwt
    /\ clock \in 1 .. MaxTime
    /\ raced \subseteq issued
    /\ req \in [Requests -> Request]

(* A revoked token stays revoked: revoke_api_token never writes an empty   *)
(* revoked_at, and a request that had read the row before the revocation   *)
(* does not undo it when it records the use of the token.                  *)
RevokedForGood ==
    [][\A t \in Tokens : revokedAt[t] # 0 => revokedAt'[t] # 0]_vars

(* The requests that have got past the extractor.                          *)
Admitted == {r \in Requests : req[r].pc \in {"create", "revoke", "revoke_update"}}

(* A request of a user who is disabled all along reaches no handler,       *)
(* whichever credential it carries: the JWT verifies and the API token is  *)
(* in order, but authenticate_bearer reads the status afresh.              *)
DisabledNotAdmitted == \A r \in Admitted : ~req[r].barred

(* An access JWT lets nobody in for longer than the configured lifetime    *)
(* and the leeway, whatever the lifetime is: where the sum wraps around,   *)
(* the JWT expires too early and never too late.                           *)
ExpiredNotAdmitted == \A r \in Admitted : ~req[r].stale

(* revoked_at keeps the time of the first revocation, as long as no other  *)
(* request for the token was in flight while it was revoked: the time that *)
(* revoke_api_token finds is written back.                                 *)
RevocationKept ==
    [][\A t \in Tokens \ raced : revokedAt[t] # 0 => revokedAt'[t] = revokedAt[t]]_vars

(* No use is recorded after the revocation, unless the two overlapped.     *)
UsedBeforeRevoked ==
    \A t \in Tokens \ raced : revokedAt[t] # 0 => lastUsedAt[t] <= revokedAt[t]

=============================================================================
