------------------------------ MODULE Sessions ------------------------------
(***************************************************************************)
(* Refresh-token sessions of the Wara backend (login, accept_invite,       *)
(* refresh_session and logout of backend/src/services/auth.rs).            *)
(*                                                                         *)
(* A refresh token is a signed JWT whose jti names a row of                *)
(* user_refresh_token_records; presenting it is presenting the row's id.   *)
(* Requests interleave between database statements as in Accounts, and     *)
(* that module's writes to user_records.status appear here as Disable and  *)
(* Reactivate.  Signatures are the subject of JwtKeys: here signing either *)
(* succeeds or fails the request (Fail).                                   *)
(***************************************************************************)
EXTENDS Naturals, FiniteSets

CONSTANTS
    Users,
    Tokens,     \* the ids of rows that may ever be created
    NoToken,
    Requests    \* slots for requests in flight at the same time

ASSUME SessionsAssumption == Users # {} /\ NoToken \notin Tokens

VARIABLES
    active,     \* the users whose status is active
    issued,     \* the rows of user_refresh_token_records
    owner,      \* user_id of each row
    revoked,    \* the rows with a revoked_at
    expired,    \* the rows whose expires_at has been reached
    delivered,  \* the tokens a response has carried to a client
    origin,     \* history: the token that the session began with
    parent,     \* history: the token that a refresh exchanged for this one
    loggedOut,  \* history: the tokens that a logout has answered for
    contended,  \* history: the sessions of which two requests were in flight at once
    req         \* the requests in flight

table == <<issued, owner, revoked, expired, origin, parent>>
vars == <<active, table, delivered, loggedOut, contended, req>>

-----------------------------------------------------------------------------
(* Requests.                                                               *)

Steps == {"idle", "session_issue", "session_sign", "refresh_user", "refresh_commit",
          "refresh_sign", "logout_update"}

AnyUser == CHOOSE u \in Users : TRUE
Idle == [pc |-> "idle", user |-> AnyUser, token |-> NoToken]

Request == [pc: Steps, user: Users, token: Tokens \cup {NoToken}]

Begin(r, q) == req[r].pc = "idle" /\ req' = [req EXCEPT ![r] = q]
Goto(r, p, t) == req' = [req EXCEPT ![r].pc = p, ![r].token = t]
Respond(r) == req' = [req EXCEPT ![r] = Idle]

-----------------------------------------------------------------------------
(* issue_refresh_token: a new row, which opens a session or continues the  *)
(* one of token p.                                                         *)
Issue(t, u, p) ==
    /\ t \notin issued
    /\ issued' = issued \cup {t}
    /\ owner' = [owner EXCEPT ![t] = u]
    /\ parent' = [parent EXCEPT ![t] = p]
    /\ origin' = [origin EXCEPT ![t] = IF p = NoToken THEN t ELSE origin[p]]

(* login, up to the check of the user's status and password.               *)
LoginRead(r, u) ==
    /\ u \in active
    /\ Begin(r, [Idle EXCEPT !.pc = "session_issue", !.user = u])
    /\ UNCHANGED <<active, table, delivered, loggedOut, contended>>

(* accept_invite after it has closed the invite: it reads the user again   *)
(* and opens a session whatever the status is by now.                      *)
AcceptRead(r, u) ==
    /\ Begin(r, [Idle EXCEPT !.pc = "session_issue", !.user = u])
    /\ UNCHANGED <<active, table, delivered, loggedOut, contended>>

SessionIssue(r) ==
    /\ req[r].pc = "session_issue"
    /\ \E t \in Tokens : Issue(t, req[r].user, NoToken) /\ Goto(r, "session_sign", t)
    /\ UNCHANGED <<active, revoked, expired, delivered, loggedOut, contended>>

(* The access token is signed and the response sent.                       *)
Deliver(r) ==
    /\ req[r].pc \in {"session_sign", "refresh_sign"}
    /\ delivered' = delivered \cup {req[r].token}
    /\ Respond(r)
    /\ UNCHANGED <<active, table, loggedOut, contended>>

(* Variant: revoked_at is not looked at.                                   *)
UsableRevoked(t) == t \in issued /\ t \notin expired

(* active_refresh_token_record: the row exists, is not revoked and has not *)
(* reached its expires_at.                                                 *)
Usable(t) == t \in issued /\ t \notin revoked /\ t \notin expired

(* The requests that have found a token usable and not yet spent it.       *)
Spenders(t) ==
    {r \in Requests : /\ req[r].pc \in {"refresh_user", "refresh_commit", "logout_update"}
                      /\ origin[req[r].token] = origin[t]}

(* History: a request for the session of t begins while another one runs.  *)
Enter(t) == contended' = IF Spenders(t) = {} THEN contended ELSE contended \cup {origin[t]}

RefreshRead(r, t) ==
    /\ t \in delivered
    /\ Usable(t)
    /\ Begin(r, [pc |-> "refresh_user", user |-> owner[t], token |-> t])
    /\ Enter(t)
    /\ UNCHANGED <<active, table, delivered, loggedOut>>

RefreshUser(r) ==
    /\ req[r].pc = "refresh_user"
    /\ IF req[r].user \in active THEN Goto(r, "refresh_commit", req[r].token) ELSE Respond(r)
    /\ UNCHANGED <<active, table, delivered, loggedOut, contended>>

(* Variant: the new row is committed, the old one is revoked later on.     *)
RefreshCommitSplit(r) ==
    /\ req[r].pc = "refresh_commit"
    /\ \E t \in Tokens : Issue(t, req[r].user, req[r].token) /\ Goto(r, "refresh_sign", t)
    /\ UNCHANGED <<active, expired, delivered, loggedOut, contended, revoked>>

(* The transaction that issues the new token and revokes the one used.     *)
RefreshCommit(r) ==
    /\ req[r].pc = "refresh_commit"
    /\ \E t \in Tokens : Issue(t, req[r].user, req[r].token) /\ Goto(r, "refresh_sign", t)
    /\ revoked' = revoked \cup {req[r].token}
    /\ UNCHANGED <<active, expired, delivered, loggedOut, contended>>

LogoutRead(r, t) ==
    /\ t \in delivered
    /\ Usable(t)
    /\ Begin(r, [pc |-> "logout_update", user |-> owner[t], token |-> t])
    /\ Enter(t)
    /\ UNCHANGED <<active, table, delivered, loggedOut>>

(* Variant: logout answers without writing revoked_at.                     *)
LogoutUpdateNone(r) ==
    /\ req[r].pc = "logout_update"
    /\ loggedOut' = loggedOut \cup {req[r].token}
    /\ Respond(r)
    /\ UNCHANGED <<active, table, delivered, contended>>

LogoutUpdate(r) ==
    /\ req[r].pc = "logout_update"
    /\ revoked' = revoked \cup {req[r].token}
    /\ loggedOut' = loggedOut \cup {req[r].token}
    /\ Respond(r)
    /\ UNCHANGED <<active, issued, owner, expired, origin, parent, delivered, contended>>

(* A database or signing error, or the death of the instance, ends a       *)
(* request between two of its statements; the client gets no token.        *)
Fail(r) ==
    /\ req[r].pc # "idle"
    /\ Respond(r)
    /\ UNCHANGED <<active, table, delivered, loggedOut, contended>>

-----------------------------------------------------------------------------
(* The rest of the system.                                                 *)

Disable(u) ==
    /\ u \in active
    /\ active' = active \ {u}
    /\ UNCHANGED <<table, delivered, loggedOut, contended, req>>

Reactivate(u) ==
    /\ u \notin active
    /\ active' = active \cup {u}
    /\ UNCHANGED <<table, delivered, loggedOut, contended, req>>

Expire(t) ==
    /\ t \in issued \ expired
    /\ expired' = expired \cup {t}
    /\ UNCHANGED <<active, issued, owner, revoked, origin, parent, delivered, loggedOut, contended, req>>

Init ==
    /\ active = Users
    /\ issued = {} /\ revoked = {} /\ expired = {} /\ delivered = {}
    /\ loggedOut = {} /\ contended = {}
    /\ owner = [t \in Tokens |-> AnyUser]
    /\ origin = [t \in Tokens |-> NoToken]
    /\ parent = [t \in Tokens |-> NoToken]
    /\ req = [r \in Requests |-> Idle]

Handle(r) ==
    \/ \E u \in Users : LoginRead(r, u) \/ AcceptRead(r, u)
    \/ \E t \in Tokens : RefreshRead(r, t) \/ LogoutRead(r, t)
    \/ SessionIssue(r) \/ Deliver(r)
    \/ RefreshUser(r) \/ RefreshCommit(r)
    \/ LogoutUpdate(r)
    \/ Fail(r)

Next ==
    \/ \E r \in Requests : Handle(r)
    \/ \E u \in Users : Disable(u) \/ Reactivate(u)
    \/ \E t \in Tokens : Expire(t)

Spec == Init /\ [][Next]_vars

-----------------------------------------------------------------------------
(* Properties.                                                             *)

(* Every column holds a value of its kind, and only rows that exist are    *)
(* revoked, expired, delivered or logged out (UserRefreshTokenRecord).     *)
TypeOK ==
    /\ active \subseteq Users
    /\ issued \subseteq Tokens
    /\ owner \in [Tokens -> Users]
    /\ revoked \subseteq issued
    /\ expired \subseteq issued
    /\ delivered \subseteq issued
    /\ origin \in [Tokens -> Tokens \cup {NoToken}]
    /\ parent \in [Tokens -> Tokens \cup {NoToken}]
    /\ loggedOut \subseteq revoked
    /\ contended \subseteq Tokens \cup {NoToken}
    /\ req \in [Requests -> Request]

(* A token that has been exchanged is revoked: refresh_session commits the *)
(* new row and the old one's revoked_at together, so no crash and no       *)
(* failed signature leaves a client with both.                             *)
ExchangedIsRevoked ==
    \A t \in issued : parent[t] # NoToken => parent[t] \in revoked

Unrevoked(o) == {t \in issued \ revoked : origin[t] = o}

(* A session has one usable refresh token: of all tokens that go back to   *)
(* the same login, at most one is not revoked.                             *)
OneLiveToken == \A o \in Tokens : \A s, t \in Unrevoked(o) : s = t

(* The same of every session whose own requests have not overlapped,       *)
(* whatever the requests of other sessions, failures and expiry do         *)
(* (refresh_session revokes exactly the token it was given).               *)
OneLiveTokenAlone ==
    \A o \in Tokens \ contended : \A s, t \in Unrevoked(o) : s = t

(* Logging out ends the session: when logout has answered for a token of a *)
(* session whose requests have not overlapped, no token of that session    *)
(* can be used any more (logout revokes the only one there is).            *)
LogoutEndsSession ==
    \A t \in loggedOut : origin[t] \notin contended => Unrevoked(origin[t]) = {}

=============================================================================
