--------------------------- MODULE SessionsProofs ---------------------------
(***************************************************************************)
(* Proofs about Sessions for every set of users, tokens and requests: what *)
(* holds however requests interleave, then what holds of the sessions      *)
(* whose own requests do not overlap.                                      *)
(***************************************************************************)
EXTENDS Sessions, TLAPS

(* A request that works on a token works on one that has a row.            *)
Holds(r) == req[r].pc \notin {"idle", "session_issue"} => req[r].token \in issued

SessionInv ==
    /\ TypeOK
    /\ ExchangedIsRevoked
    /\ \A r \in Requests : Holds(r)

LEMMA IdleRequest == Idle \in Request /\ AnyUser \in Users
  BY SessionsAssumption DEF Idle, Request, Steps, AnyUser

(* How a request moves on: the others stay as they are.                    *)
LEMMA BeginStep ==
  ASSUME TypeOK, NEW r \in Requests, NEW q \in Request, Begin(r, q)
  PROVE  /\ req' \in [Requests -> Request]
         /\ req'[r] = q
         /\ \A s \in Requests : s # r => req'[s] = req[s]
  BY DEF TypeOK, Begin

LEMMA GotoStep ==
  ASSUME TypeOK, NEW r \in Requests, NEW p \in Steps, NEW t \in Tokens, Goto(r, p, t)
  PROVE  /\ req' \in [Requests -> Request]
         /\ req'[r].pc = p /\ req'[r].token = t /\ req'[r].user = req[r].user
         /\ \A s \in Requests : s # r => req'[s] = req[s]
  <1> DEFINE q == [req[r] EXCEPT !.pc = p, !.token = t]
  <1>1. q \in Request /\ q.pc = p /\ q.token = t /\ q.user = req[r].user
    BY DEF TypeOK, Request
  <1>2. req' = [req EXCEPT ![r] = q]
    BY DEF TypeOK, Goto, Request
  <1> HIDE DEF q
  <1> QED BY <1>1, <1>2 DEF TypeOK

LEMMA RespondStep ==
  ASSUME TypeOK, NEW r \in Requests, Respond(r)
  PROVE  /\ req' \in [Requests -> Request]
         /\ req'[r] = Idle
         /\ \A s \in Requests : s # r => req'[s] = req[s]
  BY IdleRequest DEF TypeOK, Respond

LEMMA RequestFields ==
  ASSUME TypeOK, NEW r \in Requests
  PROVE  /\ req[r].pc \in Steps /\ req[r].user \in Users
         /\ req[r].token \in Tokens \cup {NoToken}
  BY DEF TypeOK, Request

(* A request that has just begun holds the token it was sent, if any.      *)
LEMMA Arrival ==
  ASSUME SessionInv, NEW r \in Requests,
         \/ \E u \in Users : LoginRead(r, u) \/ AcceptRead(r, u)
         \/ \E t \in Tokens : RefreshRead(r, t) \/ LogoutRead(r, t)
  PROVE  /\ UNCHANGED <<active, table, delivered, loggedOut>>
         /\ \E q \in Request :
               /\ Begin(r, q)
               /\ \/ q.pc = "session_issue" /\ contended' = contended
                  \/ /\ q.pc \in {"refresh_user", "logout_update"}
                     /\ Usable(q.token) /\ Enter(q.token)
  <1>1. ASSUME NEW u \in Users, LoginRead(r, u) \/ AcceptRead(r, u)
        PROVE  /\ UNCHANGED <<active, table, delivered, loggedOut>>
               /\ \E q \in Request : Begin(r, q) /\ q.pc = "session_issue" /\ contended' = contended
    <2> DEFINE q == [Idle EXCEPT !.pc = "session_issue", !.user = u]
    <2>1. q \in Request /\ q.pc = "session_issue"
      BY SessionsAssumption, IdleRequest DEF Idle, Request, Steps
    <2> HIDE DEF q
    <2>2. Begin(r, q)
      BY <1>1 DEF LoginRead, AcceptRead, q
    <2> QED BY <1>1, <2>1, <2>2 DEF LoginRead, AcceptRead
  <1>2. ASSUME NEW t \in Tokens, RefreshRead(r, t) \/ LogoutRead(r, t)
        PROVE  /\ UNCHANGED <<active, table, delivered, loggedOut>>
               /\ \E q \in Request :
                     /\ Begin(r, q)
                     /\ q.pc \in {"refresh_user", "logout_update"}
                     /\ Usable(q.token) /\ Enter(q.token)
    <2>1. Usable(t) /\ Enter(t) /\ UNCHANGED <<active, table, delivered, loggedOut>>
      BY <1>2 DEF RefreshRead, LogoutRead
    <2>2. \A p \in {"refresh_user", "logout_update"} :
             [pc |-> p, user |-> owner[t], token |-> t] \in Request
      BY DEF SessionInv, TypeOK, Request, Steps
    <2> QED BY <1>2, <2>1, <2>2 DEF RefreshRead, LogoutRead
  <1> QED BY <1>1, <1>2

(* Every step of every request keeps the invariant.                        *)
LEMMA HandleStep ==
  ASSUME SessionInv, NEW r \in Requests, Handle(r)
  PROVE  SessionInv'
  <1>1. TypeOK /\ Holds(r)
    BY DEF SessionInv
  <1>2. CASE \/ \E u \in Users : LoginRead(r, u) \/ AcceptRead(r, u)
             \/ \E t \in Tokens : RefreshRead(r, t) \/ LogoutRead(r, t)
    <2>1. PICK q \in Request :
             /\ Begin(r, q)
             /\ \/ q.pc = "session_issue" /\ contended' = contended
                \/ Usable(q.token) /\ Enter(q.token)
      BY <1>2, Arrival
    <2>2. UNCHANGED <<active, table, delivered, loggedOut>>
      BY <1>2, Arrival
    <2>4. contended' \subseteq Tokens \cup {NoToken}
      BY <1>1, <2>1 DEF TypeOK, Usable, Enter
    <2>3. \A s \in Requests : Holds(s)'
      BY <1>1, <2>1, <2>2, BeginStep DEF SessionInv, Holds, Usable, table
    <2> QED BY <1>1, <2>1, <2>2, <2>3, <2>4, BeginStep
            DEF SessionInv, TypeOK, ExchangedIsRevoked, table
  <1>3. ASSUME Respond(r), UNCHANGED <<active, table, contended>>, delivered' \subseteq issued,
               loggedOut' \subseteq revoked
        PROVE  SessionInv'
    <2>1. \A s \in Requests : Holds(s)'
      BY <1>1, <1>3, RespondStep DEF SessionInv, Holds, Idle, table
    <2> QED BY <1>1, <1>3, <2>1, RespondStep DEF SessionInv, TypeOK, ExchangedIsRevoked, table
  <1>4. CASE SessionIssue(r)
    <2>1. PICK t \in Tokens : Issue(t, req[r].user, NoToken) /\ Goto(r, "session_sign", t)
      BY <1>4 DEF SessionIssue
    <2>2. UNCHANGED <<active, revoked, expired, delivered, loggedOut, contended>>
      BY <1>4 DEF SessionIssue
    <2>3. \A s \in Requests : Holds(s)'
      BY <1>1, <2>1, GotoStep DEF SessionInv, Holds, Issue, Steps
    <2>4. TypeOK'
      BY <1>1, <2>1, <2>2, GotoStep, RequestFields DEF TypeOK, Issue, Steps
    <2>5. ExchangedIsRevoked'
      BY <1>1, <2>1, <2>2 DEF SessionInv, TypeOK, ExchangedIsRevoked, Issue
    <2> QED BY <2>3, <2>4, <2>5 DEF SessionInv
  <1>5. CASE Deliver(r)
    <2>1. req[r].token \in issued
      BY <1>1, <1>5 DEF Deliver, Holds
    <2> QED BY <1>1, <1>3, <1>5, <2>1 DEF Deliver, TypeOK
  <1>6. CASE RefreshUser(r)
    <2>1. UNCHANGED <<active, table, delivered, loggedOut, contended>> /\ req[r].token \in issued
      BY <1>1, <1>6 DEF RefreshUser, Holds
    <2>2. CASE Respond(r)
      BY <1>1, <1>3, <2>1, <2>2 DEF TypeOK
    <2>3. CASE Goto(r, "refresh_commit", req[r].token)
      <3>1. \A s \in Requests : Holds(s)'
        BY <1>1, <2>1, <2>3, GotoStep DEF SessionInv, TypeOK, Holds, Steps, table
      <3>2. req' \in [Requests -> Request]
        BY <1>1, <2>1, <2>3, GotoStep DEF TypeOK, Steps
      <3> QED BY <1>1, <2>1, <3>1, <3>2 DEF SessionInv, TypeOK, ExchangedIsRevoked, table
    <2> QED BY <1>6, <2>2, <2>3 DEF RefreshUser
  <1>7. CASE RefreshCommit(r)
    <2>1. PICK t \in Tokens : Issue(t, req[r].user, req[r].token) /\ Goto(r, "refresh_sign", t)
      BY <1>7 DEF RefreshCommit
    <2>2. /\ UNCHANGED <<active, expired, delivered, loggedOut, contended>>
          /\ revoked' = revoked \cup {req[r].token}
          /\ req[r].token \in issued
      BY <1>1, <1>7 DEF RefreshCommit, Holds
    <2>3. \A s \in Requests : Holds(s)'
      BY <1>1, <2>1, GotoStep DEF SessionInv, Holds, Issue, Steps
    <2>4. TypeOK'
      BY <1>1, <2>1, <2>2, GotoStep, RequestFields DEF TypeOK, Issue, Steps
    <2>5. ExchangedIsRevoked'
      BY <1>1, <2>1, <2>2 DEF SessionInv, TypeOK, ExchangedIsRevoked, Issue
    <2> QED BY <2>3, <2>4, <2>5 DEF SessionInv
  <1>8. CASE LogoutUpdate(r)
    <2>1. /\ UNCHANGED <<active, issued, owner, expired, origin, parent, delivered, contended>>
          /\ revoked' = revoked \cup {req[r].token}
          /\ loggedOut' = loggedOut \cup {req[r].token}
          /\ req[r].token \in issued /\ Respond(r)
      BY <1>1, <1>8 DEF LogoutUpdate, Holds
    <2>2. \A s \in Requests : Holds(s)'
      BY <1>1, <2>1, RespondStep DEF SessionInv, Holds, Idle
    <2>3. TypeOK'
      BY <1>1, <2>1, RespondStep DEF TypeOK
    <2>4. ExchangedIsRevoked'
      BY <2>1 DEF SessionInv, ExchangedIsRevoked
    <2> QED BY <2>2, <2>3, <2>4 DEF SessionInv
  <1>9. CASE Fail(r)
    BY <1>1, <1>3, <1>9 DEF Fail, TypeOK
  <1> QED BY <1>2, <1>4, <1>5, <1>6, <1>7, <1>8, <1>9 DEF Handle

LEMMA SessionInitial == Init => SessionInv
  <1> SUFFICES ASSUME Init PROVE SessionInv
    OBVIOUS
  <1>1. TypeOK
    BY IdleRequest DEF Init, TypeOK
  <1> QED BY <1>1 DEF Init, SessionInv, ExchangedIsRevoked, Holds, Idle

LEMMA SessionStep ==
  ASSUME SessionInv, [Next]_vars
  PROVE  SessionInv'
  <1>1. CASE UNCHANGED vars
    BY <1>1 DEF vars, table, SessionInv, TypeOK, ExchangedIsRevoked, Holds
  <1>2. ASSUME NEW u \in Users, Disable(u) \/ Reactivate(u) PROVE SessionInv'
    BY <1>2 DEF Disable, Reactivate, table, SessionInv, TypeOK, ExchangedIsRevoked, Holds
  <1>3. ASSUME NEW t \in Tokens, Expire(t) PROVE SessionInv'
    BY <1>3 DEF Expire, SessionInv, TypeOK, ExchangedIsRevoked, Holds
  <1> QED BY <1>1, <1>2, <1>3, HandleStep DEF Next

THEOREM SessionInvariant == Spec => []SessionInv
  <1>1. SessionInv /\ [Next]_vars => SessionInv'
    BY SessionStep
  <1> QED BY <1>1, SessionInitial, PTL DEF Spec

(* The type invariant of Sessions, for any number of requests in flight.   *)
THEOREM TypeCorrect == Spec => []TypeOK
  BY SessionInvariant, PTL DEF SessionInv

(* A refresh token that has been exchanged is revoked, whatever requests   *)
(* race with refresh_session and wherever it is cut off.                   *)
THEOREM RotationRevokes == Spec => []ExchangedIsRevoked
  BY SessionInvariant, PTL DEF SessionInv

-----------------------------------------------------------------------------
(* Sessions whose own requests do not overlap.                             *)

Spending(r) == req[r].pc \in {"refresh_user", "refresh_commit", "logout_update"}

(* Two requests spend tokens of the same session only if it is contended.  *)
Exclusive ==
    \A r, s \in Requests :
        (r # s /\ Spending(r) /\ Spending(s) /\ origin[req[r].token] = origin[req[s].token])
            => origin[req[r].token] \in contended

(* The token that a request has found usable is not revoked meanwhile.     *)
Unspent(r) ==
    Spending(r) => req[r].token \notin revoked \/ origin[req[r].token] \in contended

(* Sessions are rooted in tokens that exist, so a new one is its own.      *)
Rooted == \A t \in issued : origin[t] \in issued

AloneInv ==
    /\ SessionInv
    /\ Rooted
    /\ OneLiveTokenAlone
    /\ LogoutEndsSession
    /\ Exclusive
    /\ \A r \in Requests : Unspent(r)

(* A request that spends its token, drops it or goes on with it leaves     *)
(* what is known of the others as it was: whoever holds the same token is  *)
(* of the same session, which is contended then.                           *)
LEMMA OthersUndisturbed ==
  ASSUME AloneInv, NEW r \in Requests,
         \A s \in Requests : s # r => req'[s] = req[s],
         \A t \in issued : origin'[t] = origin[t],
         contended' = contended,
         \/ revoked' = revoked
         \/ Spending(r) /\ revoked' = revoked \cup {req[r].token} /\ ~Spending(r)',
         Spending(r)' => Spending(r) /\ req'[r].token = req[r].token
  PROVE  Exclusive' /\ \A s \in Requests : Unspent(s)'
  <1>1. \A s \in Requests : Spending(s) => req[s].token \in issued
    BY DEF AloneInv, SessionInv, Holds, Spending
  <1>2. \A s \in Requests : Spending(s)' => Spending(s) /\ req'[s].token = req[s].token
    BY DEF Spending
  <1>3. \A s \in Requests : Spending(s)' => origin'[req'[s].token] = origin[req[s].token]
    BY <1>1, <1>2
  <1>4. Exclusive'
    BY <1>2, <1>3 DEF AloneInv, Exclusive
  <1>5. ASSUME NEW s \in Requests, Spending(s)' PROVE Unspent(s)'
    <2>1. Unspent(s) /\ Spending(s) /\ req'[s].token = req[s].token
      BY <1>2, <1>5 DEF AloneInv
    <2>2. CASE revoked' = revoked
      BY <1>3, <1>5, <2>1, <2>2 DEF Unspent
    <2>3. CASE Spending(r) /\ revoked' = revoked \cup {req[r].token} /\ ~Spending(r)'
      <3>1. s # r
        BY <1>5, <2>3
      <3>2. req[s].token = req[r].token => origin[req[s].token] \in contended
        BY <2>1, <2>3, <3>1 DEF AloneInv, Exclusive
      <3> QED BY <1>3, <1>5, <2>1, <2>3, <3>2 DEF Unspent
    <2> QED BY <2>2, <2>3
  <1> QED BY <1>4, <1>5 DEF Unspent

LEMMA AloneHandle ==
  ASSUME AloneInv, SessionInv', NEW r \in Requests, Handle(r)
  PROVE  AloneInv'
  <1>1. TypeOK /\ Holds(r) /\ Unspent(r)
    BY DEF AloneInv, SessionInv
  <1>2. ASSUME UNCHANGED <<table, loggedOut, contended>>, Respond(r) PROVE AloneInv'
    <2>1. /\ \A s \in Requests : s # r => req'[s] = req[s]
          /\ ~Spending(r)'
      BY <1>1, <1>2, RespondStep DEF Spending, Idle
    <2>2. Exclusive' /\ \A s \in Requests : Unspent(s)'
      BY <1>2, <2>1, OthersUndisturbed DEF table
    <2>3. Rooted' /\ OneLiveTokenAlone' /\ LogoutEndsSession'
      BY <1>2 DEF AloneInv, Rooted, OneLiveTokenAlone, LogoutEndsSession, Unrevoked, table
    <2> QED BY <2>2, <2>3 DEF AloneInv
  <1>4. CASE \/ \E u \in Users : LoginRead(r, u) \/ AcceptRead(r, u)
             \/ \E t \in Tokens : RefreshRead(r, t) \/ LogoutRead(r, t)
    <2>1. PICK q \in Request :
             /\ Begin(r, q)
             /\ \/ q.pc = "session_issue" /\ contended' = contended
                \/ /\ q.pc \in {"refresh_user", "logout_update"}
                   /\ Usable(q.token) /\ Enter(q.token)
      BY <1>4, Arrival DEF AloneInv
    <2>2. UNCHANGED table /\ loggedOut' = loggedOut
      BY <1>4, Arrival DEF AloneInv
    <2>3. /\ req'[r] = q
          /\ \A s \in Requests : s # r => req'[s] = req[s]
      BY <1>1, <2>1, BeginStep
    <2>4. contended \subseteq contended'
      BY <2>1 DEF Enter
    <2>5. Rooted' /\ OneLiveTokenAlone' /\ LogoutEndsSession'
      BY <2>2, <2>4 DEF AloneInv, Rooted, OneLiveTokenAlone, LogoutEndsSession, Unrevoked, table
    <2>6. ASSUME NEW s \in Requests PROVE Unspent(s)'
      <3>1. CASE s = r
        BY <2>1, <2>2, <2>3, <3>1 DEF Unspent, Spending, Usable, table
      <3>2. CASE s # r
        BY <2>2, <2>3, <2>4, <3>2 DEF AloneInv, Unspent, Spending, table
      <3> QED BY <3>1, <3>2
    <2>7. ASSUME NEW s \in Requests, s # r, Spending(s)', Spending(r)',
                 origin'[req'[s].token] = origin'[req'[r].token]
          PROVE  origin'[req'[r].token] \in contended'
      <3>1. Enter(q.token) /\ origin' = origin
        BY <2>1, <2>2, <2>3, <2>7 DEF Spending, table
      <3>2. s \in Spenders(q.token)
        BY <2>3, <2>7, <3>1 DEF Spenders, Spending
      <3>3. contended' = contended \cup {origin[q.token]}
        BY <3>1, <3>2 DEF Enter
      <3> QED BY <2>3, <3>1, <3>3
    <2>8. ASSUME NEW s \in Requests, NEW t \in Requests, s # r, t # r, s # t,
                 Spending(s)', Spending(t)', origin'[req'[s].token] = origin'[req'[t].token]
          PROVE  origin'[req'[s].token] \in contended'
      BY <2>2, <2>3, <2>4, <2>8 DEF AloneInv, Exclusive, Spending, table
    <2>9. Exclusive'
      BY <2>7, <2>8 DEF Exclusive
    <2> QED BY <2>5, <2>6, <2>9 DEF AloneInv
  <1>5. CASE SessionIssue(r)
    <2>1. PICK t \in Tokens : Issue(t, req[r].user, NoToken) /\ Goto(r, "session_sign", t)
      BY <1>5 DEF SessionIssue
    <2>2. UNCHANGED <<revoked, loggedOut, contended>>
      BY <1>5 DEF SessionIssue
    <2>3. /\ t \notin issued /\ issued' = issued \cup {t}
          /\ origin'[t] = t /\ \A s \in issued : origin'[s] = origin[s]
      BY <1>1, <2>1 DEF Issue, TypeOK
    <2>4. Rooted' /\ OneLiveTokenAlone'
      BY <1>1, <2>2, <2>3 DEF AloneInv, Rooted, OneLiveTokenAlone, Unrevoked, TypeOK
    <2>5. LogoutEndsSession'
      BY <1>1, <2>2, <2>3 DEF AloneInv, Rooted, LogoutEndsSession, Unrevoked, TypeOK
    <2>6. ~Spending(r)' /\ \A s \in Requests : s # r => req'[s] = req[s]
      BY <1>1, <2>1, GotoStep DEF Spending, Steps
    <2>7. Exclusive' /\ \A s \in Requests : Unspent(s)'
      BY <2>2, <2>3, <2>6, OthersUndisturbed
    <2> QED BY <2>4, <2>5, <2>7 DEF AloneInv
  <1>6. CASE Deliver(r)
    BY <1>2, <1>6 DEF Deliver
  <1>7. CASE RefreshUser(r)
    <2>1. CASE Goto(r, "refresh_commit", req[r].token)
      <3>1. UNCHANGED <<table, loggedOut, contended>> /\ Spending(r) /\ req[r].token \in issued
        BY <1>1, <1>7 DEF RefreshUser, Spending, Holds
      <3>2. req'[r].token = req[r].token /\ \A s \in Requests : s # r => req'[s] = req[s]
        BY <1>1, <2>1, <3>1, GotoStep DEF TypeOK, Steps
      <3>3. Exclusive' /\ \A s \in Requests : Unspent(s)'
        BY <3>1, <3>2, OthersUndisturbed DEF table
      <3>4. Rooted' /\ OneLiveTokenAlone' /\ LogoutEndsSession'
        BY <3>1 DEF AloneInv, Rooted, OneLiveTokenAlone, LogoutEndsSession, Unrevoked, table
      <3> QED BY <3>3, <3>4 DEF AloneInv
    <2> QED BY <1>2, <1>7, <2>1 DEF RefreshUser
  <1>8. CASE RefreshCommit(r)
    <2> DEFINE p == req[r].token
    <2>1. PICK t \in Tokens : Issue(t, req[r].user, p) /\ Goto(r, "refresh_sign", t)
      BY <1>8 DEF RefreshCommit
    <2>2. /\ UNCHANGED <<loggedOut, contended>> /\ revoked' = revoked \cup {p}
          /\ p \in issued /\ (p \notin revoked \/ origin[p] \in contended) /\ Spending(r)
      BY <1>1, <1>8 DEF RefreshCommit, Unspent, Spending, Holds
    <2>3. p # NoToken
      BY <1>1, <2>2, SessionsAssumption DEF TypeOK
    <2>4. /\ t \notin issued /\ issued' = issued \cup {t}
          /\ origin'[t] = origin[p] /\ \A s \in issued : origin'[s] = origin[s]
      BY <1>1, <2>1, <2>3 DEF Issue, TypeOK
    <2>5. ~Spending(r)' /\ \A s \in Requests : s # r => req'[s] = req[s]
      BY <1>1, <2>1, GotoStep DEF Spending, Steps
    <2> HIDE DEF p
    <2>6. Rooted' /\ OneLiveTokenAlone'
      BY <1>1, <2>2, <2>4 DEF AloneInv, Rooted, OneLiveTokenAlone, Unrevoked, TypeOK
    <2>7. LogoutEndsSession'
      BY <1>1, <2>2, <2>4 DEF AloneInv, LogoutEndsSession, Unrevoked, TypeOK
    <2>8. Exclusive' /\ \A s \in Requests : Unspent(s)'
      BY <2>2, <2>4, <2>5, OthersUndisturbed DEF p
    <2> QED BY <2>6, <2>7, <2>8 DEF AloneInv
  <1>9. CASE LogoutUpdate(r)
    <2> DEFINE p == req[r].token
    <2>1. /\ UNCHANGED <<issued, origin, contended>> /\ p \in issued
          /\ (p \notin revoked \/ origin[p] \in contended) /\ Spending(r)
          /\ revoked' = revoked \cup {p} /\ loggedOut' = loggedOut \cup {p}
          /\ Respond(r)
      BY <1>1, <1>9 DEF LogoutUpdate, Unspent, Spending, Holds
    <2>2. ~Spending(r)' /\ \A s \in Requests : s # r => req'[s] = req[s]
      BY <1>1, <2>1, RespondStep DEF Spending, Idle
    <2>3. Exclusive' /\ \A s \in Requests : Unspent(s)'
      BY <2>1, <2>2, OthersUndisturbed
    <2>4. origin[p] \in Tokens
      BY <1>1, <2>1 DEF AloneInv, Rooted, TypeOK
    <2> HIDE DEF p
    <2>5. Rooted' /\ OneLiveTokenAlone'
      BY <2>1 DEF AloneInv, Rooted, OneLiveTokenAlone, Unrevoked
    <2>6. LogoutEndsSession'
      BY <2>1, <2>4 DEF AloneInv, OneLiveTokenAlone, LogoutEndsSession, Unrevoked
    <2> QED BY <2>3, <2>5, <2>6 DEF AloneInv
  <1>10. CASE Fail(r)
    BY <1>2, <1>10 DEF Fail
  <1> QED BY <1>4, <1>5, <1>6, <1>7, <1>8, <1>9, <1>10 DEF Handle

LEMMA AloneStep ==
  ASSUME AloneInv, SessionInv', [Next]_vars
  PROVE  AloneInv'
  <1>1. CASE \/ UNCHANGED vars
             \/ \E u \in Users : Disable(u) \/ Reactivate(u)
             \/ \E t \in Tokens : Expire(t)
    <2>1. UNCHANGED <<issued, origin, revoked, loggedOut, contended, req>>
      BY <1>1 DEF vars, table, Disable, Reactivate, Expire
    <2>2. Rooted' /\ OneLiveTokenAlone' /\ LogoutEndsSession'
      BY <2>1 DEF AloneInv, Rooted, OneLiveTokenAlone, LogoutEndsSession, Unrevoked
    <2>3. Exclusive' /\ \A r \in Requests : Unspent(r)'
      BY <2>1 DEF AloneInv, Exclusive, Unspent, Spending
    <2> QED BY <2>2, <2>3 DEF AloneInv
  <1> QED BY <1>1, AloneHandle DEF Next

LEMMA AloneInitial == Init => AloneInv
  BY SessionInitial DEF Init, AloneInv, Rooted, OneLiveTokenAlone, LogoutEndsSession, Unrevoked,
     Exclusive, Unspent, Spending, Idle

THEOREM AloneInvariant == Spec => []AloneInv
  <1>1. AloneInv /\ SessionInv' /\ [Next]_vars => AloneInv'
    BY AloneStep
  <1> QED BY <1>1, AloneInitial, SessionInvariant, PTL DEF Spec

(* A session whose own requests do not overlap has at most one refresh     *)
(* token that is not revoked, whatever refresh_session does for others.    *)
THEOREM SessionUnique == Spec => []OneLiveTokenAlone
  <1>1. AloneInv => OneLiveTokenAlone
    BY DEF AloneInv
  <1> QED BY <1>1, AloneInvariant, PTL

(* Logout leaves no token of such a session that could be exchanged.       *)
THEOREM LogoutFinal == Spec => []LogoutEndsSession
  <1>1. AloneInv => LogoutEndsSession
    BY DEF AloneInv
  <1> QED BY <1>1, AloneInvariant, PTL

=============================================================================
