--------------------------- MODULE AccountsProofs ---------------------------
(***************************************************************************)
(* Proofs about Accounts for every set of users, workspaces and requests.  *)
(* The first part holds for any number of concurrent requests; the second  *)
(* one is about a platform that serves one request at a time.              *)
(***************************************************************************)
EXTENDS Accounts, FiniteSetTheorems, TLAPS

-----------------------------------------------------------------------------
(* What a request knows when it reaches a statement, and what no other     *)
(* request can take away from it.                                          *)
RequestOK(r) ==
    LET q == req[r] IN
    /\ q.pc = "boot_create" => q.user = BootstrapAdmin
    /\ q.pc \in {"invite_find", "invite_commit"} => q.role # "super_admin"
    /\ q.pc = "invite_commit" => q.workspace \in Provisioned
    /\ q.pc \in {"accept_user", "accept_update"} =>
          q.password \in Passwords /\ invite[q.user] # "none"
    /\ q.pc \in {"accept_close", "reactivate_update"} => password[q.user] # NoPassword
    /\ q.pc = "accept_close" => status[q.user] # "invited"
    /\ q.pc \in {"disable_count", "disable_update"} => status[q.user] # "none"

AbsentBlank ==
    \A u \in Users : status[u] = "none" => password[u] = NoPassword /\ invite[u] = "none"

(* The inductive invariant behind ActiveHasPassword, InviteLedger and      *)
(* AccountComplete.                                                        *)
AccountInv ==
    /\ TypeOK
    /\ AbsentBlank
    /\ ActiveHasPassword
    /\ InviteLedger
    /\ AccountComplete
    /\ \A r \in Requests : RequestOK(r)

LEMMA IdleRequest == Idle \in Request
  BY AccountsAssumption DEF Idle, Request, PCs, Roles

(* How a request moves on: it starts, changes its pc alone, or ends, and   *)
(* the other requests stay as they are.                                    *)
LEMMA BeginStep ==
  ASSUME TypeOK, NEW r \in Requests, NEW q \in Request, Begin(r, q)
  PROVE  /\ req' \in [Requests -> Request]
         /\ req'[r] = q
         /\ \A s \in Requests : s # r => req'[s] = req[s]
         /\ contended' \subseteq Users /\ crowded' \in BOOLEAN
  <1>1. q.user \in Users
    BY DEF Request
  <1> QED BY <1>1 DEF TypeOK, Begin

LEMMA GotoStep ==
  ASSUME TypeOK, NEW r \in Requests, NEW p \in PCs, Goto(r, p)
  PROVE  /\ req' \in [Requests -> Request]
         /\ req'[r] = [req[r] EXCEPT !.pc = p]
         /\ \A s \in Requests : s # r => req'[s] = req[s]
         /\ UNCHANGED overlaps
  <1>1. [req[r] EXCEPT !.pc = p] \in Request
    BY DEF TypeOK, Request
  <1> QED BY <1>1 DEF TypeOK, Goto

LEMMA RespondStep ==
  ASSUME TypeOK, NEW r \in Requests, Respond(r)
  PROVE  /\ req' \in [Requests -> Request]
         /\ req'[r] = Idle
         /\ \A s \in Requests : s # r => req'[s] = req[s]
         /\ UNCHANGED overlaps
  BY IdleRequest DEF TypeOK, Respond

LEMMA AboutRequest ==
  ASSUME NEW u \in Users, NEW p \in PCs
  PROVE  /\ About(u, p) \in Request
         /\ \A w \in Workspaces, ro \in RoleInputs :
               [About(u, p) EXCEPT !.workspace = w, !.role = ro] \in Request
         /\ \A x \in Passwords : [About(u, p) EXCEPT !.password = x] \in Request
         /\ \A ro \in RoleInputs : [About(u, p) EXCEPT !.role = ro] \in Request
  BY AccountsAssumption, IdleRequest DEF About, Request

LEMMA RequestFields ==
  ASSUME TypeOK, NEW r \in Requests
  PROVE  /\ req[r].pc \in PCs /\ req[r].user \in Users /\ req[r].role \in Roles
         /\ req[r].workspace \in Workspaces \cup {NoWorkspace}
         /\ req[r].password \in Passwords \cup {NoPassword}
  BY DEF TypeOK, Request

(* A request that has just begun knows what its first reads told it.       *)
Fresh(q) ==
    /\ q \in Request
    /\ \/ /\ q.pc = "boot_create" /\ q.user = BootstrapAdmin
          /\ \A u \in Users : status[u] = "none"
       \/ /\ q.pc = "invite_find" /\ q.role # "super_admin"
          /\ \E u \in Users : status[u] = "active"
       \/ /\ q.pc = "accept_user" /\ q.password \in Passwords
          /\ invite[q.user] # "none"
       \/ q.pc \in {"disable_read", "reactivate_read", "role_read"} /\ AdminUser

LEMMA ArriveFresh ==
  ASSUME NEW r \in Requests, Arrive(r)
  PROVE  \E q : Fresh(q) /\ Begin(r, q)
  <1> USE AboutRequest DEF PCs, About, Idle, Fresh
  <1>1. CASE BootRead(r)
    <2>1. Fresh(About(BootstrapAdmin, "boot_create"))
      BY <1>1, AccountsAssumption DEF BootRead
    <2> QED BY <1>1, <2>1 DEF BootRead
  <1>2. ASSUME NEW u \in Users, NEW w \in Workspaces, NEW ro \in RoleInputs,
               InviteStart(r, u, w, ro)
        PROVE  \E q : Fresh(q) /\ Begin(r, q)
    <2>1. \E v \in Users : status[v] = "active"
      BY <1>2 DEF InviteStart, WorkspaceAdmin
    <2>2. Fresh([About(u, "invite_find") EXCEPT !.workspace = w, !.role = ro])
      <3> DEFINE q == [About(u, "invite_find") EXCEPT !.workspace = w, !.role = ro]
      <3>1. q \in Request /\ q.pc = "invite_find" /\ q.role = ro
        BY <1>2 DEF InviteStart
      <3>2. ro # "super_admin"
        BY <1>2 DEF InviteStart
      <3> QED BY <2>1, <3>1, <3>2
    <2> QED BY <1>2, <2>2 DEF InviteStart
  <1>3. ASSUME NEW u \in Users, NEW p \in Passwords, AcceptFindInvite(r, u, p)
        PROVE  \E q : Fresh(q) /\ Begin(r, q)
    <2>1. Fresh([About(u, "accept_user") EXCEPT !.password = p])
      BY <1>3 DEF AcceptFindInvite, InviteUsable
    <2> QED BY <1>3, <2>1 DEF AcceptFindInvite
  <1>4. ASSUME NEW u \in Users, DisableStart(r, u) PROVE \E q : Fresh(q) /\ Begin(r, q)
    <2>1. Fresh(About(u, "disable_read"))
      BY <1>4 DEF DisableStart
    <2> QED BY <1>4, <2>1 DEF DisableStart
  <1>5. ASSUME NEW u \in Users, ReactivateStart(r, u) PROVE \E q : Fresh(q) /\ Begin(r, q)
    <2>1. Fresh(About(u, "reactivate_read"))
      BY <1>5 DEF ReactivateStart
    <2> QED BY <1>5, <2>1 DEF ReactivateStart
  <1>6. ASSUME NEW u \in Users, NEW ro \in RoleInputs, RoleStart(r, u, ro)
        PROVE  \E q : Fresh(q) /\ Begin(r, q)
    <2>1. Fresh([About(u, "role_read") EXCEPT !.role = ro])
      BY <1>6 DEF RoleStart
    <2> QED BY <1>6, <2>1 DEF RoleStart
  <1> QED BY <1>1, <1>2, <1>3, <1>4, <1>5, <1>6 DEF Arrive

(* Every statement of every handler keeps the tables well-typed, and every *)
(* request a well-formed one.                                              *)
LEMMA TypeStep ==
  ASSUME TypeOK, \A r \in Requests : RequestOK(r), [Next]_vars
  PROVE  TypeOK'
  <1>1. CASE UNCHANGED vars
    BY <1>1 DEF vars, TypeOK
  <1>2. ASSUME NEW r \in Requests, Arrive(r) PROVE TypeOK'
    <2>1. UNCHANGED <<tables, expired, redemptions>>
      BY <1>2 DEF Arrive, BootRead, InviteStart, AcceptFindInvite, DisableStart,
                  ReactivateStart, RoleStart
    <2>2. PICK q \in Request : Begin(r, q)
      BY <1>2, ArriveFresh DEF Fresh
    <2> QED BY <2>1, <2>2, BeginStep DEF TypeOK, tables
  <1>3. ASSUME NEW r \in Requests, Advance(r) PROVE TypeOK'
    <2>1. req' \in [Requests -> Request] /\ UNCHANGED <<contended, crowded>>
      BY <1>3, GotoStep, RespondStep
      DEF Advance, BootCreate, InviteFind, InviteCommit, AcceptReadUser, AcceptUpdateUser,
          AcceptCloseInvite, DisableRead, DisableCount, DisableUpdate, ReactivateRead,
          ReactivateUpdate, RoleRead, RoleCount, RoleUpdate, Fail, PCs, overlaps
    <2> USE <2>1, RequestFields DEF TypeOK, Statuses, Roles
    <2>2. CASE BootCreate(r)
      BY <2>2 DEF BootCreate
    <2>3. CASE InviteCommit(r)
      <3>1. req[r].workspace \in Provisioned
        BY <2>3 DEF InviteCommit, RequestOK
      <3>2. {<<req[r].workspace, req[r].role>>} \in SUBSET (Workspaces \X Roles)
        BY <3>1, AccountsAssumption
      <3>3. member' \in [Users -> SUBSET (Workspaces \X Roles)]
        BY <2>3, <3>2 DEF InviteCommit, tables
      <3>4. /\ status' \in [Users -> Statuses \cup {"none"}] /\ role' \in [Users -> Roles]
            /\ password' \in [Users -> Passwords \cup {NoPassword}]
            /\ invite' \in [Users -> {"none", "open", "accepted"}]
        BY <2>3 DEF InviteCommit, tables
      <3>5. UNCHANGED <<expired, redemptions>>
        BY <2>3 DEF InviteCommit
      <3> QED BY <3>3, <3>4, <3>5
    <2>4. CASE AcceptUpdateUser(r)
      BY <2>4 DEF AcceptUpdateUser
    <2>5. CASE AcceptCloseInvite(r)
      BY <2>5 DEF AcceptCloseInvite
    <2>6. CASE DisableUpdate(r) \/ ReactivateUpdate(r)
      BY <2>6 DEF DisableUpdate, ReactivateUpdate
    <2>7. CASE RoleUpdate(r)
      BY <2>7 DEF RoleUpdate
    <2>8. CASE UNCHANGED <<tables, expired, redemptions>>
      BY <2>8 DEF tables
    <2> QED
      BY <1>3, <2>2, <2>3, <2>4, <2>5, <2>6, <2>7, <2>8
      DEF Advance, InviteFind, AcceptReadUser, DisableRead, DisableCount, ReactivateRead,
          RoleRead, RoleCount, Fail
  <1>4. ASSUME NEW u \in Users, Expire(u) PROVE TypeOK'
    BY <1>4 DEF Expire, TypeOK, tables, overlaps
  <1> QED BY <1>1, <1>2, <1>3, <1>4 DEF Next

LEMMA ArriveStep ==
  ASSUME AccountInv, NEW r \in Requests, Arrive(r)
  PROVE  AccountInv'
  <1>1. TypeOK' /\ UNCHANGED <<tables, expired, redemptions>>
    <2>1. Next
      BY DEF Next
    <2> QED BY <2>1, TypeStep DEF AccountInv, Arrive, BootRead, InviteStart, AcceptFindInvite,
                                  DisableStart, ReactivateStart, RoleStart
  <1>2. PICK q : Fresh(q) /\ Begin(r, q)
    BY ArriveFresh
  <1>3. req'[r] = q /\ \A s \in Requests : s # r => req'[s] = req[s]
    BY <1>2, BeginStep DEF AccountInv, Fresh
  <1>4. \A s \in Requests : RequestOK(s)'
    BY <1>1, <1>2, <1>3 DEF Fresh, AccountInv, RequestOK, tables
  <1> QED BY <1>1, <1>4 DEF AccountInv, AbsentBlank, ActiveHasPassword, InviteLedger,
                            AccountComplete, tables

(* A step that leaves the tables alone keeps the invariant if it leaves    *)
(* its own request in order.                                               *)
LEMMA ReadStep ==
  ASSUME AccountInv, TypeOK', UNCHANGED tables, NEW r \in Requests, RequestOK(r)',
         \A s \in Requests : s # r => req'[s] = req[s]
  PROVE  AccountInv'
  <1>1. \A s \in Requests : RequestOK(s)'
    BY DEF AccountInv, RequestOK, tables
  <1> QED BY <1>1 DEF AccountInv, AbsentBlank, ActiveHasPassword, InviteLedger,
                      AccountComplete, tables

LEMMA IdleOK ==
  ASSUME NEW r \in Requests, req'[r] = Idle
  PROVE  RequestOK(r)'
  BY DEF RequestOK, Idle

(* Every statement after the first keeps the invariant.                    *)
LEMMA AdvanceStep ==
  ASSUME AccountInv, NEW r \in Requests, Advance(r)
  PROVE  AccountInv'
  <1> DEFINE u == req[r].user
  <1>1. TypeOK'
    BY TypeStep DEF AccountInv, Next
  <1>2. TypeOK /\ RequestOK(r) /\ u \in Users
    BY RequestFields DEF AccountInv
  <1>3. ASSUME Respond(r), UNCHANGED tables PROVE AccountInv'
    BY <1>1, <1>2, <1>3, RespondStep, IdleOK, ReadStep
  <1>4. ASSUME NEW p \in PCs, Goto(r, p), UNCHANGED tables, RequestOK(r)' PROVE AccountInv'
    BY <1>1, <1>2, <1>4, GotoStep, ReadStep
  <1>5. ASSUME NEW p \in PCs, Goto(r, p)
        PROVE  /\ req'[r].pc = p /\ req'[r].user = u /\ req'[r].role = req[r].role
               /\ req'[r].workspace = req[r].workspace
               /\ req'[r].password = req[r].password
    <2>1. req[r] \in Request /\ req'[r] = [req[r] EXCEPT !.pc = p]
      BY <1>2, <1>5, GotoStep DEF TypeOK
    <2> QED BY <2>1 DEF Request
  <1>6. CASE BootCreate(r)
    <2>1. CASE status[u] # "none"
      BY <1>3, <1>6, <2>1 DEF BootCreate, tables
    <2>2. CASE status[u] = "none"
      <3>1. u = BootstrapAdmin
        BY <1>2, <1>6 DEF BootCreate, RequestOK
      <3>2. /\ status' = [status EXCEPT ![u] = "active"]
            /\ \E p \in Passwords : password' = [password EXCEPT ![u] = p]
            /\ UNCHANGED <<member, invite>>
            /\ Respond(r)
        BY <1>6, <2>2 DEF BootCreate
      <3>3. \A s \in Requests : RequestOK(s)'
        BY <1>2, <2>2, <3>2, RespondStep, IdleOK, AccountsAssumption
        DEF AccountInv, TypeOK, RequestOK, AbsentBlank
      <3>4. AbsentBlank' /\ ActiveHasPassword' /\ InviteLedger' /\ AccountComplete'
        BY <1>2, <2>2, <3>1, <3>2, AccountsAssumption
        DEF AccountInv, TypeOK, AbsentBlank, ActiveHasPassword, InviteLedger, AccountComplete
      <3> QED BY <1>1, <3>3, <3>4 DEF AccountInv
    <2> QED BY <2>1, <2>2
  <1>7. CASE InviteFind(r)
    <2>1. ASSUME req[r].workspace \in Provisioned, Goto(r, "invite_commit") PROVE AccountInv'
      BY <1>2, <1>4, <1>5, <1>7, <2>1 DEF InviteFind, RequestOK, PCs
    <2> QED BY <1>3, <1>7, <2>1 DEF InviteFind
  <1>8. CASE InviteCommit(r)
    <2>1. CASE status[u] # "none"
      BY <1>3, <1>8, <2>1 DEF InviteCommit
    <2>2. CASE status[u] = "none"
      <3>1. req[r].workspace \in Provisioned /\ req[r].role \in Roles \ {"super_admin"}
        BY <1>2, <1>8, RequestFields DEF InviteCommit, RequestOK
      <3>2. /\ status' = [status EXCEPT ![u] = "invited"]
            /\ password' = [password EXCEPT ![u] = NoPassword]
            /\ invite' = [invite EXCEPT ![u] = "open"]
            /\ member' = [member EXCEPT ![u] = {<<req[r].workspace, req[r].role>>}]
            /\ Respond(r)
        BY <1>8, <2>2 DEF InviteCommit
      <3>3. \A s \in Requests : RequestOK(s)'
        BY <1>2, <2>2, <3>2, RespondStep, IdleOK
        DEF AccountInv, TypeOK, RequestOK, AbsentBlank
      <3>4. AbsentBlank' /\ ActiveHasPassword' /\ InviteLedger'
        BY <1>2, <2>2, <3>2
        DEF AccountInv, TypeOK, AbsentBlank, ActiveHasPassword, InviteLedger
      <3>5. AccountComplete'
        BY <1>2, <3>1, <3>2 DEF AccountInv, TypeOK, AccountComplete
      <3> QED BY <1>1, <3>3, <3>4, <3>5 DEF AccountInv
    <2> QED BY <2>1, <2>2
  <1>9. CASE AcceptReadUser(r)
    <2>1. ASSUME Goto(r, "accept_update") PROVE AccountInv'
      BY <1>2, <1>4, <1>5, <1>9, <2>1 DEF AcceptReadUser, RequestOK, PCs, tables
    <2> QED BY <1>3, <1>9, <2>1 DEF AcceptReadUser
  <1>10. CASE AcceptUpdateUser(r)
    <2>1. /\ status' = [status EXCEPT ![u] = "active"]
          /\ password' = [password EXCEPT ![u] = req[r].password]
          /\ req[r].password \in Passwords /\ invite[u] # "none"
          /\ Goto(r, "accept_close")
          /\ UNCHANGED <<member, invite>>
      BY <1>2, <1>10 DEF AcceptUpdateUser, RequestOK
    <2>2. \A s \in Requests : RequestOK(s)'
      <3>1. RequestOK(r)'
        BY <1>2, <1>5, <2>1, AccountsAssumption DEF TypeOK, RequestOK, PCs
      <3>2. \A s \in Requests : s # r => req'[s] = req[s]
        BY <1>2, <2>1, GotoStep DEF PCs
      <3>3. ASSUME NEW s \in Requests, s # r PROVE RequestOK(s)'
        BY <1>2, <2>1, <3>2, <3>3, AccountsAssumption DEF AccountInv, TypeOK, RequestOK
      <3> QED BY <3>1, <3>3
    <2>3. AbsentBlank' /\ ActiveHasPassword' /\ InviteLedger' /\ AccountComplete'
      BY <1>2, <2>1, AccountsAssumption
      DEF AccountInv, TypeOK, AbsentBlank, ActiveHasPassword, InviteLedger, AccountComplete
    <2> QED BY <1>1, <2>2, <2>3 DEF AccountInv
  <1>11. CASE AcceptCloseInvite(r)
    <2>1. /\ invite' = [invite EXCEPT ![u] = "accepted"]
          /\ password[u] # NoPassword /\ status[u] # "invited"
          /\ Respond(r)
          /\ UNCHANGED <<status, password, member>>
      BY <1>2, <1>11 DEF AcceptCloseInvite, RequestOK
    <2>2. \A s \in Requests : RequestOK(s)'
      BY <1>2, <2>1, RespondStep, IdleOK DEF AccountInv, TypeOK, RequestOK
    <2>3. AbsentBlank' /\ ActiveHasPassword' /\ InviteLedger' /\ AccountComplete'
      BY <1>2, <2>1
      DEF AccountInv, TypeOK, AbsentBlank, ActiveHasPassword, InviteLedger, AccountComplete
    <2> QED BY <1>1, <2>2, <2>3 DEF AccountInv
  <1>12. CASE DisableRead(r)
    <2>1. ASSUME NEW p \in {"disable_count", "disable_update"}, Goto(r, p), status[u] # "none"
          PROVE  AccountInv'
      BY <1>2, <1>4, <1>5, <1>12, <2>1 DEF DisableRead, RequestOK, PCs, tables
    <2> QED BY <1>3, <1>12, <2>1 DEF DisableRead
  <1>13. CASE DisableCount(r)
    <2>1. ASSUME Goto(r, "disable_update") PROVE AccountInv'
      BY <1>2, <1>4, <1>5, <1>13, <2>1 DEF DisableCount, RequestOK, PCs, tables
    <2> QED BY <1>3, <1>13, <2>1 DEF DisableCount
  <1>14. CASE DisableUpdate(r)
    <2>1. /\ status' = [status EXCEPT ![u] = "disabled"]
          /\ status[u] # "none"
          /\ Respond(r)
          /\ UNCHANGED <<password, invite, member>>
      BY <1>2, <1>14 DEF DisableUpdate, RequestOK
    <2>2. \A s \in Requests : RequestOK(s)'
      BY <1>2, <2>1, RespondStep, IdleOK DEF AccountInv, TypeOK, RequestOK
    <2>3. AbsentBlank' /\ ActiveHasPassword' /\ InviteLedger' /\ AccountComplete'
      BY <1>2, <2>1
      DEF AccountInv, TypeOK, AbsentBlank, ActiveHasPassword, InviteLedger, AccountComplete
    <2> QED BY <1>1, <2>2, <2>3 DEF AccountInv
  <1>15. CASE ReactivateRead(r)
    <2>1. ASSUME Goto(r, "reactivate_update"), ReactivateAllowed(u) PROVE AccountInv'
      BY <1>2, <1>4, <1>5, <1>15, <2>1
      DEF ReactivateRead, ReactivateAllowed, RequestOK, PCs, tables
    <2> QED BY <1>3, <1>15, <2>1 DEF ReactivateRead
  <1>16. CASE ReactivateUpdate(r)
    <2>1. /\ status' = [status EXCEPT ![u] = "active"]
          /\ password[u] # NoPassword
          /\ Respond(r)
          /\ UNCHANGED <<password, invite, member>>
      BY <1>2, <1>16 DEF ReactivateUpdate, RequestOK
    <2>2. \A s \in Requests : RequestOK(s)'
      BY <1>2, <2>1, RespondStep, IdleOK DEF AccountInv, TypeOK, RequestOK
    <2>3. status[u] # "none"
      BY <1>2, <2>1 DEF AccountInv, AbsentBlank
    <2>4. AbsentBlank' /\ ActiveHasPassword' /\ InviteLedger' /\ AccountComplete'
      BY <1>2, <2>1, <2>3
      DEF AccountInv, TypeOK, AbsentBlank, ActiveHasPassword, InviteLedger, AccountComplete
    <2> QED BY <1>1, <2>2, <2>4 DEF AccountInv
  <1>17. CASE RoleRead(r)
    <2>1. ASSUME NEW p \in {"role_count", "role_update"}, Goto(r, p) PROVE AccountInv'
      BY <1>2, <1>4, <1>5, <1>17, <2>1 DEF RoleRead, RequestOK, PCs, tables
    <2> QED BY <1>3, <1>17, <2>1 DEF RoleRead
  <1>18. CASE RoleCount(r)
    <2>1. ASSUME Goto(r, "role_update") PROVE AccountInv'
      BY <1>2, <1>4, <1>5, <1>18, <2>1 DEF RoleCount, RequestOK, PCs, tables
    <2> QED BY <1>3, <1>18, <2>1 DEF RoleCount
  <1>19. CASE RoleUpdate(r)
    <2>1. Respond(r) /\ UNCHANGED <<status, password, invite, member>>
      BY <1>19 DEF RoleUpdate
    <2>2. \A s \in Requests : RequestOK(s)'
      BY <1>2, <2>1, RespondStep, IdleOK DEF AccountInv, RequestOK
    <2> QED BY <1>1, <2>1, <2>2 DEF AccountInv, AbsentBlank, ActiveHasPassword, InviteLedger,
                                    AccountComplete
  <1>20. CASE Fail(r)
    BY <1>3, <1>20 DEF Fail
  <1> QED BY <1>6, <1>7, <1>8, <1>9, <1>10, <1>11, <1>12, <1>13, <1>14, <1>15, <1>16, <1>17,
             <1>18, <1>19, <1>20 DEF Advance

LEMMA AccountInitial == Init => AccountInv
  <1> SUFFICES ASSUME Init PROVE AccountInv
    OBVIOUS
  <1>1. TypeOK
    BY AccountsAssumption, IdleRequest DEF Init, TypeOK, Statuses, Roles
  <1> QED BY <1>1, IdleRequest DEF Init, AccountInv, AbsentBlank, ActiveHasPassword,
                                   InviteLedger, AccountComplete, RequestOK, Idle

(* The invariant holds of every interleaving of any number of requests.    *)
THEOREM AccountInvariant == Spec => []AccountInv
  <1>1. Init => AccountInv
    BY AccountInitial
  <1>2. AccountInv /\ [Next]_vars => AccountInv'
    <2> SUFFICES ASSUME AccountInv, [Next]_vars PROVE AccountInv'
      OBVIOUS
    <2>1. CASE UNCHANGED vars
      BY <2>1 DEF vars, AccountInv, TypeOK, AbsentBlank, ActiveHasPassword, InviteLedger,
                  AccountComplete, RequestOK
    <2>2. ASSUME NEW u \in Users, Expire(u) PROVE AccountInv'
      <3>1. TypeOK'
        BY <2>2, TypeStep DEF AccountInv
      <3> QED BY <2>2, <3>1 DEF Expire, AccountInv, AbsentBlank, ActiveHasPassword,
                                InviteLedger, AccountComplete, RequestOK, tables
    <2> QED BY <2>1, <2>2, ArriveStep, AdvanceStep DEF Next
  <1> QED BY <1>1, <1>2, PTL DEF Spec

(* The type invariant of Accounts, for any number of users, workspaces,    *)
(* passwords and requests in flight.                                       *)
THEOREM TypeCorrect == Spec => []TypeOK
  BY AccountInvariant, PTL DEF AccountInv

(* No interleaving of any number of requests makes an account active that  *)
(* has no password (login, accept_invite, reactivate_user).                *)
THEOREM PasswordSafe == Spec => []ActiveHasPassword
  BY AccountInvariant, PTL DEF AccountInv

(* Wherever accept_invite is cut off, no invitee loses the invite without  *)
(* having the password it was to set.                                      *)
THEOREM InviteSafe == Spec => []InviteLedger
  BY AccountInvariant, PTL DEF AccountInv

(* Every account but the bootstrap one keeps its invite and its one        *)
(* workspace role, whatever requests invite_user serves at the same time.  *)
THEOREM InviteAtomic == Spec => []AccountComplete
  BY AccountInvariant, PTL DEF AccountInv

-----------------------------------------------------------------------------
(* One account at a time: whatever happens to other accounts, what a       *)
(* request has read of an account that no other request is about is still  *)
(* true when it writes.                                                    *)

AloneInv ==
    /\ AccountInv
    /\ \A u \in Users \ contended : \A r, s \in InFlight :
          req[r].user = u /\ req[s].user = u => r = s
    /\ \A u \in Users \ contended :
          /\ redemptions[u] <= 1
          /\ status[u] \in {"none", "invited"} => redemptions[u] = 0
    /\ \A r \in Requests :
          req[r].pc = "accept_update" /\ req[r].user \notin contended
              => status[req[r].user] = "invited"

LEMMA AloneInit == Init => AloneInv
  <1> SUFFICES ASSUME Init PROVE AloneInv
    OBVIOUS
  <1>1. AccountInv
    BY AccountInitial
  <1> QED BY <1>1 DEF Init, AloneInv, InFlight, Idle

LEMMA AloneArrive ==
  ASSUME AloneInv, AccountInv', NEW r \in Requests, Arrive(r)
  PROVE  AloneInv'
  <1>1. UNCHANGED <<tables, redemptions>>
    BY DEF Arrive, BootRead, InviteStart, AcceptFindInvite, DisableStart, ReactivateStart,
           RoleStart
  <1>2. PICK q : Fresh(q) /\ Begin(r, q)
    BY ArriveFresh
  <1>3. req'[r] = q /\ \A s \in Requests : s # r => req'[s] = req[s]
    BY <1>2, BeginStep DEF AloneInv, AccountInv, Fresh
  <1>4. q.pc # "accept_update" /\ contended \subseteq contended'
    BY <1>2 DEF Fresh, Begin
  <1>5. q.user \notin contended' => \A s \in InFlight : req[s].user # q.user
    BY <1>2 DEF Begin
  <1>6. \A u \in Users \ contended' : \A s, t \in InFlight' :
           req'[s].user = u /\ req'[t].user = u => s = t
    BY <1>3, <1>4, <1>5 DEF AloneInv, InFlight
  <1> QED BY <1>1, <1>3, <1>4, <1>6 DEF AloneInv, tables

(* A statement moves no request to another account and starts none.        *)
LEMMA AdvanceRequests ==
  ASSUME TypeOK, NEW r \in Requests, Advance(r)
  PROVE  /\ UNCHANGED <<contended, crowded>>
         /\ \A s \in Requests : s # r => req'[s] = req[s]
         /\ req'[r].pc = "idle" \/ req'[r].user = req[r].user
         /\ req[r].pc # "idle"
  <1> USE DEF overlaps
  <1>1. req[r].pc # "idle"
    BY DEF Advance, BootCreate, InviteFind, InviteCommit, AcceptReadUser, AcceptUpdateUser,
           AcceptCloseInvite, DisableRead, DisableCount, DisableUpdate, ReactivateRead,
           ReactivateUpdate, RoleRead, RoleCount, RoleUpdate, Fail
  <1>2. CASE Respond(r)
    BY <1>1, <1>2, RespondStep DEF Idle
  <1>3. ASSUME NEW p \in PCs, Goto(r, p)
        PROVE  /\ UNCHANGED <<contended, crowded>>
               /\ \A s \in Requests : s # r => req'[s] = req[s]
               /\ req'[r].user = req[r].user
    <2>1. req[r] \in Request /\ req'[r] = [req[r] EXCEPT !.pc = p]
      BY <1>3, GotoStep DEF TypeOK
    <2> QED BY <1>3, <2>1, GotoStep DEF Request
  <1>4. Respond(r) \/ \E p \in PCs : Goto(r, p)
    BY DEF Advance, BootCreate, InviteFind, InviteCommit, AcceptReadUser, AcceptUpdateUser,
           AcceptCloseInvite, DisableRead, DisableCount, DisableUpdate, ReactivateRead,
           ReactivateUpdate, RoleRead, RoleCount, RoleUpdate, Fail, PCs
  <1> QED BY <1>1, <1>2, <1>3, <1>4

LEMMA AloneAdvance ==
  ASSUME AloneInv, AccountInv', NEW r \in Requests, Advance(r)
  PROVE  AloneInv'
  <1> DEFINE u == req[r].user
  <1>1. TypeOK /\ RequestOK(r) /\ u \in Users
    BY RequestFields DEF AloneInv, AccountInv
  <1>2. /\ UNCHANGED contended
        /\ \A s \in Requests : s # r => req'[s] = req[s]
        /\ req'[r].pc = "idle" \/ req'[r].user = u
        /\ r \in InFlight
    BY <1>1, AdvanceRequests DEF InFlight
  <1>3. \A v \in Users \ contended' : \A s, t \in InFlight' :
           req'[s].user = v /\ req'[t].user = v => s = t
    BY <1>2 DEF AloneInv, InFlight
  <1>4. u \notin contended => \A s \in InFlight : req[s].user = u => s = r
    BY <1>1, <1>2 DEF AloneInv
  <1> DEFINE Ledger == \A v \in Users \ contended :
                          /\ redemptions[v] <= 1
                          /\ status[v] \in {"none", "invited"} => redemptions[v] = 0
             Checked(s) == req[s].pc = "accept_update" /\ req[s].user \notin contended
                              => status[req[s].user] = "invited"
  <1>5. Ledger /\ \A s \in Requests : Checked(s)
    BY DEF AloneInv
  <1> HIDE DEF Ledger, Checked
  <1>6. ASSUME Ledger', Checked(r)',
               \A v \in Users : v # u => status'[v] = status[v]
        PROVE  AloneInv'
    <2>1. ASSUME NEW s \in Requests, s # r PROVE Checked(s)'
      <3>1. req[s].user \in Users
        BY <1>1, RequestFields
      <3> QED BY <1>2, <1>4, <1>5, <1>6, <2>1, <3>1 DEF Checked, InFlight
    <2> QED BY <1>3, <1>6, <2>1 DEF AloneInv, Ledger, Checked
  <1>7. ASSUME req'[r].pc # "accept_update" PROVE Checked(r)'
    BY <1>7 DEF Checked
  <1>8. ASSUME Respond(r) PROVE Checked(r)'
    BY <1>1, <1>8, <1>7, RespondStep DEF Idle
  <1>9. ASSUME NEW p \in PCs, Goto(r, p)
        PROVE  req'[r].pc = p /\ req'[r].user = u
    <2>1. req[r] \in Request /\ req'[r] = [req[r] EXCEPT !.pc = p]
      BY <1>1, <1>9, GotoStep DEF TypeOK
    <2> QED BY <2>1 DEF Request
  <1>10. ASSUME UNCHANGED <<tables, redemptions>>, Checked(r)' PROVE AloneInv'
    <2>1. Ledger'
      BY <1>2, <1>5, <1>10 DEF Ledger, tables
    <2> QED BY <1>6, <1>10, <2>1 DEF tables
  <1> USE DEF PCs
  <1>11. CASE AcceptReadUser(r)
    <2>1. AcceptAllowed(u) => status[u] = "invited"
      BY <1>1, <1>11
      DEF AcceptReadUser, AcceptAllowed, RequestOK, AloneInv, AccountInv, AbsentBlank, TypeOK,
          Statuses
    <2>2. Checked(r)'
      BY <1>2, <1>8, <1>9, <1>11, <2>1 DEF AcceptReadUser, Checked, tables
    <2> QED BY <1>10, <1>11, <2>2 DEF AcceptReadUser
  <1>12. CASE AcceptUpdateUser(r)
    <2>1. /\ status' = [status EXCEPT ![u] = "active"]
          /\ redemptions' = [redemptions EXCEPT ![u] = @ + 1]
          /\ u \notin contended => status[u] = "invited"
          /\ Goto(r, "accept_close")
      BY <1>5, <1>12 DEF AcceptUpdateUser, Checked
    <2>2. Ledger'
      BY <1>1, <1>2, <1>5, <2>1 DEF Ledger, TypeOK
    <2> QED BY <1>1, <1>6, <1>7, <1>9, <2>1, <2>2 DEF TypeOK
  <1>13. CASE BootCreate(r) \/ InviteCommit(r) \/ DisableUpdate(r) \/ ReactivateUpdate(r)
    <2>1. /\ Respond(r) /\ UNCHANGED redemptions
          /\ \/ status[u] = "none" /\ \E x \in {"active", "invited"} : status' = [status EXCEPT ![u] = x]
             \/ \E x \in {"active", "disabled"} : status' = [status EXCEPT ![u] = x]
             \/ status' = status
      BY <1>13 DEF BootCreate, InviteCommit, DisableUpdate, ReactivateUpdate, tables
    <2>2. Ledger'
      BY <1>1, <1>2, <1>5, <2>1 DEF Ledger, TypeOK
    <2> QED BY <1>1, <1>6, <1>8, <2>1, <2>2 DEF TypeOK
  <1>14. CASE AcceptCloseInvite(r) \/ RoleUpdate(r)
    <2>1. Respond(r) /\ UNCHANGED <<status, redemptions>>
      BY <1>14 DEF AcceptCloseInvite, RoleUpdate
    <2>2. Ledger'
      BY <1>2, <1>5, <2>1 DEF Ledger
    <2> QED BY <1>6, <1>8, <2>1, <2>2
  <1>15. CASE \/ InviteFind(r) \/ DisableRead(r) \/ DisableCount(r) \/ ReactivateRead(r)
              \/ RoleRead(r) \/ RoleCount(r) \/ Fail(r)
    <2>1. Checked(r)' /\ UNCHANGED <<tables, redemptions>>
      BY <1>7, <1>8, <1>9, <1>15
      DEF InviteFind, DisableRead, DisableCount, ReactivateRead, RoleRead, RoleCount, Fail
    <2> QED BY <1>10, <2>1
  <1> QED BY <1>11, <1>12, <1>13, <1>14, <1>15 DEF Advance

LEMMA AloneStep ==
  ASSUME AloneInv, AccountInv', [Next]_vars
  PROVE  AloneInv'
  <1>1. CASE UNCHANGED vars \/ \E u \in Users : Expire(u)
    <2>1. UNCHANGED <<status, redemptions, contended, req>>
      BY <1>1 DEF vars, tables, overlaps, Expire
    <2> QED BY <2>1 DEF AloneInv, InFlight
  <1> QED BY <1>1, AloneArrive, AloneAdvance DEF Next

(* An invite sets the password of its account at most once, for any number *)
(* of requests in flight, if no two of them are about that account.        *)
THEOREM InviteOneTimeAlone == Spec => []RedeemedOnceAlone
  <1>1. AloneInv /\ AccountInv' /\ [Next]_vars => AloneInv'
    BY AloneStep
  <1>2. AloneInv => RedeemedOnceAlone
    BY DEF AloneInv, RedeemedOnceAlone
  <1> QED BY <1>1, <1>2, AloneInit, AccountInvariant, PTL DEF Spec

(* Who may bring a disabled account back, of which no two requests were in *)
(* flight at once: a request that is at the statement of reactivate_user.  *)
LEMMA OnlyReactivation ==
  ASSUME AloneInv, Next, NEW u \in Users \ contended,
         status[u] = "disabled", status'[u] # "disabled"
  PROVE  \E r \in Requests : req[r].pc = "reactivate_update" /\ req[r].user = u
  <1>1. PICK r \in Requests : Arrive(r) \/ Advance(r)
    BY DEF Next, Expire, tables
  <1>2. ~Arrive(r)
    BY DEF Arrive, BootRead, InviteStart, AcceptFindInvite, DisableStart, ReactivateStart,
           RoleStart, tables
  <1>3. req[r].user \in Users /\ status \in [Users -> Statuses \cup {"none"}]
    BY RequestFields DEF AloneInv, AccountInv, TypeOK
  <1>4. CASE BootCreate(r) \/ InviteCommit(r) \/ AcceptUpdateUser(r) \/ DisableUpdate(r)
    BY <1>3, <1>4
    DEF BootCreate, InviteCommit, AcceptUpdateUser, DisableUpdate, AloneInv, tables
  <1>5. CASE ReactivateUpdate(r)
    BY <1>3, <1>5 DEF ReactivateUpdate
  <1> QED
    BY <1>1, <1>2, <1>4, <1>5
    DEF Advance, InviteFind, AcceptReadUser, AcceptCloseInvite, DisableRead, DisableCount,
        ReactivateRead, RoleRead, RoleCount, RoleUpdate, Fail, tables

(* A disabled account comes back by the statement of reactivate_user only, *)
(* for any number of requests, if no two of them are about that account.   *)
THEOREM DisabledStaysAlone == Spec => DisabledUntilReactivatedAlone
  <1> DEFINE Back == \A u \in Users \ contended :
                 status[u] = "disabled" /\ status'[u] # "disabled"
                     => \E r \in Requests : req[r].pc = "reactivate_update" /\ req[r].user = u
  <1>1. AloneInv /\ AccountInv' /\ [Next]_vars => AloneInv'
    BY AloneStep
  <1>2. AloneInv /\ [Next]_vars => [Back]_vars
    BY OnlyReactivation
  <1> QED BY <1>1, <1>2, AloneInit, AccountInvariant, PTL DEF Spec, DisabledUntilReactivatedAlone

-----------------------------------------------------------------------------
(* One request of the admin routes at a time, among any number of others:  *)
(* the count of active super admins is still true when the update that it  *)
(* allows is executed, because no other handler takes a super admin away.  *)

OtherAdmin(u) == \E v \in ActiveSuperAdmins : v # u

Ruling(r) ==
    LET q == req[r] IN
    /\ q.pc \in Managing => AdminUser
    /\ q.pc \in {"invite_find", "invite_commit"} => \E v \in Users : status[v] # "none"
    /\ q.pc \in {"disable_count", "disable_update", "role_count", "role_update"}
          => status[q.user] # "none"
    /\ q.pc = "disable_update" => role[q.user] # "super_admin" \/ OtherAdmin(q.user)
    /\ q.pc = "role_update" /\ q.role # "super_admin"
          => role[q.user] # "super_admin" \/ OtherAdmin(q.user)

AdminInv ==
    /\ AccountInv
    /\ ActiveAdminRemainsAlone
    /\ ~crowded => \A r, s \in Requests :
                      req[r].pc \in Managing /\ req[s].pc \in Managing => r = s
    /\ ~crowded => \A r \in Requests : Ruling(r)

LEMMA AdminInit == Init => AdminInv
  <1> SUFFICES ASSUME Init PROVE AdminInv
    OBVIOUS
  <1>1. AccountInv
    BY AccountInitial
  <1> QED BY <1>1 DEF Init, AdminInv, ActiveAdminRemainsAlone, ActiveAdminRemains, Ruling,
                      Managing, Idle

(* active_super_admin_count() > 1 means that there is an active super      *)
(* admin besides whoever is to be taken away.                              *)
LEMMA CountFindsAnother ==
  ASSUME ~LastSuperAdmin, NEW u \in Users
  PROVE  OtherAdmin(u)
  <1>1. CASE ActiveSuperAdmins \subseteq {u}
    <2>1. IsFiniteSet({u}) /\ Cardinality({u}) = 1
      BY FS_Singleton
    <2>2. IsFiniteSet(ActiveSuperAdmins) /\ Cardinality(ActiveSuperAdmins) <= Cardinality({u})
      BY <1>1, <2>1, FS_Subset
    <2> QED BY <2>1, <2>2 DEF LastSuperAdmin
  <1>2. CASE \E v \in ActiveSuperAdmins : v # u
    BY <1>2 DEF OtherAdmin
  <1> QED BY <1>1, <1>2

LEMMA AdminArrive ==
  ASSUME AdminInv, AccountInv', NEW r \in Requests, Arrive(r)
  PROVE  AdminInv'
  <1>1. UNCHANGED tables
    BY DEF Arrive, BootRead, InviteStart, AcceptFindInvite, DisableStart, ReactivateStart,
           RoleStart
  <1>2. PICK q : Fresh(q) /\ Begin(r, q)
    BY ArriveFresh
  <1>3. req'[r] = q /\ \A s \in Requests : s # r => req'[s] = req[s]
    BY <1>2, BeginStep DEF AdminInv, AccountInv, Fresh
  <1>4. ~crowded' => /\ ~crowded
                     /\ q.pc \in Managing => \A s \in Requests : req[s].pc \notin Managing
    BY <1>2 DEF Begin
  <1>5. UNCHANGED <<ActiveSuperAdmins, AdminUser>> /\ \A u \in Users : OtherAdmin(u)' = OtherAdmin(u)
    BY <1>1 DEF tables, ActiveSuperAdmins, AdminUser, OtherAdmin
  <1>6. ActiveAdminRemainsAlone'
    BY <1>1, <1>4, <1>5 DEF AdminInv, ActiveAdminRemainsAlone, ActiveAdminRemains, tables
  <1>7. ~crowded' => \A s, t \in Requests :
                        req'[s].pc \in Managing /\ req'[t].pc \in Managing => s = t
    BY <1>3, <1>4 DEF AdminInv
  <1>8. Ruling(r)'
    BY <1>1, <1>2, <1>3, <1>5 DEF Fresh, Ruling, Managing, tables
  <1>9. ASSUME ~crowded', NEW s \in Requests, s # r PROVE Ruling(s)'
    <2>1. Ruling(s) /\ req[s].user \in Users /\ req'[s] = req[s]
      BY <1>3, <1>4, <1>9, RequestFields DEF AdminInv, AccountInv
    <2> QED BY <1>1, <1>5, <2>1 DEF Ruling, tables
  <1> QED BY <1>6, <1>7, <1>8, <1>9 DEF AdminInv

(* Accounts never vanish.                                                  *)
LEMMA AccountsStay ==
  ASSUME AccountInv, NEW r \in Requests, Advance(r), NEW v \in Users, status[v] # "none"
  PROVE  status'[v] # "none"
  <1>1. TypeOK /\ req[r].user \in Users
    BY RequestFields DEF AccountInv
  <1> QED BY <1>1 DEF TypeOK, Advance, BootCreate, InviteFind, InviteCommit, AcceptReadUser,
              AcceptUpdateUser, AcceptCloseInvite, DisableRead, DisableCount, DisableUpdate,
              ReactivateRead, ReactivateUpdate, RoleRead, RoleCount, RoleUpdate, Fail, tables

(* Outside the admin routes, whoever rules goes on ruling and no existing  *)
(* account changes its role.                                               *)
LEMMA OthersSpareAdmins ==
  ASSUME AccountInv, NEW r \in Requests, Advance(r), req[r].pc \notin Managing
  PROVE  /\ ActiveSuperAdmins \subseteq ActiveSuperAdmins'
         /\ \A v \in Users : status[v] # "none" => role'[v] = role[v]
  <1> DEFINE u == req[r].user
  <1>1. TypeOK /\ u \in Users /\ req[r].pc \in PCs
    BY RequestFields DEF AccountInv
  <1>2. CASE BootCreate(r) \/ InviteCommit(r)
    <2>1. \/ UNCHANGED <<status, role>>
          \/ /\ status[u] = "none"
             /\ \E x \in {"active", "invited"} : status' = [status EXCEPT ![u] = x]
             /\ \E y \in {"viewer", "super_admin"} : role' = [role EXCEPT ![u] = y]
      BY <1>2 DEF BootCreate, InviteCommit, tables
    <2> QED BY <1>1, <2>1 DEF TypeOK, ActiveSuperAdmins
  <1>3. CASE AcceptUpdateUser(r)
    BY <1>1, <1>3 DEF TypeOK, AcceptUpdateUser, ActiveSuperAdmins
  <1>4. CASE UNCHANGED <<status, role>>
    BY <1>4 DEF ActiveSuperAdmins
  <1> QED
    BY <1>1, <1>2, <1>3, <1>4
    DEF Advance, InviteFind, AcceptReadUser, AcceptCloseInvite, DisableRead, DisableCount,
        DisableUpdate, ReactivateRead, ReactivateUpdate, RoleRead, RoleCount, RoleUpdate, Fail,
        Managing, tables

LEMMA AdminAdvance ==
  ASSUME AdminInv, AccountInv', NEW r \in Requests, Advance(r)
  PROVE  AdminInv'
  <1> DEFINE u == req[r].user
  <1>1. AccountInv /\ TypeOK /\ RequestOK(r) /\ u \in Users
    BY RequestFields DEF AdminInv, AccountInv
  <1>2. /\ UNCHANGED crowded
        /\ \A s \in Requests : s # r => req'[s] = req[s]
    BY <1>1, AdvanceRequests
  <1>3. CASE crowded
    BY <1>2, <1>3 DEF AdminInv, ActiveAdminRemainsAlone
  <1> SUFFICES ASSUME ~crowded PROVE AdminInv'
    BY <1>3
  <1> DEFINE Managed == req'[r].pc \in Managing => req[r].pc \in Managing
  <1>4. ASSUME ActiveAdminRemains', Managed, \A s \in Requests : Ruling(s)' PROVE AdminInv'
    <2>1. \A s, t \in Requests : req'[s].pc \in Managing /\ req'[t].pc \in Managing => s = t
      BY <1>2, <1>4 DEF AdminInv
    <2> QED BY <1>4, <2>1 DEF AdminInv, ActiveAdminRemainsAlone
  <1>5. ActiveAdminRemains /\ \A s \in Requests : Ruling(s)
    BY DEF AdminInv, ActiveAdminRemainsAlone
  <1>6. \A s \in Requests : req[r].pc \in Managing /\ s # r => req[s].pc \notin Managing
    BY DEF AdminInv
  <1>7. \A v \in Users : status[v] # "none" => status'[v] # "none"
    BY <1>1, AccountsStay
  <1>8. ASSUME NEW s \in Requests, s # r PROVE Ruling(s)'
    <2>1. req'[s] = req[s] /\ Ruling(s) /\ req[s].user \in Users
      BY <1>1, <1>2, <1>5, <1>8, RequestFields
    <2>2. CASE req[r].pc \in Managing
      BY <1>6, <1>7, <1>8, <2>1, <2>2 DEF Ruling, Managing
    <2>3. CASE req[r].pc \notin Managing
      <3>1. /\ ActiveSuperAdmins \subseteq ActiveSuperAdmins'
            /\ \A v \in Users : status[v] # "none" => role'[v] = role[v]
        BY <1>1, <2>3, OthersSpareAdmins
      <3> QED BY <1>7, <2>1, <3>1 DEF Ruling, AdminUser, OtherAdmin
    <2> QED BY <2>2, <2>3
  <1>9. ASSUME Respond(r) PROVE req'[r].pc \notin Managing /\ Ruling(r)'
    BY <1>1, <1>9, RespondStep DEF Ruling, Managing, Idle
  <1>10. ASSUME NEW p \in PCs, Goto(r, p)
         PROVE  req'[r].pc = p /\ req'[r].user = u /\ req'[r].role = req[r].role
    <2>1. req[r] \in Request /\ req'[r] = [req[r] EXCEPT !.pc = p]
      BY <1>1, <1>10, GotoStep DEF TypeOK
    <2> QED BY <2>1 DEF Request
  <1>11. ASSUME UNCHANGED tables
         PROVE  /\ ActiveAdminRemains'
                /\ UNCHANGED <<status, role, ActiveSuperAdmins>>
                /\ \A v \in Users : OtherAdmin(v)' = OtherAdmin(v)
    BY <1>5, <1>11 DEF tables, ActiveAdminRemains, ActiveSuperAdmins, OtherAdmin
  <1>12. Ruling(r)
    BY <1>5
  <1> USE DEF PCs, Managing
  <1>13. CASE InviteFind(r) \/ AcceptReadUser(r) \/ ReactivateRead(r) \/ Fail(r)
    <2>1. CASE Respond(r)
      BY <1>1, <1>4, <1>8, <1>9, <1>11, <1>13, <2>1 DEF InviteFind, AcceptReadUser, ReactivateRead, Fail
    <2>2. CASE \E p \in {"invite_commit", "accept_update", "reactivate_update"} : Goto(r, p)
      <3>1. UNCHANGED tables
        BY <1>13 DEF InviteFind, AcceptReadUser, ReactivateRead, Fail
      <3>2. CASE Goto(r, "invite_commit") /\ InviteFind(r)
        <4>1. Ruling(r)'
          BY <1>10, <1>11, <1>12, <3>1, <3>2 DEF InviteFind, Ruling
        <4> QED BY <1>4, <1>8, <1>10, <1>11, <3>1, <3>2, <4>1
      <3>3. CASE Goto(r, "accept_update") /\ AcceptReadUser(r)
        <4>1. Ruling(r)'
          BY <1>10, <3>3 DEF Ruling
        <4> QED BY <1>4, <1>8, <1>10, <1>11, <3>1, <3>3, <4>1
      <3>4. CASE Goto(r, "reactivate_update") /\ ReactivateRead(r)
        <4>1. Ruling(r)'
          BY <1>10, <1>11, <1>12, <3>1, <3>4 DEF ReactivateRead, Ruling, AdminUser
        <4> QED BY <1>4, <1>8, <1>10, <1>11, <3>1, <3>4, <4>1 DEF ReactivateRead
      <3> QED BY <1>1, <1>4, <1>8, <1>9, <1>11, <1>13, <3>1, <3>2, <3>3, <3>4
              DEF InviteFind, AcceptReadUser, ReactivateRead, Fail
    <2> QED BY <1>13, <2>1, <2>2 DEF InviteFind, AcceptReadUser, ReactivateRead, Fail
  <1>14. CASE DisableRead(r)
    <2>1. CASE Respond(r)
      BY <1>1, <1>4, <1>8, <1>9, <1>11, <1>14, <2>1 DEF DisableRead
    <2>2. CASE status[u] \notin {"none", "disabled"} /\ ~Respond(r)
      BY <1>1, <1>4, <1>8, <1>10, <1>11, <1>12, <1>14, <2>2 DEF DisableRead, Ruling, AdminUser
    <2> QED BY <1>14, <2>1, <2>2 DEF DisableRead
  <1>15. CASE DisableCount(r) \/ RoleCount(r)
    <2>1. CASE LastSuperAdmin
      BY <1>1, <1>4, <1>8, <1>9, <1>11, <1>15, <2>1 DEF DisableCount, RoleCount
    <2>2. CASE ~LastSuperAdmin
      <3>1. OtherAdmin(u) /\ UNCHANGED tables
        BY <1>1, <1>15, <2>2, CountFindsAnother DEF DisableCount, RoleCount
      <3>2. \E p \in {"disable_update", "role_update"} :
               Goto(r, p) /\ req[r].pc \in {"disable_count", "role_count"}
        BY <1>15, <2>2 DEF DisableCount, RoleCount
      <3> QED BY <1>1, <1>4, <1>8, <1>10, <1>11, <1>12, <3>1, <3>2 DEF Ruling, AdminUser
    <2> QED BY <2>1, <2>2
  <1>16. CASE RoleRead(r)
    <2>1. CASE Respond(r)
      BY <1>1, <1>4, <1>8, <1>9, <1>11, <1>16, <2>1 DEF RoleRead
    <2>2. CASE status[u] # "none" /\ ~Respond(r)
      <3>1. AdminUser /\ UNCHANGED tables
        BY <1>12, <1>16 DEF RoleRead, Ruling
      <3>2. ~Demotes(u, req[r].role) /\ req[r].role # "super_admin"
               => role[u] # "super_admin" \/ OtherAdmin(u)
        BY <3>1 DEF Demotes, AdminUser, OtherAdmin, ActiveSuperAdmins
      <3> QED BY <1>1, <1>4, <1>8, <1>10, <1>11, <1>16, <2>2, <3>1, <3>2 DEF RoleRead, Ruling, AdminUser
    <2> QED BY <1>16, <2>1, <2>2 DEF RoleRead
  <1>17. CASE BootCreate(r)
    <2>1. Respond(r)
      BY <1>17 DEF BootCreate
    <2>2. ActiveAdminRemains'
      BY <1>1, <1>5, <1>17 DEF BootCreate, TypeOK, ActiveAdminRemains, ActiveSuperAdmins
    <2> QED BY <1>1, <1>4, <1>8, <1>9, <2>1, <2>2
  <1>18. CASE InviteCommit(r)
    <2>1. Respond(r) /\ AdminUser
      BY <1>5, <1>12, <1>18 DEF InviteCommit, Ruling, ActiveAdminRemains, AdminUser
    <2>2. ActiveSuperAdmins \subseteq ActiveSuperAdmins'
      BY <1>1, <1>18, OthersSpareAdmins DEF InviteCommit
    <2> QED BY <1>1, <1>4, <1>8, <1>9, <2>1, <2>2 DEF ActiveAdminRemains, AdminUser
  <1>19. CASE AcceptUpdateUser(r)
    <2>1. status[u] # "none" /\ Goto(r, "accept_close")
      BY <1>1, <1>19 DEF AcceptUpdateUser, RequestOK, AccountInv, AbsentBlank
    <2>2. ActiveSuperAdmins \subseteq ActiveSuperAdmins'
      BY <1>1, <1>19, OthersSpareAdmins DEF AcceptUpdateUser
    <2> QED BY <1>1, <1>4, <1>5, <1>8, <1>10, <2>1, <2>2 DEF ActiveAdminRemains, Ruling
  <1>20. CASE AcceptCloseInvite(r)
    BY <1>4, <1>5, <1>8, <1>9, <1>20 DEF AcceptCloseInvite, ActiveAdminRemains, ActiveSuperAdmins
  <1>21. CASE DisableUpdate(r)
    <2>1. /\ Respond(r) /\ AdminUser /\ UNCHANGED role
          /\ status' = [status EXCEPT ![u] = "disabled"]
          /\ role[u] # "super_admin" \/ OtherAdmin(u)
      BY <1>12, <1>21 DEF DisableUpdate, Ruling
    <2>2. \E v \in ActiveSuperAdmins : v # u
      BY <2>1 DEF AdminUser, OtherAdmin, ActiveSuperAdmins
    <2>3. ActiveAdminRemains'
      BY <1>1, <2>1, <2>2 DEF TypeOK, ActiveAdminRemains, ActiveSuperAdmins
    <2> QED BY <1>1, <1>4, <1>8, <1>9, <2>1, <2>3
  <1>22. CASE ReactivateUpdate(r)
    <2>1. Respond(r) /\ AdminUser
      BY <1>12, <1>22 DEF ReactivateUpdate, Ruling
    <2>2. ActiveAdminRemains'
      BY <1>1, <1>22, <2>1
      DEF ReactivateUpdate, AdminUser, TypeOK, ActiveAdminRemains, ActiveSuperAdmins
    <2> QED BY <1>1, <1>4, <1>8, <1>9, <2>1, <2>2
  <1>23. CASE RoleUpdate(r)
    <2>1. /\ Respond(r) /\ AdminUser /\ UNCHANGED status
          /\ role' = [role EXCEPT ![u] = req[r].role]
          /\ req[r].role # "super_admin" => role[u] # "super_admin" \/ OtherAdmin(u)
      BY <1>12, <1>23 DEF RoleUpdate, Ruling
    <2>2. req[r].role = "super_admin" \/ \E v \in ActiveSuperAdmins : v # u
      BY <2>1 DEF AdminUser, OtherAdmin, ActiveSuperAdmins
    <2>3. ActiveAdminRemains'
      BY <1>1, <2>1, <2>2 DEF AdminUser, TypeOK, ActiveAdminRemains, ActiveSuperAdmins
    <2> QED BY <1>1, <1>4, <1>8, <1>9, <2>1, <2>3
  <1> QED BY <1>13, <1>14, <1>15, <1>16, <1>17, <1>18, <1>19, <1>20, <1>21, <1>22, <1>23
          DEF Advance

(* For any number of requests in flight, an active super admin remains if  *)
(* no two requests of the admin routes overlap (disable_user,              *)
(* reactivate_user and change_user_role): it is enough to serialise them.  *)
THEOREM AdminSafeAlone == Spec => []ActiveAdminRemainsAlone
  <1>1. AdminInv /\ AccountInv' /\ [Next]_vars => AdminInv'
    <2> SUFFICES ASSUME AdminInv, AccountInv', [Next]_vars PROVE AdminInv'
      OBVIOUS
    <2>1. CASE UNCHANGED vars \/ \E u \in Users : Expire(u)
      <3>1. UNCHANGED <<tables, crowded, req>>
        BY <2>1 DEF vars, tables, overlaps, Expire
      <3> QED BY <3>1 DEF AdminInv, ActiveAdminRemainsAlone, ActiveAdminRemains,
                          ActiveSuperAdmins, AdminUser, OtherAdmin, Ruling, tables
    <2> QED BY <2>1, AdminArrive, AdminAdvance DEF Next
  <1>2. AdminInv => ActiveAdminRemainsAlone
    BY DEF AdminInv
  <1> QED BY <1>1, <1>2, AdminInit, AccountInvariant, PTL DEF Spec

-----------------------------------------------------------------------------
(* One request at a time: what a request has read is still true when it    *)
(* writes, and the handlers implement AccountContract.                     *)

OneAtATime == \A r, s \in Requests : r = s

(* The decisions a request carries to its next statement still hold.       *)
Current(r) ==
    LET q == req[r] IN
    /\ q.pc = "boot_create" => \A u \in Users : status[u] = "none"
    /\ q.pc \in {"invite_find", "invite_commit"} => \E u \in Users : status[u] = "active"
    /\ q.pc = "accept_update" => status[q.user] = "invited"
    /\ q.pc \in Managing => Contract!Authority
    /\ q.pc \in {"disable_count", "disable_update"} => status[q.user] \in {"invited", "active"}
    /\ q.pc = "disable_update" => Contract!Expendable(q.user)
    /\ q.pc = "reactivate_update" => ReactivateAllowed(q.user)
    /\ q.pc \in {"role_count", "role_update"} => status[q.user] # "none"
    /\ q.pc = "role_update" /\ q.role # "super_admin" => Contract!Expendable(q.user)

RedeemedOnAccept ==
    \A u \in Users :
        /\ redemptions[u] <= 1
        /\ status[u] \in {"none", "invited"} => redemptions[u] = 0

SerialInv ==
    /\ AccountInv
    /\ ActiveAdminRemains
    /\ RedeemedOnAccept
    /\ \A r \in Requests : Current(r)

(* active_super_admin_count() > 1 means that whoever is taken away, an     *)
(* active super admin is left.                                             *)
LEMMA CountProtects ==
  ASSUME ~LastSuperAdmin, NEW u \in Users
  PROVE  Contract!Expendable(u)
  BY CountFindsAnother
  DEF OtherAdmin, ActiveSuperAdmins, SuperAdmins, Contract!Expendable, Contract!ActiveAdmin

(* The extractor of the admin routes vouches for an active super admin.    *)
LEMMA AdminAuthority == AdminUser <=> Contract!Authority
  BY DEF AdminUser, ActiveSuperAdmins, SuperAdmins, Contract!Authority, Contract!ActiveAdmin

(* A step of the only request that writes nothing carries over everything  *)
(* but what the request itself has just learnt.                            *)
LEMMA SerialRead ==
  ASSUME SerialInv, AccountInv', OneAtATime, NEW r \in Requests, Current(r)',
         UNCHANGED <<tables, redemptions>>
  PROVE  SerialInv' /\ UNCHANGED Contract!contract
  BY DEF SerialInv, OneAtATime, ActiveAdminRemains, ActiveSuperAdmins, RedeemedOnAccept,
         tables, SuperAdmins, Enrolled, Contract!contract

LEMMA SerialArrive ==
  ASSUME SerialInv, AccountInv', OneAtATime, NEW r \in Requests, Arrive(r)
  PROVE  SerialInv' /\ UNCHANGED Contract!contract
  <1>1. UNCHANGED <<tables, redemptions>>
    BY DEF Arrive, BootRead, InviteStart, AcceptFindInvite, DisableStart, ReactivateStart,
           RoleStart
  <1>2. PICK q : Fresh(q) /\ Begin(r, q)
    BY ArriveFresh
  <1>3. req'[r] = q
    BY <1>2, BeginStep DEF SerialInv, AccountInv, Fresh
  <1>4. Current(r)'
    BY <1>1, <1>2, <1>3, AdminAuthority
    DEF Fresh, Current, Managing, tables, SuperAdmins, Contract!Authority, Contract!ActiveAdmin
  <1> QED BY <1>1, <1>4, SerialRead

(* A write of the only request is an operation of AccountContract, and     *)
(* leaves an active super admin behind.                                    *)
LEMMA SerialAdvance ==
  ASSUME SerialInv, AccountInv', OneAtATime, NEW r \in Requests, Advance(r)
  PROVE  SerialInv' /\ [Contract!Next]_(Contract!contract)
  <1> DEFINE u == req[r].user
  <1>1. TypeOK /\ RequestOK(r) /\ Current(r) /\ u \in Users
    BY RequestFields DEF SerialInv, AccountInv
  <1>2. ASSUME Respond(r) PROVE \A s \in Requests : Current(s)'
    BY <1>1, <1>2, RespondStep DEF OneAtATime, Current, Managing, Idle
  <1>3. ASSUME Respond(r), UNCHANGED <<tables, redemptions>> PROVE SerialInv' /\ UNCHANGED Contract!contract
    BY <1>2, <1>3, SerialRead
  <1>4. ASSUME NEW p \in PCs, Goto(r, p)
        PROVE  req'[r].pc = p /\ req'[r].user = u /\ req'[r].role = req[r].role
    <2>1. req[r] \in Request /\ req'[r] = [req[r] EXCEPT !.pc = p]
      BY <1>1, <1>4, GotoStep DEF TypeOK
    <2> QED BY <2>1 DEF Request
  <1>5. ASSUME NEW p \in PCs, Goto(r, p), UNCHANGED <<tables, redemptions>>,
               p \in Managing => Contract!Authority,
               p = "invite_commit" => \E v \in Users : status[v] = "active",
               p = "accept_update" => status[u] = "invited",
               p \in {"disable_count", "disable_update"} => status[u] \in {"invited", "active"},
               p = "disable_update" => Contract!Expendable(u),
               p = "reactivate_update" => ReactivateAllowed(u),
               p \in {"role_count", "role_update"} => status[u] # "none",
               p = "role_update" /\ req[r].role # "super_admin" => Contract!Expendable(u),
               p \notin {"boot_create", "invite_find"}
        PROVE  SerialInv' /\ UNCHANGED Contract!contract
    <2>1. Current(r)'
      BY <1>4, <1>5
      DEF Current, tables, ReactivateAllowed, SuperAdmins, Contract!Authority,
          Contract!Expendable, Contract!ActiveAdmin
    <2> QED BY <1>5, <2>1, SerialRead
  <1> USE DEF PCs, Managing
  <1>6. CASE BootCreate(r)
    <2>1. u = BootstrapAdmin /\ \A v \in Users : status[v] = "none"
      BY <1>1, <1>6 DEF BootCreate, RequestOK, Current
    <2>2. /\ status' = [status EXCEPT ![u] = "active"]
          /\ role' = [role EXCEPT ![u] = "super_admin"]
          /\ \E p \in Passwords : password' = [password EXCEPT ![u] = p]
          /\ Respond(r) /\ UNCHANGED redemptions
      BY <1>1, <1>6, <2>1 DEF BootCreate
    <2>3. SuperAdmins' = SuperAdmins \cup {u} /\ Enrolled' = Enrolled \cup {u}
      BY <1>1, <2>2, AccountsAssumption DEF SuperAdmins, Enrolled, TypeOK
    <2>4. Contract!Bootstrap
      BY <2>1, <2>2, <2>3 DEF Contract!Bootstrap
    <2>5. ActiveAdminRemains' /\ RedeemedOnAccept'
      BY <1>1, <2>1, <2>2
      DEF ActiveAdminRemains, ActiveSuperAdmins, RedeemedOnAccept, SerialInv, TypeOK
    <2> QED BY <1>2, <2>2, <2>4, <2>5 DEF SerialInv, Contract!Next
  <1>7. CASE InviteFind(r)
    BY <1>1, <1>3, <1>5, <1>7 DEF InviteFind, Current
  <1>8. CASE InviteCommit(r)
    <2>1. CASE status[u] # "none"
      BY <1>3, <1>8, <2>1 DEF InviteCommit
    <2>2. CASE status[u] = "none"
      <3>1. /\ status' = [status EXCEPT ![u] = "invited"]
            /\ role' = [role EXCEPT ![u] = "viewer"]
            /\ password' = [password EXCEPT ![u] = NoPassword]
            /\ Respond(r) /\ UNCHANGED redemptions
            /\ \E v \in Users : status[v] = "active"
        BY <1>1, <1>8, <2>2 DEF InviteCommit, Current
      <3>2. SuperAdmins' = SuperAdmins \ {u} /\ Enrolled' = Enrolled \ {u}
        BY <1>1, <3>1 DEF SuperAdmins, Enrolled, TypeOK
      <3>3. Contract!Invite(u)
        BY <2>2, <3>1, <3>2 DEF Contract!Invite
      <3>4. ActiveAdminRemains' /\ RedeemedOnAccept'
        BY <1>1, <2>2, <3>1
        DEF ActiveAdminRemains, ActiveSuperAdmins, RedeemedOnAccept, SerialInv, TypeOK
      <3> QED BY <1>1, <1>2, <3>1, <3>3, <3>4 DEF SerialInv, Contract!Next
    <2> QED BY <2>1, <2>2
  <1>9. CASE AcceptReadUser(r)
    <2>1. AcceptAllowed(u) => status[u] = "invited"
      BY <1>1, <1>9
      DEF AcceptReadUser, AcceptAllowed, RequestOK, SerialInv, AccountInv, AbsentBlank, TypeOK,
          Statuses
    <2> QED BY <1>3, <1>5, <1>9, <2>1 DEF AcceptReadUser
  <1>10. CASE AcceptUpdateUser(r)
    <2>1. /\ status[u] = "invited" /\ status' = [status EXCEPT ![u] = "active"]
          /\ password' = [password EXCEPT ![u] = req[r].password] /\ req[r].password \in Passwords
          /\ redemptions' = [redemptions EXCEPT ![u] = @ + 1]
          /\ Goto(r, "accept_close") /\ UNCHANGED role
      BY <1>1, <1>10 DEF AcceptUpdateUser, RequestOK, Current
    <2>2. SuperAdmins' = SuperAdmins /\ Enrolled' = Enrolled \cup {u}
      BY <1>1, <2>1, AccountsAssumption DEF SuperAdmins, Enrolled, TypeOK
    <2>3. Contract!Accept(u)
      BY <2>1, <2>2 DEF Contract!Accept
    <2>4. ActiveAdminRemains' /\ RedeemedOnAccept'
      BY <1>1, <2>1
      DEF ActiveAdminRemains, ActiveSuperAdmins, RedeemedOnAccept, SerialInv, TypeOK
    <2>5. \A s \in Requests : Current(s)'
      BY <1>4, <2>1 DEF OneAtATime, Current
    <2> QED BY <1>1, <2>3, <2>4, <2>5 DEF SerialInv, Contract!Next
  <1>11. CASE AcceptCloseInvite(r)
    <2>1. Respond(r) /\ UNCHANGED <<status, role, password, redemptions>>
      BY <1>11 DEF AcceptCloseInvite
    <2>2. ActiveAdminRemains' /\ RedeemedOnAccept'
      BY <2>1 DEF ActiveAdminRemains, ActiveSuperAdmins, RedeemedOnAccept, SerialInv
    <2> QED BY <1>2, <2>1, <2>2 DEF SerialInv, SuperAdmins, Enrolled, Contract!contract
  <1>12. CASE DisableRead(r)
    <2>1. status[u] \in {"none", "disabled", "invited", "active"}
      BY <1>1 DEF TypeOK, Statuses
    <2>2. role[u] # "super_admin" => Contract!Expendable(u)
      BY DEF SuperAdmins, Contract!Expendable, Contract!ActiveAdmin
    <2> QED BY <1>1, <1>3, <1>5, <1>12, <2>1, <2>2 DEF DisableRead, Current
  <1>13. CASE DisableCount(r)
    BY <1>1, <1>3, <1>5, <1>13, CountProtects DEF DisableCount, Current
  <1>14. CASE DisableUpdate(r)
    <2>1. Contract!Disable(u) /\ Respond(r) /\ UNCHANGED <<role, redemptions>>
      BY <1>1, <1>14 DEF DisableUpdate, SuperAdmins, Enrolled, Contract!Disable, Current
    <2>2. ActiveAdminRemains' /\ RedeemedOnAccept'
      BY <1>1, <2>1
      DEF Contract!Disable, Contract!Authority, Contract!Expendable, Contract!ActiveAdmin,
          SuperAdmins, ActiveAdminRemains, ActiveSuperAdmins, RedeemedOnAccept, SerialInv, TypeOK
    <2> QED BY <1>1, <1>2, <2>1, <2>2 DEF SerialInv, Contract!Next
  <1>15. CASE ReactivateRead(r)
    BY <1>1, <1>3, <1>5, <1>15 DEF ReactivateRead, Current
  <1>16. CASE ReactivateUpdate(r)
    <2>1. Contract!Reactivate(u) /\ Respond(r) /\ UNCHANGED <<role, redemptions>>
      BY <1>1, <1>16
      DEF ReactivateUpdate, ReactivateAllowed, SuperAdmins, Enrolled, Contract!Reactivate, Current
    <2>2. ActiveAdminRemains' /\ RedeemedOnAccept'
      BY <1>1, <2>1
      DEF Contract!Reactivate, ActiveAdminRemains, ActiveSuperAdmins, RedeemedOnAccept,
          SerialInv, TypeOK
    <2> QED BY <1>1, <1>2, <2>1, <2>2 DEF SerialInv, Contract!Next
  <1>17. CASE RoleRead(r)
    <2>1. ~Demotes(u, req[r].role) /\ req[r].role # "super_admin" => Contract!Expendable(u)
      BY DEF Demotes, SuperAdmins, Contract!Expendable, Contract!ActiveAdmin
    <2> QED BY <1>1, <1>3, <1>5, <1>17, <2>1 DEF RoleRead, Current
  <1>18. CASE RoleCount(r)
    BY <1>1, <1>3, <1>5, <1>18, CountProtects DEF RoleCount, Current
  <1>19. CASE RoleUpdate(r)
    <2>1. /\ role' = [role EXCEPT ![u] = req[r].role]
          /\ Respond(r) /\ UNCHANGED <<status, password, redemptions>>
      BY <1>19 DEF RoleUpdate
    <2>2. Enrolled' = Enrolled
      BY <2>1 DEF Enrolled
    <2>3. CASE req[r].role = "super_admin"
      <3>1. SuperAdmins' = SuperAdmins \cup {u}
        BY <1>1, <2>1, <2>3 DEF SuperAdmins, TypeOK
      <3>2. Contract!Promote(u)
        BY <1>1, <1>19, <2>1, <2>2, <3>1 DEF RoleUpdate, Current, Contract!Promote
      <3>3. ActiveAdminRemains' /\ RedeemedOnAccept'
        BY <1>1, <2>1, <2>3
        DEF ActiveAdminRemains, ActiveSuperAdmins, RedeemedOnAccept, SerialInv, TypeOK
      <3> QED BY <1>1, <1>2, <2>1, <3>2, <3>3 DEF SerialInv, Contract!Next
    <2>4. CASE req[r].role # "super_admin"
      <3>1. SuperAdmins' = SuperAdmins \ {u}
        BY <1>1, <2>1, <2>4 DEF SuperAdmins, TypeOK
      <3>2. Contract!Demote(u)
        BY <1>1, <1>19, <2>1, <2>2, <2>4, <3>1 DEF RoleUpdate, Current, Contract!Demote
      <3>3. ActiveAdminRemains' /\ RedeemedOnAccept'
        BY <1>1, <2>1, <3>2
        DEF Contract!Demote, Contract!Authority, Contract!Expendable, Contract!ActiveAdmin,
            SuperAdmins, ActiveAdminRemains, ActiveSuperAdmins, RedeemedOnAccept, SerialInv, TypeOK
      <3> QED BY <1>1, <1>2, <2>1, <3>2, <3>3 DEF SerialInv, Contract!Next
    <2> QED BY <2>3, <2>4
  <1>20. CASE Fail(r)
    BY <1>3, <1>20 DEF Fail
  <1> QED BY <1>6, <1>7, <1>8, <1>9, <1>10, <1>11, <1>12, <1>13, <1>14, <1>15, <1>16, <1>17,
             <1>18, <1>19, <1>20 DEF Advance

LEMMA SerialStep ==
  ASSUME SerialInv, OneAtATime, AccountInv', [Next]_vars
  PROVE  SerialInv' /\ [Contract!Next]_(Contract!contract)
  <1>1. CASE UNCHANGED vars \/ \E u \in Users : Expire(u)
    <2>1. UNCHANGED <<tables, redemptions, req>>
      BY <1>1 DEF vars, tables, Expire
    <2>2. ActiveAdminRemains' /\ RedeemedOnAccept' /\ UNCHANGED Contract!contract
      BY <2>1 DEF SerialInv, ActiveAdminRemains, ActiveSuperAdmins, RedeemedOnAccept, tables,
                  SuperAdmins, Enrolled, Contract!contract
    <2>3. \A r \in Requests : Current(r)'
      BY <2>1 DEF SerialInv, Current, tables, ReactivateAllowed, SuperAdmins,
                  Contract!Authority, Contract!Expendable, Contract!ActiveAdmin
    <2> QED BY <2>2, <2>3 DEF SerialInv
  <1> QED BY <1>1, SerialArrive, SerialAdvance DEF Next

LEMMA SerialInit == Init => SerialInv /\ Contract!Init
  <1> SUFFICES ASSUME Init PROVE SerialInv /\ Contract!Init
    OBVIOUS
  <1>1. AccountInv
    BY AccountInitial
  <1> QED BY <1>1, AccountsAssumption
          DEF Init, SerialInv, ActiveAdminRemains, RedeemedOnAccept, Current, Managing, Idle,
              SuperAdmins, Enrolled, Contract!Init

(* When requests are served one at a time, the platform never loses its    *)
(* last active super admin: the count that disable_user and                *)
(* change_user_role take before they write is enough.                      *)
THEOREM AdminSafe == OneAtATime => (Spec => []ActiveAdminRemains)
  <1> SUFFICES ASSUME OneAtATime PROVE Spec => []ActiveAdminRemains
    OBVIOUS
  <1>1. SerialInv /\ AccountInv' /\ [Next]_vars => SerialInv'
    BY SerialStep
  <1>2. SerialInv => ActiveAdminRemains
    BY DEF SerialInv
  <1> QED BY <1>1, <1>2, SerialInit, AccountInvariant, PTL DEF Spec

(* When requests are served one at a time, an invite sets a password at    *)
(* most once, wherever accept_invite is cut off.                           *)
THEOREM InviteOneTime == OneAtATime => (Spec => []RedeemedOnce)
  <1> SUFFICES ASSUME OneAtATime PROVE Spec => []RedeemedOnce
    OBVIOUS
  <1>1. SerialInv /\ AccountInv' /\ [Next]_vars => SerialInv'
    BY SerialStep
  <1>2. SerialInv => RedeemedOnce
    BY DEF SerialInv, RedeemedOnAccept, RedeemedOnce
  <1> QED BY <1>1, <1>2, SerialInit, AccountInvariant, PTL DEF Spec

(* When requests are served one at a time, a disabled account, contended   *)
(* or not, comes back by the statement of reactivate_user only.            *)
THEOREM DisabledStays == OneAtATime => (Spec => DisabledUntilReactivated)
  <1> SUFFICES ASSUME OneAtATime PROVE Spec => DisabledUntilReactivated
    OBVIOUS
  <1> DEFINE Back == \A u \in Users :
                 status[u] = "disabled" /\ status'[u] # "disabled"
                     => \E r \in Requests : req[r].pc = "reactivate_update" /\ req[r].user = u
             Apart == contended = {}
  <1>1. AloneInv /\ AccountInv' /\ [Next]_vars => AloneInv'
    BY AloneStep
  <1>2. Init => Apart
    BY DEF Init
  <1>3. ASSUME Apart, [Next]_vars
        PROVE  Apart'
    <2>1. ASSUME NEW r \in Requests, NEW q, Begin(r, q)
          PROVE  Apart'
      BY <1>3, <2>1 DEF Begin, InFlight, OneAtATime
    <2>2. ASSUME NEW r \in Requests, Arrive(r)
          PROVE  Apart'
      BY <2>1, <2>2
      DEF Arrive, BootRead, InviteStart, AcceptFindInvite, DisableStart, ReactivateStart, RoleStart
    <2>3. ASSUME NEW r \in Requests, Advance(r)
          PROVE  Apart'
      BY <1>3, <2>3
      DEF Advance, BootCreate, InviteFind, InviteCommit, AcceptReadUser, AcceptUpdateUser,
          AcceptCloseInvite, DisableRead, DisableCount, DisableUpdate, ReactivateRead,
          ReactivateUpdate, RoleRead, RoleCount, RoleUpdate, Fail, Goto, Respond, overlaps
    <2> QED BY <1>3, <2>2, <2>3 DEF Next, Expire, overlaps, vars
  <1>4. AloneInv /\ Apart /\ [Next]_vars => [Back]_vars
    BY OnlyReactivation
  <1> HIDE DEF Apart
  <1> QED
    BY <1>1, <1>2, <1>3, <1>4, AloneInit, AccountInvariant, PTL DEF Spec, DisabledUntilReactivated

(* When requests are served one at a time, the handlers implement the      *)
(* indivisible operations of AccountContract.                              *)
THEOREM Refinement == OneAtATime => (Spec => ContractSpec)
  <1> SUFFICES ASSUME OneAtATime PROVE Spec => ContractSpec
    OBVIOUS
  <1>1. SerialInv /\ AccountInv' /\ [Next]_vars
           => SerialInv' /\ [Contract!Next]_(Contract!contract)
    BY SerialStep
  <1> QED BY <1>1, SerialInit, AccountInvariant, PTL DEF Spec, ContractSpec, Contract!Spec

=============================================================================
