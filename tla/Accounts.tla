------------------------------ MODULE Accounts ------------------------------
(***************************************************************************)
(* The account lifecycle of the Wara backend: bootstrap, invitation,       *)
(* acceptance, disabling, reactivation and role changes (AuthService in    *)
(* backend/src/services/auth.rs, driven by routes/admin.rs, routes/auth.rs *)
(* and main.rs).                                                           *)
(*                                                                         *)
(* Every handler is an async function that awaits one database statement   *)
(* after another; the statements of concurrent requests, on one or several *)
(* backend instances, interleave.  A request is a record whose pc names    *)
(* the statement it will execute next, and each action below executes one  *)
(* statement (or one committed transaction) together with the local code   *)
(* up to the next await.  A refusal ends the request.                      *)
(*                                                                         *)
(* E-mail addresses are unique (users.rs:82) and never change, so a user   *)
(* row is named by the account it belongs to.                              *)
(***************************************************************************)
EXTENDS Naturals, FiniteSets

CONSTANTS
    Users,            \* the accounts (e-mail addresses) that may ever exist
    BootstrapAdmin,   \* the account of config.bootstrap_admin_email
    Passwords,        \* the passwords callers may choose
    NoPassword,       \* the empty password_hash
    Workspaces,       \* the workspace ids that requests may name
    Provisioned,      \* those of them that have a row in "workspaces"
    NoWorkspace,
    RoleInputs,       \* the roles that requests may name
    Requests          \* slots for requests in flight at the same time

Roles == {"super_admin", "admin", "operator", "viewer"}
Statuses == {"invited", "active", "disabled"}

ASSUME AccountsAssumption ==
    /\ IsFiniteSet(Users)
    /\ BootstrapAdmin \in Users
    /\ Passwords # {} /\ NoPassword \notin Passwords
    /\ Provisioned \subseteq Workspaces
    /\ NoWorkspace \notin Workspaces
    /\ RoleInputs \subseteq Roles

VARIABLES
    status,       \* user_records.status, "none" where there is no row
    role,         \* user_records.role
    password,     \* the password behind user_records.password_hash
    member,       \* the (workspace, role) rows of workspace_user_role_records
    invite,       \* user_invite_records: "open" while accepted_at is empty
    expired,      \* the users whose invite's expires_at has passed
    redemptions,  \* history: how often an invite has set the user's password
    contended,    \* history: the users of whom two requests were in flight at once
    crowded,      \* history: two requests of the admin routes were in flight at once
    req           \* the requests in flight

tables == <<status, role, password, member, invite>>
overlaps == <<contended, crowded>>
vars == <<status, role, password, member, invite, expired, redemptions, contended, crowded, req>>

-----------------------------------------------------------------------------
(* Requests.                                                               *)

PCs == {"idle", "boot_create", "invite_find", "invite_commit",
        "accept_user", "accept_update", "accept_close",
        "disable_read", "disable_count", "disable_update",
        "reactivate_read", "reactivate_update",
        "role_read", "role_count", "role_update"}

Request == [pc: PCs, user: Users, role: Roles,
            workspace: Workspaces \cup {NoWorkspace},
            password: Passwords \cup {NoPassword}]

Idle == [pc |-> "idle", user |-> BootstrapAdmin, role |-> "viewer",
         workspace |-> NoWorkspace, password |-> NoPassword]

(* A request about user u whose next statement is p.                       *)
About(u, p) == [Idle EXCEPT !.pc = p, !.user = u]

(* The statements of disable_user, reactivate_user and change_user_role.   *)
Managing == {"disable_read", "disable_count", "disable_update", "reactivate_read",
             "reactivate_update", "role_read", "role_count", "role_update"}

InFlight == {r \in Requests : req[r].pc # "idle"}

Begin(r, q) ==
    /\ req[r].pc = "idle"
    /\ req' = [req EXCEPT ![r] = q]
    /\ contended' = contended \cup {u \in {q.user} : \E s \in InFlight : req[s].user = u}
    /\ crowded' = (crowded \/ (q.pc \in Managing /\ \E s \in Requests : req[s].pc \in Managing))

Goto(r, p) == req' = [req EXCEPT ![r].pc = p] /\ UNCHANGED overlaps
Respond(r) == req' = [req EXCEPT ![r] = Idle] /\ UNCHANGED overlaps

-----------------------------------------------------------------------------
(* Authorisation, evaluated on the user row the extractor has just read.   *)

ActiveSuperAdmins == {u \in Users : status[u] = "active" /\ role[u] = "super_admin"}

(* AdminUser: a bearer token of an active user whose global role is        *)
(* super_admin.                                                            *)
AdminUser == ActiveSuperAdmins # {}

CanAdministerWorkspace(u, w) ==
    role[u] = "super_admin" \/ <<w, "admin">> \in member[u]

(* CurrentUser, for a caller who may administer workspace w.               *)
WorkspaceAdmin(w) ==
    \E u \in Users : status[u] = "active" /\ CanAdministerWorkspace(u, w)

-----------------------------------------------------------------------------
(* bootstrap_admin, at the start of every backend instance.                *)

BootRead(r) ==
    /\ \A u \in Users : status[u] = "none"
    /\ Begin(r, About(BootstrapAdmin, "boot_create"))
    /\ UNCHANGED <<tables, expired, redemptions>>

BootCreate(r) ==
    LET u == req[r].user IN
    /\ req[r].pc = "boot_create"
    /\ \/ /\ status[u] = "none"
          /\ status' = [status EXCEPT ![u] = "active"]
          /\ role' = [role EXCEPT ![u] = "super_admin"]
          /\ \E p \in Passwords : password' = [password EXCEPT ![u] = p]
       \/ /\ status[u] # "none"    \* the unique index on email refuses the row
          /\ UNCHANGED <<status, role, password>>
    /\ Respond(r)
    /\ UNCHANGED <<member, invite, expired, redemptions>>

-----------------------------------------------------------------------------
(* invite_user.                                                            *)

InviteStart(r, u, w, ro) ==
    /\ ro # "super_admin"
    /\ WorkspaceAdmin(w)
    /\ Begin(r, [About(u, "invite_find") EXCEPT !.workspace = w, !.role = ro])
    /\ UNCHANGED <<tables, expired, redemptions>>

(* find_user_by_email(..).is_ok() takes a failed lookup for an absent      *)
(* user, so the request may go on even though the account exists.          *)
InviteFind(r) ==
    /\ req[r].pc = "invite_find"
    /\ \/ req[r].workspace \in Provisioned /\ Goto(r, "invite_commit")
       \/ /\ status[req[r].user] # "none" \/ req[r].workspace \notin Provisioned
          /\ Respond(r)
    /\ UNCHANGED <<tables, expired, redemptions>>

(* Variant: a user row of its own, committed before the others.            *)
InviteCommitUserFirst(r) ==
    LET u == req[r].user IN
    /\ req[r].pc = "invite_commit"
    /\ status[u] = "none"
    /\ status' = [status EXCEPT ![u] = "invited"]
    /\ invite' = [invite EXCEPT ![u] = "open"]
    /\ Respond(r)
    /\ UNCHANGED <<role, password, member, expired, redemptions>>

(* The transaction that creates the user, the invite and the workspace     *)
(* role; the unique index on email aborts all three.                       *)
InviteCommit(r) ==
    LET u == req[r].user IN
    /\ req[r].pc = "invite_commit"
    /\ \/ /\ status[u] = "none"
          /\ status' = [status EXCEPT ![u] = "invited"]
          /\ role' = [role EXCEPT ![u] = "viewer"]
          /\ password' = [password EXCEPT ![u] = NoPassword]
          /\ invite' = [invite EXCEPT ![u] = "open"]
          /\ member' = [member EXCEPT ![u] = {<<req[r].workspace, req[r].role>>}]
       \/ status[u] # "none" /\ UNCHANGED tables
    /\ Respond(r)
    /\ UNCHANGED <<expired, redemptions>>

-----------------------------------------------------------------------------
(* accept_invite.                                                          *)

(* find_open_invite and the expiry test.                                   *)
InviteUsable(u) == invite[u] = "open" /\ u \notin expired

(* The statuses that let an invite be accepted: an active user has         *)
(* accepted already, a disabled one is refused.                            *)
(* Variants: a status test of accept_invite is missing.                    *)
AcceptAllowedAgain(u) == status[u] # "disabled"
AcceptAllowedDisabled(u) == status[u] # "active"

AcceptAllowed(u) == status[u] \notin {"active", "disabled"}

AcceptFindInvite(r, u, p) ==
    /\ InviteUsable(u)
    /\ Begin(r, [About(u, "accept_user") EXCEPT !.password = p])
    /\ UNCHANGED <<tables, expired, redemptions>>

(* Variant: the invite is closed before the user is written.               *)
AcceptReadUserClosing(r) ==
    LET u == req[r].user IN
    /\ req[r].pc = "accept_user"
    /\ AcceptAllowed(u)
    /\ invite' = [invite EXCEPT ![u] = "accepted"]
    /\ Goto(r, "accept_update")
    /\ UNCHANGED <<status, role, password, member, expired, redemptions>>

AcceptReadUser(r) ==
    /\ req[r].pc = "accept_user"
    /\ IF AcceptAllowed(req[r].user) THEN Goto(r, "accept_update") ELSE Respond(r)
    /\ UNCHANGED <<tables, expired, redemptions>>

AcceptUpdateUser(r) ==
    LET u == req[r].user IN
    /\ req[r].pc = "accept_update"
    /\ status' = [status EXCEPT ![u] = "active"]
    /\ password' = [password EXCEPT ![u] = req[r].password]
    /\ redemptions' = [redemptions EXCEPT ![u] = @ + 1]
    /\ Goto(r, "accept_close")
    /\ UNCHANGED <<role, member, invite, expired>>

(* The session that accept_invite opens next is the subject of Sessions.   *)
AcceptCloseInvite(r) ==
    /\ req[r].pc = "accept_close"
    /\ invite' = [invite EXCEPT ![req[r].user] = "accepted"]
    /\ Respond(r)
    /\ UNCHANGED <<status, role, password, member, expired, redemptions>>

-----------------------------------------------------------------------------
(* disable_user, reactivate_user and change_user_role.                     *)

DisableStart(r, u) ==
    /\ AdminUser
    /\ Begin(r, About(u, "disable_read"))
    /\ UNCHANGED <<tables, expired, redemptions>>

DisableRead(r) ==
    LET u == req[r].user IN
    /\ req[r].pc = "disable_read"
    /\ \/ status[u] \in {"none", "disabled"} /\ Respond(r)
       \/ /\ status[u] \notin {"none", "disabled"}
          /\ Goto(r, IF role[u] = "super_admin" THEN "disable_count" ELSE "disable_update")
    /\ UNCHANGED <<tables, expired, redemptions>>

(* active_super_admin_count, compared with 1.                              *)
(* Variant: the off-by-one that lets the last super admin go.              *)
LastSuperAdminOffByOne == Cardinality(ActiveSuperAdmins) < 1

LastSuperAdmin == Cardinality(ActiveSuperAdmins) <= 1

DisableCount(r) ==
    /\ req[r].pc = "disable_count"
    /\ IF LastSuperAdmin THEN Respond(r) ELSE Goto(r, "disable_update")
    /\ UNCHANGED <<tables, expired, redemptions>>

DisableUpdate(r) ==
    /\ req[r].pc = "disable_update"
    /\ status' = [status EXCEPT ![req[r].user] = "disabled"]
    /\ Respond(r)
    /\ UNCHANGED <<role, password, member, invite, expired, redemptions>>

ReactivateStart(r, u) ==
    /\ AdminUser
    /\ Begin(r, About(u, "reactivate_read"))
    /\ UNCHANGED <<tables, expired, redemptions>>

(* Variant: the test for an empty password_hash is missing.                *)
ReactivateAllowedUnset(u) == status[u] = "disabled"

ReactivateAllowed(u) == status[u] = "disabled" /\ password[u] # NoPassword

ReactivateRead(r) ==
    /\ req[r].pc = "reactivate_read"
    /\ IF ReactivateAllowed(req[r].user) THEN Goto(r, "reactivate_update") ELSE Respond(r)
    /\ UNCHANGED <<tables, expired, redemptions>>

ReactivateUpdate(r) ==
    /\ req[r].pc = "reactivate_update"
    /\ status' = [status EXCEPT ![req[r].user] = "active"]
    /\ Respond(r)
    /\ UNCHANGED <<role, password, member, invite, expired, redemptions>>

RoleStart(r, u, ro) ==
    /\ AdminUser
    /\ Begin(r, [About(u, "role_read") EXCEPT !.role = ro])
    /\ UNCHANGED <<tables, expired, redemptions>>

(* Does changing the role of u, as just read, take an active super admin   *)
(* away?                                                                   *)
(* Variant: a role change is not counted as losing a super admin.          *)
DemotesNobody(u, ro) == FALSE

Demotes(u, ro) ==
    role[u] = "super_admin" /\ ro # "super_admin" /\ status[u] = "active"

RoleRead(r) ==
    LET u == req[r].user IN
    /\ req[r].pc = "role_read"
    /\ \/ status[u] = "none" /\ Respond(r)
       \/ /\ status[u] # "none"
          /\ Goto(r, IF Demotes(u, req[r].role) THEN "role_count" ELSE "role_update")
    /\ UNCHANGED <<tables, expired, redemptions>>

RoleCount(r) ==
    /\ req[r].pc = "role_count"
    /\ IF LastSuperAdmin THEN Respond(r) ELSE Goto(r, "role_update")
    /\ UNCHANGED <<tables, expired, redemptions>>

(* Variant: update_user.set names the column next to the role's.           *)
RoleUpdateColumn(r) ==
    /\ req[r].pc = "role_update"
    /\ status' = [status EXCEPT ![req[r].user] = req[r].role]
    /\ Respond(r)
    /\ UNCHANGED <<role, password, member, invite, expired, redemptions>>

RoleUpdate(r) ==
    /\ req[r].pc = "role_update"
    /\ role' = [role EXCEPT ![req[r].user] = req[r].role]
    /\ Respond(r)
    /\ UNCHANGED <<status, password, member, invite, expired, redemptions>>

-----------------------------------------------------------------------------
(* A database error or the death of the instance ends a request between    *)
(* two of its statements.                                                  *)
Fail(r) ==
    /\ req[r].pc # "idle"
    /\ Respond(r)
    /\ UNCHANGED <<tables, expired, redemptions>>

(* Time passes the expires_at of an open invite.                           *)
Expire(u) ==
    /\ InviteUsable(u)
    /\ expired' = expired \cup {u}
    /\ UNCHANGED <<tables, redemptions, overlaps, req>>

Init ==
    /\ status = [u \in Users |-> "none"]
    /\ role = [u \in Users |-> "viewer"]
    /\ password = [u \in Users |-> NoPassword]
    /\ member = [u \in Users |-> {}]
    /\ invite = [u \in Users |-> "none"]
    /\ expired = {}
    /\ redemptions = [u \in Users |-> 0]
    /\ contended = {}
    /\ crowded = FALSE
    /\ req = [r \in Requests |-> Idle]

Arrive(r) ==
    \/ BootRead(r)
    \/ \E u \in Users :
          \/ \E w \in Workspaces, ro \in RoleInputs : InviteStart(r, u, w, ro)
          \/ \E p \in Passwords : AcceptFindInvite(r, u, p)
          \/ DisableStart(r, u)
          \/ ReactivateStart(r, u)
          \/ \E ro \in RoleInputs : RoleStart(r, u, ro)

Advance(r) ==
    \/ BootCreate(r)
    \/ InviteFind(r) \/ InviteCommit(r)
    \/ AcceptReadUser(r) \/ AcceptUpdateUser(r) \/ AcceptCloseInvite(r)
    \/ DisableRead(r) \/ DisableCount(r) \/ DisableUpdate(r)
    \/ ReactivateRead(r) \/ ReactivateUpdate(r)
    \/ RoleRead(r) \/ RoleCount(r) \/ RoleUpdate(r)
    \/ Fail(r)

Next ==
    \/ \E r \in Requests : Arrive(r) \/ Advance(r)
    \/ \E u \in Users : Expire(u)

Spec == Init /\ [][Next]_vars

-----------------------------------------------------------------------------
(* Properties.                                                             *)

(* Every column of the user and invite tables, and every request in flight,*)
(* holds a value of its kind (models/users.rs).                            *)
TypeOK ==
    /\ status \in [Users -> Statuses \cup {"none"}]
    /\ role \in [Users -> Roles]
    /\ password \in [Users -> Passwords \cup {NoPassword}]
    /\ member \in [Users -> SUBSET (Workspaces \X Roles)]
    /\ invite \in [Users -> {"none", "open", "accepted"}]
    /\ expired \subseteq Users
    /\ redemptions \in [Users -> Nat]
    /\ contended \subseteq Users
    /\ crowded \in BOOLEAN
    /\ req \in [Requests -> Request]

(* An account that can log in has a password: no interleaving of accept,   *)
(* disable and reactivate makes an account active without one, although    *)
(* reactivate_user decides on a row it read one statement earlier.         *)
ActiveHasPassword ==
    \A u \in Users : status[u] = "active" => password[u] # NoPassword

(* accept_invite writes the user before it closes the invite, outside a    *)
(* transaction.  Wherever a crash cuts it, an invited account still has    *)
(* an invite to use and a closed invite belongs to an account that got its *)
(* password: no invitee is locked out by a crash.                          *)
InviteLedger ==
    \A u \in Users :
        /\ status[u] = "invited" => invite[u] = "open" /\ password[u] = NoPassword
        /\ invite[u] = "accepted" => password[u] # NoPassword

(* invite_user creates user, invite and workspace role together: no        *)
(* account other than the bootstrap one exists without an invite and       *)
(* without a role in a workspace that exists, and none without an account  *)
(* has either, even when two requests invite the same address.             *)
AccountComplete ==
    \A u \in Users \ {BootstrapAdmin} :
        IF status[u] = "none"
        THEN invite[u] = "none" /\ member[u] = {}
        ELSE /\ invite[u] # "none"
             /\ \E w \in Provisioned, ro \in Roles \ {"super_admin"} : member[u] = {<<w, ro>>}

(* Once the platform has been bootstrapped, an active super admin remains: *)
(* disable_user and change_user_role refuse to take the last one away.     *)
ActiveAdminRemains ==
    (\E u \in Users : status[u] # "none") => ActiveSuperAdmins # {}

(* The same with any number of requests in flight, as long as no two of    *)
(* the admin routes overlap: neither sign-ups and acceptances that run at  *)
(* the same time nor the death of a request spoil the count.               *)
ActiveAdminRemainsAlone == ~crowded => ActiveAdminRemains

(* An invite token works once: it sets the account's password at most one  *)
(* time, even if accept_invite dies before it closes the invite.           *)
RedeemedOnce == \A u \in Users : redemptions[u] <= 1

(* The same of every account whose own requests have not overlapped,       *)
(* whatever is done to other accounts meanwhile.                           *)
RedeemedOnceAlone == \A u \in Users \ contended : redemptions[u] <= 1

(* A disabled account becomes active only by the statement of              *)
(* reactivate_user, never through an invite it still holds.                *)
DisabledUntilReactivated ==
    [][\A u \in Users :
          status[u] = "disabled" /\ status'[u] # "disabled"
              => \E r \in Requests : req[r].pc = "reactivate_update" /\ req[r].user = u]_vars

(* The same of every account whose own requests have not overlapped: the   *)
(* status that accept_invite has checked is still there when it writes.    *)
DisabledUntilReactivatedAlone ==
    [][\A u \in Users \ contended :
          status[u] = "disabled" /\ status'[u] # "disabled"
              => \E r \in Requests : req[r].pc = "reactivate_update" /\ req[r].user = u]_vars

(* An invitee whom an admin has disabled before acceptance, and whose      *)
(* invite is still open, can do what reactivate_user asks for: accept it.  *)
DisabledInviteeCanAccept ==
    \A u \in Users :
        status[u] = "disabled" /\ password[u] = NoPassword /\ InviteUsable(u)
            => AcceptAllowed(u)

(* What the contract knows of the tables: who is a super admin and who has *)
(* a password.                                                             *)
SuperAdmins == {u \in Users : role[u] = "super_admin"}
Enrolled == {u \in Users : password[u] # NoPassword}

Contract == INSTANCE AccountContract WITH
    status <- status, admins <- SuperAdmins, enrolled <- Enrolled

(* The statements of the handlers implement the indivisible operations of  *)
(* AccountContract.                                                        *)
ContractSpec == Contract!Spec

=============================================================================
