--------------------------- MODULE AccountContract ---------------------------
(***************************************************************************)
(* What the account lifecycle promises, one indivisible step per           *)
(* operation: who may come into being, who may hold which status, who may  *)
(* rule the platform, and that it never loses its last active super admin. *)
(* It knows neither the other roles, nor the passwords themselves, nor     *)
(* invites and workspaces.  Accounts is shown to implement it when         *)
(* requests are served one at a time.                                      *)
(***************************************************************************)
CONSTANTS Users, BootstrapAdmin

VARIABLES
    status,    \* the status of each account, "none" before it exists
    admins,    \* the accounts whose platform-wide role is super_admin
    enrolled   \* the accounts that have a password

contract == <<status, admins, enrolled>>

ActiveAdmin(u) == status[u] = "active" /\ u \in admins

(* Whatever happens to u, an active super admin is left.                   *)
Expendable(u) == ActiveAdmin(u) => \E v \in Users \ {u} : ActiveAdmin(v)

(* Accounts are managed on the authority of an active super admin.         *)
Authority == \E v \in Users : ActiveAdmin(v)

Init ==
    /\ status = [u \in Users |-> "none"]
    /\ admins = {}
    /\ enrolled = {}

(* The first account, and only the first, makes itself.                    *)
Bootstrap ==
    /\ \A u \in Users : status[u] = "none"
    /\ status' = [status EXCEPT ![BootstrapAdmin] = "active"]
    /\ admins' = admins \cup {BootstrapAdmin}
    /\ enrolled' = enrolled \cup {BootstrapAdmin}

(* A new account is nobody's superior and cannot log in yet.               *)
Invite(u) ==
    /\ status[u] = "none"
    /\ \E v \in Users : status[v] = "active"
    /\ status' = [status EXCEPT ![u] = "invited"]
    /\ admins' = admins \ {u}
    /\ enrolled' = enrolled \ {u}

Accept(u) ==
    /\ status[u] = "invited"
    /\ status' = [status EXCEPT ![u] = "active"]
    /\ enrolled' = enrolled \cup {u}
    /\ UNCHANGED admins

Disable(u) ==
    /\ Authority
    /\ status[u] \in {"invited", "active"}
    /\ Expendable(u)
    /\ status' = [status EXCEPT ![u] = "disabled"]
    /\ UNCHANGED <<admins, enrolled>>

Reactivate(u) ==
    /\ Authority
    /\ status[u] = "disabled"
    /\ u \in enrolled
    /\ status' = [status EXCEPT ![u] = "active"]
    /\ UNCHANGED <<admins, enrolled>>

Promote(u) ==
    /\ Authority
    /\ status[u] # "none"
    /\ admins' = admins \cup {u}
    /\ UNCHANGED <<status, enrolled>>

Demote(u) ==
    /\ Authority
    /\ status[u] # "none"
    /\ Expendable(u)
    /\ admins' = admins \ {u}
    /\ UNCHANGED <<status, enrolled>>

Next ==
    \/ Bootstrap
    \/ \E u \in Users :
          \/ Invite(u) \/ Accept(u) \/ Disable(u) \/ Reactivate(u)
          \/ Promote(u) \/ Demote(u)

Spec == Init /\ [][Next]_contract

=============================================================================
