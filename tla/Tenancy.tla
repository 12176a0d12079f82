------------------------------ MODULE Tenancy ------------------------------
(***************************************************************************)
(* Workspaces and what belongs to them (backend/src/services/workspaces.rs,*)
(* app_services.rs, credentials.rs, domains.rs, workspace_templates.rs and *)
(* the routes that guard them).                                            *)
(*                                                                         *)
(* Every create handler has the same course: the extractor reads the       *)
(* caller, the route decides on the workspace, the service looks up what   *)
(* the new row will refer to, and inserts it.  A request is modelled by    *)
(* those three steps.  Nothing is ever deleted or moved in these tables,   *)
(* so the lookups of one request, which are several statements, can be     *)
(* taken together at the time of the last one.                             *)
(***************************************************************************)
EXTENDS Naturals, FiniteSets

CONSTANTS
    Users, Workspaces, Environments, Services,   \* ids that may ever be used
    None,                                        \* an absent reference
    Requests,                                    \* slots for requests in flight
    MaxNames,                                    \* bound on the names of one bulk request
    MaxBatches                                   \* bound on the requests that store variables

ASSUME TenancyAssumption ==
    /\ None \notin Workspaces \cup Environments \cup Services
    /\ MaxNames \in Nat \ {0} /\ MaxBatches \in Nat

VARIABLES
    standing,     \* "super" and "user": the active accounts, by role; "none": all others
    everSuper,    \* history: who has ever been a super admin
    home,         \* workspace_id of the user's row in workspace_user_role_records
    workspaces,   \* the rows of "workspaces"
    environment,  \* workspace_id of each environment, None: no row
    service,      \* workspace and environment of each service row
    envVars,      \* env_var_records with the batch that brought them
    domains,      \* the services that have a domain
    credentials,  \* the workspaces that have a registry credential
    templates,    \* the source workspaces of the templates
    req           \* the requests in flight

people == <<standing, everSuper, home>>
rows == <<workspaces, environment, service, envVars, domains, credentials, templates>>
vars == <<people, rows, req>>

NoService == [workspace |-> None, environment |-> None]

(* The scope of an environment variable.                                   *)
Scope == [environment: Environments \cup {None}, service: Services \cup {None}]

-----------------------------------------------------------------------------
(* Requests.                                                               *)

Kinds == {"environment", "service", "credential", "env_vars", "domain", "template",
          "workspace", "workspaces_from_template"}

Idle == [pc |-> "idle", kind |-> "workspace", user |-> None, workspace |-> None,
         environment |-> None, service |-> None, scopes |-> {}, left |-> 0]

Begin(r, q) == req[r].pc = "idle" /\ req' = [req EXCEPT ![r] = q]
Respond(r) == req' = [req EXCEPT ![r] = Idle]

(* Variant: a route without ensure_workspace_access.                       *)
CanAccessAnything(u, w) == TRUE

(* can_access_workspace, of a user that the extractor has let in.          *)
CanAccessWorkspace(u, w) == standing[u] = "super" \/ (standing[u] = "user" /\ home[u] = w)

(* The routes under /workspaces/{workspace_id} admit whoever has access to *)
(* the workspace of the path, which need not exist.                        *)
Admit(r, u, w, q) ==
    /\ CanAccessWorkspace(u, w)
    /\ Begin(r, [q EXCEPT !.pc = "check", !.user = u, !.workspace = w])
    /\ UNCHANGED <<people, rows>>

EnvironmentRoute(r, u, w) == Admit(r, u, w, [Idle EXCEPT !.kind = "environment"])

ServiceRoute(r, u, w, e) ==
    Admit(r, u, w, [Idle EXCEPT !.kind = "service", !.environment = e])

CredentialRoute(r, u, w) == Admit(r, u, w, [Idle EXCEPT !.kind = "credential"])

(* One variable, or several with the bulk route.                           *)
EnvVarsRoute(r, u, w, scopes) ==
    Admit(r, u, w, [Idle EXCEPT !.kind = "env_vars", !.scopes = scopes])

TemplateRoute(r, u, w) == Admit(r, u, w, [Idle EXCEPT !.kind = "template"])

(* create_domain: the route finds the workspace through the service.       *)
DomainRoute(r, u, s) ==
    /\ service[s] # NoService
    /\ CanAccessWorkspace(u, service[s].workspace)
    /\ Begin(r, [Idle EXCEPT !.pc = "check", !.kind = "domain", !.user = u,
                             !.workspace = service[s].workspace, !.service = s])
    /\ UNCHANGED <<people, rows>>

(* create_workspace: for super admins.                                     *)
WorkspaceCreateRoute(r, u) ==
    /\ standing[u] = "super"
    /\ Begin(r, [Idle EXCEPT !.pc = "insert", !.kind = "workspace", !.user = u, !.left = 1])
    /\ UNCHANGED <<people, rows>>

(* create_workspaces_from_template: for super admins, with the names of    *)
(* one or more workspaces; the template is looked up first.                *)
BulkWorkspacesRoute(r, u, t, n) ==
    /\ standing[u] = "super"
    /\ t \in templates
    /\ Begin(r, [Idle EXCEPT !.pc = "insert", !.kind = "workspaces_from_template", !.user = u,
                             !.left = n])
    /\ UNCHANGED <<people, rows>>

-----------------------------------------------------------------------------
(* Lookups.                                                                *)

(* Variant: the environment is looked up without its workspace.            *)
EnvironmentAnywhere(w, e) == e \in Environments /\ environment[e] # None

(* list_environments of the workspace contains the environment.            *)
EnvironmentOf(w, e) == e \in Environments /\ environment[e] = w

(* validate_env_var_scope: either reference is checked against the         *)
(* workspace, and neither against the other.                               *)
ValidScope(w, s) ==
    /\ s.environment # None => EnvironmentOf(w, s.environment)
    /\ s.service # None => service[s.service].workspace = w

(* What a service looks up before it inserts: get_workspace, except for a  *)
(* domain, which is held against its service alone.                        *)
Valid(q) ==
    /\ q.kind # "domain" => q.workspace \in workspaces
    /\ q.kind = "service" => EnvironmentOf(q.workspace, q.environment)
    /\ q.kind = "env_vars" => \A s \in q.scopes : ValidScope(q.workspace, s)
    /\ q.kind = "domain" => service[q.service] # NoService

Check(r) ==
    /\ req[r].pc = "check"
    /\ IF Valid(req[r]) THEN req' = [req EXCEPT ![r].pc = "insert"] ELSE Respond(r)
    /\ UNCHANGED <<people, rows>>

-----------------------------------------------------------------------------
(* Inserts.                                                                *)

(* The request that is about to insert a row of kind k, and is done then.  *)
Inserting(r, k) ==
    /\ req[r].pc = "insert" /\ req[r].kind = k
    /\ Respond(r)
    /\ UNCHANGED people

InsertEnvironment(r) ==
    /\ Inserting(r, "environment")
    /\ \E e \in Environments :
          /\ environment[e] = None
          /\ environment' = [environment EXCEPT ![e] = req[r].workspace]
    /\ UNCHANGED <<workspaces, service, envVars, domains, credentials, templates>>

(* Variant: the two ids change places.                                     *)
InsertServiceSwapped(r) ==
    /\ Inserting(r, "service")
    /\ \E s \in Services :
          /\ service[s] = NoService
          /\ service' = [service EXCEPT ![s] = [workspace |-> req[r].environment,
                                                environment |-> req[r].workspace]]
    /\ UNCHANGED <<workspaces, environment, envVars, domains, credentials, templates>>

InsertService(r) ==
    /\ Inserting(r, "service")
    /\ \E s \in Services :
          /\ service[s] = NoService
          /\ service' = [service EXCEPT ![s] = [workspace |-> req[r].workspace,
                                                environment |-> req[r].environment]]
    /\ UNCHANGED <<workspaces, environment, envVars, domains, credentials, templates>>

InsertCredential(r) ==
    /\ Inserting(r, "credential")
    /\ credentials' = credentials \cup {req[r].workspace}
    /\ UNCHANGED <<workspaces, environment, service, envVars, domains, templates>>

EnvVarRow(q, s) == [workspace |-> q.workspace, scope |-> s, batch |-> q.scopes]

(* Variant: rows are committed one by one and a failure ends the request.  *)
InsertEnvVarsOneByOne(r) ==
    /\ Inserting(r, "env_vars")
    /\ \E done \in SUBSET req[r].scopes : envVars' = envVars \cup {EnvVarRow(req[r], s) : s \in done}
    /\ UNCHANGED <<workspaces, environment, service, domains, credentials, templates>>

(* create_env_vars: one transaction for all variables of the request.      *)
InsertEnvVars(r) ==
    /\ Inserting(r, "env_vars")
    /\ envVars' = envVars \cup {EnvVarRow(req[r], s) : s \in req[r].scopes}
    /\ Cardinality({[v EXCEPT !.scope = {}] : v \in envVars'}) <= MaxBatches
    /\ UNCHANGED <<workspaces, environment, service, domains, credentials, templates>>

InsertDomain(r) ==
    /\ Inserting(r, "domain")
    /\ domains' = domains \cup {req[r].service}
    /\ UNCHANGED <<workspaces, environment, service, envVars, credentials, templates>>

InsertTemplate(r) ==
    /\ Inserting(r, "template")
    /\ templates' = templates \cup {req[r].workspace}
    /\ UNCHANGED <<workspaces, environment, service, envVars, domains, credentials>>

(* Variant: the environment is left to a later statement.                  *)
InsertWorkspaceAlone(r) ==
    /\ req[r].pc = "insert" /\ req[r].left > 0
    /\ \E w \in Workspaces \ workspaces : workspaces' = workspaces \cup {w}
    /\ Respond(r)
    /\ UNCHANGED <<people, environment, service, envVars, domains, credentials, templates>>

(* create_workspaces_from_template goes on to its next name; after the     *)
(* last one, or the only one, the request is done.                         *)
NextName(r) == IF req[r].left = 1 THEN Respond(r) ELSE req' = [req EXCEPT ![r].left = @ - 1]

(* create_workspace: the workspace and its "production" environment in one *)
(* transaction.                                                            *)
InsertWorkspace(r) ==
    /\ req[r].pc = "insert" /\ req[r].left > 0
    /\ \E w \in Workspaces \ workspaces, e \in Environments :
          /\ environment[e] = None
          /\ workspaces' = workspaces \cup {w}
          /\ environment' = [environment EXCEPT ![e] = w]
    /\ NextName(r)
    /\ UNCHANGED <<people, service, envVars, domains, credentials, templates>>

(* A database error, or the death of the instance, between two statements. *)
Fail(r) ==
    /\ req[r].pc # "idle"
    /\ Respond(r)
    /\ UNCHANGED <<people, rows>>

-----------------------------------------------------------------------------
(* The account lifecycle (module Accounts), as far as access depends on it.*)

(* invite_user and the acceptance: the user's only workspace role.         *)
Join(u, w) ==
    /\ home[u] = None /\ u \notin everSuper
    /\ w \in workspaces
    /\ home' = [home EXCEPT ![u] = w]
    /\ standing' = [standing EXCEPT ![u] = "user"]
    /\ UNCHANGED <<everSuper, rows, req>>

(* disable_user, reactivate_user and change_user_role.                     *)
Administer(u, st) ==
    /\ home[u] # None \/ u \in everSuper
    /\ st = "super" \/ \E v \in Users \ {u} : standing[v] = "super"
    /\ standing' = [standing EXCEPT ![u] = st]
    /\ everSuper' = IF st = "super" THEN everSuper \cup {u} ELSE everSuper
    /\ UNCHANGED <<home, rows, req>>

Init ==
    /\ \E u \in Users :
          /\ standing = [v \in Users |-> IF v = u THEN "super" ELSE "none"]
          /\ everSuper = {u}
    /\ home = [u \in Users |-> None]
    /\ workspaces = {} /\ envVars = {} /\ domains = {} /\ credentials = {} /\ templates = {}
    /\ environment = [e \in Environments |-> None]
    /\ service = [s \in Services |-> NoService]
    /\ req = [r \in Requests |-> Idle]

Route(r) ==
    \E u \in Users :
        \/ \E w \in Workspaces :
              \/ EnvironmentRoute(r, u, w) \/ CredentialRoute(r, u, w) \/ TemplateRoute(r, u, w)
              \/ \E e \in Environments : ServiceRoute(r, u, w, e)
              \/ \E s, t \in Scope : EnvVarsRoute(r, u, w, {s, t})
        \/ \E s \in Services : DomainRoute(r, u, s)
        \/ WorkspaceCreateRoute(r, u)
        \/ \E t \in Workspaces, n \in 1 .. MaxNames : BulkWorkspacesRoute(r, u, t, n)

Insert(r) ==
    \/ InsertEnvironment(r) \/ InsertService(r) \/ InsertCredential(r) \/ InsertEnvVars(r)
    \/ InsertDomain(r) \/ InsertTemplate(r) \/ InsertWorkspace(r)

Next ==
    \/ \E r \in Requests : Route(r) \/ Check(r) \/ Insert(r) \/ Fail(r)
    \/ \E u \in Users :
          \/ \E w \in Workspaces : Join(u, w)
          \/ \E st \in {"none", "user", "super"} : Administer(u, st)

Spec == Init /\ [][Next]_vars

-----------------------------------------------------------------------------
(* Properties.                                                             *)

Request ==
    [pc: {"idle", "check", "insert"}, kind: Kinds, user: Users \cup {None},
     workspace: Workspaces \cup {None}, environment: Environments \cup {None},
     service: Services \cup {None}, scopes: SUBSET Scope, left: 0 .. MaxNames]

(* Every row refers to ids of the right tables.                            *)
TypeOK ==
    /\ standing \in [Users -> {"none", "user", "super"}]
    /\ everSuper \subseteq Users
    /\ home \in [Users -> Workspaces \cup {None}]
    /\ workspaces \subseteq Workspaces
    /\ environment \in [Environments -> Workspaces \cup {None}]
    /\ service \in [Services -> [workspace: Workspaces \cup {None},
                                 environment: Environments \cup {None}]]
    /\ envVars \subseteq [workspace: Workspaces, scope: Scope, batch: SUBSET Scope]
    /\ domains \subseteq Services
    /\ credentials \subseteq Workspaces /\ templates \subseteq Workspaces
    /\ req \in [Requests -> Request]

(* Tenants do not reach into each other: the environment of a service, and *)
(* the environment and the service of a variable, are of the workspace the *)
(* row itself is of, which exists (create_service, validate_env_var_scope).*)
TenantClosed ==
    /\ \A e \in Environments : environment[e] \in workspaces \cup {None}
    /\ \A s \in Services : service[s] # NoService =>
          /\ service[s].workspace \in workspaces
          /\ service[s].environment \in Environments
          /\ environment[service[s].environment] = service[s].workspace
    /\ \A v \in envVars :
          /\ v.workspace \in workspaces
          /\ v.scope.environment # None => environment[v.scope.environment] = v.workspace
          /\ v.scope.service # None => service[v.scope.service].workspace = v.workspace
    /\ \A s \in domains : service[s] # NoService
    /\ credentials \cup templates \subseteq workspaces

(* Every workspace has an environment to deploy into, also the ones that a *)
(* bulk request had made before it failed (create_workspace's transaction).*)
WorkspaceComplete ==
    \A w \in workspaces : \E e \in Environments : environment[e] = w

(* The variables of one bulk request are stored together or not at all,    *)
(* whenever it fails (create_env_vars' transaction).                       *)
BatchWhole ==
    \A v \in envVars : \A s \in v.batch : [v EXCEPT !.scope = s] \in envVars

(* Whoever is about to write into a workspace belongs to it, or has been a *)
(* super admin: the ids that a request brings cannot lead it elsewhere, at *)
(* whatever time its user joined, was promoted, demoted or disabled        *)
(* (ensure_workspace_access in the routes).                                *)
OnlyAdmittedWrite ==
    \A r \in Requests : (req[r].pc = "insert" /\ req[r].user \notin everSuper) =>
        /\ req[r].left = 0
        /\ req[r].workspace = home[req[r].user]
        /\ req[r].kind = "domain" => service[req[r].service].workspace = home[req[r].user]

=============================================================================
