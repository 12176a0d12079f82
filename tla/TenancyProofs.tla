--------------------------- MODULE TenancyProofs ---------------------------
(***************************************************************************)
(* Proofs about Tenancy for every set of users, ids and requests.  The     *)
(* run has one request in flight; here there may be any number.  What the  *)
(* tables hold follows from what each request in flight has been admitted  *)
(* and checked for, and that in turn stays true because rows are only      *)
(* added.                                                                  *)
(***************************************************************************)
EXTENDS Tenancy, TLAPS

Bulk == {"workspace", "workspaces_from_template"}

(* What a request that is in flight relies on.                             *)
Entitled(q) ==
    /\ q.user \in Users
    /\ q.kind \in Bulk => q.pc = "insert" /\ q.left > 0 /\ q.user \in everSuper
    /\ q.kind \notin Bulk =>
          /\ q.left = 0 /\ q.workspace \in Workspaces
          /\ q.user \notin everSuper => home[q.user] = q.workspace
    /\ q.kind = "domain" =>
          /\ q.service \in Services
          /\ service[q.service] # NoService
          /\ service[q.service].workspace = q.workspace
    /\ q.pc = "insert" /\ q.left = 0 => Valid(q)

TenancyInv ==
    /\ TypeOK
    /\ TenantClosed
    /\ \A u \in Users : standing[u] = "super" => u \in everSuper
    /\ \A r \in Requests : req[r].pc # "idle" => Entitled(req[r])

(* What a step may do to the tables: rows are added, never changed.        *)
Grow ==
    /\ workspaces \subseteq workspaces' /\ everSuper \subseteq everSuper'
    /\ \A u \in Users : home[u] # None => home'[u] = home[u]
    /\ \A e \in Environments : environment[e] # None => environment'[e] = environment[e]
    /\ \A s \in Services : service[s] # NoService => service'[s] = service[s]

-----------------------------------------------------------------------------
(* Requests.                                                               *)

LEMMA IdleRequest == Idle \in Request /\ Idle.left = 0
  BY TenancyAssumption DEF Idle, Request, Kinds

LEMMA RequestFields ==
  ASSUME NEW q \in Request
  PROVE  /\ q.pc \in {"idle", "check", "insert"} /\ q.kind \in Kinds
         /\ q.workspace \in Workspaces \cup {None}
         /\ q.environment \in Environments \cup {None}
         /\ q.service \in Services \cup {None}
         /\ q.scopes \subseteq Scope /\ q.left \in 0 .. MaxNames
  BY DEF Request

(* How a request moves on: the others stay as they are.                    *)
LEMMA BeginStep ==
  ASSUME TypeOK, NEW r \in Requests, NEW q \in Request, Begin(r, q)
  PROVE  /\ req' \in [Requests -> Request]
         /\ req'[r] = q
         /\ \A s \in Requests : s # r => req'[s] = req[s]
  BY DEF TypeOK, Begin

LEMMA RespondStep ==
  ASSUME TypeOK, NEW r \in Requests, Respond(r)
  PROVE  /\ req' \in [Requests -> Request]
         /\ req'[r] = Idle
         /\ \A s \in Requests : s # r => req'[s] = req[s]
  BY IdleRequest DEF TypeOK, Respond

(* A request that waits while rows are added loses nothing it relies on.   *)
LEMMA EntitledPersists ==
  ASSUME TypeOK, Grow, NEW q \in Request, Entitled(q)
  PROVE  Entitled(q)'
  <1> USE TenancyAssumption, RequestFields
  <1>1. q.kind \notin Bulk /\ q.user \notin everSuper' => home'[q.user] = q.workspace
    BY DEF TypeOK, Grow, Entitled
  <1>2. q.kind = "domain" =>
          /\ service'[q.service] # NoService
          /\ service'[q.service].workspace = q.workspace
    BY DEF Grow, Entitled
  <1>3. ASSUME NEW w \in Workspaces, NEW e \in Environments \cup {None}, EnvironmentOf(w, e)
        PROVE  EnvironmentOf(w, e)'
    BY <1>3 DEF EnvironmentOf, Grow
  <1>4. ASSUME NEW w \in Workspaces, NEW s \in Scope, ValidScope(w, s)
        PROVE  ValidScope(w, s)'
    <2>1. s.environment \in Environments \cup {None} /\ s.service \in Services \cup {None}
      BY DEF Scope
    <2>2. s.environment # None => EnvironmentOf(w, s.environment)'
      BY <1>3, <1>4, <2>1 DEF ValidScope
    <2>3. s.service # None => service'[s.service].workspace = w
      BY <1>4, <2>1 DEF ValidScope, Grow, NoService
    <2> QED BY <2>2, <2>3 DEF ValidScope
  <1>5. q.pc = "insert" /\ q.left = 0 => Valid(q)'
    <2> SUFFICES ASSUME q.pc = "insert" /\ q.left = 0
                 PROVE  Valid(q)'
      OBVIOUS
    <2>1. Valid(q) /\ q.kind \notin Bulk
      BY DEF Entitled
    <2>2. q.workspace \in Workspaces /\ (q.kind # "domain" => q.workspace \in workspaces')
      BY <2>1 DEF Valid, Grow, Entitled
    <2>3. q.kind = "service" => EnvironmentOf(q.workspace, q.environment)'
      BY <1>3, <2>1, <2>2 DEF Valid
    <2>4. q.kind = "env_vars" => \A s \in q.scopes : ValidScope(q.workspace, s)'
      BY <1>4, <2>1, <2>2 DEF Valid
    <2> QED BY <1>2, <2>2, <2>3, <2>4 DEF Valid
  <1>6. q.kind \in Bulk => q.user \in everSuper'
    BY DEF Entitled, Grow
  <1> QED BY <1>1, <1>2, <1>5, <1>6 DEF Entitled

(* Every route begins a request that is entitled to what it will do.       *)
LEMMA RouteStep ==
  ASSUME TenancyInv, NEW r \in Requests, Route(r)
  PROVE  /\ UNCHANGED <<people, rows>>
         /\ \E q \in Request : Begin(r, q) /\ Entitled(q)
  <1> USE TenancyAssumption
  <1>1. ASSUME NEW u \in Users, NEW w \in Workspaces, NEW q \in Request,
               q.kind \in Kinds \ (Bulk \cup {"domain"}), q.left = 0, Admit(r, u, w, q)
        PROVE  /\ UNCHANGED <<people, rows>>
               /\ \E p \in Request : Begin(r, p) /\ Entitled(p)
    <2> DEFINE p == [q EXCEPT !.pc = "check", !.user = u, !.workspace = w]
    <2>1. /\ p \in Request /\ p.pc = "check" /\ p.user = u /\ p.workspace = w
          /\ p.kind = q.kind /\ p.left = q.left
      BY DEF Request
    <2>2. Begin(r, p) /\ CanAccessWorkspace(u, w) /\ UNCHANGED <<people, rows>>
      BY <1>1 DEF Admit
    <2> HIDE DEF p
    <2>3. u \notin everSuper => home[u] = w
      BY <2>2 DEF CanAccessWorkspace, TenancyInv
    <2>4. Entitled(p)
      BY <1>1, <2>1, <2>3 DEF Entitled
    <2> QED BY <2>1, <2>2, <2>4
  <1>2. ASSUME NEW k \in Kinds
        PROVE  /\ [Idle EXCEPT !.kind = k] \in Request
               /\ [Idle EXCEPT !.kind = k].kind = k /\ [Idle EXCEPT !.kind = k].left = 0
    BY IdleRequest DEF Request
  <1>3. ASSUME NEW u \in Users, NEW s \in Services, DomainRoute(r, u, s)
        PROVE  /\ UNCHANGED <<people, rows>>
               /\ \E p \in Request : Begin(r, p) /\ Entitled(p)
    <2>1. service[s] # NoService /\ CanAccessWorkspace(u, service[s].workspace)
      BY <1>3 DEF DomainRoute
    <2>2. service[s].workspace \in Workspaces
      BY <2>1 DEF TenancyInv, TypeOK, TenantClosed
    <2> DEFINE p == [Idle EXCEPT !.pc = "check", !.kind = "domain", !.user = u,
                                 !.workspace = service[s].workspace, !.service = s]
    <2>3. /\ p \in Request /\ p.pc = "check" /\ p.user = u /\ p.workspace = service[s].workspace
          /\ p.kind = "domain" /\ p.left = 0 /\ p.service = s
      BY <2>2, IdleRequest DEF Request, Kinds
    <2>4. Begin(r, p) /\ UNCHANGED <<people, rows>>
      BY <1>3 DEF DomainRoute
    <2> HIDE DEF p
    <2>5. u \notin everSuper => home[u] = service[s].workspace
      BY <2>1 DEF CanAccessWorkspace, TenancyInv
    <2>6. Entitled(p)
      BY <2>1, <2>2, <2>3, <2>5 DEF Entitled, Bulk
    <2> QED BY <2>3, <2>4, <2>6
  <1>4. ASSUME NEW u \in Users, NEW n \in 1 .. MaxNames, NEW k \in Bulk, standing[u] = "super",
               Begin(r, [Idle EXCEPT !.pc = "insert", !.kind = k, !.user = u, !.left = n])
        PROVE  \E p \in Request : Begin(r, p) /\ Entitled(p)
    <2> DEFINE p == [Idle EXCEPT !.pc = "insert", !.kind = k, !.user = u, !.left = n]
    <2>1. /\ p \in Request /\ p.pc = "insert" /\ p.user = u
          /\ p.kind = k /\ p.left = n
      <3> n \in 0 .. MaxNames
        OBVIOUS
      <3> QED BY IdleRequest DEF Request, Bulk, Kinds
    <2>2. Begin(r, p)
      BY <1>4
    <2> HIDE DEF p
    <2>3. n > 0 /\ n # 0 /\ u \in everSuper
      BY <1>4 DEF TenancyInv
    <2>4. Entitled(p)
      BY <2>1, <2>3 DEF Entitled, Bulk
    <2> QED BY <2>1, <2>2, <2>4
  <1>5. PICK u \in Users :
          \/ \E w \in Workspaces :
                \/ EnvironmentRoute(r, u, w) \/ CredentialRoute(r, u, w) \/ TemplateRoute(r, u, w)
                \/ \E e \in Environments : ServiceRoute(r, u, w, e)
                \/ \E s, t \in Scope : EnvVarsRoute(r, u, w, {s, t})
          \/ \E s \in Services : DomainRoute(r, u, s)
          \/ WorkspaceCreateRoute(r, u)
          \/ \E t \in Workspaces, n \in 1 .. MaxNames : BulkWorkspacesRoute(r, u, t, n)
    BY DEF Route
  <1> DEFINE Plain == Kinds \ (Bulk \cup {"domain"})
  <1>6. {"environment", "credential", "template", "service", "env_vars"} \subseteq Plain
    BY DEF Kinds, Bulk
  <1>7. ASSUME NEW w \in Workspaces,
               EnvironmentRoute(r, u, w) \/ CredentialRoute(r, u, w) \/ TemplateRoute(r, u, w)
        PROVE  \E k \in Plain : Admit(r, u, w, [Idle EXCEPT !.kind = k])
    BY <1>6, <1>7 DEF EnvironmentRoute, CredentialRoute, TemplateRoute
  <1>8. CASE WorkspaceCreateRoute(r, u)
    <2>1. 1 \in 1 .. MaxNames
      OBVIOUS
    <2> QED BY <1>4, <1>8, <2>1 DEF WorkspaceCreateRoute, Bulk
  <1>9. ASSUME NEW t \in Workspaces, NEW n \in 1 .. MaxNames, BulkWorkspacesRoute(r, u, t, n)
        PROVE  /\ UNCHANGED <<people, rows>>
               /\ \E q \in Request : Begin(r, q) /\ Entitled(q)
    BY <1>4, <1>9 DEF BulkWorkspacesRoute, Bulk
  <1>10. ASSUME NEW w \in Workspaces, NEW e \in Environments, ServiceRoute(r, u, w, e)
         PROVE  /\ UNCHANGED <<people, rows>>
                /\ \E q \in Request : Begin(r, q) /\ Entitled(q)
    <2> DEFINE q == [Idle EXCEPT !.kind = "service", !.environment = e]
    <2>1. q \in Request /\ q.kind \in Plain /\ q.left = 0
      <3>1. "service" \in Kinds
        BY <1>6
      <3>2. q \in Request /\ q.kind = "service" /\ q.left = 0
        BY <3>1, IdleRequest DEF Request
      <3> QED BY <1>6, <3>2
    <2>2. Admit(r, u, w, q)
      BY <1>10 DEF ServiceRoute
    <2> HIDE DEF q
    <2> QED BY <1>1, <2>1, <2>2
  <1>11. ASSUME NEW w \in Workspaces, NEW s \in Scope, NEW t \in Scope,
                EnvVarsRoute(r, u, w, {s, t})
         PROVE  /\ UNCHANGED <<people, rows>>
                /\ \E q \in Request : Begin(r, q) /\ Entitled(q)
    <2> DEFINE q == [Idle EXCEPT !.kind = "env_vars", !.scopes = {s, t}]
    <2>1. q \in Request /\ q.kind \in Plain /\ q.left = 0
      <3>1. {s, t} \in SUBSET Scope /\ "env_vars" \in Kinds
        BY <1>6
      <3>2. q \in Request /\ q.kind = "env_vars" /\ q.left = 0
        BY <3>1, IdleRequest DEF Request
      <3> QED BY <1>6, <3>2
    <2>2. Admit(r, u, w, q)
      BY <1>11 DEF EnvVarsRoute
    <2> HIDE DEF q
    <2> QED BY <1>1, <2>1, <2>2
  <1>12. ASSUME NEW w \in Workspaces,
                EnvironmentRoute(r, u, w) \/ CredentialRoute(r, u, w) \/ TemplateRoute(r, u, w)
         PROVE  /\ UNCHANGED <<people, rows>>
                /\ \E q \in Request : Begin(r, q) /\ Entitled(q)
    <2>1. PICK k \in Plain : Admit(r, u, w, [Idle EXCEPT !.kind = k])
      BY <1>7, <1>12
    <2> DEFINE q == [Idle EXCEPT !.kind = k]
    <2>2. q \in Request /\ q.kind \in Plain /\ q.left = 0
      BY <1>2
    <2>3. Admit(r, u, w, q)
      BY <2>1
    <2> HIDE DEF q
    <2> QED BY <1>1, <2>2, <2>3
  <1> QED BY <1>3, <1>5, <1>8, <1>9, <1>10, <1>11, <1>12

(* While one request responds, the others keep what they rely on.          *)
LEMMA OthersEntitled ==
  ASSUME TenancyInv, Grow, NEW r \in Requests, Respond(r)
  PROVE  /\ req' \in [Requests -> Request]
         /\ \A s \in Requests : req'[s].pc # "idle" => Entitled(req[s])'
  <1>1. /\ req' \in [Requests -> Request]
        /\ req'[r] = Idle
        /\ \A s \in Requests : s # r => req'[s] = req[s]
    BY RespondStep DEF TenancyInv
  <1>2. ASSUME NEW s \in Requests, req'[s].pc # "idle"
        PROVE  Entitled(req[s])'
    <2>1. s # r /\ req'[s] = req[s]
      BY <1>1, <1>2 DEF Idle
    <2>2. PICK q \in Request : q = req[s]
      BY DEF TenancyInv, TypeOK
    <2>3. Entitled(q)
      BY <1>2, <2>1, <2>2 DEF TenancyInv
    <2>4. Entitled(q)'
      BY <2>3, EntitledPersists DEF TenancyInv
    <2>5. req'[s] = q
      BY <2>1, <2>2
    <2> QED BY <2>4, <2>5
  <1> QED BY <1>1, <1>2

-----------------------------------------------------------------------------
(* Tables.                                                                 *)

ServiceClosed(s) ==
    service[s] # NoService =>
        /\ service[s].workspace \in workspaces
        /\ service[s].environment \in Environments
        /\ environment[service[s].environment] = service[s].workspace

VariableClosed(v) ==
    /\ v.workspace \in workspaces
    /\ v.scope.environment # None => environment[v.scope.environment] = v.workspace
    /\ v.scope.service # None => service[v.scope.service].workspace = v.workspace

(* The rows that are there stay closed while rows are added, so that only  *)
(* the new ones need a look.                                               *)
LEMMA ClosedPersists ==
  ASSUME TypeOK, TenantClosed, Grow,
         \A e \in Environments : environment'[e] # environment[e] => environment'[e] \in workspaces',
         \A s \in Services : service'[s] # service[s] => ServiceClosed(s)',
         \A v \in envVars' : v \notin envVars => VariableClosed(v)',
         \A s \in domains' : s \notin domains => service'[s] # NoService,
         credentials' \subseteq credentials \cup workspaces',
         templates' \subseteq templates \cup workspaces'
  PROVE  TenantClosed'
  <1> USE TenancyAssumption
  <1>1. \A e \in Environments : environment'[e] \in workspaces' \cup {None}
    BY DEF TenantClosed, Grow
  <1>2. ASSUME NEW s \in Services
        PROVE  ServiceClosed(s)'
    <2>1. CASE service'[s] = service[s] /\ service[s] # NoService
      <3>1. /\ service[s].workspace \in workspaces /\ service[s].workspace \in Workspaces
            /\ service[s].environment \in Environments
            /\ environment[service[s].environment] = service[s].workspace
        BY <2>1 DEF TenantClosed, TypeOK
      <3>2. environment'[service[s].environment] = service[s].workspace
        BY <3>1 DEF Grow
      <3> QED BY <2>1, <3>1, <3>2 DEF ServiceClosed, Grow
    <2>2. CASE service'[s] = service[s] /\ service[s] = NoService
      BY <2>2 DEF ServiceClosed, NoService
    <2> QED BY <2>1, <2>2
  <1>3. ASSUME NEW v \in envVars'
        PROVE  VariableClosed(v)'
    <2>1. CASE v \in envVars
      <3>1. /\ v.workspace \in Workspaces
            /\ v.scope.environment \in Environments \cup {None}
            /\ v.scope.service \in Services \cup {None}
        BY <2>1 DEF TypeOK, Scope
      <3>2. VariableClosed(v)
        BY <2>1 DEF TenantClosed, VariableClosed
      <3>3. v.workspace \in workspaces'
        BY <3>2 DEF VariableClosed, Grow
      <3>4. v.scope.environment # None => environment'[v.scope.environment] = v.workspace
        BY <3>1, <3>2 DEF VariableClosed, Grow
      <3>5. v.scope.service # None => service'[v.scope.service].workspace = v.workspace
        BY <3>1, <3>2 DEF VariableClosed, Grow, NoService
      <3> QED BY <3>3, <3>4, <3>5 DEF VariableClosed
    <2> QED BY <2>1
  <1>4. \A s \in domains' : service'[s] # NoService
    BY DEF TenantClosed, Grow, TypeOK
  <1>5. credentials' \cup templates' \subseteq workspaces'
    BY DEF TenantClosed, Grow
  <1> HIDE TenancyAssumption
  <1> QED BY <1>1, <1>2, <1>3, <1>4, <1>5 DEF TenantClosed, ServiceClosed, VariableClosed, NoService

(* A request that is about to insert, and is done then.                    *)
LEMMA InsertingStep ==
  ASSUME TenancyInv, NEW r \in Requests, NEW k \in Kinds \ Bulk, Inserting(r, k)
  PROVE  /\ req[r] \in Request /\ Valid(req[r]) /\ req[r].workspace \in Workspaces
         /\ req[r].kind = k
         /\ k = "domain" => req[r].service \in Services
         /\ Respond(r) /\ UNCHANGED people
  BY DEF TenancyInv, TypeOK, Inserting, Entitled

(* Every insert adds rows that keep the tables closed.                     *)
LEMMA InsertStep ==
  ASSUME TenancyInv, NEW r \in Requests, Insert(r)
  PROVE  TenancyInv' /\ Grow
  <1>1. TypeOK /\ TenantClosed /\ \A u \in Users : standing[u] = "super" => u \in everSuper
    BY DEF TenancyInv
  <1>2. CASE InsertEnvironment(r)
    <2>1. PICK e \in Environments :
             environment[e] = None /\ environment' = [environment EXCEPT ![e] = req[r].workspace]
      BY <1>2 DEF InsertEnvironment
    <2>2. UNCHANGED <<workspaces, service, envVars, domains, credentials, templates>>
      BY <1>2 DEF InsertEnvironment
    <2>3. /\ Valid(req[r]) /\ req[r].workspace \in Workspaces /\ req[r].kind = "environment"
          /\ Respond(r) /\ UNCHANGED people
      BY <1>2, InsertingStep DEF InsertEnvironment, Kinds, Bulk
    <2>4. Grow
      BY <1>1, <2>1, <2>2, <2>3 DEF Grow, TypeOK, people
    <2>5. environment' \in [Environments -> Workspaces \cup {None}]
      BY <1>1, <2>1, <2>3 DEF TypeOK
    <2>6. \A d \in Environments : environment'[d] # environment[d] => environment'[d] \in workspaces'
      BY <1>1, <2>1, <2>2, <2>3 DEF TypeOK, Valid
    <2>7. TenantClosed'
      BY <1>1, <2>2, <2>4, <2>6, ClosedPersists
    <2>8. TypeOK'
      BY <1>1, <2>2, <2>3, <2>4, <2>5, OthersEntitled DEF TypeOK, people
    <2> QED BY <1>1, <2>3, <2>4, <2>7, <2>8, OthersEntitled DEF TenancyInv, people
  <1>3. CASE InsertService(r)
    <2>1. PICK s \in Services :
             /\ service[s] = NoService
             /\ service' = [service EXCEPT ![s] = [workspace |-> req[r].workspace,
                                                   environment |-> req[r].environment]]
      BY <1>3 DEF InsertService
    <2>2. UNCHANGED <<workspaces, environment, envVars, domains, credentials, templates>>
      BY <1>3 DEF InsertService
    <2>3. /\ Valid(req[r]) /\ req[r].workspace \in Workspaces /\ req[r].kind = "service"
          /\ Respond(r) /\ UNCHANGED people
      BY <1>3, InsertingStep DEF InsertService, Kinds, Bulk
    <2>4. Grow
      BY <1>1, <2>1, <2>2, <2>3 DEF Grow, TypeOK, people
    <2>5. /\ req[r].environment \in Environments
          /\ environment[req[r].environment] = req[r].workspace
          /\ req[r].workspace \in workspaces
      BY <2>3 DEF Valid, EnvironmentOf
    <2>6. /\ service' \in [Services -> [workspace: Workspaces \cup {None},
                                        environment: Environments \cup {None}]]
          /\ \A d \in Services : d # s => service'[d] = service[d]
          /\ service'[s].workspace = req[r].workspace
          /\ service'[s].environment = req[r].environment
      BY <1>1, <2>1, <2>3, <2>5 DEF TypeOK
    <2>7. \A d \in Services : service'[d] # service[d] => ServiceClosed(d)'
      BY <2>2, <2>5, <2>6 DEF ServiceClosed
    <2>8. TenantClosed'
      BY <1>1, <2>2, <2>4, <2>7, ClosedPersists
    <2>9. TypeOK'
      BY <1>1, <2>2, <2>3, <2>4, <2>6, OthersEntitled DEF TypeOK, people
    <2> QED BY <1>1, <2>3, <2>4, <2>8, <2>9, OthersEntitled DEF TenancyInv, people
  <1>4. CASE InsertCredential(r) \/ InsertTemplate(r) \/ InsertDomain(r)
    <2>1. /\ Valid(req[r]) /\ req[r].workspace \in Workspaces
          /\ InsertDomain(r) => req[r].service \in Services /\ req[r].kind = "domain"
          /\ ~InsertDomain(r) => req[r].kind # "domain"
          /\ Respond(r) /\ UNCHANGED people
      BY <1>4, InsertingStep DEF InsertCredential, InsertTemplate, InsertDomain, Kinds, Bulk
    <2>2. UNCHANGED <<workspaces, environment, service, envVars>>
      BY <1>4 DEF InsertCredential, InsertTemplate, InsertDomain
    <2>3. Grow
      BY <2>1, <2>2 DEF Grow, people
    <2>4. /\ credentials' \subseteq credentials \cup {req[r].workspace}
          /\ templates' \subseteq templates \cup {req[r].workspace}
          /\ InsertDomain(r) => credentials' = credentials /\ templates' = templates
          /\ domains' \subseteq domains \cup {req[r].service}
          /\ ~InsertDomain(r) => domains' = domains
      BY <1>4 DEF InsertCredential, InsertTemplate, InsertDomain
    <2>5. \A d \in domains' : d \notin domains => d \in Services /\ service'[d] # NoService
      BY <2>1, <2>2, <2>4 DEF Valid
    <2>6. credentials' \subseteq credentials \cup workspaces' /\ templates' \subseteq templates \cup workspaces'
      BY <2>1, <2>2, <2>4 DEF Valid
    <2>7. TenantClosed'
      BY <1>1, <2>2, <2>3, <2>5, <2>6, ClosedPersists
    <2>8. TypeOK'
      BY <1>1, <2>1, <2>2, <2>3, <2>4, <2>5, OthersEntitled DEF TypeOK, people
    <2> QED BY <1>1, <2>1, <2>3, <2>7, <2>8, OthersEntitled DEF TenancyInv, people
  <1>5. CASE InsertEnvVars(r)
    <2>1. /\ req[r] \in Request /\ Valid(req[r]) /\ req[r].workspace \in Workspaces
          /\ req[r].kind = "env_vars"
          /\ Respond(r) /\ UNCHANGED people
      BY <1>5, InsertingStep DEF InsertEnvVars, Kinds, Bulk
    <2>2. UNCHANGED <<workspaces, environment, service, domains, credentials, templates>>
      BY <1>5 DEF InsertEnvVars
    <2>3. Grow
      BY <2>1, <2>2 DEF Grow, people
    <2>4. ASSUME NEW v \in envVars', v \notin envVars
          PROVE  /\ v \in [workspace: Workspaces, scope: Scope, batch: SUBSET Scope]
                 /\ VariableClosed(v)'
      <3>1. PICK s \in req[r].scopes : v = EnvVarRow(req[r], s)
        BY <1>5, <2>4 DEF InsertEnvVars
      <3>2. s \in Scope /\ req[r].scopes \subseteq Scope
        BY <2>1, RequestFields
      <3>3. v.workspace = req[r].workspace /\ v.scope = s /\ v.batch = req[r].scopes
        BY <3>1 DEF EnvVarRow
      <3>4. v \in [workspace: Workspaces, scope: Scope, batch: SUBSET Scope]
        BY <2>1, <3>1, <3>2 DEF EnvVarRow
      <3>5. ValidScope(req[r].workspace, s) /\ req[r].workspace \in workspaces
        BY <2>1 DEF Valid
      <3> QED BY <2>2, <3>3, <3>4, <3>5 DEF ValidScope, EnvironmentOf, VariableClosed
    <2>5. TenantClosed'
      BY <1>1, <2>2, <2>3, <2>4, ClosedPersists
    <2>6. envVars' \subseteq [workspace: Workspaces, scope: Scope, batch: SUBSET Scope]
      BY <1>1, <2>4 DEF TypeOK
    <2>7. TypeOK'
      BY <1>1, <2>1, <2>2, <2>3, <2>6, OthersEntitled DEF TypeOK, people
    <2> QED BY <1>1, <2>1, <2>3, <2>5, <2>7, OthersEntitled DEF TenancyInv, people
  <1>6. CASE InsertWorkspace(r)
    <2>1. PICK w \in Workspaces \ workspaces, e \in Environments :
             /\ environment[e] = None
             /\ workspaces' = workspaces \cup {w}
             /\ environment' = [environment EXCEPT ![e] = w]
      BY <1>6 DEF InsertWorkspace
    <2>2. UNCHANGED <<people, service, envVars, domains, credentials, templates>>
      BY <1>6 DEF InsertWorkspace
    <2>3. Grow
      BY <1>1, <2>1, <2>2 DEF Grow, TypeOK, people
    <2>4. environment' \in [Environments -> Workspaces \cup {None}] /\ workspaces' \subseteq Workspaces
      BY <1>1, <2>1 DEF TypeOK
    <2>5. \A d \in Environments : environment'[d] # environment[d] => environment'[d] \in workspaces'
      BY <1>1, <2>1 DEF TypeOK
    <2>6. TenantClosed'
      BY <1>1, <2>2, <2>3, <2>5, ClosedPersists
    <2>7. /\ req' \in [Requests -> Request]
          /\ \A s \in Requests : req'[s].pc # "idle" => Entitled(req[s])'
      <3>1. CASE req[r].left = 1
        BY <1>6, <2>3, <3>1, OthersEntitled DEF InsertWorkspace, NextName
      <3>2. CASE req[r].left # 1
        <4> DEFINE p == [req[r] EXCEPT !.left = @ - 1]
        <4>1. req[r] \in Request /\ req[r].left \in 0 .. MaxNames /\ req[r].left > 0
          BY <1>1, <1>6, RequestFields DEF TypeOK, InsertWorkspace
        <4>2. req[r].left - 1 \in 0 .. MaxNames /\ req[r].left - 1 > 0
          BY <3>2, <4>1, TenancyAssumption
        <4>3. /\ p \in Request /\ p.left > 0 /\ p.pc = req[r].pc /\ p.kind = req[r].kind
              /\ p.user = req[r].user
          BY <4>1, <4>2 DEF Request
        <4>4. req' = [req EXCEPT ![r] = p]
          BY <1>1, <1>6, <3>2, <4>1 DEF InsertWorkspace, NextName, TypeOK, Request
        <4> HIDE DEF p
        <4>5. /\ req' \in [Requests -> Request] /\ req'[r] = p
              /\ \A s \in Requests : s # r => req'[s] = req[s]
          BY <1>1, <4>3, <4>4 DEF TypeOK
        <4>6. req[r].kind \in Bulk /\ req[r].user \in everSuper /\ req[r].user \in Users
              /\ req[r].pc = "insert"
          BY <1>6, <4>1 DEF TenancyInv, Entitled, InsertWorkspace
        <4>7. Entitled(req[r])'
          BY <2>2, <4>3, <4>5, <4>6 DEF Entitled, Bulk, people
        <4>8. ASSUME NEW s \in Requests, s # r, req[s].pc # "idle"
              PROVE  Entitled(req[s])'
          <5>1. PICK q \in Request : q = req[s]
            BY <1>1 DEF TypeOK
          <5>2. Entitled(q)
            BY <4>8, <5>1 DEF TenancyInv
          <5>3. Entitled(q)' /\ req'[s] = q
            BY <1>1, <2>3, <4>5, <4>8, <5>1, <5>2, EntitledPersists
          <5> QED BY <5>3
        <4> QED BY <4>5, <4>7, <4>8
      <3> QED BY <3>1, <3>2
    <2>8. TypeOK'
      BY <1>1, <2>2, <2>4, <2>7 DEF TypeOK, people
    <2> QED BY <1>1, <2>2, <2>3, <2>6, <2>7, <2>8 DEF TenancyInv, people
  <1> QED BY <1>2, <1>3, <1>4, <1>5, <1>6 DEF Insert

-----------------------------------------------------------------------------
(* Every step.                                                             *)

LEMMA InitInv == Init => TenancyInv
  <1> SUFFICES ASSUME Init PROVE TenancyInv
    OBVIOUS
  <1>1. TypeOK
    BY TenancyAssumption, IdleRequest DEF Init, TypeOK, NoService
  <1>2. TenantClosed
    BY DEF Init, TenantClosed
  <1>3. \A r \in Requests : req[r].pc = "idle"
    BY DEF Init, Idle
  <1> QED BY <1>1, <1>2, <1>3 DEF TenancyInv, Init

LEMMA NextStep ==
  ASSUME TenancyInv, [Next]_vars
  PROVE  TenancyInv' /\ Grow
  <1>1. TypeOK /\ TenantClosed /\ \A u \in Users : standing[u] = "super" => u \in everSuper
    BY DEF TenancyInv
  <1>2. ASSUME NEW r \in Requests, Route(r)
        PROVE  TenancyInv' /\ Grow
    <2>1. UNCHANGED <<people, rows>>
      BY <1>2, RouteStep
    <2>2. PICK q \in Request : Begin(r, q) /\ Entitled(q)
      BY <1>2, RouteStep
    <2>3. Grow /\ TenantClosed'
      BY <1>1, <2>1 DEF Grow, people, rows, TenantClosed
    <2>4. Entitled(q)'
      BY <1>1, <2>2, <2>3, EntitledPersists
    <2>5. /\ req' \in [Requests -> Request] /\ req'[r] = q
          /\ \A s \in Requests : s # r => req'[s] = req[s]
      BY <1>1, <2>2, BeginStep
    <2>6. ASSUME NEW s \in Requests, req'[s].pc # "idle"
          PROVE  Entitled(req[s])'
      <3>1. CASE s = r
        BY <2>4, <2>5, <3>1
      <3>2. CASE s # r
        <4>1. PICK p \in Request : p = req[s]
          BY <1>1 DEF TypeOK
        <4>2. Entitled(p) /\ req'[s] = p
          BY <2>5, <2>6, <3>2, <4>1 DEF TenancyInv
        <4>3. Entitled(p)'
          BY <1>1, <2>3, <4>2, EntitledPersists
        <4> QED BY <4>2, <4>3
      <3> QED BY <3>1, <3>2
    <2>7. TypeOK'
      BY <1>1, <2>1, <2>5 DEF TypeOK, people, rows
    <2> QED BY <1>1, <2>1, <2>3, <2>6, <2>7 DEF TenancyInv, people
  <1>3. ASSUME NEW r \in Requests, Respond(r), UNCHANGED <<people, rows>>
        PROVE  TenancyInv' /\ Grow
    <2>1. Grow /\ TenantClosed'
      BY <1>1, <1>3 DEF Grow, people, rows, TenantClosed
    <2>2. /\ req' \in [Requests -> Request]
          /\ \A s \in Requests : req'[s].pc # "idle" => Entitled(req[s])'
      BY <1>3, <2>1, OthersEntitled
    <2>3. TypeOK'
      BY <1>1, <1>3, <2>2 DEF TypeOK, people, rows
    <2> QED BY <1>1, <1>3, <2>1, <2>2, <2>3 DEF TenancyInv, people
  <1>4. ASSUME NEW r \in Requests, Check(r)
        PROVE  TenancyInv' /\ Grow
    <2>1. CASE ~Valid(req[r])
      BY <1>3, <1>4, <2>1 DEF Check
    <2>2. CASE Valid(req[r])
      <3> DEFINE p == [req[r] EXCEPT !.pc = "insert"]
      <3>1. req[r] \in Request /\ Entitled(req[r])
        BY <1>1, <1>4 DEF Check, TypeOK, TenancyInv
      <3>2. /\ p \in Request /\ p.pc = "insert" /\ p.kind = req[r].kind /\ p.user = req[r].user
            /\ p.left = req[r].left /\ p.workspace = req[r].workspace
            /\ p.environment = req[r].environment /\ p.service = req[r].service
            /\ p.scopes = req[r].scopes
        BY <3>1 DEF Request
      <3>3. req' = [req EXCEPT ![r] = p] /\ UNCHANGED <<people, rows>>
        BY <1>1, <1>4, <2>2 DEF Check, TypeOK
      <3> HIDE DEF p
      <3>4. /\ req' \in [Requests -> Request] /\ req'[r] = p
            /\ \A s \in Requests : s # r => req'[s] = req[s]
        BY <1>1, <3>2, <3>3 DEF TypeOK
      <3>5. Valid(p)
        BY <2>2, <3>2 DEF Valid
      <3>6. Entitled(p)
        BY <1>4, <3>1, <3>2, <3>5 DEF Entitled, Check
      <3>7. Entitled(req[r])'
        <4>1. PICK q \in Request : q = p
          BY <3>2
        <4>2. Entitled(q) /\ req'[r] = q
          BY <3>4, <3>6, <4>1
        <4>3. Grow
          BY <3>3 DEF Grow, people, rows
        <4> QED BY <1>1, <4>2, <4>3, EntitledPersists
      <3>8. Grow /\ TenantClosed'
        BY <1>1, <3>3 DEF Grow, people, rows, TenantClosed
      <3>9. ASSUME NEW s \in Requests, s # r, req[s].pc # "idle"
            PROVE  Entitled(req[s])'
        <4>1. PICK q \in Request : q = req[s]
          BY <1>1 DEF TypeOK
        <4>2. Entitled(q) /\ req'[s] = q
          BY <3>4, <3>9, <4>1 DEF TenancyInv
        <4> QED BY <1>1, <3>8, <4>2, EntitledPersists
      <3>10. TypeOK'
        BY <1>1, <3>3, <3>4 DEF TypeOK, people, rows
      <3> QED BY <1>1, <3>3, <3>4, <3>7, <3>8, <3>9, <3>10 DEF TenancyInv, people
    <2> QED BY <2>1, <2>2
  <1>5. ASSUME UNCHANGED <<rows, req>>, Grow, standing' \in [Users -> {"none", "user", "super"}],
               everSuper' \subseteq Users, home' \in [Users -> Workspaces \cup {None}],
               \A u \in Users : standing'[u] = "super" => u \in everSuper'
        PROVE  TenancyInv'
    <2>1. TypeOK'
      BY <1>1, <1>5 DEF TypeOK, rows
    <2>2. TenantClosed'
      BY <1>1, <1>5 DEF TenantClosed, rows
    <2>3. ASSUME NEW s \in Requests, req'[s].pc # "idle"
          PROVE  Entitled(req[s])'
      <3>1. PICK q \in Request : q = req[s]
        BY <1>1 DEF TypeOK
      <3>2. Entitled(q) /\ req'[s] = q
        BY <1>5, <2>3, <3>1 DEF TenancyInv
      <3> QED BY <1>1, <1>5, <3>2, EntitledPersists
    <2> QED BY <1>5, <2>1, <2>2, <2>3 DEF TenancyInv
  <1>6. ASSUME NEW u \in Users, NEW w \in Workspaces, Join(u, w)
        PROVE  TenancyInv' /\ Grow
    <2>1. Grow
      BY <1>1, <1>6 DEF Join, Grow, TypeOK, rows
    <2> QED BY <1>1, <1>5, <1>6, <2>1 DEF Join, TypeOK
  <1>7. ASSUME NEW u \in Users, NEW st \in {"none", "user", "super"}, Administer(u, st)
        PROVE  TenancyInv' /\ Grow
    <2>1. Grow
      BY <1>1, <1>7 DEF Administer, Grow, TypeOK, rows
    <2> QED BY <1>1, <1>5, <1>7, <2>1 DEF Administer, TypeOK
  <1>8. CASE UNCHANGED vars
    <2>1. Grow
      BY <1>8 DEF Grow, vars, people, rows
    <2> QED BY <1>1, <1>5, <1>8, <2>1 DEF vars, people, TypeOK
  <1>9. ASSUME NEW r \in Requests, Fail(r)
        PROVE  TenancyInv' /\ Grow
    BY <1>3, <1>9 DEF Fail
  <1> QED BY <1>2, <1>4, <1>6, <1>7, <1>8, <1>9, InsertStep DEF Next

(* The rows of every table, and the requests in flight, refer to ids of    *)
(* the right tables.                                                       *)
THEOREM TypeCorrect == Spec => []TypeOK
  <1>1. TenancyInv => TypeOK
    BY DEF TenancyInv
  <1> QED BY <1>1, InitInv, NextStep, PTL DEF Spec

(* No tenant reaches into another: however many requests interleave, every *)
(* environment, service, variable, domain, credential and template is of a *)
(* workspace that exists, and what it refers to is of the same workspace   *)
(* (create_service, validate_env_var_scope, create_domain).                *)
THEOREM TenantsClosed == Spec => []TenantClosed
  <1>1. TenancyInv => TenantClosed
    BY DEF TenancyInv
  <1> QED BY <1>1, InitInv, NextStep, PTL DEF Spec

(* Whoever is about to write into a workspace belongs to it or has been a  *)
(* super admin, although the check was made some steps earlier             *)
(* (ensure_workspace_access).                                              *)
THEOREM OnlyAdmitted == Spec => []OnlyAdmittedWrite
  <1>1. TenancyInv => OnlyAdmittedWrite
    BY DEF TenancyInv, Entitled, OnlyAdmittedWrite
  <1> QED BY <1>1, InitInv, NextStep, PTL DEF Spec

(* Every workspace has an environment to deploy into, also the workspaces  *)
(* of a bulk request that failed half way (create_workspace).              *)
THEOREM WorkspacesComplete == Spec => []WorkspaceComplete
  <1>1. Init => WorkspaceComplete
    BY DEF Init, WorkspaceComplete
  <1>2. ASSUME TenancyInv, WorkspaceComplete, [Next]_vars
        PROVE  WorkspaceComplete'
    <2>1. TypeOK /\ Grow
      BY <1>2, NextStep DEF TenancyInv
    <2>2. ASSUME NEW w \in workspaces
          PROVE  \E e \in Environments : environment'[e] = w
      BY <1>2, <2>1, <2>2, TenancyAssumption DEF WorkspaceComplete, Grow, TypeOK
    <2>3. \/ workspaces' = workspaces
          \/ \E w \in Workspaces : /\ workspaces' = workspaces \cup {w}
                                   /\ \E e \in Environments : environment'[e] = w
      <3>1. ASSUME NEW r \in Requests, InsertWorkspace(r)
            PROVE  \E w \in Workspaces : /\ workspaces' = workspaces \cup {w}
                                         /\ \E e \in Environments : environment'[e] = w
        BY <2>1, <3>1 DEF InsertWorkspace, TypeOK
      <3>2. ASSUME NEW r \in Requests, Insert(r), ~InsertWorkspace(r)
            PROVE  workspaces' = workspaces
        BY <3>2 DEF Insert, InsertEnvironment, InsertService, InsertCredential, InsertEnvVars,
                    InsertDomain, InsertTemplate
      <3>3. ASSUME NEW r \in Requests, Route(r) \/ Check(r) \/ Fail(r)
            PROVE  workspaces' = workspaces
        BY <1>2, <3>3, RouteStep DEF Check, Fail, rows
      <3> QED BY <1>2, <3>1, <3>2, <3>3 DEF Next, Join, Administer, vars, rows
    <2> QED BY <2>2, <2>3 DEF WorkspaceComplete
  <1> QED BY <1>1, <1>2, InitInv, NextStep, PTL DEF Spec

(* The variables of one bulk request are stored together or not at all     *)
(* (create_env_vars).                                                      *)
THEOREM BatchesWhole == Spec => []BatchWhole
  <1>1. Init => BatchWhole
    BY DEF Init, BatchWhole
  <1>2. ASSUME TenancyInv, BatchWhole, [Next]_vars
        PROVE  BatchWhole'
    <2>1. TypeOK
      BY <1>2 DEF TenancyInv
    <2>2. ASSUME NEW r \in Requests, InsertEnvVars(r)
          PROVE  BatchWhole'
      <3>1. envVars' = envVars \cup {EnvVarRow(req[r], s) : s \in req[r].scopes}
        BY <2>2 DEF InsertEnvVars
      <3>2. ASSUME NEW v \in envVars', NEW s \in v.batch
            PROVE  [v EXCEPT !.scope = s] \in envVars'
        <4>1. CASE v \in envVars
          BY <1>2, <3>1, <4>1 DEF BatchWhole
        <4>2. ASSUME NEW d \in req[r].scopes, v = EnvVarRow(req[r], d)
              PROVE  [v EXCEPT !.scope = s] \in envVars'
          <5>1. s \in req[r].scopes
            BY <4>2 DEF EnvVarRow
          <5>2. [EnvVarRow(req[r], d) EXCEPT !.scope = s] = EnvVarRow(req[r], s)
            BY DEF EnvVarRow
          <5> QED BY <3>1, <4>2, <5>1, <5>2
        <4> QED BY <3>1, <3>2, <4>1, <4>2
      <3> QED BY <3>2 DEF BatchWhole
    <2>3. ASSUME envVars' = envVars
          PROVE  BatchWhole'
      BY <1>2, <2>3 DEF BatchWhole
    <2>4. ASSUME NEW r \in Requests, Insert(r), ~InsertEnvVars(r)
          PROVE  envVars' = envVars
      BY <2>4 DEF Insert, InsertEnvironment, InsertService, InsertCredential, InsertWorkspace,
                  InsertDomain, InsertTemplate
    <2>5. ASSUME NEW r \in Requests, Route(r) \/ Check(r) \/ Fail(r)
          PROVE  envVars' = envVars
      BY <1>2, <2>5, RouteStep DEF Check, Fail, rows
    <2> QED BY <1>2, <2>2, <2>3, <2>4, <2>5 DEF Next, Join, Administer, vars, rows
  <1> QED BY <1>1, <1>2, InitInv, NextStep, PTL DEF Spec

=============================================================================
