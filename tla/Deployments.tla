---------------------------- MODULE Deployments ----------------------------
(***************************************************************************)
(* Deploying and restarting services (backend/src/services/deployments.rs, *)
(* libs/deploy_executor.rs and the routes of routes/deployments.rs).       *)
(*                                                                         *)
(* A request reads the service, plans its commands, hands them to the      *)
(* executor, records the run with its transcript and answers.  The backend *)
(* ships the executor that only previews; one that runs the commands is    *)
(* injected through with_executor, and is modelled by the results it may   *)
(* report.  Which users have access to a service is the subject of Tenancy.*)
(***************************************************************************)
EXTENDS DockerCommands, ErrorEnvelope, Settings

CONSTANTS
    Symbols,         \* what the texts of rows and requests are made of
    Services,        \* the services: name, deploy kind and image
    Roots, Contexts, \* the values of the two path settings
    DefaultRoot, DefaultContext,
    NoImage,         \* the image of a service that has none
    Rejections,      \* the errors axum itself answers: status and text
    MaxRequests      \* bound on the requests in one behaviour

(* "secret" is the text of a failure.  Of axum's own errors, the ones that *)
(* blame the client quote the request; what the others say is unknown.     *)
ASSUME DeploymentsAssumption ==
    /\ "secret" \notin Symbols /\ MaxRequests \in Nat
    /\ Services # {}
    /\ Services \subseteq [name: Seq(Symbols), kind: {"docker_image", "docker_compose", "dockerfile"},
                           image: {NoImage} \cup Seq(Symbols)]
    /\ Roots \cup Contexts \cup {DefaultRoot, DefaultContext} \subseteq Seq(Symbols)
    /\ Rejections \subseteq [status: {400, 404, 405, 413, 415, 422}, text: Seq(Symbols)]
                            \cup [status: {500}, text: Seq(Symbols \cup {"secret"})]
    /\ NameLimit \in Nat /\ ImageLimit \in Nat /\ BodyLimit \in Nat

VARIABLES
    config,       \* the path settings, and whether the executor connects
    pc,           \* where the request in flight is
    service,      \* its service
    commands,     \* the commands planned for it
    run,          \* the result of the executor
    deployments,  \* deployment_records, in the order of their creation
    sent,         \* history: the last response, and the one it was made from
    served        \* the requests answered so far

vars == <<config, pc, service, commands, run, deployments, sent, served>>

AnyService == CHOOSE s \in Services : TRUE
NoRun == [executed |-> FALSE, success |-> FALSE, outcomes |-> <<>>]

(* The request is over: its answer passes the middleware.                  *)
Respond(response) ==
    /\ sent' = [handler |-> response, client |-> NormalizeErrorResponse(response)]
    /\ served' = served + 1
    /\ pc' = "idle" /\ service' = AnyService /\ commands' = <<>> /\ run' = NoRun

(* planned_commands, without its validation.                               *)
Planned(s) ==
    CASE s.kind = "docker_image" ->
             ImageDeployCommands(IF s.image = NoImage THEN <<"missing-image">> ELSE s.image, s.name)
      [] s.kind = "docker_compose" -> ComposeDeployCommands(s.name, config)
      [] s.kind = "dockerfile" -> DockerfileDeployCommands(s.name, config)

ValidImage(s) ==
    s.kind = "docker_image" /\ s.image # NoImage => ValidateImageReference(s.image)

(* The validation of planned_commands.                                     *)
Deployable(s) == ValidateServiceName(s.name) /\ ValidImage(s)

(* What the validation says of a service; it quotes the offending value.   *)
Complaint(s) ==
    BadRequest(<<"invalid">> \o IF ValidateServiceName(s.name) THEN s.image ELSE s.name)

Arrives == pc = "idle" /\ served < MaxRequests

TriggerDeploy(s) ==
    /\ Arrives /\ Deployable(s)
    /\ pc' = "run" /\ service' = s /\ commands' = Planned(s)
    /\ UNCHANGED <<config, run, deployments, sent, served>>

(* Both trigger_deploy and restart_service, for a name that is not valid.  *)
RefuseDeploy(s) ==
    /\ Arrives /\ ~Deployable(s)
    /\ Respond(IntoResponse(Complaint(s)))
    /\ UNCHANGED <<config, deployments>>

RestartService(s) ==
    /\ Arrives /\ ValidateServiceName(s.name)
    /\ pc' = "run" /\ service' = s /\ commands' = <<RestartCommand(s.name)>>
    /\ UNCHANGED <<config, run, deployments, sent, served>>

(* A request that does not get as far as planning: axum rejects it, the    *)
(* user is not known or has no access, the service does not exist, or the  *)
(* database fails.                                                         *)
TurnAway ==
    /\ Arrives
    /\ \/ \E error \in {Unauthorized, Forbidden, NotFound, Internal(<<"secret">>)} :
             Respond(IntoResponse(error))
       \/ \E rejection \in Rejections : Respond(PlainError(rejection.status, rejection.text))
    /\ UNCHANGED <<config, deployments>>

(* PreviewExecutor: every command is rendered, none is run.                *)
PreviewRun ==
    /\ pc = "run" /\ ~config.remote
    /\ run' = [executed |-> FALSE, success |-> TRUE,
               outcomes |-> [i \in DOMAIN commands |->
                  [command |-> Render(commands[i]), exit_code |-> 0, printed |-> FALSE]]]
    /\ pc' = "record"
    /\ UNCHANGED <<config, service, commands, deployments, sent, served>>

(* An executor that connects: it runs the commands up to the first that    *)
(* fails, and reports what each printed and its exit code.                 *)
RemoteRun ==
    /\ pc = "run" /\ config.remote
    /\ \E n \in 1 .. Len(commands), code \in {0, 1} :
          /\ code = 0 => n = Len(commands)
          /\ run' = [executed |-> TRUE, success |-> code = 0,
                     outcomes |-> [i \in 1 .. n |->
                        [command |-> Render(commands[i]),
                         exit_code |-> IF i = n THEN code ELSE 0, printed |-> i = n]]]
    /\ pc' = "record"
    /\ UNCHANGED <<config, service, commands, deployments, sent, served>>

(* Variant: success is looked at before executed.                          *)
DeployStatusEager(r) == IF r.success THEN "succeeded" ELSE "failed"

DeployStatus(r) ==
    IF ~r.executed THEN "queued" ELSE IF r.success THEN "succeeded" ELSE "failed"

Line(kind, text) == [kind |-> kind, text |-> text]

(* The transcript; run_and_record passes no secrets to be blotted out.     *)
ToOutput(r) ==
    FlattenSeq([i \in DOMAIN r.outcomes |->
        LET o == r.outcomes[i]
        IN  <<Line("command", o.command)>>
            \o (IF o.printed THEN <<Line("captured", NoText)>> ELSE <<>>)
            \o (IF r.executed THEN <<Line("exit", <<o.exit_code>>)>> ELSE <<>>)])
    \o (IF r.executed THEN <<>> ELSE <<Line("preview", NoText)>>)

(* create_deployment; the planned commands are history.                    *)
Record ==
    /\ pc = "record"
    /\ deployments' = Append(deployments,
          [service |-> service, status |-> DeployStatus(run), output |-> ToOutput(run),
           planned |-> commands])
    /\ Respond(Ok)
    /\ UNCHANGED config

(* The executor or the insert fails: whatever ran, nothing is recorded.    *)
(* (An instance that dies leaves the same, and no answer.)                 *)
Fail ==
    /\ pc # "idle"
    /\ Respond(IntoResponse(Internal(<<"secret">>)))
    /\ UNCHANGED <<config, deployments>>

Init ==
    /\ config \in [root: SettingValues(Roots, DefaultRoot),
                   context: SettingValues(Contexts, DefaultContext), remote: BOOLEAN]
    /\ pc = "idle" /\ service = AnyService /\ commands = <<>> /\ run = NoRun
    /\ deployments = <<>>
    /\ sent = [handler |-> Ok, client |-> Ok] /\ served = 0

Next ==
    \/ \E s \in Services : TriggerDeploy(s) \/ RefuseDeploy(s) \/ RestartService(s)
    \/ TurnAway \/ PreviewRun \/ RemoteRun \/ Record \/ Fail

Spec == Init /\ [][Next]_vars

-----------------------------------------------------------------------------
(* Properties.                                                             *)

(* Whatever stands in the settings and in the row of the service, a shell  *)
(* reads every rendered command as the words that its builder meant: a     *)
(* value is one word, and the only operators are the builder's own.        *)
CommandsReadBack ==
    \A i \in DOMAIN commands : ShellReads(Render(commands[i])) = Meaning(commands[i])

(* Where the paths of a deployment lead, once the host has resolved their  *)
(* dots.  The directory of a service is a child of the root, which is "/"  *)
(* when the setting is empty.  The build context is where its setting      *)
(* leads from there, one with a leading slash too; it lies below the       *)
(* directory if its setting never climbs above where it starts.  One with  *)
(* too many ".." leaves the directory: nothing in the code keeps it in.    *)
PathsUnderRoot ==
    pc = "run" =>
        LET root == IF config.root = <<>> THEN <<"/">> ELSE config.root
            dir == ServiceDir(config.root, service.name)
            context == PathJoin(dir, config.context)
            inner == Walk(Here, Components(config.context))
        IN  /\ Locate(dir) = Below(Locate(root), <<service.name>>)
            /\ Locate(context) = Walk(Locate(dir), Components(config.context))
            /\ inner.up = 0 => Locate(context) = Below(Locate(dir), inner.names)

(* The lines of one kind in a transcript, in their order.                  *)
LinesOf(output, kind) ==
    FlattenSeq([i \in DOMAIN output |-> IF output[i].kind = kind THEN <<output[i]>> ELSE <<>>])

Honest(d) ==
    LET ran == LinesOf(d.output, "command")
        exits == LinesOf(d.output, "exit")
    IN  /\ \A k \in DOMAIN ran : ran[k].text = Render(d.planned[k])
        /\ d.status = "queued" <=> exits = <<>>
        /\ d.status = "succeeded" =>
              Len(exits) = Len(d.planned) /\ \A k \in DOMAIN exits : exits[k].text = <<0>>
        /\ d.status = "failed" => Last(exits).text # <<0>>

(* A record says what happened, and its status and transcript agree: the   *)
(* transcript lists the planned commands in their order, a queued one has  *)
(* no exit code, a succeeded one a zero for every planned command, and a   *)
(* failed one ends in the code of the command that failed.                 *)
StatusHonest == \A i \in DOMAIN deployments : Honest(deployments[i])

(* Whatever fails, and whatever the error says, its text does not reach    *)
(* the client: not through an ApiError, not through a handler's own body,  *)
(* and the answer has the form of an ErrorResponse.                        *)
InternalHidden ==
    sent.client.status >= 400 =>
        /\ sent.client.envelope
        /\ \A i \in DOMAIN sent.client.message : sent.client.message[i] # "secret"
        /\ \A i \in DOMAIN sent.client.details : sent.client.details[i] # "secret"

(* A client may go by the status or by the code: whichever way an error    *)
(* came about, the two say the same; and the status is the handler's own   *)
(* unless the body, which may quote a long value of the row, is beyond     *)
(* the limit of the middleware.                                            *)
StatusAndCodeAgree ==
    LET r == sent.client
    IN  /\ r.status = 401 <=> r.code = "unauthorized"
        /\ r.status = 403 <=> r.code = "forbidden"
        /\ r.status = 404 <=> r.code = "not_found"
        /\ r.status \in {400, 422} <=> r.code = "bad_request"
        /\ r.status = 500 <=> r.code = "internal_error"
        /\ Len(sent.handler.message) <= BodyLimit => r.status = sent.handler.status

=============================================================================
