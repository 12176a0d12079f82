---------------------------- MODULE ServerChecks ----------------------------
(***************************************************************************)
(* Docker hosts and their connectivity checks                              *)
(* (backend/src/services/servers.rs, libs/ssh.rs and the worker process of *)
(* bin/temporal_worker.rs).                                                *)
(*                                                                         *)
(* The worker goes over a snapshot of all servers at every tick of its     *)
(* timer, one server after the other; administrators check single servers  *)
(* through the API at the same time.  A check reads the row, decrypts the  *)
(* SSH key in it, takes the time, runs the probe and writes the four check *)
(* columns.  The probe of this version does not connect: its output is     *)
(* fixed.  The API and the worker are processes of their own; each reads   *)
(* its secret_key when it starts, and nothing makes the two agree (the     *)
(* worker of docker-compose.yml is not given WARA_SECRET_KEY).             *)
(***************************************************************************)
EXTENDS Secrets, Settings

CONSTANTS
    Servers,      \* ids of the rows that may ever exist
    Payloads,     \* what a create_server request may hold
    PrivateMark,  \* the symbol "PRIVATE KEY" in the text of a private key
    Requests,     \* slots for API checks in flight
    MaxTime,      \* bound on the clock
    MaxRestarts,  \* bound on the restarts of the API
    MaxFaults     \* bound on the database errors that hit the worker

ASSUME ServerChecksAssumption ==
    /\ \A p \in Payloads :
          /\ p.private_key \in Text
          /\ p.private_key_passphrase \subseteq Text
          /\ \A t, u \in p.private_key_passphrase : t = u
    /\ MaxTime \in Nat \ {0} /\ MaxRestarts \in Nat /\ MaxFaults \in Nat

VARIABLES
    rows,       \* the ids in "servers"
    stored,     \* the encrypted columns of each row
    record,     \* the check columns of each row
    clock,
    api,        \* the secret_key of the API process, and its restarts
    req,        \* the API checks in flight
    worker,     \* the worker process
    faults,     \* database errors so far
    registered, \* history: what each row was registered with, under which key
    overlapped  \* history: the servers that were under two checks at once

history == <<registered, overlapped>>
vars == <<rows, stored, record, clock, api, req, worker, faults, history>>

-----------------------------------------------------------------------------
(* The probe (libs/ssh.rs); "empty" stands for the empty string.           *)

ServerCheckCommands == <<"printf", "docker version">>

ValidateAllowedCommands(commands) ==
    \A i \in DOMAIN commands : commands[i] \in {"printf", "docker version"}

MockControlledOutput(commands) ==
    [i \in DOMAIN commands |->
        CASE commands[i] = "printf" -> "wara-ssh-ok"
          [] commands[i] = "docker version" -> "25.0.0"
          [] OTHER -> "empty"]

Failed == [status |-> "unavailable", version |-> "empty", error |-> "ssh"]

(* The first of these lines, if there is any.                              *)
FirstLine(lines) == {i \in lines : \A j \in lines : i <= j}

(* The first line that is not empty is the marker, the next the version.   *)
ParseServerCheckOutput(output) ==
    LET lines == {i \in DOMAIN output : output[i] # "empty"}
        marker == {i \in FirstLine(lines) : output[i] = "wara-ssh-ok"}
        version == FirstLine(lines \ marker)
    IN  IF marker # {} /\ version # {}
        THEN [status |-> "available", version |-> output[CHOOSE i \in version : TRUE],
              error |-> "empty"]
        ELSE Failed

Probe ==
    IF ValidateAllowedCommands(ServerCheckCommands)
    THEN ParseServerCheckOutput(MockControlledOutput(ServerCheckCommands))
    ELSE Failed

-----------------------------------------------------------------------------
(* Registration.                                                           *)

(* A public key must begin like an OpenSSH one, a private key be a PEM.    *)
ValidateSshKeyPair(payload) ==
    /\ payload.public_key = "ssh-"
    /\ \E i \in DOMAIN payload.private_key : payload.private_key[i] = PrivateMark

Unchecked == [status |-> "unchecked", version |-> "empty", at |-> 0, error |-> "empty"]
NoSecrets == [private_key |-> [base64 |-> <<>>], passphrase |-> {}]
NoTarget == [private_key |-> <<>>, passphrase |-> {}]
Unregistered == [key |-> DefaultKey, target |-> NoTarget]

(* The two secret columns of a new row.                                    *)
Encrypted(key, payload) ==
    [private_key |-> EncryptSecret(key, payload.private_key),
     passphrase |-> {EncryptSecret(key, value) : value \in payload.private_key_passphrase}]

(* Variant: a server that is registered again is overwritten.              *)
CreateServerAgain(s, payload) ==
    /\ rows' = rows \cup {s}
    /\ stored' = [stored EXCEPT ![s] = Encrypted(api.key, payload)]
    /\ record' = [record EXCEPT ![s] = Unchecked]
    /\ registered' = [registered EXCEPT ![s] =
          [key |-> api.key, target |-> [private_key |-> payload.private_key,
                                        passphrase |-> payload.private_key_passphrase]]]
    /\ UNCHANGED <<clock, api, req, worker, faults, overlapped>>

CreateServer(s, payload) ==
    /\ s \notin rows
    /\ ValidateSshKeyPair(payload)
    /\ rows' = rows \cup {s}
    /\ stored' = [stored EXCEPT ![s] = Encrypted(api.key, payload)]
    /\ record' = [record EXCEPT ![s] = Unchecked]
    /\ registered' = [registered EXCEPT ![s] =
          [key |-> api.key, target |-> [private_key |-> payload.private_key,
                                        passphrase |-> payload.private_key_passphrase]]]
    /\ UNCHANGED <<clock, api, req, worker, faults, overlapped>>

-----------------------------------------------------------------------------
(* Checks.                                                                 *)

(* ssh_target: what a process with this key makes of the row, if anything. *)
SshTarget(key, s) ==
    LET phrases == {DecryptSecret(key, value) : value \in stored[s].passphrase}
    IN  {[private_key |-> text, passphrase |-> UNION phrases] :
            text \in {t \in DecryptSecret(key, stored[s].private_key) : {} \notin phrases}}

NoCheck == [pc |-> "idle", server |-> {}, key |-> DefaultKey, target |-> NoTarget,
            result |-> Unchecked]

(* A check of s by a process with this key, up to the update: the target,  *)
(* the time and the columns it is going to write.                          *)
Checks(key, s) ==
    {[pc |-> "update", server |-> {s}, key |-> key, target |-> target,
      result |-> [status |-> Probe.status, version |-> Probe.version, at |-> clock,
                  error |-> Probe.error]] : target \in SshTarget(key, s)}

(* History: a check of s begins; another one may be about to write.        *)
BeginCheck(s) ==
    LET checks == {req[r] : r \in Requests} \cup {worker.check}
    IN  overlapped' = overlapped \cup {t \in {s} : \E c \in checks : t \in c.server}

(* Variant: docker_status and docker_version change places.                *)
UpdateCheckMetadataSwapped(s, res) ==
    record' = [record EXCEPT ![s] = [res EXCEPT !.status = res.version, !.version = res.status]]

(* Variant: the time of the check is left out.                             *)
UpdateCheckMetadataTimeless(s, res) ==
    record' = [record EXCEPT ![s] = [res EXCEPT !.at = 0]]

(* The four columns a check writes.                                        *)
UpdateCheckMetadata(s, res) == record' = [record EXCEPT ![s] = res]

(* POST /servers/{id}/check, up to the update; it fails for a row that     *)
(* does not decrypt, and leaves no trace then.                             *)
CheckServer(r, s) ==
    /\ req[r].pc = "idle"
    /\ s \in rows
    /\ \E check \in Checks(api.key, s) : req' = [req EXCEPT ![r] = check]
    /\ BeginCheck(s)
    /\ UNCHANGED <<rows, stored, record, clock, api, worker, faults, registered>>

CheckServerUpdate(r) ==
    /\ req[r].pc = "update"
    /\ \E s \in req[r].server : UpdateCheckMetadata(s, req[r].result)
    /\ req' = [req EXCEPT ![r] = NoCheck]
    /\ UNCHANGED <<rows, stored, clock, api, worker, faults, history>>

CheckServerFail(r) ==
    /\ req[r].pc = "update"
    /\ req' = [req EXCEPT ![r] = NoCheck]
    /\ UNCHANGED <<rows, stored, record, clock, api, worker, faults, history>>

(* The settings a process may be started with; -1 does not parse as u64.   *)
SecretKeys == SettingValues(Keys, DefaultKey)
Intervals ==
    UNION {U64Setting(env, file, 900) :
              env \in {{}, {0}, {900}, {-1}}, file \in {{}, {0}, {900}}}

(* The API is started again, possibly with another secret_key; the         *)
(* requests in flight are gone.                                            *)
ApiRestart(key) ==
    /\ api.restarts < MaxRestarts
    /\ api' = [key |-> key, restarts |-> api.restarts + 1]
    /\ req' = [r \in Requests |-> NoCheck]
    /\ UNCHANGED <<rows, stored, record, clock, worker, faults, history>>

-----------------------------------------------------------------------------
(* The worker.  A signal is delivered to the listener that the select of   *)
(* its loop holds; during a pass there is none, and a signal is lost.      *)

Down == [pc |-> "down", key |-> DefaultKey, interval |-> 0, signalled |-> FALSE,
         todo |-> {}, check |-> NoCheck]

WorkerStart(key, interval) ==
    /\ worker.pc = "down"
    /\ worker' = [Down EXCEPT !.pc = "wait", !.key = key, !.interval = interval]
    /\ UNCHANGED <<rows, stored, record, clock, api, req, faults, history>>

(* Variant: a pass leaves out the servers that have been checked before.   *)
WorkerTickUnchecked ==
    /\ worker.interval # 0
    /\ worker.pc = "wait"
    /\ worker' = [worker EXCEPT !.pc = "pass", !.signalled = FALSE,
                                !.todo = {s \in rows : record[s].status = "unchecked"}]
    /\ UNCHANGED <<rows, stored, record, clock, api, req, faults, history>>

(* The timer ticks: list_servers.  The select drops its other branch, and  *)
(* a signal that this one has not noticed yet goes with it.                *)
WorkerTick ==
    /\ worker.interval # 0
    /\ worker.pc = "wait"
    /\ worker' = [worker EXCEPT !.pc = "pass", !.todo = rows, !.signalled = FALSE]
    /\ UNCHANGED <<rows, stored, record, clock, api, req, faults, history>>

(* Variant: the first error ends the pass.                                 *)
WorkerCheckOrAbort(s) ==
    /\ worker.pc = "pass" /\ s \in worker.todo
    /\ worker' \in
          IF Checks(worker.key, s) = {}
          THEN {[worker EXCEPT !.todo = {}]}
          ELSE {[worker EXCEPT !.pc = "update", !.todo = @ \ {s}, !.check = check] :
                   check \in Checks(worker.key, s)}
    /\ BeginCheck(s)
    /\ UNCHANGED <<rows, stored, record, clock, api, req, faults, registered>>

(* check_server within a pass; an error is logged and the pass goes on.    *)
WorkerCheck(s) ==
    /\ worker.pc = "pass" /\ s \in worker.todo
    /\ worker' \in
          IF Checks(worker.key, s) = {}
          THEN {[worker EXCEPT !.todo = @ \ {s}]}
          ELSE {[worker EXCEPT !.pc = "update", !.todo = @ \ {s}, !.check = check] :
                   check \in Checks(worker.key, s)}
    /\ BeginCheck(s)
    /\ UNCHANGED <<rows, stored, record, clock, api, req, faults, registered>>

WorkerUpdate ==
    /\ worker.pc = "update"
    /\ \E s \in worker.check.server : UpdateCheckMetadata(s, worker.check.result)
    /\ worker' = [worker EXCEPT !.pc = "pass", !.check = NoCheck]
    /\ UNCHANGED <<rows, stored, clock, api, req, faults, history>>

WorkerEnd ==
    /\ worker.pc = "pass" /\ worker.todo = {}
    /\ worker' = [worker EXCEPT !.pc = "wait"]
    /\ UNCHANGED <<rows, stored, record, clock, api, req, faults, history>>

(* A statement of the worker fails: the list, and the pass is over; the    *)
(* read of a row; or its update.                                           *)
WorkerFault ==
    /\ faults < MaxFaults
    /\ faults' = faults + 1
    /\ \/ worker.interval # 0 /\ worker.pc = "wait"
          /\ worker' = [worker EXCEPT !.signalled = FALSE]
       \/ \E s \in worker.todo : worker.pc = "pass" /\ worker' = [worker EXCEPT !.todo = @ \ {s}]
       \/ worker.pc = "update" /\ worker' = [worker EXCEPT !.pc = "pass", !.check = NoCheck]
    /\ UNCHANGED <<rows, stored, record, clock, api, req, history>>

(* SIGINT or SIGTERM reaches the listener of a worker that waits.          *)
WorkerSignal ==
    /\ worker.pc = "wait" /\ ~worker.signalled
    /\ worker' = [worker EXCEPT !.signalled = TRUE]
    /\ UNCHANGED <<rows, stored, record, clock, api, req, faults, history>>

(* The select, or the worker without a timer, notices it and returns.      *)
WorkerNotice ==
    /\ worker.pc = "wait" /\ worker.signalled
    /\ worker' = Down
    /\ UNCHANGED <<rows, stored, record, clock, api, req, faults, history>>

(* The process dies, wherever it is.                                       *)
WorkerDie ==
    /\ worker.pc # "down"
    /\ worker' = Down
    /\ UNCHANGED <<rows, stored, record, clock, api, req, faults, history>>

Tick ==
    /\ clock < MaxTime
    /\ clock' = clock + 1
    /\ UNCHANGED <<rows, stored, record, api, req, worker, faults, history>>

Init ==
    /\ rows = {}
    /\ stored = [s \in Servers |-> NoSecrets]
    /\ record = [s \in Servers |-> Unchecked]
    /\ clock = 1
    /\ api \in [key: SecretKeys, restarts: {0}]
    /\ req = [r \in Requests |-> NoCheck]
    /\ worker = Down
    /\ faults = 0
    /\ registered = [s \in Servers |-> Unregistered]
    /\ overlapped = {}

WorkerStep == WorkerTick \/ (\E s \in Servers : WorkerCheck(s)) \/ WorkerUpdate \/ WorkerEnd

Next ==
    \/ \E s \in Servers, payload \in Payloads : CreateServer(s, payload)
    \/ \E r \in Requests :
          \/ \E s \in Servers : CheckServer(r, s)
          \/ CheckServerUpdate(r)
          \/ CheckServerFail(r)
    \/ \E key \in SecretKeys : ApiRestart(key)
    \/ \E key \in SecretKeys, interval \in Intervals : WorkerStart(key, interval)
    \/ WorkerStep \/ WorkerFault \/ WorkerSignal \/ WorkerNotice \/ WorkerDie
    \/ Tick

Spec == Init /\ [][Next]_vars

(* The runtime keeps polling the worker's loop, and its timer ticks again. *)
(* Nobody has to send requests or signals, to start a process or to wait.  *)
FairSpec == Spec /\ WF_vars(WorkerStep)

-----------------------------------------------------------------------------
(* Properties.                                                             *)

Record == [status: {"unchecked", "available", "unavailable"}, version: {"empty", "25.0.0"},
           at: 0 .. MaxTime, error: {"empty", "ssh"}]
Target == [private_key: Text, passphrase: SUBSET Text]
Cipher == [base64: Seq(Byte)]
Check == [pc: {"idle", "update"}, server: SUBSET Servers, key: Keys, target: Target,
          result: Record]

(* Every column of a server row, and every variable of the two processes,  *)
(* holds a value of its kind.                                              *)
TypeOK ==
    /\ rows \subseteq Servers
    /\ stored \in [Servers -> [private_key: Cipher, passphrase: SUBSET Cipher]]
    /\ record \in [Servers -> Record]
    /\ clock \in 1 .. MaxTime
    /\ api \in [key: Keys, restarts: 0 .. MaxRestarts]
    /\ req \in [Requests -> Check]
    /\ worker \in [pc: {"wait", "pass", "update", "down"}, key: Keys, interval: Nat,
                   signalled: BOOLEAN, todo: SUBSET rows, check: Check]
    /\ faults \in 0 .. MaxFaults
    /\ registered \in [Servers -> [key: Keys, target: Target]]
    /\ overlapped \subseteq rows

(* What a row says of a server hangs together, whoever wrote it last: a    *)
(* server counts as unchecked until a check has put its time there, an     *)
(* available one has a Docker version and no error, and an unavailable one *)
(* has an error and no version.                                            *)
RecordCoherent ==
    \A s \in Servers :
        /\ (record[s].status = "unchecked") <=> (record[s].at = 0)
        /\ (record[s].status = "available") <=> (record[s].version # "empty")
        /\ (record[s].status = "unavailable") <=> (record[s].error # "empty")

(* A check by a process that has the secret_key a server was registered    *)
(* under works with exactly the private key and passphrase of the          *)
(* registration, however long they are and whichever restarts and          *)
(* rotations of either process lie between: ssh_target undoes              *)
(* create_server.                                                          *)
SecretsRecovered ==
    \A c \in {req[r] : r \in Requests} \cup {worker.check} :
        \A s \in c.server :
            c.key = registered[s].key => c.target = registered[s].target

(* As long as no two checks of a server overlap, last_check_at never goes  *)
(* back: check_server takes the time before it probes and writes it after. *)
LastCheckMonotone ==
    [][\A s \in Servers \ overlapped : record[s].at <= record'[s].at]_vars

(* The worker stays up with its timer, s stays registered, and the worker  *)
(* has the secret_key of the registration.                                 *)
UnderWatch(s) ==
    /\ worker.pc # "down" /\ worker.interval # 0
    /\ s \in rows /\ worker.key = registered[s].key

(* If the worker is up and scheduled from some time on, every server that  *)
(* was registered under its secret_key is found available sooner or later: *)
(* neither rows of another key nor passing database errors starve them.    *)
EveryServerChecked ==
    \A s \in Servers : <>[]UnderWatch(s) => <>(record[s].status = "available")

(* The time of the last check keeps up with the clock: under such a worker *)
(* a server does not stay for good with a check from before a time that    *)
(* has come.  A check of the API that took its time early and writes late  *)
(* can put last_check_at back, over a newer result; a later pass of the    *)
(* worker makes up for it.                                                 *)
LastCheckCatchesUp ==
    \A s \in Servers, t \in 1 .. MaxTime :
        (<>[]UnderWatch(s) /\ <>(clock >= t)) => <>[](record[s].at >= t)

=============================================================================
