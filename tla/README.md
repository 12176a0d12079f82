# Wara: a TLA+ verification project

Wara is a self-hosted platform for deploying Docker services: a Rust backend
(axum handlers, services, a Postgres database behind the Toasty ORM), a worker
process that checks the Docker hosts, and a frontend. This directory models the
backend and the worker in TLA+, checks the models with TLC on small instances
and proves the properties that matter most with TLAPS.

All paths below are relative to the repository root as it appears in
`PROJECT.json` (`src/backend/src/...`); `auth.rs` alone means
`src/backend/src/services/auth.rs`.

## 1. Inventory

| Component | State it keeps | Operations that change it | Hard behaviour |
|---|---|---|---|
| Account lifecycle (`auth.rs`, `routes/admin.rs`) | `user_records`, `user_invite_records`, `workspace_user_role_records` | `bootstrap_admin`, `invite_user`, `accept_invite`, `disable_user`, `reactivate_user`, `change_user_role` | checks and updates are separate statements without a transaction; several instances boot at once; a request may die between two statements |
| Sessions (`auth.rs`, `routes/auth.rs`) | `user_refresh_token_records` | `login`, `accept_invite` (its session), `refresh_session`, `logout` | the token is checked before the transaction that rotates it; signing can fail after the commit |
| JWT keys (`auth.rs`, `main.rs`, `libs/config.rs`) | `jwt_public_key_records`, the key pair of each instance | resolving and validating the pair, `sync_active_jwt_public_key` at boot, signing | four statements per boot, no transaction; rolling restarts; a boot that dies half way; halves of the pair that come from different sources |
| Bearer credentials (`auth.rs`) | `user_api_token_records`; access JWTs are kept by their holders only | `create_api_token`, `revoke_api_token`, `authenticate_api_token`; `sign_access_token`, `authenticate_bearer` | use and revocation race; timestamps taken before they are written; JWTs that outlive the account; a lifetime that wraps |
| Workspaces and their rows (`workspaces.rs`, `app_services.rs`, `credentials.rs`, `domains.rs`, `workspace_templates.rs`) | workspaces, environments, services, credentials, variables, domains, templates | one create operation each, two bulk operations | ids of other tenants in a request; bulk operations that fail in the middle; authority that changes during a request |
| Servers and the worker (`servers.rs`, `libs/ssh.rs`, `bin/temporal_worker.rs`) | `servers` with two encrypted and four check columns; the secret key and the interval each process was started with | `create_server`, `check_server` by the API, passes of the worker, starts and stops of both | checks that finish out of order; one bad server in a pass; worker crashes; two processes with different keys; signals that arrive during a pass |
| Secret encryption (`libs/crypto.rs`) | none | none: pure functions | texts longer than the digest; a wrong key goes unnoticed |
| Deployments (`deployments.rs`, `libs/deploy_executor.rs`) | `deployments` | deploy, restart | what was run and what is recorded may differ |
| Error envelope (`errors/api.rs`, the middleware of `routes/mod.rs`) | none | none: every error response passes it | internal details on their way to a client; bodies beyond the limit |
| Docker command builders (`libs/docker.rs`) | none | none: pure functions | quoting, slashes, empty strings, names at their limit |
| Authorisation (`auth.rs`) | none | guards of the handlers | stale authority |
| The other settings, database connection, routing and OpenAPI, telemetry, frontend, CLI, MCP, scripts | none or static | none | see section 8 |

Interactions. Every handler works on the shared database through `AuthService`
and the other services; no state is shared in memory. Sessions, API tokens and
tenancy depend on the account lifecycle through `user_records.status`, the role
and the workspace role; their modules contain those changes as actions of the
environment (`Disable`, `Reactivate`, `Join`, `Administer`). Signing a session
depends on the active row of the key table; a failure to sign appears in
`Sessions` as `Fail`. The worker and the API share the `servers` table and, if
the operator sees to it, the secret key.
Deployments read a service row and call an executor, which in this version only
previews; an injected executor is external and modelled by its interface.

What makes a component correct, in one sentence each:

* accounts: there is always an active super admin, an account cannot be active
  without a password, an invite works once and is never lost, an account that
  was disabled stays so until it is reactivated, and accounts are created whole;
* sessions: a login has one usable refresh token at a time, exchanging it spends
  it, logging out ends the session;
* keys: tokens verify, go on verifying after rotations, and an instance that
  serves has a key to sign with;
* bearer credentials: revocation is final, disabled users are not admitted by
  either credential, and a JWT not after its lifetime;
* tenancy: rows of a workspace refer only to that workspace, users write only
  where they belong, multi-row operations are whole;
* servers: the check columns agree with each other, every server the worker can
  decrypt is checked, again and again, and a key that was stored comes back
  unchanged;
* deployments: the shell reads the commands as meant, the paths lead where root,
  name and context say, records tell what happened;
* errors: the client learns nothing of an internal cause, and the code of an
  answer fits its status.

## 2. Modules

| Module | Models | State and actions |
|---|---|---|
| `Accounts` | account lifecycle | the three tables as functions over users; `req` holds the requests in flight, each with a program counter and the values it has read. One action per database statement (`DisableRead`, `DisableCount`, `DisableUpdate`, ...); the invitation's transaction is one action (`InviteCommit`); `Fail` ends a request between any two statements. History: `contended` holds the accounts of which two requests were in flight at once, `crowded` says that two requests of the admin routes were |
| `AccountContract` | what the lifecycle promises | the same operations, each indivisible; its variables are the status of the accounts, the set of super admins and the set of those who have a password. `Accounts` implements it when requests are served one at a time: `ContractSpec`, through `INSTANCE AccountContract WITH status <- status, admins <- SuperAdmins, enrolled <- Enrolled`; invites, roles in workspaces and everything a request has read are hidden |
| `Sessions` | refresh-token sessions | the token table as sets and functions over token ids; `origin` and `parent` record which login and which exchange a token stems from, `contended` the sessions of which two requests were in flight at once |
| `JwtKeys` | signing keys | the key table as a sequence in the order of `created_at`; every instance has a program counter through its boot, the private and the public key that environment, file and default gave it, and the row it chose; `tokens` holds every token ever signed |
| `ApiTokens` | personal API tokens and access JWTs | the columns of the table as functions; `jwts` holds every access JWT ever signed, which may be presented again at any time; a bounded clock, lifetimes and `Wrap` in place of 2^64; `raced` records the tokens of which a revocation overlapped another request |
| `Tenancy` | workspaces and their rows | one variable per table; a request is routed (extractor and access check), checked (lookups) and inserted |
| `Secrets` | `libs/crypto.rs` | bytes as sets of bits, XOR as symmetric difference, a digest of any length; `DecryptSecret` yields a set, empty when the bytes are no text |
| `Settings` | `setting` and `u64_setting` of `libs/config.rs` | which of environment, file and default decides |
| `ServerChecks` | servers, API checks, worker | extends `Secrets` and `Settings`. `stored` holds the encrypted columns, `record` the four check columns; `api` and `worker` the key each process was started with; `worker` also its phase, the snapshot it works off, the check in progress and whether the listener of its `select!` holds a signal; the probe of `libs/ssh.rs` as operators |
| `DockerCommands` | `libs/docker.rs` | quoting, joining, validation and the command builders as operators over sequences of characters, with one reference reader for shell lines and paths; `Locate` follows the components of a path, `.` and `..` included, to the place it leads to from the root of the file system or from the working directory (symbolic links are left out) |
| `ErrorEnvelope` | `errors/api.rs` | the variants of `ApiError`, their responses, `from_status` and the middleware as operators |
| `Deployments` | deployments | composes `DockerCommands`, `ErrorEnvelope` and `Settings`: a request is refused or turned away, or plans its commands, runs them, stores a record with its transcript, and answers through the middleware |
| `AccountsProofs`, `JwtKeysProofs`, `SessionsProofs`, `ServerChecksProofs`, `TenancyProofs`, `ApiTokensProofs`, `DeploymentsProofs`, `DockerCommandsProofs` | | theorems and proofs |
| `MC...` | | symmetry sets and constants for TLC |

Conventions. Definitions keep the names of the source in TLA+ spelling.
Operators marked "Variant" are plausible mistakes next to the definition they
vary; no specification uses them, they serve to see that the properties notice.
Rows are identified by model values, a token or a hash by the id of its row (the
stored hash is unique), passwords and payloads by model values. The database
executes single statements atomically and transactions as a whole; everything
else interleaves. Unique indexes are guards of the insert that would fail.

Abstractions worth knowing:

* presenting a JWT is presenting the row its `jti` or `kid` names; RSA is
  modelled by who signed a token;
* SHA-256 is any function from keys to digests that are not empty; base64 wraps
  the encrypted bytes, so that a ciphertext is never taken for a text; of UTF-8
  the model keeps that some bytes occur in no text;
* a text of an error is a sequence of which the length and what it quotes count;
  an internal cause is the symbol "secret";
* time is a bounded clock where timestamps are compared (`ApiTokens`,
  `ServerChecks`), and an expiry event elsewhere;
* the lookups of one create request in `Tenancy` are one step, because nothing
  in those tables is deleted or moved: a lookup that succeeded stays true;
* `Tenancy` takes the outcome of the account operations (active or not, super
  admin or not) in one action, `Administer`; `Accounts` has their statements.

## 3. Runs

`tlc -config X.cfg M` in this directory, with two workers; the longest takes
about two minutes.

| Run | Question | Bounds |
|---|---|---|
| `accounts_concurrent` | Do password, invite and creation invariants survive every interleaving and every crash? Which overlap does it take to lose the last super admin, redeem an invite twice or revive a disabled account? | 2 users, 2 workspaces of which one exists, 3 requests in flight |
| `accounts_serial` | With one request at a time, crashes included: do the handlers implement `AccountContract`? | 3 users, 1 request |
| `accounts_last_admin_race` (violation) | Can the last super admin be removed? Two requests that disable or demote each other's admins both count two. | 3 users, 2 requests |
| `accounts_stranded_invitee` (violation) | Can an invitee who was disabled do what the error message asks for? No: acceptance refuses disabled accounts. | 3 users, 1 request |
| `jwt_restart` | Rotation by restart: do all tokens verify and go on verifying, does a half-rotated pair stay out of use, is signing restored after a boot, does a lone instance have exactly one active key? | 2 instances, 2 keys |
| `jwt_rolling` (violation) | Does a rolling rotation keep tokens valid? An instance with the old private key signs under the new row's `kid`. | 2 instances, 2 keys |
| `sessions` | Is an exchanged token revoked in every interleaving; does a session whose own requests do not overlap have one usable token, and none after logout? | 3 tokens, 3 requests |
| `sessions_refresh_race` (violation) | Does refreshing always leave one usable token? Two refreshes with one token each get a successor. | 3 tokens, 2 requests |
| `api_tokens` | Is revocation final, are disabled users refused whichever credential they hold, are expired JWTs refused, are the recorded times consistent? | 2 users, 1 token, 2 JWTs, 3 requests, clock to 3, leeway 1, lifetimes 0 and 7 with arithmetic modulo 8 |
| `tenancy` | Are rows closed under their workspace, multi-row operations whole, writers admitted? | 2 users, 2 workspaces, 2 environments, 1 service, 1 request, bulk requests of 2 names, 1 stored batch of variables |
| `servers` | Are check columns coherent and their times in order; do stored keys come back; is every server checked although others cannot be decrypted and the worker fails and restarts; do later passes make up for a result that came late? | 2 servers, 1 API check and the worker, 2 secret keys with digests of 2 bytes, texts of 1 to 3 bytes, clock to 2, 1 restart of the API, 1 database error; the worker starts and dies any number of times |
| `deployments` | Are the commands and paths right for all small inputs, the records honest, and are failures answered without their cause? | names to length 3 over a small alphabet with a limit of 2, images to length 5 with a limit of 3, error bodies to length 6 with a limit of 5, roots to length 3 and contexts with slashes, dots, quotes and blanks, 1 request |

Why the bounds are enough to be of interest. The races of this code are between
a check and a later update, so two requests show each of them; three let a third
one disturb both. Two users besides the bootstrap admin let admins act on each
other; two keys and two instances let rotations cross; three tokens give a
session and two successors. In `tenancy` the second workspace is the foreign
tenant, and one environment each is the smallest world in which a foreign
reference exists; a second request in flight could only add rows, and no lookup
is invalidated by added rows, which `TenancyProofs` proves (`Grow`). In `servers` two servers are one the worker can
decrypt and one it cannot, the API check and the worker are two checks that
overlap, one key of the payloads is longer than the digest, and the other key
turns one payload into another text and fails on the next. In `api_tokens` the
lifetime 7 makes `exp` wrap at every clock value but 0, the lifetime 0 lets
tokens expire within the clock. Names, images and error bodies in `deployments`
reach beyond the limits the model sets for them, as real ones may reach beyond
63 and 255 characters and 64 KiB; a request leaves nothing a later one reads, so
one shows what any of them does.

`CHECK_DEADLOCK FALSE` stands where the ids of a finite instance run out or the
bounds stop the system; the real system has no such limit.

Fairness is assumed in two modules only. `JwtKeys!FairSpec`: weak fairness of
`Boot(i)`, since the async runtime keeps polling a boot that has begun and the
database answers or fails (a failed boot is `Stop`). `ServerChecks!FairSpec`:
weak fairness of the worker's own steps, since its loop is polled and its timer
ticks again; the number of database errors is bounded, and the property asks
only for worlds in which the worker is up from some time on. Nothing makes an
operator, an administrator or a client act, the clock advance, or a worker notice
a signal: a check of the API may take its time early and write as late as it
likes, which is what `LastCheckCatchesUp` is about.

## 4. Where the code and its documentation disagree

Each of these has a run of its own and an entry under `findings`:

1. *Last super admin.* `disable_user` and `change_user_role` count and update in
   separate statements; two requests can remove the last active super admin.
2. *Stranded invitee.* `reactivate_user` sends disabled invitees to acceptance,
   which refuses them.
3. *Rolling key rotation.* `sign_access_token` combines the instance's private
   key with the `kid` of the table's active row.
4. *Refresh race.* `refresh_session` checks the token outside the transaction
   that revokes it.

The same models show further consequences of the same shapes, to be seen by
checking the named definition with two requests or instances instead of one:

* `RedeemedOnce` and `DisabledUntilReactivated` of `Accounts` fail with two
  requests: two acceptances of one invite both set the password, and an
  acceptance that was checked before the account was disabled activates it; the
  forms that end in `Alone` say that nothing less than such an overlap does it;
* `SigningAvailable` and `OneActiveKey` of `JwtKeys` fail with two instances:
  while one boots no row is active, and two boots leave two active rows;
* a refresh that has checked its token before a logout continues the session
  (the restriction to sessions that are not contended in `LogoutEndsSession` is
  needed);
* two revocations of one API token overwrite each other's time, and a use may be
  recorded after the revocation it overlapped (`raced` in `ApiTokens`);
* two checks of one server may leave the older result (`overlapped` in
  `ServerChecks`), until the worker's next pass (`LastCheckCatchesUp`).

Observed, without a statement in the repository to hold it against: the SSH
probe does not connect and always reports Docker 25.0.0; the path settings are not
validated: a build context with more `..` than names before them leaves the
directory of its service (`PathsUnderRoot` says where it leads and asks it to stay
only if it does not climb), and an empty root puts the services directly below
`/`; a deployment that ran is not recorded if the insert fails or the instance
dies; the worker loses a shutdown signal that arrives during a pass or just before
a tick, and `docker-compose.yml` does not
give it the secret key of the API: a row of another key is skipped with a warning
in every pass or, where the wrong key happens to give a text, checked with that;
a refusal that quotes a very long image is answered with status 500; a service without an image is
deployed as `missing-image`; restarting a compose service names a container that
its deployment does not create; the service and the environment of a variable
are each checked against the workspace and not against each other; services of
the same name in two workspaces have the same container and directory; a refresh
token row remains when signing fails after it was stored.

## 5. Proofs

`tlapm M.tla` checks a module. The theorems hold for every value of the
constants under the named assumptions of the modules (`AccountsAssumption`-like
`ASSUME`s: sets of users are not empty, null values are not ids, a bulk request
may hold at least one name), which TLC evaluates in the runs. Every invariant the
runs check is a theorem.

`AccountsProofs`
: `TypeCorrect`, `PasswordSafe`, `InviteSafe`, `InviteAtomic` for any number of
  requests. `ActiveHasPassword` is not inductive: it needs what a request that is
  about to write has read, so the invariant adds, for every program counter,
  what is known of the row the request is about to update (an acceptance that
  reached its update holds a password, a reactivation has seen one, passwords are
  never removed, an open invite belongs to an account that was created whole).
  `InviteOneTimeAlone` and `DisabledStaysAlone`, also for any number of requests,
  rest on `AloneInv`: two requests are about one account only if it is contended,
  so the status an acceptance has checked is still there when it writes, and an
  account that was never active has redeemed nothing. `AdminSafeAlone` rests on
  `AdminInv`: of the requests of the admin routes one is in flight unless
  `crowded`, and what it has established (there is another active super admin, or
  the account it is about to change is none) survives the sign-ups, acceptances
  and failures of the others (`Ruling`).
  With `OneAtATime` (any two request slots are the same) follow `AdminSafe`,
  `InviteOneTime`, `DisabledStays` (no account is ever contended) and
  `Refinement`: a further invariant says that what the one
  request has read is still what the tables hold, so each writing statement
  maps to the operation of `AccountContract` and every other to a stutter.

`JwtKeysProofs`
: `TypeCorrect`; `RotationKeepsTokens` (`OldTokensStillVerify`), because no
  statement changes the key of a row or removes one, for which the boot's choice
  must still match when it writes (`TargetMatches`); `FirstSource`
  (`HighestSourceDecides`), because halves that do not belong together stop the
  boot (`Paired`); `RestartRotation` (`TokensVerify` without rolling), because instances
  that are up share one pair, its halves match and rows that become active after
  a deactivation carry it (`OneConfig`, `Paired`,
  `ActiveIsOwn`); `LoneInstance` (`LoneInstanceSigns`), because no row is active
  between the two writes of a boot that runs alone (`LoneInv`).

`SessionsProofs`
: `TypeCorrect` and `RotationRevokes` (`ExchangedIsRevoked`) for any number of
  requests, from the fact that a request that works on a token works on a row
  that exists (`Holds`). `SessionUnique` (`OneLiveTokenAlone`) and `LogoutFinal`
  (`LogoutEndsSession`) for every session whose own requests do not overlap,
  however the others interleave. Their invariant adds that two requests spend
  tokens of one session only if it is contended (`Exclusive`), that the token a
  request has found usable is still unrevoked or the session contended
  (`Unspent`), and that a session is named by a token that exists (`Rooted`),
  without which a new login could join an old session.

`ServerChecksProofs`
: `RoundTrip`: decryption undoes encryption for every key, digest and text,
  because XOR with the same byte twice is the identity and both directions use
  the same position of the digest, however long the text is. From it, for any
  servers, payloads and keys, `TypeCorrect`, `Coherent` (`RecordCoherent`),
  `Recovered` (`SecretsRecovered`) and `TimesRise` (`LastCheckMonotone`). The
  invariant `CheckInv` says that a row holds what its registration gives under
  its key (`RowOk`), that a check about to write has a coherent result, the
  registered secrets if its key is the row's, and a time no earlier than the
  row's (`CheckOk`), and that a server that was never under two checks at once
  is under at most one (`Apart`), without which the times could cross.

`TenancyProofs`
: `TypeCorrect`, `TenantsClosed` (`TenantClosed`), `OnlyAdmitted`
  (`OnlyAdmittedWrite`), `WorkspacesComplete` (`WorkspaceComplete`) and
  `BatchesWhole` (`BatchWhole`), for any number of requests. An insert relies on
  checks made some steps earlier, while other requests insert and an account may
  lose its rights, so `TenantClosed` alone is not inductive. `TenancyInv` adds
  for each request in flight what its checks have established (`Entitled`): the
  user belongs to the workspace or has been a super admin, the workspace of a
  domain is the one of its service, and what the row is about to refer to is
  valid. That this survives the steps of the others is one fact, proved for
  every action: rows are only added, never changed or removed (`Grow`).

`ApiTokensProofs`
: `TypeCorrect`, `DisabledRefused` (`DisabledNotAdmitted`), `ExpiredRefused`
  (`ExpiredNotAdmitted`) and `RevocationFinal` (`RevokedForGood`) from `AuthInv`:
  a request marked as barred belongs to a user who is inactive now, one past the
  status check is not barred, a request never carries a JWT that was too old
  when it was verified, and no timestamp is ahead of the clock. For the lifetime of a JWT the
  lemma `WrapsDown` says that a sum taken modulo any width is at most the sum,
  so an overflow of the expiry can only shorten it. `FirstRevocationKept`
  (`RevocationKept`) and `UsesBeforeRevocation` (`UsedBeforeRevoked`) rest on
  `OrderInv`: of a token that is not `raced`, a request about to revoke it is the
  only one that works on it, a request about to record a use still finds it
  unrevoked, and the last use is no later than the revocation. The lemma
  `HandleStep` sums up the handlers in the five ways they touch the table
  (`Moves`).

`DeploymentsProofs`
: `InternalsHidden` (`InternalHidden`) and `StatusesAgree`
  (`StatusAndCodeAgree`), for every service row, every limit of the middleware
  and every text. The invariant `Proper` relates the handler's response to the
  client's. `DeploymentsAssumption` says where the text of an internal failure,
  the symbol "secret", can come from: not from a row, and not from the errors
  axum raises itself with a status that blames the client (400, 404, 405, 413,
  415, 422), which quote the request; with status 500 axum may say anything. It
  also says that rows and path settings are texts over one set of symbols, of
  which nothing else is assumed: quotes, backslashes, blanks and operators may be
  among them.
  `CommandsAlwaysReadBack` (`CommandsReadBack`), `PathsAlwaysUnderRoot`
  (`PathsUnderRoot`, by `PathPlaces`) and `StatusesHonest` (`StatusHonest`), for all those rows and
  settings and any number of requests. They follow from one inductive invariant,
  `Planning`: the commands at hand consist of complete tokens, the service that is
  being deployed has passed `validate_service_name`, the result that is about to be
  recorded is `Faithful` to the commands at hand (an outcome for each command
  that ran, in order; success only if all ran and exited with 0; a failure last),
  and the records stored so far are honest. `StatusHonest` alone would not do: the
  record is written from a result that an earlier step produced. That `to_output`
  keeps the commands and the exit codes in their order, for transcripts of every
  length, is `TranscriptLines`.

`DockerCommandsProofs`
: `ServiceDirectory`, `DirectoriesApart` and `ContextBelow`: the shape of the
  paths that `service_dir` and `path_join` build, for roots, names and contexts
  of every length. What trimming slashes does is stated without induction: the
  prefix or suffix that is kept is the least or the greatest with its property,
  and every set of naturals that is not empty has a least element (`WFMin`).
  These are about the text of the paths, and so is `PathComponents`: the components
  are those of the root, the name, and those of the context. `PathPlaces` is about
  where they lead once the dots are resolved: a valid name is neither `.` nor `..`
  and goes down one level, a path stays absolute or relative when it is extended,
  and a way that does not climb above its start leads below wherever it is taken
  from (`WalkBelow`: the level above the start that a walk has reached never
  decreases, so one that ends at level 0 was never above it). `RenderReadsBack`: a
  shell reads a rendered command as the words it was built of, whatever its quoted
  arguments hold. The last three need induction over texts. The library's induction theorems take the
  property as an operator, which the provers cannot instantiate; `SeqInduct` takes
  it as the set of the sequences that have it, and rests on `WFMin`. A fold or a
  flattening is first shown to have a trace (`ReadTrace`, `WalkTrace`, `FlattenTrace`), which
  yields what one more symbol does to it. The argument then goes from one symbol
  (`QuoteRead`: a quoted value is read back as it is) to one token (`TokenRead`)
  to a command (`CommandRead`); `ReadFramed` lets each part be read on its own,
  because the words finished before make no difference. One reader serves shell
  lines and paths, so that these lemmas serve both.

## 6. Only model-checked

Liveness (`SigningRestored`, `EveryServerChecked`, `LastCheckCatchesUp`) is out of the
prover's reach. The refinement of `AccountContract` is proved for one request at a
time, as it is checked; with more it does not hold (section 4). That an expected
violation occurs is shown by its counterexample.

## 7. Plan

Modules in order of importance, each with its composition:

1. `Accounts`, with `AccountContract` as its abstract specification: done.
2. `JwtKeys` and `Sessions`, the other shared tables of `auth.rs`: done.
3. `Tenancy`, `ApiTokens`, `ServerChecks`: done.
4. `DockerCommands` and `Deployments`, which composes the builders: done.
5. `AccountContract` with a refinement mapping and the `Alone` properties of
   `Accounts`; access JWTs in `ApiTokens`; `Secrets` and `Settings` under
   `ServerChecks`, with restarts of both processes and signals; `ErrorEnvelope`
   under `Deployments`: done.
6. Proofs of every invariant of `Tenancy`, `ApiTokens` and `Deployments`, with the
   quoting and the paths of `DockerCommands`: done.
7. Possible extensions: the removal of old key rows by an operator after a
   rotation; the redaction of SSH errors once the probe connects.

## 8. Not modelled

| Part | Why |
|---|---|
| the settings of `libs/config.rs` other than the key pair, the secret key, the check interval, the paths and the access-token lifetime | they name ports, addresses, levels and flags of other programs; parsing of files and PEM keys is I/O |
| `redact_error` and `fingerprint_public_key` of `libs/ssh.rs` | text processing; the probe of this version cannot fail, so the redaction is never reached |
| `redact_secrets` of `libs/deploy_executor.rs` | called with an empty list, where it is the identity |
| the connection pool | how many connections it has and when it waits is decided in the ORM library |
| `libs/db.rs`, migrations | connection setup and generated data; tables and unique indexes appear where they are used |
| `routes/mod.rs`, `state.rs`, `openapi.rs` | static registration; the middleware and the fallback of the API routes are in `Deployments` |
| telemetry, metrics, middleware | logging and empty scaffolds |
| read-only handlers (lists, `/auth/me`, JWKS, previews) | they change nothing |
| frontend, CLI, MCP server, scripts, CI | display code, empty programs, shell around openssl and docker |
