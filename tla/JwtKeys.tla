------------------------------ MODULE JwtKeys ------------------------------
(***************************************************************************)
(* The JWT signing keys of Wara (AuthService in                            *)
(* backend/src/services/auth.rs): every backend instance is configured     *)
(* with one RSA key pair, publishes its public half in the shared table    *)
(* jwt_public_key_records when it boots (sync_active_jwt_public_key), and  *)
(* signs tokens with its own private key under the kid of the table's      *)
(* active row.  A token is verified with the row its kid names.            *)
(* The two halves of the pair are separate settings (libs/config.rs), each *)
(* taken from the environment, the config file or the built-in default.    *)
(*                                                                         *)
(* A boot executes four statements outside a transaction; the boots of     *)
(* several instances interleave with each other and with the signing of    *)
(* instances that already serve.                                           *)
(***************************************************************************)
EXTENDS Naturals, Sequences

CONSTANTS
    Instances,   \* backend processes that share the database
    Keys,        \* RSA key pairs an operator may configure
    DefaultKey,  \* the development pair built into the binary
    Unset, Blank, Malformed,  \* values of a setting that are no key
    Rolling      \* may instances with different keys run at the same time?

ASSUME JwtKeysAssumption ==
    /\ Rolling \in BOOLEAN
    /\ DefaultKey \in Keys
    /\ {Unset, Blank, Malformed} \cap Keys = {}

VARIABLES
    rows,     \* jwt_public_key_records in the order of created_at
    pc,       \* where each instance is in its life
    config,   \* the private and the public key an instance was started with
    target,   \* active_key_id, as the row's position; 0: a fresh UUID
    tokens    \* every token ever signed: the kid of its header, its signer

vars == <<rows, pc, config, target, tokens>>

Rows == 1 .. Len(rows)
ActiveRows == {n \in Rows : rows[n].active}

(* RSA verification: the key of the row that kid names made the signature. *)
Verifies(t) == t.kid \in Rows /\ rows[t.kid].key = t.key

Phases == {"down", "read", "deactivate", "lookup", "update", "create", "serving"}

-----------------------------------------------------------------------------
(* Where the pair comes from.  A half is a setting of its own: unset, only *)
(* white space, a PEM that does not parse, or one half of a pair.          *)

Halves == Keys \cup {Unset, Blank, Malformed}
Settings == [private: Halves, public: Halves]
NoKeys == [private |-> Unset, public |-> Unset]

Given(value) == value \notin {Unset, Blank}

NonEmptySetting(env, file, default) ==
    IF Given(env) THEN env ELSE IF Given(file) THEN file ELSE default

FromSources(env, file) ==
    [half \in {"private", "public"} |-> NonEmptySetting(env[half], file[half], DefaultKey)]

(* from_env turns a config file that is missing, cannot be read or does    *)
(* not parse into an empty one.                                            *)
LoadDefault(file) == {file, NoKeys}

(* Variant: the halves parse; that they belong together is not probed.     *)
ParsedPair(pair) == pair.private \in Keys /\ pair.public \in Keys

(* Both halves parse, and the public one verifies a probe token that the   *)
(* private one signed.  Otherwise the boot ends before the database.       *)
ValidPair(pair) ==
    /\ pair.private \in Keys
    /\ pair.public \in Keys
    /\ pair.public = pair.private

Bootable ==
    {pair \in {FromSources(env, file) :
                  env \in Settings, file \in UNION {LoadDefault(f) : f \in Settings}} :
        ValidPair(pair)}

(* Instance i boots with a pair its sources yield.  Without rolling, the   *)
(* operator stops the instances of another pair first.                     *)
Start(i, pair) ==
    /\ pc[i] = "down"
    /\ Rolling \/ \A j \in Instances : pc[j] # "down" => config[j] = pair
    /\ config' = [config EXCEPT ![i] = pair]
    /\ pc' = [pc EXCEPT ![i] = "read"]
    /\ UNCHANGED <<rows, target, tokens>>

(* Variant: the row is chosen by its flag instead of its key.              *)
MatchingActive(i) == ActiveRows

(* The rows that carry the modulus and exponent of the public key.         *)
Matching(i) == {n \in Rows : rows[n].key = config[i].public}

ReadKeys(i) ==
    /\ pc[i] = "read"
    /\ \/ \E n \in Matching(i) : target' = [target EXCEPT ![i] = n]
       \/ Matching(i) = {} /\ target' = [target EXCEPT ![i] = 0]
    /\ pc' = [pc EXCEPT ![i] = "deactivate"]
    /\ UNCHANGED <<rows, config, tokens>>

(* Variant: the rows that were active stay active.                         *)
DeactivateNone(i) ==
    /\ pc[i] = "deactivate"
    /\ pc' = [pc EXCEPT ![i] = "lookup"]
    /\ UNCHANGED <<rows, config, target, tokens>>

Deactivate(i) ==
    /\ pc[i] = "deactivate"
    /\ rows' = [n \in Rows |-> [rows[n] EXCEPT !.active = FALSE]]
    /\ pc' = [pc EXCEPT ![i] = "lookup"]
    /\ UNCHANGED <<config, target, tokens>>

Lookup(i) ==
    /\ pc[i] = "lookup"
    /\ pc' = [pc EXCEPT ![i] = IF target[i] \in Rows THEN "update" ELSE "create"]
    /\ UNCHANGED <<rows, config, target, tokens>>

(* Variant: the instance serves although its row was not marked active.    *)
UpdateNone(i) ==
    /\ pc[i] = "update"
    /\ pc' = [pc EXCEPT ![i] = "serving"]
    /\ UNCHANGED <<rows, config, target, tokens>>

(* Variant: update_key.set names the column next to is_active.             *)
UpdateColumn(i) ==
    /\ pc[i] = "update"
    /\ rows' = [rows EXCEPT ![target[i]].key = TRUE]
    /\ pc' = [pc EXCEPT ![i] = "serving"]
    /\ UNCHANGED <<config, target, tokens>>

Update(i) ==
    /\ pc[i] = "update"
    /\ rows' = [rows EXCEPT ![target[i]] = [key |-> config[i].public, active |-> TRUE]]
    /\ pc' = [pc EXCEPT ![i] = "serving"]
    /\ UNCHANGED <<config, target, tokens>>

Create(i) ==
    /\ pc[i] = "create"
    /\ rows' = Append(rows, [key |-> config[i].public, active |-> TRUE])
    /\ pc' = [pc EXCEPT ![i] = "serving"]
    /\ UNCHANGED <<config, target, tokens>>

(* The process stops, or its boot fails with a database error.             *)
Stop(i) ==
    /\ pc[i] # "down"
    /\ pc' = [pc EXCEPT ![i] = "down"]
    /\ UNCHANGED <<rows, config, target, tokens>>

(* active_jwt_public_key_record: the active row with the latest created_at.*)
SigningRow(n) == n \in ActiveRows /\ \A m \in ActiveRows : m <= n

(* sign_access_token and sign_refresh_token; without an active row both    *)
(* fail with "active JWT public key is missing".                           *)
Sign(i) ==
    /\ pc[i] = "serving"
    /\ \E n \in Rows :
          SigningRow(n) /\ tokens' = tokens \cup {[kid |-> n, key |-> config[i].private]}
    /\ UNCHANGED <<rows, pc, config, target>>

Init ==
    /\ rows = <<>>
    /\ pc = [i \in Instances |-> "down"]
    /\ config = [i \in Instances |-> FromSources(NoKeys, NoKeys)]
    /\ target = [i \in Instances |-> 0]
    /\ tokens = {}

Boot(i) == ReadKeys(i) \/ Deactivate(i) \/ Lookup(i) \/ Update(i) \/ Create(i)

Next ==
    \E i \in Instances :
        \/ \E pair \in Bootable : Start(i, pair)
        \/ Boot(i)
        \/ Stop(i)
        \/ Sign(i)

Spec == Init /\ [][Next]_vars

(* The runtime keeps polling a boot that has begun: it ends, unless the    *)
(* process dies.  Nothing makes an operator start an instance or a client  *)
(* ask for a token.                                                        *)
FairSpec == Spec /\ \A i \in Instances : WF_vars(Boot(i))

-----------------------------------------------------------------------------
(* Properties.                                                             *)

Row == [key: Keys, active: BOOLEAN]
Token == [kid: Nat, key: Keys]

(* Rows, tokens and instances are what the code makes them; a kid is the   *)
(* id of a row (JwtPublicKeyRecord).                                       *)
TypeOK ==
    /\ rows \in Seq(Row)
    /\ pc \in [Instances -> Phases]
    /\ config \in [Instances -> [private: Keys, public: Keys]]
    /\ target \in [Instances -> Nat]
    /\ tokens \subseteq Token

(* Every token that any instance has signed verifies on every instance:    *)
(* the kid in its header names the key that signed it, although signing    *)
(* takes the kid from the table and the private key from the instance.     *)
TokensVerify == \A t \in tokens : Verifies(t)

(* Rotation leaves old tokens valid: whatever boots do to the table, a     *)
(* token that verified keeps verifying (the key of a row never changes).   *)
OldTokensStillVerify ==
    [][\A t \in tokens : Verifies(t) => Verifies(t)']_vars

(* An instance that serves can sign: some row is active.                   *)
SigningAvailable == \A i \in Instances : pc[i] = "serving" => ActiveRows # {}

(* The table names one signing key: boots mark the older rows inactive.    *)
OneActiveKey == \A m, n \in ActiveRows : m = n

OneInstanceUp == \A i, j \in Instances : pc[i] # "down" /\ pc[j] # "down" => i = j

(* As long as no two instances are up at the same time, whatever keys they *)
(* are started with and wherever a boot is cut off, the one that serves    *)
(* can sign and the table names one signing key.                           *)
LoneInstanceSigns == []OneInstanceUp => [](SigningAvailable /\ OneActiveKey)

(* The keys that a source names, and those of the first source to name any. *)
Named(source) == {v \in {source.private, source.public} : Given(v)}
FirstNamed(env, file) ==
    IF Named(env) # {} THEN Named(env)
    ELSE IF Named(file) # {} THEN Named(file) ELSE {DefaultKey}

(* The pairs whose private key may be older than what the first source says. *)
StalePairs ==
    {FromSources(s[1], s[2]) :
        s \in {t \in Settings \X Settings :
                 FromSources(t[1], t[2]).private \notin FirstNamed(t[1], t[2])}}

(* A rotation that reaches only one half of the pair never leaves an       *)
(* instance signing with an older key: whatever contents of environment    *)
(* and file gave an instance its pair, it signs with a key named by the    *)
(* first source that names any, although each half is looked up alone.     *)
HighestSourceDecides ==
    \A i \in Instances : pc[i] # "down" => config[i] \notin StalePairs

(* A boot that has taken the active key away brings one back, unless its   *)
(* process dies first.                                                     *)
SigningRestored ==
    \A i \in Instances :
        pc[i] \in {"lookup", "update", "create"} ~> ActiveRows # {} \/ pc[i] = "down"

=============================================================================
