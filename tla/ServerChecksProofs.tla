------------------------- MODULE ServerChecksProofs -------------------------
(***************************************************************************)
(* Proofs about ServerChecks, for every set of servers, requests, keys and *)
(* payloads, every digest and every set of text bytes.                     *)
(***************************************************************************)
EXTENDS ServerChecks, TLAPS

-----------------------------------------------------------------------------
(* Secrets.                                                                *)

LEMMA Remainder ==
    ASSUME NEW m \in Nat, NEW n \in Nat \ {0}
    PROVE  m % n \in 0 .. n - 1
OBVIOUS

(* The position in the digest is one of the digest.                        *)
LEMMA PadByte ==
    ASSUME NEW key \in Keys, NEW i \in Nat \ {0}
    PROVE  Digest[key][((i - 1) % Len(Digest[key])) + 1] \in Byte
<1>1. Digest[key] \in Seq(Byte) /\ Digest[key] # <<>>
    BY SecretsAssumption
<1>2. PICK n \in Nat \ {0} : n = Len(Digest[key])
    BY <1>1
<1>3. PICK m \in Nat : m = i - 1
    OBVIOUS
<1>4. m % n \in 0 .. n - 1
    BY Remainder
<1>5. (m % n) + 1 \in 1 .. n
    BY <1>4
<1> QED
    BY <1>1, <1>2, <1>3, <1>5

(* Masking keeps the length and yields bytes.                              *)
LEMMA MaskedType ==
    ASSUME NEW key \in Keys, NEW bytes \in Seq(Byte)
    PROVE  Masked(key, bytes) \in Seq(Byte)
<1>1. ASSUME NEW i \in DOMAIN bytes
      PROVE  Xor(bytes[i], Digest[key][((i - 1) % Len(Digest[key])) + 1]) \in Byte
    BY <1>1, PadByte DEF Xor, Byte
<1> QED
    BY <1>1 DEF Masked

(* Masking twice with one key gives the bytes back.                        *)
LEMMA MaskedTwice ==
    ASSUME NEW key \in Keys, NEW bytes \in Seq(Byte)
    PROVE  Masked(key, Masked(key, bytes)) = bytes
<1> DEFINE pad(i) == Digest[key][((i - 1) % Len(Digest[key])) + 1]
<1>1. \A i \in DOMAIN bytes : Xor(Xor(bytes[i], pad(i)), pad(i)) = bytes[i]
    BY DEF Xor
<1>2. DOMAIN Masked(key, bytes) = DOMAIN bytes
    BY DEF Masked
<1>3. Masked(key, Masked(key, bytes))
        = [i \in DOMAIN bytes |-> Xor(Xor(bytes[i], pad(i)), pad(i))]
    BY <1>2 DEF Masked
<1>4. bytes = [i \in DOMAIN bytes |-> bytes[i]]
    OBVIOUS
<1> HIDE DEF pad
<1> QED
    BY <1>1, <1>3, <1>4

(* A text that was encrypted decrypts under the same master key, and to    *)
(* itself: decrypt_secret undoes encrypt_secret.                           *)
THEOREM RoundTrip ==
    ASSUME NEW key \in Keys, NEW text \in Text
    PROVE  DecryptSecret(key, EncryptSecret(key, text)) = {text}
<1>1. text \in Seq(Byte)
    BY SecretsAssumption DEF Text
<1>2. Masked(key, Masked(key, text)) = text
    BY <1>1, MaskedTwice
<1> QED
    BY <1>2 DEF DecryptSecret, EncryptSecret

LEMMA EncryptType ==
    ASSUME NEW key \in Keys, NEW text \in Text
    PROVE  EncryptSecret(key, text) \in Cipher
BY MaskedType, SecretsAssumption DEF EncryptSecret, Cipher, Text

LEMMA DecryptType ==
    ASSUME NEW key, NEW cipher
    PROVE  DecryptSecret(key, cipher) \subseteq Text
BY DEF DecryptSecret

-----------------------------------------------------------------------------
(* The probe and the settings.                                             *)

LEMMA ProbeResult == Probe = [status |-> "available", version |-> "25.0.0", error |-> "empty"]
<1> DEFINE output == MockControlledOutput(ServerCheckCommands)
<1>0. /\ DOMAIN ServerCheckCommands = {1, 2}
      /\ ServerCheckCommands[1] = "printf" /\ ServerCheckCommands[2] = "docker version"
    BY DEF ServerCheckCommands
<1>1. DOMAIN output = {1, 2} /\ output[1] = "wara-ssh-ok" /\ output[2] = "25.0.0"
    BY <1>0 DEF MockControlledOutput
<1>2. {i \in DOMAIN output : output[i] # "empty"} = {1, 2}
    BY <1>1
<1>3. FirstLine({1, 2}) = {1} /\ FirstLine({2}) = {2}
    BY DEF FirstLine
<1>4. {i \in {1} : output[i] = "wara-ssh-ok"} = {1} /\ {1, 2} \ {1} = {2}
    BY <1>1
<1>5. output[CHOOSE i \in {2} : TRUE] = "25.0.0"
    BY <1>1
<1>6. ParseServerCheckOutput(output)
        = [status |-> "available", version |-> "25.0.0", error |-> "empty"]
    BY <1>2, <1>3, <1>4, <1>5 DEF ParseServerCheckOutput
<1>7. ValidateAllowedCommands(ServerCheckCommands)
    BY <1>0 DEF ValidateAllowedCommands
<1> QED
    BY <1>6, <1>7 DEF Probe

LEMMA SettingsTypes == SecretKeys \subseteq Keys /\ Intervals \subseteq Nat
<1>1. SecretKeys \subseteq Keys
    BY SecretsAssumption DEF SecretKeys, SettingValues, Setting, First
<1>2. Intervals \subseteq Nat
    BY DEF Intervals, U64Setting, First
<1> QED
    BY <1>1, <1>2

-----------------------------------------------------------------------------
(* Checks.                                                                 *)

(* The columns that a registration leaves in its row.                      *)
Sealed(reg) ==
    [private_key |-> EncryptSecret(reg.key, reg.target.private_key),
     passphrase |-> {EncryptSecret(reg.key, value) : value \in reg.target.passphrase}]

LEMMA TargetType ==
    ASSUME NEW key, NEW s PROVE SshTarget(key, s) \subseteq Target
<1> DEFINE phrases == {DecryptSecret(key, value) : value \in stored[s].passphrase}
<1>1. UNION phrases \subseteq Text
    BY DecryptType
<1>2. DecryptSecret(key, stored[s].private_key) \subseteq Text
    BY DecryptType
<1> HIDE DEF phrases
<1>3. \A text \in Text : [private_key |-> text, passphrase |-> UNION phrases] \in Target
    BY <1>1 DEF Target
<1> USE DEF phrases
<1> QED
    BY <1>2, <1>3 DEF SshTarget

(* ssh_target undoes create_server under the key of the registration.      *)
LEMMA TargetRecovered ==
    ASSUME NEW s, registered[s] \in [key: Keys, target: Target],
           stored[s] = Sealed(registered[s])
    PROVE  SshTarget(registered[s].key, s) \subseteq {registered[s].target}
<1> DEFINE key == registered[s].key
           target == registered[s].target
           phrases == {DecryptSecret(key, value) : value \in stored[s].passphrase}
<1>1. key \in Keys /\ target \in Target
    OBVIOUS
<1>2. target.private_key \in Text /\ target.passphrase \subseteq Text
      /\ target = [private_key |-> target.private_key, passphrase |-> target.passphrase]
    BY <1>1 DEF Target
<1>3. DecryptSecret(key, stored[s].private_key) = {target.private_key}
    BY <1>1, <1>2, RoundTrip DEF Sealed
<1>4. stored[s].passphrase = {EncryptSecret(key, value) : value \in target.passphrase}
    BY DEF Sealed
<1>5. \A value \in target.passphrase : DecryptSecret(key, EncryptSecret(key, value)) = {value}
    BY <1>1, <1>2, RoundTrip
<1>6. UNION phrases = target.passphrase
    BY <1>4, <1>5
<1> HIDE DEF phrases, key, target
<1>7. \A c \in SshTarget(key, s) :
          c = [private_key |-> target.private_key, passphrase |-> target.passphrase]
    BY <1>3, <1>6 DEF SshTarget, phrases
<1> QED
    BY <1>2, <1>7 DEF key, target

(* What a check is before its update.                                      *)
LEMMA CheckBegun ==
    ASSUME TypeOK, NEW key \in Keys, NEW s \in Servers, NEW c \in Checks(key, s)
    PROVE  /\ c \in Check
           /\ c.server = {s} /\ c.key = key
           /\ c.result.status = "available" /\ c.result.version = "25.0.0"
           /\ c.result.error = "empty" /\ c.result.at = clock
           /\ c.target \in SshTarget(key, s)
<1>1. PICK target \in SshTarget(key, s) :
          c = [pc |-> "update", server |-> {s}, key |-> key, target |-> target,
               result |-> [status |-> "available", version |-> "25.0.0", at |-> clock,
                           error |-> "empty"]]
    BY ProbeResult DEF Checks
<1>2. target \in Target
    BY TargetType
<1>3. [status |-> "available", version |-> "25.0.0", at |-> clock, error |-> "empty"] \in Record
  <2>1. clock \in 0 .. MaxTime
      BY ServerChecksAssumption DEF TypeOK
  <2> QED
      BY <2>1 DEF Record
<1> QED
    BY <1>1, <1>2, <1>3 DEF Check

LEMMA Idle ==
    /\ NoCheck \in Check /\ NoCheck.server = {}
    /\ Unchecked \in Record
    /\ Unchecked.status = "unchecked" /\ Unchecked.version = "empty" /\ Unchecked.error = "empty"
    /\ Unchecked.at = 0
<1>1. NoTarget \in Target
    BY DEF NoTarget, Target, Text
<1>2. Unchecked \in Record
    BY ServerChecksAssumption DEF Unchecked, Record
<1>3. /\ Unchecked.status = "unchecked" /\ Unchecked.version = "empty" /\ Unchecked.error = "empty"
      /\ Unchecked.at = 0
    BY DEF Unchecked
<1> QED
    BY <1>1, <1>2, <1>3, SecretsAssumption DEF NoCheck, Check

-----------------------------------------------------------------------------
(* The type invariant.                                                     *)

Worker(ids) ==
    [pc: {"wait", "pass", "update", "down"}, key: Keys, interval: Nat,
     signalled: BOOLEAN, todo: SUBSET ids, check: Check]

LEMMA InitType == Init => TypeOK
<1> SUFFICES ASSUME Init PROVE TypeOK
    OBVIOUS
<1>1. NoSecrets \in [private_key: Cipher, passphrase: SUBSET Cipher]
    BY DEF NoSecrets, Cipher
<1>2. Unregistered \in [key: Keys, target: Target]
    BY SecretsAssumption DEF Unregistered, NoTarget, Target, Text
<1>3. Down \in Worker({})
    BY Idle, SecretsAssumption DEF Down, Worker
<1>4. worker \in Worker(rows)
    BY <1>3 DEF Init
<1>5. clock \in 1 .. MaxTime /\ faults \in 0 .. MaxFaults
    BY ServerChecksAssumption DEF Init
<1>6. api \in [key: Keys, restarts: 0 .. MaxRestarts]
    BY SettingsTypes, ServerChecksAssumption DEF Init
<1> QED
    BY <1>1, <1>2, <1>4, <1>5, <1>6, Idle DEF Init, TypeOK, Worker

(* A check that begins marks a row.                                        *)
LEMMA OverlapType ==
    ASSUME TypeOK, NEW s \in rows, BeginCheck(s)
    PROVE  overlapped' \subseteq rows
BY DEF TypeOK, BeginCheck

LEMMA UpdateType ==
    ASSUME TypeOK, NEW s \in Servers, NEW c \in Check, UpdateCheckMetadata(s, c.result)
    PROVE  record' \in [Servers -> Record]
<1>1. c.result \in Record
    BY DEF Check
<1> QED
    BY <1>1 DEF TypeOK, UpdateCheckMetadata

(* The steps of the API.                                                   *)
LEMMA ApiType ==
    ASSUME TypeOK,
           \/ \E s \in Servers, payload \in Payloads : CreateServer(s, payload)
           \/ \E r \in Requests :
                 \/ \E s \in Servers : CheckServer(r, s)
                 \/ CheckServerUpdate(r)
                 \/ CheckServerFail(r)
           \/ \E key \in SecretKeys : ApiRestart(key)
    PROVE  TypeOK'
<1>1. ASSUME NEW s \in Servers, NEW payload \in Payloads, CreateServer(s, payload)
      PROVE  TypeOK'
  <2>1. payload.private_key \in Text /\ payload.private_key_passphrase \subseteq Text
      BY ServerChecksAssumption
  <2>2. api.key \in Keys
      BY DEF TypeOK
  <2>3. Encrypted(api.key, payload) \in [private_key: Cipher, passphrase: SUBSET Cipher]
      BY <2>1, <2>2, EncryptType DEF Encrypted
  <2>4. [key |-> api.key, target |-> [private_key |-> payload.private_key,
                                      passphrase |-> payload.private_key_passphrase]]
          \in [key: Keys, target: Target]
      BY <2>1, <2>2 DEF Target
  <2>5. stored' \in [Servers -> [private_key: Cipher, passphrase: SUBSET Cipher]]
      BY <1>1, <2>3 DEF TypeOK, CreateServer
  <2>6. registered' \in [Servers -> [key: Keys, target: Target]]
      BY <1>1, <2>4 DEF TypeOK, CreateServer
  <2>7. record' \in [Servers -> Record]
      BY <1>1, Idle DEF TypeOK, CreateServer
  <2>8. rows \subseteq rows' /\ rows' \subseteq Servers
      BY <1>1 DEF TypeOK, CreateServer
  <2>9. worker' \in Worker(rows')
      BY <1>1, <2>8 DEF TypeOK, CreateServer, Worker
  <2> QED
      BY <1>1, <2>5, <2>6, <2>7, <2>8, <2>9 DEF TypeOK, CreateServer, Worker
<1>2. ASSUME NEW r \in Requests, NEW s \in Servers, CheckServer(r, s)
      PROVE  TypeOK'
  <2>1. PICK c \in Checks(api.key, s) : req' = [req EXCEPT ![r] = c]
      BY <1>2 DEF CheckServer
  <2>2. c \in Check
      BY CheckBegun DEF TypeOK
  <2>3. overlapped' \subseteq rows
      BY <1>2, OverlapType DEF CheckServer
  <2> QED
      BY <1>2, <2>1, <2>2, <2>3 DEF TypeOK, CheckServer
<1>3. ASSUME NEW r \in Requests, CheckServerUpdate(r)
      PROVE  TypeOK'
  <2>1. req[r] \in Check /\ req[r].server \subseteq Servers
      BY DEF TypeOK, Check
  <2>2. record' \in [Servers -> Record]
      BY <1>3, <2>1, UpdateType DEF CheckServerUpdate
  <2>3. req' \in [Requests -> Check]
      BY <1>3, Idle DEF TypeOK, CheckServerUpdate
  <2> QED
      BY <1>3, <2>2, <2>3 DEF TypeOK, CheckServerUpdate, history
<1>4. ASSUME NEW r \in Requests, CheckServerFail(r)
      PROVE  TypeOK'
    BY <1>4, Idle DEF TypeOK, CheckServerFail, history
<1>5. ASSUME NEW key \in SecretKeys, ApiRestart(key)
      PROVE  TypeOK'
  <2>1. api' \in [key: Keys, restarts: 0 .. MaxRestarts]
      BY <1>5, SettingsTypes, ServerChecksAssumption DEF TypeOK, ApiRestart
  <2> QED
      BY <1>5, <2>1, Idle DEF TypeOK, ApiRestart, history
<1> QED
    BY <1>1, <1>2, <1>3, <1>4, <1>5

(* The steps of the worker and the clock.                                  *)
WorkerNext ==
    \/ \E key \in SecretKeys, interval \in Intervals : WorkerStart(key, interval)
    \/ WorkerStep \/ WorkerFault \/ WorkerSignal \/ WorkerNotice \/ WorkerDie

(* A step of the worker keeps the worker's type, and its other parts.      *)
LEMMA WorkerType ==
    ASSUME TypeOK, WorkerNext
    PROVE  TypeOK'
<1> USE DEF history
<1>0. worker \in Worker(rows) /\ worker.check \in Check /\ worker.key \in Keys
    BY DEF TypeOK, Worker
<1>1. Down \in Worker(rows)
    BY Idle, SecretsAssumption DEF Down, Worker
<1>2. ASSUME NEW key \in SecretKeys, NEW interval \in Intervals, WorkerStart(key, interval)
      PROVE  TypeOK'
  <2>1. worker' \in Worker(rows)
      BY <1>1, <1>2, SettingsTypes DEF WorkerStart, Worker
  <2> QED
      BY <1>2, <2>1 DEF TypeOK, WorkerStart, Worker
<1>3. CASE WorkerTick
  <2>1. worker' \in Worker(rows)
      BY <1>0, <1>3 DEF WorkerTick, Worker
  <2> QED
      BY <1>3, <2>1 DEF TypeOK, WorkerTick, Worker
<1>4. ASSUME NEW s \in Servers, WorkerCheck(s)
      PROVE  TypeOK'
  <2>1. s \in rows
      BY <1>0, <1>4 DEF WorkerCheck, Worker
  <2>2. overlapped' \subseteq rows
      BY <1>4, <2>1, OverlapType DEF WorkerCheck
  <2>3. \A c \in Checks(worker.key, s) : c \in Check
      BY <1>0, CheckBegun
  <2>4. worker' \in Worker(rows)
    <3>1. CASE worker' = [worker EXCEPT !.todo = @ \ {s}]
        BY <1>0, <3>1 DEF Worker
    <3>2. ASSUME NEW c \in Checks(worker.key, s),
                 worker' = [worker EXCEPT !.pc = "update", !.todo = @ \ {s}, !.check = c]
          PROVE  worker' \in Worker(rows)
        BY <1>0, <2>3, <3>2 DEF Worker
    <3> QED
        BY <1>4, <3>1, <3>2 DEF WorkerCheck
  <2> QED
      BY <1>4, <2>2, <2>4 DEF TypeOK, WorkerCheck, Worker
<1>5. CASE WorkerUpdate
  <2>1. worker' \in Worker(rows)
      BY <1>0, <1>5, Idle DEF WorkerUpdate, Worker
  <2>2. worker.check.server \subseteq Servers
      BY <1>0 DEF Check
  <2>3. record' \in [Servers -> Record]
      BY <1>0, <1>5, <2>2, UpdateType DEF WorkerUpdate
  <2> QED
      BY <1>5, <2>1, <2>3 DEF TypeOK, WorkerUpdate, Worker
<1>6. CASE WorkerEnd
  <2>1. worker' \in Worker(rows)
      BY <1>0, <1>6 DEF WorkerEnd, Worker
  <2> QED
      BY <1>6, <2>1 DEF TypeOK, WorkerEnd, Worker
<1>7. CASE WorkerFault
  <2>1. worker' \in Worker(rows)
      BY <1>0, <1>7, Idle DEF WorkerFault, Worker
  <2>2. faults' \in 0 .. MaxFaults
      BY <1>7, ServerChecksAssumption DEF TypeOK, WorkerFault
  <2> QED
      BY <1>7, <2>1, <2>2 DEF TypeOK, WorkerFault, Worker
<1>8. CASE WorkerSignal
  <2>1. worker' \in Worker(rows)
      BY <1>0, <1>8 DEF WorkerSignal, Worker
  <2> QED
      BY <1>8, <2>1 DEF TypeOK, WorkerSignal, Worker
<1>9. CASE WorkerNotice
    BY <1>1, <1>9 DEF TypeOK, WorkerNotice, Worker
<1>10. CASE WorkerDie
    BY <1>1, <1>10 DEF TypeOK, WorkerDie, Worker
<1> QED
    BY <1>2, <1>3, <1>4, <1>5, <1>6, <1>7, <1>8, <1>9, <1>10 DEF WorkerNext, WorkerStep

LEMMA NextType ==
    ASSUME TypeOK, [Next]_vars
    PROVE  TypeOK'
<1>1. CASE Tick
  <2>1. clock' \in 1 .. MaxTime
      BY <1>1, ServerChecksAssumption DEF TypeOK, Tick
  <2> QED
      BY <1>1, <2>1 DEF TypeOK, Tick, history
<1>2. CASE UNCHANGED vars
    BY <1>2 DEF TypeOK, vars, history
<1> QED
    BY <1>1, <1>2, ApiType, WorkerType DEF Next, WorkerNext

(* Every column of a server row and every variable of the two processes    *)
(* keeps its type.                                                         *)
THEOREM TypeCorrect == Spec => []TypeOK
BY InitType, NextType, PTL DEF Spec

-----------------------------------------------------------------------------
(* The inductive invariant: rows hold what was registered and checks of    *)
(* the past; a check in flight holds the secrets of its row and a time     *)
(* that is not older than the row's, unless it overlaps another one.       *)

CheckedOk(res) ==
    /\ res.status = "available" /\ res.version = "25.0.0" /\ res.error = "empty"
    /\ res.at \in 1 .. clock

RowOk(s) ==
    /\ record[s] = Unchecked \/ (s \in rows /\ CheckedOk(record[s]))
    /\ s \in rows => stored[s] = Sealed(registered[s])

CheckOk(c) ==
    \A s \in c.server :
        /\ s \in rows
        /\ CheckedOk(c.result)
        /\ c.key = registered[s].key => c.target = registered[s].target
        /\ s \notin overlapped => record[s].at <= c.result.at

Apart ==
    \A s \in Servers \ overlapped, r \in Requests : s \in req[r].server =>
        /\ s \notin worker.check.server
        /\ \A q \in Requests : s \in req[q].server => q = r

CheckInv ==
    /\ TypeOK
    /\ \A s \in Servers : RowOk(s)
    /\ \A r \in Requests : CheckOk(req[r])
    /\ CheckOk(worker.check)
    /\ Apart

LEMMA InitChecks == Init => CheckInv
<1> SUFFICES ASSUME Init PROVE CheckInv
    OBVIOUS
<1>1. worker.check = NoCheck /\ \A r \in Requests : req[r] = NoCheck
    BY DEF Init, Down
<1>2. \A s \in Servers : RowOk(s)
  <2>1. rows = {} /\ \A s \in Servers : record[s] = Unchecked
      BY DEF Init
  <2> QED
      BY <2>1 DEF RowOk
<1>3. CheckOk(NoCheck)
    BY Idle DEF CheckOk
<1>4. Apart
    BY <1>1, Idle DEF Apart
<1> QED
    BY <1>1, <1>2, <1>3, <1>4, InitType DEF CheckInv

(* A check that begins with the secrets, the key and the time of now.      *)
LEMMA CheckStarts ==
    ASSUME CheckInv, NEW key \in Keys, NEW s \in rows, NEW c \in Checks(key, s),
           BeginCheck(s),
           UNCHANGED <<rows, stored, record, clock, registered>>
    PROVE  CheckOk(c)' /\ c.server = {s}
<1>1. s \in Servers /\ TypeOK
    BY DEF CheckInv, TypeOK
<1>2. /\ c.server = {s} /\ c.key = key
      /\ c.result.status = "available" /\ c.result.version = "25.0.0"
      /\ c.result.error = "empty" /\ c.result.at = clock
      /\ c.target \in SshTarget(key, s)
    BY <1>1, CheckBegun
<1>3. key = registered[s].key => c.target = registered[s].target
  <2>1. registered[s] \in [key: Keys, target: Target] /\ stored[s] = Sealed(registered[s])
      BY <1>1 DEF CheckInv, RowOk, TypeOK
  <2> QED
      BY <1>2, <2>1, TargetRecovered
<1>4. CheckedOk(c.result)' /\ record[s].at <= clock
  <2>1. clock \in Nat \ {0}
      BY <1>1, ServerChecksAssumption DEF TypeOK
  <2>2. record[s] = Unchecked \/ CheckedOk(record[s])
      BY <1>1 DEF CheckInv, RowOk
  <2>3. record[s].at <= clock
      BY <2>1, <2>2, Idle DEF CheckedOk
  <2>4. CheckedOk(c.result)'
      BY <1>2, <2>1 DEF CheckedOk
  <2> QED
      BY <2>3, <2>4
<1> QED
    BY <1>2, <1>3, <1>4 DEF CheckOk

(* The other checks are still in order after the beginning of one.         *)
LEMMA CheckStays ==
    ASSUME NEW c, CheckOk(c), NEW s, BeginCheck(s),
           UNCHANGED <<rows, stored, record, clock, registered>>
    PROVE  CheckOk(c)' /\ overlapped \subseteq overlapped'
BY DEF CheckOk, CheckedOk, BeginCheck

(* The update of a check that is in order.                                 *)
LEMMA CheckEnds ==
    ASSUME CheckInv, NEW c, CheckOk(c), NEW s \in c.server,
           UpdateCheckMetadata(s, c.result),
           UNCHANGED <<rows, stored, clock, registered, overlapped>>
    PROVE  /\ \A t \in Servers : RowOk(t)'
           /\ \A t \in Servers : t # s => record'[t] = record[t]
           /\ s \in Servers /\ record'[s] = c.result
<1>1. s \in Servers /\ record' = [record EXCEPT ![s] = c.result] /\ DOMAIN record = Servers
    BY DEF CheckInv, TypeOK, CheckOk, UpdateCheckMetadata
<1>2. record'[s] = c.result /\ \A t \in Servers : t # s => record'[t] = record[t]
    BY <1>1
<1>3. s \in rows /\ CheckedOk(c.result)
    BY DEF CheckOk
<1>4. RowOk(s)'
    BY <1>1, <1>2, <1>3 DEF CheckInv, RowOk, CheckedOk
<1>5. \A t \in Servers : t # s => RowOk(t)'
    BY <1>2 DEF CheckInv, RowOk, CheckedOk
<1> QED
    BY <1>1, <1>2, <1>4, <1>5

(* Another check, which does not share the server unless they overlap.     *)
LEMMA CheckKept ==
    ASSUME TypeOK, NEW d, CheckOk(d), NEW s \in Servers,
           s \in d.server => s \in overlapped,
           \A t \in Servers : t # s => record'[t] = record[t],
           UNCHANGED <<rows, stored, clock, registered, overlapped>>
    PROVE  CheckOk(d)'
BY DEF CheckOk, CheckedOk, TypeOK

LEMMA IdleOk == CheckOk(NoCheck) /\ CheckOk(NoCheck)'
BY Idle DEF CheckOk

(* The steps that leave the rows alone and let checks only go.             *)
LEMMA ChecksGo ==
    ASSUME CheckInv, TypeOK',
           UNCHANGED <<rows, stored, record, clock, registered, overlapped>>,
           \A r \in Requests : req'[r] = req[r] \/ req'[r] = NoCheck,
           worker'.check = worker.check \/ worker'.check = NoCheck
    PROVE  CheckInv'
<1>1. \A s \in Servers : RowOk(s)'
    BY DEF CheckInv, RowOk, CheckedOk
<1>2. \A r \in Requests : CheckOk(req'[r])
    BY IdleOk DEF CheckInv
<1>3. CheckOk(worker'.check)
    BY IdleOk DEF CheckInv
<1>4. Apart'
    BY Idle DEF CheckInv, Apart
<1>5. (\A r \in Requests : CheckOk(req[r])') /\ CheckOk(worker.check)'
    BY <1>2, <1>3 DEF CheckOk, CheckedOk
<1> QED
    BY <1>1, <1>4, <1>5 DEF CheckInv

LEMMA NextChecks ==
    ASSUME CheckInv, [Next]_vars
    PROVE  CheckInv'
<1> USE DEF history
<1>0. TypeOK /\ TypeOK'
    BY NextType DEF CheckInv
<1>1. ASSUME NEW s \in Servers, NEW payload \in Payloads, CreateServer(s, payload)
      PROVE  CheckInv'
  <2>1. /\ s \notin rows /\ rows' = rows \cup {s}
        /\ \A t \in Servers : t # s => /\ stored'[t] = stored[t]
                                      /\ record'[t] = record[t]
                                      /\ registered'[t] = registered[t]
        /\ record'[s] = Unchecked
        /\ UNCHANGED <<clock, req, worker, overlapped>>
      BY <1>0, <1>1 DEF CreateServer, TypeOK
  <2>2. stored'[s] = Sealed(registered'[s])
    <3>1. /\ stored'[s] = Encrypted(api.key, payload)
          /\ registered'[s].key = api.key
          /\ registered'[s].target.private_key = payload.private_key
          /\ registered'[s].target.passphrase = payload.private_key_passphrase
        BY <1>0, <1>1 DEF CreateServer, TypeOK
    <3> QED
        BY <3>1 DEF Encrypted, Sealed
  <2>3. \A t \in Servers : RowOk(t)'
    <3>1. RowOk(s)'
        BY <2>1, <2>2 DEF RowOk, Sealed
    <3>2. ASSUME NEW t \in Servers, t # s
          PROVE  RowOk(t)'
      <4>1. RowOk(t) /\ (t \in rows <=> t \in rows') /\ stored'[t] = stored[t]
            /\ record'[t] = record[t] /\ registered'[t] = registered[t] /\ clock' = clock
          BY <2>1, <3>2 DEF CheckInv
      <4> QED
          BY <4>1 DEF RowOk, CheckedOk, Sealed
    <3> QED
        BY <3>1, <3>2
  <2>4. ASSUME NEW c, CheckOk(c)
        PROVE  CheckOk(c)'
      BY <1>0, <2>1, <2>4 DEF CheckOk, CheckedOk, TypeOK
  <2>5. (\A r \in Requests : CheckOk(req[r])') /\ CheckOk(worker.check)'
      BY <2>1, <2>4 DEF CheckInv
  <2>6. Apart'
      BY <2>1 DEF CheckInv, Apart
  <2> QED
      BY <1>0, <2>3, <2>5, <2>6 DEF CheckInv
<1>2. ASSUME NEW r \in Requests, NEW s \in Servers, CheckServer(r, s)
      PROVE  CheckInv'
  <2>1. PICK c \in Checks(api.key, s) : req' = [req EXCEPT ![r] = c]
      BY <1>2 DEF CheckServer
  <2>2. /\ s \in rows /\ BeginCheck(s) /\ api.key \in Keys
        /\ UNCHANGED <<rows, stored, record, clock, worker, registered>>
      BY <1>0, <1>2 DEF CheckServer, TypeOK
  <2>3. CheckOk(c)' /\ c.server = {s}
      BY <2>2, CheckStarts
  <2>4. req'[r] = c /\ \A q \in Requests : q # r => req'[q] = req[q]
      BY <1>0, <2>1 DEF TypeOK
  <2>5. overlapped \subseteq overlapped' /\ CheckOk(worker.check)'
      BY <2>2, CheckStays DEF CheckInv
  <2>6. \A q \in Requests : q # r => CheckOk(req[q])'
    <3>1. ASSUME NEW q \in Requests, q # r
          PROVE  CheckOk(req[q])'
      <4>1. PICK d : d = req[q] /\ d = req'[q]
          BY <2>4, <3>1
      <4>2. CheckOk(d)'
          BY <2>2, <4>1, CheckStays DEF CheckInv
      <4> QED
          BY <4>1, <4>2
    <3> QED
        BY <3>1
  <2>7. CheckOk(req[r])'
      BY <2>3, <2>4
  <2>8. \A t \in Servers : RowOk(t)'
      BY <2>2 DEF CheckInv, RowOk, CheckedOk
  <2>9. Apart'
    <3>1. s \notin overlapped' =>
              s \notin worker.check.server /\ \A q \in Requests : s \notin req[q].server
        BY <2>2 DEF BeginCheck
    <3> QED
        BY <2>2, <2>3, <2>4, <2>5, <3>1 DEF CheckInv, Apart
  <2> QED
      BY <1>0, <2>5, <2>6, <2>7, <2>8, <2>9 DEF CheckInv
<1>3. ASSUME NEW r \in Requests, CheckServerUpdate(r)
      PROVE  CheckInv'
  <2>1. PICK s \in req[r].server : UpdateCheckMetadata(s, req[r].result)
      BY <1>3 DEF CheckServerUpdate
  <2>2. PICK c : c = req[r]
      OBVIOUS
  <2>3. UNCHANGED <<rows, stored, clock, worker, registered, overlapped>>
      BY <1>3 DEF CheckServerUpdate
  <2>4. /\ \A t \in Servers : RowOk(t)'
        /\ \A t \in Servers : t # s => record'[t] = record[t]
        /\ s \in Servers /\ record'[s] = c.result
      BY <2>1, <2>2, <2>3, CheckEnds DEF CheckInv
  <2>5. req'[r] = NoCheck /\ \A q \in Requests : q # r => req'[q] = req[q]
      BY <1>0, <1>3 DEF CheckServerUpdate, TypeOK
  <2>6. CheckOk(worker.check)'
    <3>1. PICK d : d = worker.check /\ d = worker'.check
        BY <2>3
    <3>2. s \in d.server => s \in overlapped
        BY <2>1, <2>4, <3>1 DEF CheckInv, Apart
    <3>3. CheckOk(d)'
        BY <1>0, <2>3, <2>4, <3>1, <3>2, CheckKept DEF CheckInv
    <3> QED
        BY <3>1, <3>3
  <2>7. \A q \in Requests : CheckOk(req[q])'
    <3>1. ASSUME NEW q \in Requests, q # r
          PROVE  CheckOk(req[q])'
      <4>1. PICK d : d = req[q] /\ d = req'[q]
          BY <2>5, <3>1
      <4>2. s \in d.server => s \in overlapped
          BY <2>1, <2>4, <3>1, <4>1 DEF CheckInv, Apart
      <4>3. CheckOk(d)'
          BY <1>0, <2>3, <2>4, <4>1, <4>2, CheckKept DEF CheckInv
      <4> QED
          BY <4>1, <4>3
    <3>2. CheckOk(req[r])'
        BY <2>5, IdleOk
    <3> QED
        BY <3>1, <3>2
  <2>8. Apart'
      BY <2>3, <2>5, Idle DEF CheckInv, Apart
  <2> QED
      BY <1>0, <2>4, <2>6, <2>7, <2>8 DEF CheckInv
<1>4. ASSUME NEW r \in Requests, CheckServerFail(r)
      PROVE  CheckInv'
    BY <1>0, <1>4, ChecksGo DEF CheckServerFail, TypeOK
<1>5. ASSUME NEW key \in SecretKeys, ApiRestart(key)
      PROVE  CheckInv'
    BY <1>0, <1>5, ChecksGo DEF ApiRestart
<1>6. ASSUME NEW key \in SecretKeys, NEW interval \in Intervals, WorkerStart(key, interval)
      PROVE  CheckInv'
  <2>1. worker'.check = NoCheck
      BY <1>6 DEF WorkerStart, Down
  <2> QED
      BY <1>0, <1>6, <2>1, ChecksGo DEF WorkerStart
<1>7. CASE WorkerTick \/ WorkerEnd \/ WorkerSignal
  <2>1. worker'.check = worker.check
      BY <1>0, <1>7 DEF WorkerTick, WorkerEnd, WorkerSignal, TypeOK
  <2>2. UNCHANGED <<rows, stored, record, clock, req, registered, overlapped>>
      BY <1>7 DEF WorkerTick, WorkerEnd, WorkerSignal
  <2> QED
      BY <1>0, <2>1, <2>2, ChecksGo
<1>8. CASE WorkerNotice \/ WorkerDie
  <2>1. worker'.check = NoCheck
      BY <1>8 DEF WorkerNotice, WorkerDie, Down
  <2>2. UNCHANGED <<rows, stored, record, clock, req, registered, overlapped>>
      BY <1>8 DEF WorkerNotice, WorkerDie
  <2> QED
      BY <1>0, <2>1, <2>2, ChecksGo
<1>9. CASE WorkerFault
  <2>1. worker'.check = worker.check \/ worker'.check = NoCheck
      BY <1>0, <1>9 DEF WorkerFault, TypeOK
  <2>2. UNCHANGED <<rows, stored, record, clock, req, registered, overlapped>>
      BY <1>9 DEF WorkerFault
  <2> QED
      BY <1>0, <2>1, <2>2, ChecksGo
<1>10. ASSUME NEW s \in Servers, WorkerCheck(s)
       PROVE  CheckInv'
  <2>1. /\ s \in rows /\ BeginCheck(s) /\ worker.key \in Keys
        /\ UNCHANGED <<rows, stored, record, clock, req, registered>>
      BY <1>0, <1>10 DEF WorkerCheck, TypeOK
  <2>2. PICK c : /\ c = worker'.check
                 /\ c = worker.check \/ c \in Checks(worker.key, s)
    <3>1. CASE Checks(worker.key, s) = {}
      <4>1. worker' = [worker EXCEPT !.todo = @ \ {s}]
          BY <1>10, <3>1 DEF WorkerCheck
      <4>2. worker'.check = worker.check
          BY <1>0, <4>1 DEF TypeOK
      <4> QED
          BY <4>2
    <3>2. CASE Checks(worker.key, s) # {}
      <4>1. PICK d \in Checks(worker.key, s) :
                worker' = [worker EXCEPT !.pc = "update", !.todo = @ \ {s}, !.check = d]
          BY <1>10, <3>2 DEF WorkerCheck
      <4>2. worker'.check = d
          BY <1>0, <4>1 DEF TypeOK
      <4> QED
          BY <4>1, <4>2
    <3> QED
        BY <3>1, <3>2
  <2>3. /\ CheckOk(c)'
        /\ c.server = worker.check.server \/ c.server = {s}
      BY <2>1, <2>2, CheckStarts, CheckStays DEF CheckInv
  <2>4. overlapped \subseteq overlapped'
      BY <2>1 DEF BeginCheck
  <2>5. \A r \in Requests : CheckOk(req[r])'
    <3>1. ASSUME NEW r \in Requests
          PROVE  CheckOk(req[r])'
      <4>1. PICK d : d = req[r] /\ d = req'[r]
          BY <2>1
      <4>2. CheckOk(d)'
          BY <2>1, <4>1, CheckStays DEF CheckInv
      <4> QED
          BY <4>1, <4>2
    <3> QED
        BY <3>1
  <2>6. \A t \in Servers : RowOk(t)'
      BY <2>1 DEF CheckInv, RowOk, CheckedOk
  <2>7. Apart'
    <3>1. s \notin overlapped' => \A q \in Requests : s \notin req[q].server
        BY <2>1 DEF BeginCheck
    <3> QED
        BY <2>1, <2>2, <2>3, <2>4, <3>1 DEF CheckInv, Apart
  <2> QED
      BY <1>0, <2>2, <2>3, <2>5, <2>6, <2>7 DEF CheckInv
<1>11. CASE WorkerUpdate
  <2>1. PICK s \in worker.check.server : UpdateCheckMetadata(s, worker.check.result)
      BY <1>11 DEF WorkerUpdate
  <2>2. PICK c : c = worker.check
      OBVIOUS
  <2>3. UNCHANGED <<rows, stored, clock, req, registered, overlapped>>
      BY <1>11 DEF WorkerUpdate
  <2>4. /\ \A t \in Servers : RowOk(t)'
        /\ \A t \in Servers : t # s => record'[t] = record[t]
        /\ s \in Servers /\ record'[s] = c.result
      BY <2>1, <2>2, <2>3, CheckEnds DEF CheckInv
  <2>5. worker'.check = NoCheck
      BY <1>0, <1>11 DEF WorkerUpdate, TypeOK
  <2>6. \A r \in Requests : CheckOk(req[r])'
    <3>1. ASSUME NEW r \in Requests
          PROVE  CheckOk(req[r])'
      <4>1. PICK d : d = req[r] /\ d = req'[r]
          BY <2>3
      <4>2. s \in d.server => s \in overlapped
          BY <2>1, <2>4, <4>1 DEF CheckInv, Apart
      <4>3. CheckOk(d)'
          BY <1>0, <2>3, <2>4, <4>1, <4>2, CheckKept DEF CheckInv
      <4> QED
          BY <4>1, <4>3
    <3> QED
        BY <3>1
  <2>7. CheckOk(worker.check)'
      BY <2>5, IdleOk
  <2>8. Apart'
      BY <2>3, <2>5, Idle DEF CheckInv, Apart
  <2> QED
      BY <1>0, <2>4, <2>6, <2>7, <2>8 DEF CheckInv
<1>12. CASE Tick
  <2>1. /\ clock \in Nat /\ clock' = clock + 1
        /\ UNCHANGED <<rows, stored, record, req, worker, registered, overlapped>>
      BY <1>0, <1>12 DEF Tick, TypeOK
  <2>2. ASSUME NEW res, CheckedOk(res)
        PROVE  CheckedOk(res)'
      BY <2>1, <2>2 DEF CheckedOk
  <2>3. \A s \in Servers : RowOk(s)'
      BY <2>1, <2>2 DEF CheckInv, RowOk
  <2>4. ASSUME NEW c, CheckOk(c)
        PROVE  CheckOk(c)'
      BY <2>1, <2>2, <2>4 DEF CheckOk
  <2>5. (\A r \in Requests : CheckOk(req[r])') /\ CheckOk(worker.check)'
      BY <2>1, <2>4 DEF CheckInv
  <2>6. Apart'
      BY <2>1 DEF CheckInv, Apart
  <2> QED
      BY <1>0, <2>3, <2>5, <2>6 DEF CheckInv
<1>13. CASE UNCHANGED vars
    BY <1>0, <1>13, ChecksGo DEF vars
<1> QED
    BY <1>1, <1>2, <1>3, <1>4, <1>5, <1>6, <1>7, <1>8, <1>9, <1>10, <1>11, <1>12, <1>13
    DEF Next, WorkerStep

LEMMA Checked == Spec => []CheckInv
BY InitChecks, NextChecks, PTL DEF Spec

(* What a row says of a server hangs together after every interleaving of  *)
(* checks by the API and the worker.                                       *)
THEOREM Coherent == Spec => []RecordCoherent
<1>1. CheckInv => RecordCoherent
    BY Idle DEF CheckInv, RowOk, CheckedOk, RecordCoherent
<1> QED
    BY <1>1, Checked, PTL

(* A check with the key of the registration works with exactly the secrets *)
(* that were registered, for every digest, key and length.                 *)
THEOREM Recovered == Spec => []SecretsRecovered
<1>1. CheckInv => SecretsRecovered
    BY DEF CheckInv, CheckOk, SecretsRecovered
<1> QED
    BY <1>1, Checked, PTL

(* The time of the last check does not go back where checks do not overlap.*)
THEOREM TimesRise == Spec => LastCheckMonotone
<1> DEFINE Rises == \A s \in Servers \ overlapped : record[s].at <= record'[s].at
<1>1. ASSUME CheckInv, [Next]_vars
      PROVE  [Rises]_vars
  <2>0. TypeOK /\ \A s \in Servers : record[s].at \in Nat
      BY <1>1 DEF CheckInv, TypeOK, Record
  <2>1. CASE record' = record
      BY <2>0, <2>1
  <2>2. ASSUME NEW c, CheckOk(c), NEW s \in c.server, UpdateCheckMetadata(s, c.result)
        PROVE  Rises
    <3>1. record' = [record EXCEPT ![s] = c.result] /\ DOMAIN record = Servers
        BY <2>0, <2>2 DEF TypeOK, UpdateCheckMetadata
    <3>2. s \notin overlapped => record[s].at <= c.result.at
        BY <2>2 DEF CheckOk
    <3> QED
        BY <2>0, <3>1, <3>2
  <2>3. ASSUME NEW s \in Servers, NEW payload \in Payloads, CreateServer(s, payload)
        PROVE  Rises
    <3>1. s \notin rows /\ record' = [record EXCEPT ![s] = Unchecked] /\ DOMAIN record = Servers
        BY <2>0, <2>3 DEF CreateServer, TypeOK
    <3>2. record[s] = Unchecked
        BY <1>1, <3>1 DEF CheckInv, RowOk
    <3> QED
        BY <2>0, <3>1, <3>2
  <2>4. ASSUME NEW r \in Requests, CheckServerUpdate(r)
        PROVE  Rises
      BY <1>1, <2>2, <2>4 DEF CheckInv, CheckServerUpdate
  <2>5. CASE WorkerUpdate
      BY <1>1, <2>2, <2>5 DEF CheckInv, WorkerUpdate
  <2> QED
      BY <1>1, <2>1, <2>3, <2>4, <2>5
      DEF Next, CheckServer, CheckServerFail, ApiRestart, WorkerStart, WorkerStep, WorkerTick,
          WorkerCheck, WorkerEnd, WorkerFault, WorkerSignal, WorkerNotice, WorkerDie, Tick,
          vars, history
<1> QED
    BY <1>1, Checked, PTL DEF Spec, LastCheckMonotone

=============================================================================
