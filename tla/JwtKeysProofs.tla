--------------------------- MODULE JwtKeysProofs ---------------------------
(***************************************************************************)
(* Proofs about JwtKeys for every number of instances and key pairs.       *)
(***************************************************************************)
EXTENDS JwtKeys, SequenceTheorems, TLAPS

(* What a boot has read from the table is still true when it writes: rows  *)
(* are never removed and never change their key.                           *)
TargetMatches ==
    \A i \in Instances :
        /\ pc[i] \in {"deactivate", "lookup", "update"} /\ target[i] # 0 =>
              target[i] \in Rows /\ rows[target[i]].key = config[i].public
        /\ pc[i] = "update" => target[i] # 0

KeyInv == TypeOK /\ TargetMatches

(* The keys of the rows, and that there is no row but those.               *)
RowsKept ==
    /\ Rows \subseteq Rows'
    /\ \A n \in Rows : rows'[n].key = rows[n].key

(* What the boot has checked of every pair that reaches the database.      *)
LEMMA BootablePairs ==
  ASSUME NEW pair \in Bootable
  PROVE  pair \in [private: Keys, public: Keys] /\ pair.public = pair.private
  BY DEF Bootable, ValidPair, FromSources

LEMMA DefaultPair ==
  /\ FromSources(NoKeys, NoKeys) \in [private: Keys, public: Keys]
  /\ FromSources(NoKeys, NoKeys).public = FromSources(NoKeys, NoKeys).private
  BY JwtKeysAssumption DEF FromSources, NonEmptySetting, Given, NoKeys

LEMMA RowTypes ==
  ASSUME TypeOK
  PROVE  Len(rows) \in Nat /\ \A n \in Rows : rows[n] \in Row
  BY DEF TypeOK, Rows

(* Every statement keeps the types, the target of every boot and the key   *)
(* of every row.                                                           *)
LEMMA KeyStep ==
  ASSUME KeyInv, [Next]_vars
  PROVE  KeyInv' /\ RowsKept
  <1> USE DEF KeyInv, TypeOK, Phases
  <1>1. CASE UNCHANGED vars
    BY <1>1 DEF vars, TargetMatches, RowsKept, Rows
  <1>2. ASSUME NEW i \in Instances, NEW k \in Bootable, Start(i, k) PROVE KeyInv' /\ RowsKept
    BY <1>2, BootablePairs DEF Start, TargetMatches, RowsKept, Rows
  <1>3. ASSUME NEW i \in Instances, ReadKeys(i) PROVE KeyInv' /\ RowsKept
    <2>1. UNCHANGED <<rows, config, tokens>> /\ pc' = [pc EXCEPT ![i] = "deactivate"]
      BY <1>3 DEF ReadKeys
    <2>2. PICK n \in Nat : /\ target' = [target EXCEPT ![i] = n]
                           /\ n # 0 => n \in Rows /\ rows[n].key = config[i].public
      BY <1>3 DEF ReadKeys, Matching, Rows
    <2> QED BY <2>1, <2>2 DEF TargetMatches, RowsKept, Rows
  <1>4. ASSUME NEW i \in Instances, Deactivate(i) PROVE KeyInv' /\ RowsKept
    <2>1. /\ rows' = [n \in Rows |-> [rows[n] EXCEPT !.active = FALSE]]
          /\ pc' = [pc EXCEPT ![i] = "lookup"]
          /\ UNCHANGED <<config, target, tokens>>
      BY <1>4 DEF Deactivate
    <2>2. \A n \in Rows : /\ [rows[n] EXCEPT !.active = FALSE] \in Row
                          /\ [rows[n] EXCEPT !.active = FALSE].key = rows[n].key
      BY RowTypes DEF Row
    <2>3. rows' \in Seq(Row) /\ Len(rows') = Len(rows)
      BY <2>1, <2>2 DEF Rows
    <2>4. RowsKept
      BY <2>1, <2>2, <2>3 DEF RowsKept, Rows
    <2>5. TargetMatches'
      BY <1>4, <2>1, <2>4 DEF Deactivate, TargetMatches, RowsKept
    <2> QED BY <2>1, <2>3, <2>4, <2>5
  <1>5. ASSUME NEW i \in Instances, Lookup(i) PROVE KeyInv' /\ RowsKept
    BY <1>5 DEF Lookup, TargetMatches, RowsKept, Rows
  <1>6. ASSUME NEW i \in Instances, Update(i) PROVE KeyInv' /\ RowsKept
    <2>1. /\ rows' = [rows EXCEPT ![target[i]] = [key |-> config[i].public, active |-> TRUE]]
          /\ pc' = [pc EXCEPT ![i] = "serving"]
          /\ UNCHANGED <<config, target, tokens>>
          /\ target[i] \in Rows /\ rows[target[i]].key = config[i].public
      BY <1>6 DEF Update, TargetMatches
    <2>2. [key |-> config[i].public, active |-> TRUE] \in Row
      BY DEF Row
    <2>3. rows' \in Seq(Row) /\ Len(rows') = Len(rows)
      BY <2>1, <2>2 DEF Rows
    <2>4. RowsKept
      BY <2>1, <2>3 DEF RowsKept, Rows
    <2> QED BY <2>1, <2>3, <2>4 DEF TargetMatches, RowsKept, Rows
  <1>7. ASSUME NEW i \in Instances, Create(i) PROVE KeyInv' /\ RowsKept
    <2> DEFINE row == [key |-> config[i].public, active |-> TRUE]
    <2>1. /\ rows' = Append(rows, row)
          /\ pc' = [pc EXCEPT ![i] = "serving"]
          /\ UNCHANGED <<config, target, tokens>>
      BY <1>7 DEF Create
    <2>2. row \in Row
      BY DEF Row
    <2>3. /\ rows' \in Seq(Row) /\ Len(rows') = Len(rows) + 1
          /\ \A n \in Rows : rows'[n] = rows[n]
      BY <2>1, <2>2, AppendProperties DEF Rows
    <2>4. RowsKept
      BY <2>3, RowTypes DEF RowsKept, Rows
    <2> QED BY <2>1, <2>3, <2>4 DEF TargetMatches, RowsKept
  <1>8. ASSUME NEW i \in Instances, Stop(i) PROVE KeyInv' /\ RowsKept
    BY <1>8 DEF Stop, TargetMatches, RowsKept, Rows
  <1>9. ASSUME NEW i \in Instances, Sign(i) PROVE KeyInv' /\ RowsKept
    <2>1. tokens' \subseteq Token
      BY <1>9, RowTypes DEF Sign, Token, Rows
    <2> QED BY <1>9, <2>1 DEF Sign, TargetMatches, RowsKept, Rows
  <1> QED BY <1>1, <1>2, <1>3, <1>4, <1>5, <1>6, <1>7, <1>8, <1>9 DEF Next, Boot

LEMMA KeyInitial == Init => KeyInv
  BY DefaultPair DEF Init, KeyInv, TypeOK, TargetMatches, Phases

THEOREM KeyInvariant == Spec => []KeyInv
  <1>1. KeyInv /\ [Next]_vars => KeyInv'
    BY KeyStep
  <1> QED BY <1>1, KeyInitial, PTL DEF Spec

(* The type invariant of JwtKeys, for any number of instances and keys.    *)
THEOREM TypeCorrect == Spec => []TypeOK
  BY KeyInvariant, PTL DEF KeyInv

(* Key rotation, rolling or not, never invalidates a token that verified:  *)
(* the statements of concurrent boots only ever flip is_active or add rows.*)
THEOREM RotationKeepsTokens == Spec => OldTokensStillVerify
  <1>1. KeyInv /\ [Next]_vars => [\A t \in tokens : Verifies(t) => Verifies(t)']_vars
    BY KeyStep DEF RowsKept, Verifies
  <1> QED BY <1>1, KeyInvariant, PTL DEF Spec, OldTokensStillVerify

-----------------------------------------------------------------------------
(* A rotation of one half of the pair.                                     *)

(* The halves of a configured pair belong together.                        *)
Paired == \A i \in Instances : config[i].public = config[i].private

LEMMA PairedStep ==
  ASSUME KeyInv, Paired, [Next]_vars
  PROVE  Paired'
  <1>1. CASE UNCHANGED config
    BY <1>1 DEF Paired
  <1>2. ASSUME NEW i \in Instances, NEW pair \in Bootable, Start(i, pair) PROVE Paired'
    BY <1>2, BootablePairs DEF Start, Paired, KeyInv, TypeOK
  <1> QED BY <1>1, <1>2
          DEF Next, vars, Boot, ReadKeys, Deactivate, Lookup, Update, Create, Stop, Sign

(* Halves that belong together name one key, so the first source that      *)
(* names any has named this one.                                           *)
LEMMA PairNotStale ==
  ASSUME NEW pair \in StalePairs
  PROVE  pair.public # pair.private
  <1>1. PICK env \in Settings, file \in Settings :
           /\ pair = FromSources(env, file)
           /\ pair.private \notin FirstNamed(env, file)
    BY DEF StalePairs
  <1>2. /\ pair.private = NonEmptySetting(env.private, file.private, DefaultKey)
        /\ pair.public = NonEmptySetting(env.public, file.public, DefaultKey)
    BY <1>1 DEF FromSources
  <1> QED BY <1>1, <1>2 DEF FirstNamed, Named, NonEmptySetting, Given

(* Whatever the environment and the config file hold, an instance that     *)
(* boots signs with a key of the first source that names one.              *)
THEOREM FirstSource == Spec => []HighestSourceDecides
  <1>1. Init => Paired
    BY DefaultPair DEF Init, Paired
  <1>2. KeyInv /\ Paired /\ [Next]_vars => Paired'
    BY PairedStep
  <1>3. Paired => HighestSourceDecides
    BY PairNotStale DEF Paired, HighestSourceDecides
  <1> QED BY <1>1, <1>2, <1>3, KeyInvariant, PTL DEF Spec

-----------------------------------------------------------------------------
(* Rotation by restart: instances with different keys never overlap.       *)

OneConfig ==
    \A i, j \in Instances : pc[i] # "down" /\ pc[j] # "down" => config[i] = config[j]

(* Once an instance has deactivated the rows it found, every row that      *)
(* becomes active carries its key.                                         *)
ActiveIsOwn ==
    \A i \in Instances : pc[i] \in {"lookup", "update", "create", "serving"} =>
        \A n \in ActiveRows : rows[n].key = config[i].public

RestartInv == OneConfig /\ Paired /\ ActiveIsOwn /\ TokensVerify

LEMMA RestartStep ==
  ASSUME KeyInv, RestartInv, ~Rolling, [Next]_vars
  PROVE  RestartInv'
  <1>1. KeyInv' /\ RowsKept
    BY KeyStep
  <1>2. ASSUME tokens' = tokens PROVE TokensVerify'
    BY <1>1, <1>2 DEF RestartInv, TokensVerify, Verifies, RowsKept
  <1> USE DEF KeyInv, TypeOK, Phases
  <1>3. CASE UNCHANGED vars
    BY <1>2, <1>3 DEF vars, RestartInv, OneConfig, Paired, ActiveIsOwn, ActiveRows, Rows
  <1>4. ASSUME NEW i \in Instances, NEW k \in Bootable, Start(i, k) PROVE RestartInv'
    <2>1. \A j \in Instances : pc[j] # "down" => config[j] = k
      BY <1>4 DEF Start
    <2>2. OneConfig'
      BY <1>4, <2>1 DEF Start, OneConfig
    <2>3. ActiveIsOwn'
      BY <1>4 DEF Start, RestartInv, ActiveIsOwn, ActiveRows, Rows
    <2>4. Paired'
      BY <1>4, BootablePairs DEF Start, RestartInv, Paired
    <2> QED BY <1>2, <1>4, <2>2, <2>3, <2>4 DEF RestartInv, Start
  <1>5. ASSUME NEW i \in Instances, ReadKeys(i) \/ Lookup(i) \/ Stop(i) PROVE RestartInv'
    <2>1. UNCHANGED <<rows, config, tokens>>
      BY <1>5 DEF ReadKeys, Lookup, Stop
    <2>2. \A j \in Instances :
             /\ pc'[j] # "down" => pc[j] # "down"
             /\ pc'[j] \in {"lookup", "update", "create", "serving"} =>
                   pc[j] \in {"lookup", "update", "create", "serving"}
      <3>1. CASE ReadKeys(i)
        BY <3>1 DEF ReadKeys
      <3>2. CASE Lookup(i)
        BY <3>2 DEF Lookup
      <3>3. CASE Stop(i)
        BY <3>3 DEF Stop
      <3> QED BY <1>5, <3>1, <3>2, <3>3
    <2>3. OneConfig' /\ ActiveIsOwn'
      BY <2>1, <2>2 DEF RestartInv, OneConfig, ActiveIsOwn, ActiveRows, Rows
    <2> QED BY <1>2, <2>1, <2>3 DEF RestartInv, Paired
  <1>6. ASSUME NEW i \in Instances, Deactivate(i) PROVE RestartInv'
    <2>1. ActiveRows' = {}
      <3>1. Rows' = Rows
        BY <1>6, RowTypes DEF Deactivate, Rows
      <3>2. \A n \in Rows : rows'[n].active = FALSE
        BY <1>6, RowTypes DEF Deactivate, Row
      <3> QED BY <3>1, <3>2 DEF ActiveRows
    <2>2. OneConfig' /\ ActiveIsOwn'
      BY <1>6, <2>1 DEF Deactivate, RestartInv, OneConfig, ActiveIsOwn
    <2> QED BY <1>2, <1>6, <2>2 DEF RestartInv, Paired, Deactivate
  <1>7. ASSUME NEW i \in Instances, Update(i) \/ Create(i) PROVE RestartInv'
    <2>1. /\ pc' = [pc EXCEPT ![i] = "serving"]
          /\ UNCHANGED <<config, tokens>>
          /\ pc[i] \in {"update", "create"}
      BY <1>7 DEF Update, Create
    <2>2. OneConfig'
      BY <2>1 DEF RestartInv, OneConfig
    <2>3. \A n \in ActiveRows' : rows'[n].key = config[i].public
      <3> SUFFICES ASSUME NEW n \in ActiveRows' PROVE rows'[n].key = config[i].public
        OBVIOUS
      <3>1. CASE Update(i)
        <4>1. n \in Rows /\ (n # target[i] => rows'[n] = rows[n])
          BY <3>1, RowTypes DEF Update, ActiveRows, Rows
        <4>2. CASE n = target[i]
          BY <3>1, <4>1, <4>2, RowTypes DEF Update, Rows
        <4>3. CASE n # target[i]
          BY <2>1, <4>1, <4>3 DEF RestartInv, ActiveIsOwn, ActiveRows
        <4> QED BY <4>2, <4>3
      <3>2. CASE Create(i)
        <4>1. /\ Len(rows') = Len(rows) + 1 /\ rows'[Len(rows) + 1].key = config[i].public
              /\ \A m \in Rows : rows'[m] = rows[m]
          BY <3>2, RowTypes, AppendProperties DEF Create, Rows
        <4>2. n = Len(rows) + 1 \/ n \in Rows
          BY <4>1, RowTypes DEF ActiveRows, Rows
        <4> QED BY <2>1, <4>1, <4>2 DEF RestartInv, ActiveIsOwn, ActiveRows
      <3> QED BY <1>7, <3>1, <3>2
    <2>4. ActiveIsOwn'
      BY <2>1, <2>3 DEF RestartInv, OneConfig, ActiveIsOwn
    <2> QED BY <1>2, <2>1, <2>2, <2>4 DEF RestartInv, Paired
  <1>8. ASSUME NEW i \in Instances, Sign(i) PROVE RestartInv'
    <2>1. UNCHANGED <<rows, pc, config>>
      BY <1>8 DEF Sign
    <2>2. PICK n \in Rows : SigningRow(n) /\ tokens' = tokens \cup {[kid |-> n, key |-> config[i].private]}
      BY <1>8 DEF Sign
    <2>3. rows[n].key = config[i].private
      BY <1>8, <2>2 DEF Sign, SigningRow, RestartInv, ActiveIsOwn, Paired
    <2>4. TokensVerify'
      BY <2>1, <2>2, <2>3 DEF RestartInv, TokensVerify, Verifies, Rows
    <2> QED BY <2>1, <2>4 DEF RestartInv, OneConfig, Paired, ActiveIsOwn, ActiveRows, Rows
  <1> QED BY <1>3, <1>4, <1>5, <1>6, <1>7, <1>8 DEF Next, Boot

(* If the key is rotated by restart, every token that any instance signs   *)
(* verifies, however the boots of the restarted instances interleave.      *)
THEOREM RestartRotation == ~Rolling => (Spec => []TokensVerify)
  <1> SUFFICES ASSUME ~Rolling PROVE Spec => []TokensVerify
    OBVIOUS
  <1>1. Init => RestartInv
    BY DefaultPair DEF Init, RestartInv, OneConfig, Paired, ActiveIsOwn, TokensVerify
  <1>2. KeyInv /\ RestartInv /\ [Next]_vars => RestartInv'
    BY RestartStep
  <1>3. RestartInv => TokensVerify
    BY DEF RestartInv
  <1> QED BY <1>1, <1>2, <1>3, KeyInvariant, PTL DEF Spec

-----------------------------------------------------------------------------
(* Instances that are never up at the same time.                           *)

(* Between the two writes of a boot no row is active, and one row is as    *)
(* soon as the instance serves.                                            *)
LoneInv ==
    /\ OneActiveKey
    /\ SigningAvailable
    /\ \A i \in Instances : pc[i] \in {"lookup", "update", "create"} => ActiveRows = {}

LEMMA LoneStep ==
  ASSUME KeyInv, LoneInv, OneInstanceUp, [Next]_vars
  PROVE  LoneInv'
  <1> USE DEF KeyInv, TypeOK, Phases
  <1>1. ASSUME rows' = rows,
               \A i \in Instances :
                  /\ pc'[i] = "serving" => pc[i] = "serving"
                  /\ pc'[i] \in {"lookup", "update", "create"} =>
                        pc[i] \in {"lookup", "update", "create"}
        PROVE  LoneInv'
    BY <1>1 DEF LoneInv, OneActiveKey, SigningAvailable, ActiveRows, Rows
  <1>2. CASE UNCHANGED vars
    BY <1>1, <1>2 DEF vars
  <1>3. ASSUME NEW i \in Instances,
               (\E k \in Bootable : Start(i, k)) \/ ReadKeys(i) \/ Lookup(i) \/ Stop(i) \/ Sign(i)
        PROVE  LoneInv'
    <2>1. CASE \E k \in Bootable : Start(i, k)
      BY <1>1, <2>1 DEF Start
    <2>2. CASE ReadKeys(i)
      BY <1>1, <2>2 DEF ReadKeys
    <2>3. CASE Lookup(i)
      BY <1>1, <2>3 DEF Lookup
    <2>4. CASE Stop(i)
      BY <1>1, <2>4 DEF Stop
    <2>5. CASE Sign(i)
      BY <1>1, <2>5 DEF Sign
    <2> QED BY <1>3, <2>1, <2>2, <2>3, <2>4, <2>5
  <1>4. ASSUME NEW i \in Instances, Deactivate(i) PROVE LoneInv'
    <2>1. ActiveRows' = {}
      <3>1. Rows' = Rows
        BY <1>4, RowTypes DEF Deactivate, Rows
      <3>2. \A n \in Rows : rows'[n].active = FALSE
        BY <1>4, RowTypes DEF Deactivate, Row
      <3> QED BY <3>1, <3>2 DEF ActiveRows
    <2>2. \A j \in Instances : pc'[j] # "serving"
      BY <1>4 DEF Deactivate, OneInstanceUp
    <2> QED BY <2>1, <2>2 DEF LoneInv, OneActiveKey, SigningAvailable
  <1>5. ASSUME NEW i \in Instances, Update(i) \/ Create(i) PROVE LoneInv'
    <2>1. /\ pc' = [pc EXCEPT ![i] = "serving"]
          /\ pc[i] \in {"update", "create"}
      BY <1>5 DEF Update, Create
    <2>2. ActiveRows = {}
      BY <2>1 DEF LoneInv
    <2>3. \E n : ActiveRows' = {n}
      <3>1. CASE Update(i)
        <4>1. /\ Rows' = Rows /\ target[i] \in Rows /\ rows'[target[i]].active = TRUE
              /\ \A n \in Rows : n # target[i] => rows'[n] = rows[n]
          BY <3>1, RowTypes DEF Update, TargetMatches, Rows
        <4>2. ActiveRows' = {target[i]}
          BY <2>2, <4>1 DEF ActiveRows
        <4> QED BY <4>2
      <3>2. CASE Create(i)
        <4>1. /\ Len(rows') = Len(rows) + 1 /\ rows'[Len(rows) + 1].active = TRUE
              /\ \A m \in Rows : rows'[m] = rows[m]
          BY <3>2, RowTypes, AppendProperties DEF Create, Rows
        <4>2. Rows' = Rows \cup {Len(rows) + 1} /\ Len(rows) + 1 \notin Rows
          BY <4>1, RowTypes DEF Rows
        <4>3. ActiveRows' = {Len(rows) + 1}
          BY <2>2, <4>1, <4>2 DEF ActiveRows
        <4> QED BY <4>3
      <3> QED BY <1>5, <3>1, <3>2
    <2>4. \A j \in Instances : pc'[j] \notin {"lookup", "update", "create"}
      BY <2>1 DEF OneInstanceUp
    <2> QED BY <2>3, <2>4 DEF LoneInv, OneActiveKey, SigningAvailable
  <1> QED BY <1>2, <1>3, <1>4, <1>5 DEF Next, Boot

(* While instances are never up at the same time, the one that serves has  *)
(* a key to sign with and the table names only that one, however often     *)
(* boots are cut off and whatever keys are configured in turn.             *)
THEOREM LoneInstance == Spec => LoneInstanceSigns
  <1>1. Init => LoneInv
    BY DEF Init, LoneInv, OneActiveKey, SigningAvailable, ActiveRows, Rows
  <1>2. KeyInv /\ LoneInv /\ OneInstanceUp /\ [Next]_vars => LoneInv'
    BY LoneStep
  <1>3. LoneInv => SigningAvailable /\ OneActiveKey
    BY DEF LoneInv
  <1> QED BY <1>1, <1>2, <1>3, KeyInvariant, PTL DEF Spec, LoneInstanceSigns

=============================================================================
