------------------------------ MODULE Settings ------------------------------
(***************************************************************************)
(* How a process looks a setting up when it starts (setting and            *)
(* u64_setting of backend/src/libs/config.rs): in the environment, then in *)
(* the config file, then the default.  A source is the set of the values   *)
(* that it gives for the setting: one or none.                             *)
(***************************************************************************)
EXTENDS Integers

First(env, file, default) ==
    IF env # {} THEN env ELSE IF file # {} THEN file ELSE {default}

(* An empty text is a value like any other.                                *)
Setting(env, file, default) == First(env, file, default)

(* A number in the environment that does not parse counts as not given.    *)
U64Setting(env, file, default) == First(env \cap Nat, file, default)

(* Everything that sources over these values may yield.                    *)
SettingValues(values, default) ==
    LET sources == {{}} \cup {{v} : v \in values}
    IN  UNION {Setting(env, file, default) : env, file \in sources}

=============================================================================
