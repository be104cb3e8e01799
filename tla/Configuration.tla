----------------------------- MODULE Configuration -----------------------------
(***************************************************************************)
(* The agent's configuration: GetAgentConfiguration                        *)
(* (configuration/config.go) on top of viper (external), and the checks of *)
(* app.Before in main.go.                                                  *)
(*                                                                         *)
(* The configuration file and the environment are functions from some of   *)
(* the Keys to values.  The key <<mode, "sinks">> stands for the sinks     *)
(* that are configured and enabled, <<mode, "address">> for the address,   *)
(* index and credentials of its Elasticsearch sink, which YAML may take    *)
(* for numbers.                                                            *)
(***************************************************************************)
EXTENDS Integers, FiniteSets

Modes == {"audit", "admission", "tfAdmission"}

Texts == {"accountId", "clusterId", "logLevel"}

Keys ==
    {"agent"} \X Texts
        \cup Modes \X {"enabled", "sinks", "address", "insertionMode"}
        \cup {<<"audit", "interval">>, <<"admission", "mutate">>}

String(text) == <<"string", text>>

Number(digits) == <<"number", digits>>

\* The value of a Go field that nothing is unmarshalled to.
Zero(key) ==
    CASE key[2] = "interval"            -> 0
      [] key[2] \in {"enabled", "mutate"} -> FALSE
      [] key[2] = "sinks"               -> {}
      [] key[2] = "address"             -> String("")
      [] OTHER                          -> ""

\* Those of the viper.SetDefault calls that matter here.
Defaults ==
    [key \in {<<"agent", "logLevel">>, <<"audit", "interval">>} |->
        IF key[2] = "interval" THEN 24 ELSE "info"]

\* viper.Get with AutomaticEnv: the environment goes first.
Lookup(file, env, key) ==
    IF key \in DOMAIN env THEN env[key]
    ELSE IF key \in DOMAIN file THEN file[key]
    ELSE IF key \in DOMAIN Defaults THEN Defaults[key]
    ELSE Zero(key)

\* viper.IsSet
IsSet(file, env, key) == key \in DOMAIN env \cup DOMAIN file \cup DOMAIN Defaults

\* viper.Unmarshal goes through the keys of the file and the defaults only;
\* a key that only the environment has is not among them.  It takes the
\* digits of a number for a string.
Unmarshalled(file, env, key) ==
    IF key \notin DOMAIN file \cup DOMAIN Defaults THEN Zero(key)
    ELSE IF key[2] = "address" THEN String(Lookup(file, env, key)[2])
    ELSE Lookup(file, env, key)

checkRequiredFields(file, env) ==
    \A text \in {"accountId", "clusterId"} : IsSet(file, env, <<"agent", text>>)

\* Plausible bug: the credentials are unmarshalled like everything else.
getField_Unmarshalled(file, env, key) == Unmarshalled(file, env, key)

\* What is not a string becomes the empty one.
getField(file, env, key) ==
    LET value == Lookup(file, env, key)
    IN IF value[1] = "string" THEN value ELSE String("")

\* The Elasticsearch sinks whose address and credentials are read again.
ReadAgain(file, env) ==
    {mode \in {"admission", "audit"} :
        /\ Unmarshalled(file, env, <<mode, "enabled">>)
        /\ "elastic" \in Unmarshalled(file, env, <<mode, "sinks">>)}

\* For a file that can be read; the call does not return for others, nor
\* for those without the required fields.
GetAgentConfiguration(file, env) ==
    [key \in Keys |->
        IF key \in ReadAgain(file, env) \X {"address"} THEN getField(file, env, key)
                                                       ELSE Unmarshalled(file, env, key)]

Enabled(config) == {mode \in Modes : config[<<mode, "enabled">>]}

\* app.Before: one of two modes is needed (Terraform is not among them),
\* and one of four log levels, in lower case.
Acceptable(config) ==
    /\ Enabled(config) \cap {"admission", "audit"} # {}
    /\ config[<<"agent", "logLevel">>] \in {"info", "warn", "debug", "error"}
=============================================================================
