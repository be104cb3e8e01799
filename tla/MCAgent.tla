------------------------------- MODULE MCAgent -------------------------------
(***************************************************************************)
(* Instance of Agent for TLC: configurations with the modes, sinks and     *)
(* mistakes that make a difference.                                        *)
(***************************************************************************)
EXTENDS Agent

Identity ==
    (<<"agent", "accountId">> :> "account") @@ (<<"agent", "clusterId">> :> "cluster")

Mode(mode, sinks) == (<<mode, "enabled">> :> TRUE) @@ (<<mode, "sinks">> :> sinks)

Case(file, env, hangs) == [file |-> file, env |-> env, hangs |-> hangs]

NoEnv == << >>

Mutate == <<"admission", "mutate">> :> TRUE

Elastic(mode, address) ==
    (<<mode, "insertionMode">> :> "insert") @@ (<<mode, "address">> :> address)

MCCases ==
    { \* the sinks of audits hang
      Case(Identity @@ Mode("audit", {"k8sEvents"}) @@ Mode("admission", {"elastic"})
             @@ Elastic("admission", String("file")) @@ Mutate,
           NoEnv, {<<"audit", "k8sEvents">>}),
      \* those of Terraform do
      Case(Identity @@ Mode("admission", {"fluxNotification"}) @@ Mode("tfAdmission", {"filesystem"}),
           NoEnv, {<<"tfAdmission", "filesystem">>}),
      \* a sink that never ends beside one that does
      Case(Identity @@ Mode("audit", {"filesystem", "k8sEvents"}), NoEnv, {}),
      \* two sinks of a mode, addressed by the environment
      Case(Identity @@ Mode("admission", {"k8sEvents", "elastic"})
             @@ (<<"admission", "insertionMode">> :> "upsert") @@ Mutate,
           <<"admission", "address">> :> String("env"), {<<"admission", "k8sEvents">>}),
      \* environment over file, and a number
      Case(Identity @@ Mode("audit", {"elastic"}) @@ Elastic("audit", String("file")),
           <<"audit", "address">> :> String("env"), {}),
      Case(Identity @@ Mode("audit", {"elastic"}) @@ Elastic("audit", Number("5")), NoEnv, {}),
      \* Terraform without an address for Elasticsearch
      Case(Identity @@ Mode("admission", {}) @@ Mode("tfAdmission", {"elastic"})
             @@ (<<"tfAdmission", "insertionMode">> :> "insert"),
           <<"tfAdmission", "address">> :> String("env"), {}),
      \* mistakes
      Case(Identity @@ Mode("audit", {"k8sEvents"}) @@ (<<"audit", "interval">> :> 0), NoEnv, {}),
      Case(Identity @@ Mode("admission", {"fluxNotification", "elastic"})
             @@ (<<"admission", "insertionMode">> :> "update"),
           NoEnv, {}),
      Case(Identity @@ Mode("tfAdmission", {"k8sEvents"}), NoEnv, {}),
      Case(Identity @@ Mode("audit", {}) @@ (<<"agent", "logLevel">> :> "Info"), NoEnv, {}),
      Case((<<"agent", "accountId">> :> "account") @@ Mode("admission", {}), NoEnv, {}),
      Case((<<"agent", "accountId">> :> "account") @@ Mode("admission", {}),
           <<"agent", "clusterId">> :> "cluster", {}),
      Case((<<"agent", "clusterId">> :> "") @@ Identity @@ Mode("admission", {}), NoEnv, {}) }
=============================================================================
