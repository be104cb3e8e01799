------------------------ MODULE MCPolicyConfigWebhook ------------------------
(***************************************************************************)
(* Configs that between them target one deployment in all six ways, some   *)
(* of which overlap, and one that no webhook should let in.                *)
(***************************************************************************)
EXTENDS PolicyConfigWebhook

Target(kind, namespace) == [kind |-> kind, name |-> "web", namespace |-> namespace]

Sets(value) == [replicas |-> [count |-> value]]

PConfig(name, match, value) == [name |-> name, match |-> match, config |-> Sets(value)]

mcCandidates == {
    PConfig("a", [namespaces |-> <<"dev">>], "1"),
    PConfig("b", [namespaces |-> <<"prod", "dev">>], "2"),
    PConfig("b", [workspaces |-> <<"team">>], "3"),
    PConfig("c", [apps |-> <<Target("HelmRelease", "prod"), Target("HelmRelease", "flux")>>], "4"),
    PConfig("c", [apps |-> <<Target("HelmRelease", "flux")>>], "5"),
    PConfig("a", [apps |-> <<Target("Kustomization", "flux")>>], "0"),
    PConfig("a", [resources |-> <<Target("Deployment", "")>>], "6"),
    PConfig("b", [resources |-> <<Target("deployment", "dev")>>], "7"),
    PConfig("c", [resources |-> <<Target("Deployment", "dev")>>], "8"),
    PConfig("c", [namespaces |-> <<"prod">>, resources |-> <<Target("Deployment", "")>>], "9")}

Web(labels) == [kind |-> "Deployment", name |-> "web", namespace |-> "dev", labels |-> labels]

\* A chart's manifest that a Kustomization applies may carry both.
FluxLabels(controllers) ==
    [l \in controllers \X {"name", "namespace"} |-> IF l[2] = "name" THEN "web" ELSE "flux"]

mcEntities == {Web(FluxLabels(vs)) : vs \in {{}, {"helm"}, {"helm", "kustomize"}}}

mcLower == [Deployment |-> "deployment", deployment |-> "deployment",
            HelmRelease |-> "helmrelease", Kustomization |-> "kustomization"]

mcWorkspace == [n \in {"dev", "prod"} |-> IF n = "dev" THEN "team" ELSE ""]
=============================================================================
