------------------------------- MODULE MCAuditor -------------------------------
(***************************************************************************)
(* Small instances of Auditor.                                             *)
(***************************************************************************)
EXTENDS Auditor

rule(verb, group, resource, names) ==
    [verbs |-> {verb}, apiGroups |-> {group}, resources |-> {resource}, resourceNames |-> names]

resource(group, version, name, verb) ==
    [group |-> group, version |-> version, name |-> name, verbs |-> {verb}, parses |-> TRUE]

mcAPIResources ==
    <<resource("pac.weave.works", "v2beta3", "policies", "list"),
      resource("apps", "v1", "deployments", "list"),
      resource("", "v1", "secrets", "list"),
      resource("", "v1", "bindings", "create"),
      [resource("?", "", "strange", "list") EXCEPT !.parses = FALSE]>>

\* Deployments may be listed as a whole, secrets by name.
mcRules ==
    <<rule("get", "*", "*", {}),
      rule("list", "pac.weave.works", "policies", {}),
      rule("*", "apps", "*", {"*"}),
      rule("list", "", "secrets", {"b"})>>

\* A rule for some names comes before the one for all.
namesFirstRules ==
    <<rule("list", "pac.weave.works", "policies", {}),
      rule("list", "", "secrets", {"b"}),
      rule("list", "*", "*", {})>>

obj(name, parent, ignored) == [name |-> name, parent |-> parent, ignored |-> ignored]

mcObjects ==
    [r \in Resources |->
        CASE r.name = "deployments" -> {obj("a", FALSE, FALSE), obj("b", FALSE, FALSE),
                                        obj("agent", FALSE, TRUE)}
          [] r.name = "secrets"     -> {obj("a", FALSE, FALSE), obj("b", TRUE, FALSE),
                                        obj("b", FALSE, FALSE)}
          [] OTHER                  -> {}]
=============================================================================
