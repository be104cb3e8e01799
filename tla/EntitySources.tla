----------------------------- MODULE EntitySources -----------------------------
(***************************************************************************)
(* Which resources the audit lists: GetEntitiesSources and                 *)
(* getValidateRules (internal/entities/k8s/k8s.go), from the agent's RBAC  *)
(* rules and the API resources of the cluster.                             *)
(*                                                                         *)
(* A rule is a record [verbs, apiGroups, resources, resourceNames] of      *)
(* sets, an API resource a record [group, version, name, verbs, parses],   *)
(* where parses says whether its group version can be parsed.  Rules and   *)
(* API resources come in lists, whose order matters.                       *)
(***************************************************************************)
EXTENDS Integers, Sequences, FiniteSets, FiniteSetsExt

allAllowed == "*"

listVerb == "list"

\* PolicyGroupVersionResource of api/v2beta3
IsPolicyResource(r) ==
    r.group = "pac.weave.works" /\ r.version = "v2beta3" /\ r.name = "policies"

checkAllowed(subject, allowed) == allowed \cap {subject, allAllowed} # {}

\* Plausible bug: "*" is kept as if it were the name of an object.
newRulesCache_StarKept(rule) ==
    [apiGroups |-> rule.apiGroups, resources |-> rule.resources,
     resourceNames |-> rule.resourceNames]

\* The rule's resource names, none (which stands for all) if "*" is one.
newRulesCache(rule) ==
    [apiGroups |-> rule.apiGroups, resources |-> rule.resources,
     resourceNames |-> IF allAllowed \in rule.resourceNames THEN {} ELSE rule.resourceNames]

\* These numbers in increasing order: the positions a loop stops at.
Ascending(numbers) ==
    [n \in 1..Cardinality(numbers) |->
        CHOOSE i \in numbers : Cardinality({k \in numbers : k <= i}) = n]

AllowsList(rule) == checkAllowed(listVerb, rule.verbs)

rulesCaches(rules) ==
    LET listing == Ascending({i \in DOMAIN rules : AllowsList(rules[i])})
    IN [j \in DOMAIN listing |-> newRulesCache(rules[listing[j]])]

\* Without a rule for the policies the agent does not start.
getValidateRules(rules) ==
    LET caches == rulesCaches(rules) IN
    \E i \in DOMAIN caches : /\ checkAllowed("policies", caches[i].resources)
                             /\ checkAllowed("pac.weave.works", caches[i].apiGroups)

Allows(cache, r) == checkAllowed(r.group, cache.apiGroups) /\ checkAllowed(r.name, cache.resources)

\* The rules, by position, that allow resource r.
Allowing(caches, r) == {j \in DOMAIN caches : Allows(caches[j], r)}

IsSource(caches, r) ==
    /\ r.parses /\ listVerb \in r.verbs
    /\ ~IsPolicyResource(r)
    /\ Allowing(caches, r) # {}

(***************************************************************************)
(* A resource that can be listed, other than the policies, becomes one     *)
(* source, by the first rule that allows it.                               *)
(***************************************************************************)
GetEntitiesSources(rules, apiResources) ==
    LET caches == rulesCaches(rules)
        listed == Ascending({i \in DOMAIN apiResources : IsSource(caches, apiResources[i])})
    IN [n \in DOMAIN listed |->
           LET r == apiResources[listed[n]] IN
           [resource      |-> r,
            resourceNames |-> caches[Min(Allowing(caches, r))].resourceNames]]

\* The agent has the permission to list resource r, under the name `name`.
MayList(rules, r, name) ==
    \E i \in DOMAIN rules :
        /\ AllowsList(rules[i]) /\ Allows(rules[i], r)
        /\ rules[i].resourceNames = {} \/ checkAllowed(name, rules[i].resourceNames)
=============================================================================
