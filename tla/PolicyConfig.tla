----------------------------- MODULE PolicyConfig -----------------------------
(***************************************************************************)
(* PolicyConfig objects: the checks of their admission webhook             *)
(* (api/v2beta3/policyconfig_types.go, controllers) and the resolution of  *)
(* the configuration of an entity (internal/policies/policyconfig.go).     *)
(*                                                                         *)
(* A PolicyConfig is a record [name, match, config].  match is a function  *)
(* on the non-nil fields of spec.match, each a list; config is a function  *)
(* policy id -> (parameter -> value).  A target of "apps" or "resources"   *)
(* is a record [kind, name, namespace], with namespace "" for any.         *)
(***************************************************************************)
EXTENDS Integers, Sequences, FiniteSets, SequencesExt, FluxObject

CONSTANTS
    Lower,       \* strings.ToLower on the kinds in use
    Workspace,   \* namespace -> the value of its tenant label, or ""
    NoOwner      \* GetFluxObject returned nil

TargetFields == {"workspaces", "namespaces", "apps", "resources"}

Items(pconfig, field) ==
    IF field \in DOMAIN pconfig.match THEN pconfig.match[field] ELSE << >>

\* PolicyTargetApplication.ID and PolicyTargetResource.ID
ID(target) == <<Lower[target.kind], target.name, target.namespace>>

\* Plausible bug: only the first target of a config is compared.
TargetIDs_First(pconfig, field) ==
    LET items == Items(pconfig, field) IN
    {IF field \in {"apps", "resources"} THEN ID(items[i]) ELSE items[i] :
        i \in DOMAIN items \cap {1}}

\* The keys that checkTargetOverlap compares.
TargetIDs(pconfig, field) ==
    LET items == Items(pconfig, field) IN
    {IF field \in {"apps", "resources"} THEN ID(items[i]) ELSE items[i] : i \in DOMAIN items}

\* PolicyConfig.Validate: exactly one field of match is set.
Validate(pconfig) == \E field \in TargetFields : DOMAIN pconfig.match = {field}

\* The first field that is set, in the order of the if-else chain.
ComparedField(pconfig) ==
    CASE "workspaces" \in DOMAIN pconfig.match -> "workspaces"
      [] "namespaces" \in DOMAIN pconfig.match -> "namespaces"
      [] "apps"       \in DOMAIN pconfig.match -> "apps"
      [] OTHER                                 -> "resources"

checkTargetOverlap(pconfig, newConfig) ==
    LET field == ComparedField(pconfig) IN
    TargetIDs(pconfig, field) \cap TargetIDs(newConfig, field) # {}
-----------------------------------------------------------------------------
\* What GetFluxObject may return for the entity, nil included.
Owners(entity) ==
    IF FluxObjects(entity.labels) = {} THEN {NoOwner} ELSE FluxObjects(entity.labels)

\* The position where a loop over items with a break stops, if it does.
FirstWhere(items, Matches(_)) ==
    {i \in DOMAIN items : Matches(items[i]) /\ \A j \in 1..(i - 1) : ~Matches(items[j])}

WorkspaceTiers(pconfig, entity) ==
    {1 : i \in {i \in DOMAIN Items(pconfig, "workspaces") :
                   /\ Workspace[entity.namespace] # ""
                   /\ Items(pconfig, "workspaces")[i] = Workspace[entity.namespace]}}

NamespaceTiers(pconfig, entity) ==
    {2 : i \in {i \in DOMAIN Items(pconfig, "namespaces") :
                   Items(pconfig, "namespaces")[i] = entity.namespace}}

AppTiers(pconfig, owner) ==
    LET apps == Items(pconfig, "apps")
        Matches(app) == /\ owner # NoOwner
                        /\ app.name = owner.name /\ app.kind = owner.kind
                        /\ app.namespace \in {"", owner.namespace}
    IN {IF apps[i].namespace = "" THEN 3 ELSE 4 : i \in FirstWhere(apps, Matches)}

\* The loop stops at the first entry with the name and kind of the entity,
\* whether or not its namespace is the entity's.
ResourceTiers(pconfig, entity) ==
    LET resources == Items(pconfig, "resources")
        Matches(r) == r.name = entity.name /\ r.kind = entity.kind
    IN {IF resources[i].namespace = "" THEN 5 ELSE 6 :
          i \in {i \in FirstWhere(resources, Matches) :
                    resources[i].namespace \in {"", entity.namespace}}}

(***************************************************************************)
(* The lists GetPolicyConfig appends a config to: 1 workspaces, 2          *)
(* namespaces, 3 apps, 4 appsWithNamespace, 5 resources, 6                 *)
(* resourcesWithNamespace, the order in which it concatenates them.        *)
(***************************************************************************)
Tiers(pconfig, entity, owner) ==
    WorkspaceTiers(pconfig, entity) \cup NamespaceTiers(pconfig, entity)
        \cup AppTiers(pconfig, owner) \cup ResourceTiers(pconfig, entity)

\* Plausible bug: configs apply in the order the cache lists them.
AppliedBefore_ListOrder(a, b) == a[2] < b[2]

\* The order of allConfigs: by tier, then by position in the list.
AppliedBefore(a, b) == a[1] < b[1] \/ (a[1] = b[1] /\ a[2] < b[2])

(***************************************************************************)
(* GetPolicyConfig and override for the configs listed as `list`, when     *)
(* GetFluxObject returned owner[i] in the turn of the i-th: the last       *)
(* config that sets a parameter gives its value and its reference.         *)
(***************************************************************************)
GetPolicyConfig(list, entity, owner) ==
    LET applied == {a \in (1..6) \X DOMAIN list :
                       a[1] \in Tiers(list[a[2]], entity, owner[a[2]])}
        Config(a) == list[a[2]].config
        Setting(id, p) == {a \in applied : id \in DOMAIN Config(a) /\ p \in DOMAIN Config(a)[id]}
        Winner(S) == CHOOSE a \in S : \A b \in S \ {a} : AppliedBefore(b, a)
        ids == UNION {DOMAIN Config(a) : a \in applied}
        params(id) == UNION {DOMAIN Config(a)[id] : a \in {a \in applied : id \in DOMAIN Config(a)}}
    IN [id \in ids |-> [p \in params(id) |->
           LET a == Winner(Setting(id, p)) IN
           [value |-> Config(a)[id][p], configRef |-> list[a[2]].name]]]
=============================================================================
