------------------------------ MODULE PolicyEval ------------------------------
(***************************************************************************)
(* What one policy says about one entity: the body of the goroutine that   *)
(* OpaValidator.Validate starts for each policy                            *)
(* (pkg/policy-core/validation/opa_validation.go), with the filters of     *)
(* validation/common.go and the reading of the Rego answer of opa-core.    *)
(*                                                                         *)
(* Data.  An entity is a record [kind, namespace, name, labels], labels    *)
(* being a function on the label keys it has.  A policy is a record        *)
(*   id, enforce, mutate   as in domain.Policy                             *)
(*   targets, exclude      the filters; a Go list whose order cannot       *)
(*                         matter is a set, a Go map a function            *)
(*   params                declared parameters: name -> default value      *)
(*   parses                whether opa.Parse accepts its code              *)
(*   rego                  the Rego engine (external): a function from     *)
(*                         parameter maps to answers                       *)
(* An answer is [kind, items]: the Go kind of the value of the query and   *)
(* the violation objects in it.  A configuration (domain.PolicyConfig) is  *)
(* a function from policy ids to parameter overrides, or Nil.              *)
(***************************************************************************)
EXTENDS Integers, Sequences, FiniteSets, FiniteSetsExt

CONSTANTS
    Nil,        \* Go's nil: no configuration, no key, no value
    EmptyMap,   \* the mapping node that yaml.LookupCreate creates
    Lookup,     \* the paths of a document that yaml.LookupCreate resolves
    Encodable   \* the recommended values that can be written to a document

Wildcard == "*"

(***************************************************************************)
(* A label filter holds if one of its keys is on the entity with the       *)
(* wanted value, or with any value when the filter says "*".               *)
(***************************************************************************)
SatisfiesLabels(entity, filter) ==
    \E key \in DOMAIN filter \cap DOMAIN entity.labels :
        filter[key] \in {Wildcard, entity.labels[key]}

matchEntity(entity, policy) ==
    LET t == policy.targets IN
    /\ t.kinds = {} \/ entity.kind \in t.kinds
    /\ t.namespaces = {} \/ entity.namespace \in t.namespaces
    /\ t.labels = {} \/ \E filter \in t.labels : SatisfiesLabels(entity, filter)

\* A resource of the exclusion list is written "namespace/name".
isExcluded(entity, policy) ==
    \/ entity.namespace \in policy.exclude.namespaces
    \/ <<entity.namespace, entity.name>> \in policy.exclude.resources
    \/ SatisfiesLabels(entity, policy.exclude.labels)

(***************************************************************************)
(* The parameters handed to Rego: every declared parameter, with the value *)
(* of the configuration where it has one.  A parameter that the policy     *)
(* does not declare is ignored.                                            *)
(***************************************************************************)
Overrides(policy, config) ==
    IF config # Nil /\ policy.id \in DOMAIN config THEN config[policy.id] ELSE << >>

Parameters(policy, config) ==
    LET over == Overrides(policy, config) IN
    [p \in DOMAIN policy.params |->
        IF p \in DOMAIN over THEN over[p] ELSE policy.params[p]]

(***************************************************************************)
(* Policy.Eval: a non-empty list, a map or a string is a violation; an     *)
(* empty list, an undefined answer or a value of another kind is not.      *)
(***************************************************************************)
Eval(answer) ==
    CASE answer.kind = "error"                                  -> "error"
      [] answer.kind = "list" /\ answer.items # << >>           -> "violation"
      [] answer.kind \in {"map", "string"}                      -> "violation"
      [] OTHER                                                  -> "compliance"

\* The channel that the goroutine of `policy` sends to, or "none".
Verdict(policy, entity, config) ==
    CASE ~matchEntity(entity, policy) -> "none"
      [] isExcluded(entity, policy)   -> "none"
      [] ~policy.parses               -> "error"
      [] OTHER -> Eval(policy.rego[Parameters(policy, config)])

(***************************************************************************)
(* The occurrences of a violation: one per violation object.  Only an      *)
(* object (not a bare string) carries a key and a recommended value.       *)
(***************************************************************************)
parseOccurrence(item) ==
    IF item.isMap THEN [key |-> item.key, value |-> item.value]
                  ELSE [key |-> Nil, value |-> Nil]

Occurrences(policy, config) ==
    LET items == policy.rego[Parameters(policy, config)].items IN
    [i \in DOMAIN items |-> parseOccurrence(items[i])]

(***************************************************************************)
(* MutationResult.Mutate.  The document is a function from paths to        *)
(* values, Nil where there is none.  An occurrence that names a path and a *)
(* value is looked up with yaml.LookupCreate, which puts an empty map      *)
(* where there is nothing, before its value is converted: an occurrence    *)
(* whose value cannot be encoded is not applied, and may still leave       *)
(* that map behind.  The last applied occurrence for a path wins.          *)
(***************************************************************************)
LookedUp(o) == o.key \in Lookup /\ o.value # Nil

Mutable(o) == LookedUp(o) /\ o.value \in Encodable

\* Plausible bug: a path that does not resolve is made up.
Mutate_Anywhere(doc, occurrences) ==
    LET os == {occurrences[i] : i \in DOMAIN occurrences}
        For(k) == {o \in os : o.key = k /\ o.value # Nil}
    IN [k \in DOMAIN doc \cup {o.key : o \in os \ For(Nil)} |->
           IF For(k) # {} THEN (CHOOSE o \in For(k) : TRUE).value ELSE doc[k]]

Mutate(doc, occurrences) ==
    LET On(Applies(_), k) ==
            {i \in DOMAIN occurrences : Applies(occurrences[i]) /\ occurrences[i].key = k}
    IN [k \in DOMAIN doc |->
           IF On(Mutable, k) # {} THEN occurrences[Max(On(Mutable, k))].value
           ELSE IF On(LookedUp, k) # {} /\ doc[k] = Nil THEN EmptyMap
           ELSE doc[k]]

\* The occurrences that Mutate did not mark as mutated.
UnmutatedOccurrences(occurrences) == {i \in DOMAIN occurrences : ~Mutable(occurrences[i])}

\* Mutate sets the label pac.weave.works/mutated if it applied an occurrence.
SetsLabel(occurrences) == \E i \in DOMAIN occurrences : Mutable(occurrences[i])
=============================================================================
