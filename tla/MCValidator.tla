----------------------------- MODULE MCValidator -----------------------------
(***************************************************************************)
(* Instances of Validator for TLC: concrete policies that between them     *)
(* reach every verdict, every early return of the worker and every case of *)
(* the mutation loop.                                                      *)
(***************************************************************************)
EXTENDS Validator

Answer(kind, items) == [kind |-> kind, items |-> items]

Fix(key, value) == [isMap |-> TRUE, key |-> key, value |-> value]

NoTargets == [kinds |-> {}, namespaces |-> {}, labels |-> {}]

NoExclude == [namespaces |-> {}, resources |-> {}, labels |-> << >>]

\* A policy without parameters that answers the same to everything.
Const(id, mutates, answer) ==
    [id |-> id, enforce |-> TRUE, mutate |-> mutates, targets |-> NoTargets,
     exclude |-> NoExclude, params |-> << >>, parses |-> TRUE,
     rego |-> [p \in {<< >>} |-> answer]]

\* Violated unless its parameter is raised to 2 by a configuration.
MinReplicas ==
    [Const("minReplicas", TRUE, Answer("list", << >>)) EXCEPT
        !.params = [count |-> 1],
        !.rego = [p \in [{"count"} -> 1..2] |->
                     IF p.count = 1 THEN Answer("list", <<Fix("replicas", "r3"), Fix("replicas", "r2")>>)
                                    ELSE Answer("list", << >>)]]

\* Recommends another value for the same path.
MaxReplicas == Const("maxReplicas", TRUE, Answer("map", <<Fix("replicas", "r1")>>))

\* A value that cannot be encoded, for a path the document does not have.
BadValue == Const("badValue", TRUE,
                  Answer("list", <<Fix("owner", "1e999"), Fix(Nil, "r1")>>))

\* Violated, with a recommendation, but not a mutating policy.
AdviceOnly == Const("adviceOnly", FALSE, Answer("map", <<Fix("image", "v2")>>))

Undefined == Const("undefined", FALSE, Answer("undefined", << >>))

Broken == [Undefined EXCEPT !.id = "broken", !.parses = FALSE]

\* Excluded for the entity by name; targeted by label.
Exempt == [AdviceOnly EXCEPT !.id = "exempt",
                             !.targets.labels = {[app |-> "*"]},
                             !.exclude.resources = {<<"default", "web">>}]

Deployment == [kind |-> "Deployment", namespace |-> "default", name |-> "web",
               labels |-> [app |-> "web"]]

mcEntities == {Deployment}

mcManifest == [replicas |-> "r5", image |-> "v1", owner |-> Nil]

mcLookup == DOMAIN mcManifest

mcEncodable == {"r1", "r2", "r3", "v2"}

mcConfigs == {Nil, [minReplicas |-> [count |-> 2, unknown |-> 7]]}

mcPool == {MinReplicas, MaxReplicas, BadValue, AdviceOnly, Broken, Exempt}
=============================================================================
