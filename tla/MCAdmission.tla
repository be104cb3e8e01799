------------------------------ MODULE MCAdmission ------------------------------
(***************************************************************************)
(* Small instances of Admission: objects with two fields, labelled as      *)
(* mutated or not, and policies that want a field to be "good"; one of the *)
(* policies leaves objects with the label alone.                           *)
(***************************************************************************)
EXTENDS Admission

Fields == {"image", "owner"}

mcLookup == Fields
mcEncodable == {"good", "other"}

\* The object has the label of mutated objects, or (Nil) has it not.
Labelled(fields, label) == {f @@ (MutatedLabel :> label) : f \in fields}

mcDocuments == Labelled([Fields -> {"bad", "good", Nil}], Nil)
                   \cup Labelled({[image |-> "bad", owner |-> Nil]}, "")
AllDocuments ==
    UNION {Labelled([Fields -> {"bad", "good", "other", Nil, EmptyMap}], l) : l \in {Nil, ""}}

anything == [kinds |-> {}, namespaces |-> {}, labels |-> {}]
nothing == [namespaces |-> {}, resources |-> {}, labels |-> << >>]

\* The policy objects to a field that is not good, and recommends a value
\* for `key`.
Wants(id, field, key, value) ==
    [id |-> id, provider |-> "kubernetes", enforce |-> TRUE, mutate |-> TRUE,
     targets |-> anything, exclude |-> nothing, params |-> << >>, parses |-> TRUE,
     rego |-> [d \in AllDocuments |-> [parameters \in {<< >>} |->
                 [kind |-> "list",
                  items |-> IF d[field] = "good" THEN << >>
                            ELSE <<[isMap |-> TRUE, key |-> key, value |-> value]>>]]]]

mcPool ==
    {[Wants("image", "image", "image", "good") EXCEPT !.mutate = FALSE],
     Wants("owner", "owner", "owner", "good"),
     [Wants("advice", "image", "owner", "other") EXCEPT !.enforce = FALSE],
     [Wants("ghost", "owner", "ghost", "good")
         EXCEPT !.exclude.labels = MutatedLabel :> "*"],
     [Wants("broken", "owner", "owner", "good") EXCEPT !.parses = FALSE],
     [Wants("plan", "image", "image", "good") EXCEPT !.provider = "terraform", !.enforce = FALSE]}
=============================================================================
