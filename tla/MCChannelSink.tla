----------------------------- MODULE MCChannelSink -----------------------------
(***************************************************************************)
(* Small instances of ChannelSink.                                         *)
(***************************************************************************)
EXTENDS ChannelSink

\* A violation found by an audit, of an object that Flux manages.
plain ==
    [id |-> "id1", text |-> "t", message |-> "m", type |-> "Audit", trigger |-> "Initial",
     status |-> PolicyValidationStatusViolating, enforced |-> FALSE,
     occurrences |-> <<[message |-> "o1", mutated |-> TRUE],
                       [message |-> "o2", mutated |-> FALSE]>>,
     policy |-> [id |-> "p1", enforce |-> FALSE, tags |-> <<<<"a">>, <<"b">>>>,
                 standards |-> "cis"],
     entity |-> [ref |-> [kind |-> "Deployment", name |-> "web", namespace |-> "apps"],
                 labels |-> [k \in {"kustomize"} \X {"name", "namespace"} |-> k[1]],
                 manifest |-> "y1"],
     broken |-> FALSE]

\* A compliance of an object without owner and namespace.
orphan ==
    [plain EXCEPT !.id = "id2", !.message = "", !.status = PolicyValidationStatusCompliant,
                  !.enforced = TRUE, !.occurrences = << >>,
                  !.policy = [id |-> "p2", enforce |-> TRUE, tags |-> << >>, standards |-> "gdpr"],
                  !.entity = [ref |-> [kind |-> "Node", name |-> "n1", namespace |-> ""],
                              labels |-> << >>, manifest |-> "y2"]]

broken == [plain EXCEPT !.id = "id3", !.broken = TRUE]

mcResults == {plain, orphan, broken}

plainResults == {plain}
=============================================================================
