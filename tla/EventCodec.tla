------------------------------ MODULE EventCodec ------------------------------
(***************************************************************************)
(* Policy validations as Kubernetes events, and back                       *)
(* (pkg/policy-core/domain/policy_validation.go), and as lines of JSON.    *)
(*                                                                         *)
(* A policy validation is a record [id, text, message, type, trigger,      *)
(* status, enforced, occurrences, policy, entity, broken].  text stands    *)
(* for the strings that are copied as they are (account, cluster, name,    *)
(* category, severity, ...), a policy is [id, enforce, tags, standards],   *)
(* an entity [ref, labels, manifest] with ref = [kind, name, namespace],   *)
(* an occurrence [message, mutated].  standards stands for the policy's    *)
(* parameters, too: both are JSON.  broken: a part of it is not JSON.      *)
(* A string that is split at commas is the list of its parts, a tag one or *)
(* more parts.                                                             *)
(***************************************************************************)
EXTENDS Integers, Sequences, SequencesExt, FluxObject

PolicyValidationStatusViolating == "Violation"
PolicyValidationStatusCompliant == "Compliance"
EventReasonPolicyViolation == "PolicyViolation"
EventReasonPolicyCompliance == "PolicyCompliance"
NamespaceDefault == "default"

Marshal(value) == [json |-> value]

Unmarshal(text) == text.json

\* Occurrence.Mutated has the tag json:"-".
MarshalOccurrences(occurrences) ==
    Marshal([i \in DOMAIN occurrences |-> [message |-> occurrences[i].message]])

UnmarshalOccurrences(text) ==
    [i \in DOMAIN Unmarshal(text) |-> [message |-> Unmarshal(text)[i].message, mutated |-> FALSE]]

\* strings.Join(tags, ","); of no tags it is the empty string, whose only
\* part is empty.
JoinTags(tags) == IF tags = << >> THEN <<"">> ELSE FlattenSeq(tags)

\* strings.Split(text, ",")
SplitTags(text) == [i \in DOMAIN text |-> <<text[i]>>]

\* fmt.Sprint of a boolean
Sprint(b) == IF b THEN "true" ELSE "false"

\* Plausible bug: the default is used for everything.
ParseEnforced_Default(text) == TRUE

\* strconv.ParseBool, with the default TRUE for what it does not know.
ParseEnforced(text) == text \notin {"0", "f", "F", "false", "False", "FALSE"}

\* Only for results that are not broken; the function returns an error for
\* the others.  The name of the event, with its timestamp, is left out.
NewK8sEventFromPolicyValidation(result) ==
    LET violating == result.status = PolicyValidationStatusViolating
        ref == result.entity.ref
    IN [type      |-> IF violating THEN "Warning" ELSE "Normal",
        reason    |-> IF violating THEN EventReasonPolicyViolation
                                   ELSE EventReasonPolicyCompliance,
        action    |-> IF violating THEN "Rejected" ELSE "Allowed",
        namespace |-> IF ref.namespace = "" THEN NamespaceDefault ELSE ref.namespace,
        labels    |-> [id |-> result.id, type |-> result.type, trigger |-> result.trigger],
        annotations |->
            [text            |-> result.text,
             policy_id       |-> result.policy.id,
             standards       |-> Marshal(result.policy.standards),
             entity_manifest |-> Marshal(result.entity.manifest),
             occurrences     |-> MarshalOccurrences(result.occurrences),
             tags            |-> JoinTags(result.policy.tags),
             enforce         |-> Sprint(result.policy.enforce)],
        involvedObject |-> ref,
        message        |-> result.message]

\* The fields of the result that are read from the event's annotations.
FromAnnotations(annotations) ==
    [text        |-> annotations.text,
     policy_id   |-> annotations.policy_id,
     enforced    |-> ParseEnforced(annotations.enforce),
     standards   |-> Unmarshal(annotations.standards),
     manifest    |-> Unmarshal(annotations.entity_manifest),
     occurrences |-> UnmarshalOccurrences(annotations.occurrences),
     tags        |-> SplitTags(annotations.tags)]

StatusOf(reason) ==
    IF reason = EventReasonPolicyViolation THEN PolicyValidationStatusViolating
                                           ELSE PolicyValidationStatusCompliant

NewPolicyValidationFRomK8sEvent(event) ==
    LET read == FromAnnotations(event.annotations)
    IN [id          |-> event.labels.id,
        text        |-> read.text,
        message     |-> event.message,
        type        |-> event.labels.type,
        trigger     |-> event.labels.trigger,
        status      |-> StatusOf(event.reason),
        enforced    |-> read.enforced,
        occurrences |-> read.occurrences,
        policy      |-> [id |-> read.policy_id, enforce |-> FALSE, tags |-> read.tags,
                         standards |-> read.standards],
        entity      |-> [ref |-> event.involvedObject, labels |-> << >>,
                         manifest |-> read.manifest],
        broken      |-> FALSE]

\* json.Encoder.Encode of a whole result; the labels of the entity have the
\* tag json:"-", too.
EncodeResult(result) ==
    Marshal([id |-> result.id, text |-> result.text, message |-> result.message,
             type |-> result.type, trigger |-> result.trigger, status |-> result.status,
             enforced |-> result.enforced, policy |-> result.policy,
             occurrences |-> MarshalOccurrences(result.occurrences),
             entity |-> [ref |-> result.entity.ref, manifest |-> result.entity.manifest]])
=============================================================================
