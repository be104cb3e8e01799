------------------------------- MODULE Admission -------------------------------
(***************************************************************************)
(* What the agent answers to requests: the admission handler               *)
(* (internal/admission), the mutation handler (internal/mutation) and the  *)
(* Terraform handler (internal/terraform), each of which calls its own     *)
(* OpaValidator.Validate, on policies that change in the cache meanwhile.  *)
(*                                                                         *)
(* One request is followed.  The API server (external) hands an object to  *)
(* the mutation webhook, when there is one, applies its patch, and hands   *)
(* the result to the admission webhook.  It gives up on a webhook that     *)
(* does not answer in time, and goes by the webhook's failure policy.      *)
(*                                                                         *)
(* Validate is used by its contract (ValidatorSpec): it fails, or it       *)
(* decides on one reading of the policies.  The documents are functions    *)
(* from paths to values, Nil where there is nothing; one of the paths is   *)
(* the label of mutated objects, the only label that matters here.  A      *)
(* policy's `rego` here is a function from documents to Rego engines       *)
(* (PolicyEval), for the answer depends on both.                           *)
(***************************************************************************)
EXTENDS PolicyEval, SequencesExt

CONSTANTS
    Pool,           \* the policies that may be in the cache
    Namespaces,     \* the namespaces of requests
    Documents,      \* the objects of requests
    MaxChanges      \* bound on the changes of the policies

ASSUME AdmissionAssumption == IsFiniteSet(Pool) /\ MaxChanges \in Nat

\* mutatedLabel: the path metadata.labels["pac.weave.works/mutated"]
MutatedLabel == "pac.weave.works/mutated"

\* parseKeyPath splits a key at its dots, so that no key leads to the label.
ASSUME DocumentAssumption ==
    /\ MutatedLabel \notin Lookup
    /\ \A d \in Documents : Lookup \cup {MutatedLabel} \subseteq DOMAIN d

VARIABLES
    settings,    \* [mutate, failurePolicy]: config.Admission.Mutate, and
                 \* "Fail" or "Ignore" of both webhooks
    policies,    \* the policies in the cache
    changes,     \* how often they changed
    request,     \* [webhook, namespace, doc]: the request as submitted
    doc,         \* the object as it stands
    phase,       \* where the request is
    cause,       \* why it ended there
    readings     \* handler -> the policies it decided on

vars == <<settings, policies, changes, request, doc, phase, cause, readings>>

\* metav1.NamespacePublic, metav1.NamespaceSystem
ExcludedNamespaces == {"kube-public", "kube-system"}

Init ==
    /\ settings \in [mutate : BOOLEAN, failurePolicy : {"Fail", "Ignore"}]
    /\ policies \in SUBSET Pool
    /\ changes = 0
    /\ request \in [webhook : {"kubernetes", "terraform"}, namespace : Namespaces, doc : Documents]
    /\ doc = request.doc
    /\ phase = IF request.webhook = "terraform" THEN "terraform"
               ELSE IF settings.mutate THEN "mutation" ELSE "admission"
    /\ cause = "none"
    /\ readings = << >>

PolicyChange ==
    /\ changes < MaxChanges
    /\ changes' = changes + 1
    /\ \E p \in Pool : policies' = IF p \in policies THEN policies \ {p} ELSE policies \cup {p}
    /\ UNCHANGED <<settings, request, doc, phase, cause, readings>>
-----------------------------------------------------------------------------
\* PoliciesWatcher.GetAll: the policies of the validator's provider.
GetAll(provider) == {p \in policies : p.provider = provider}

\* NewEntityFromSpec: the labels are those of the object at hand.
Labels(d) == [l \in {k \in {MutatedLabel} : d[k] # Nil} |-> d[l]]

Entity(d) == [kind |-> "Deployment", namespace |-> request.namespace, name |-> "app",
              labels |-> Labels(d)]

On(p, d) == [p EXCEPT !.rego = p.rego[d]]

VerdictOn(p, d) == Verdict(On(p, d), Entity(d), Nil)

OccurrencesOn(p, d) == Occurrences(On(p, d), Nil)

\* The violation objects of an answer are a list.
ASSUME RegoAssumption ==
    \A p \in Pool, d \in Documents :
        LET os == OccurrencesOn(p, d) IN Len(os) \in Nat /\ DOMAIN os = 1..Len(os)

Violated(ps, d) == {p \in ps : VerdictOn(p, d) = "violation"}

\* Validate returns a summary.
Decides(ps, d) == \A p \in ps : VerdictOn(p, d) # "error"

\* MutationResult.Mutate, of a document whose label is one of its paths.
MutateAndLabel(m, os) ==
    IF SetsLabel(os) THEN [Mutate(m, os) EXCEPT ![MutatedLabel] = ""] ELSE Mutate(m, os)

\* Plausible bug: the flag `mutate` of a policy is not looked at.
Mutations_All(ps, d) ==
    LET Step(m, p) == MutateAndLabel(m, OccurrencesOn(p, d))
    IN {FoldLeft(Step, d, order) : order \in SetToSeqs(Violated(ps, d))}

(***************************************************************************)
(* The mutated documents: the violations arrive in any order.              *)
(***************************************************************************)
Mutations(ps, d) ==
    LET Step(m, p) == IF p.mutate THEN MutateAndLabel(m, OccurrencesOn(p, d)) ELSE m
    IN {FoldLeft(Step, d, order) : order \in SetToSeqs(Violated(ps, d))}

Reads(handler, ps) == readings' = [h \in DOMAIN readings \cup {handler} |->
                                      IF h = handler THEN ps ELSE readings[h]]

End(outcome, why) == phase' = outcome /\ cause' = why
-----------------------------------------------------------------------------
(***************************************************************************)
(* MutationHandler.Handle                                                  *)
(***************************************************************************)
MutationHandle ==
    LET ps == GetAll("kubernetes") IN
    /\ phase = "mutation"
    /\ \/ /\ request.namespace \in ExcludedNamespaces
          /\ phase' = "admission"
          /\ UNCHANGED <<doc, cause, readings>>
       \/ /\ request.namespace \notin ExcludedNamespaces
          /\ Decides(ps, doc)
          /\ doc' \in Mutations(ps, doc)
          /\ Reads("mutation", ps)
          /\ phase' = "admission"
          /\ UNCHANGED cause
    /\ UNCHANGED <<settings, policies, changes, request>>

\* Plausible bug: the flag `enforce` of a policy is not looked at.
Allowed_None(violated) == violated = {}

\* The loop over the violations: allowed unless one of them is enforced.
Allowed(violated) == \A p \in violated : ~p.enforce

\* Plausible bug: the object is judged as it was submitted.
Reviewed_Submitted == request.doc

\* req.Object: the object with the patches of the mutation webhooks.
Reviewed == doc

(***************************************************************************)
(* AdmissionHandler.Handle                                                 *)
(***************************************************************************)
AdmissionHandle ==
    LET ps == GetAll("kubernetes") IN
    /\ phase = "admission"
    /\ \/ /\ request.namespace \in ExcludedNamespaces
          /\ End("admitted", "excluded")
          /\ UNCHANGED readings
       \/ /\ request.namespace \notin ExcludedNamespaces
          /\ Decides(ps, Reviewed)
          /\ Reads("admission", ps)
          /\ IF Allowed(Violated(ps, Reviewed)) THEN End("admitted", "validated")
                                                ELSE End("denied", "violations")
    /\ UNCHANGED <<settings, policies, changes, request, doc>>

\* handleErrors: ValidationResponse(false, ...) with status 500
ErrorOutcome == "denied"

\* The body is not JSON, a policy could not be evaluated, or the policies or
\* their configuration could not be read: an answer, not a failed webhook.
HandleError ==
    /\ phase \in {"mutation", "admission"}
    /\ request.namespace \notin ExcludedNamespaces
    /\ End(ErrorOutcome, "error")
    /\ UNCHANGED <<settings, policies, changes, request, doc, readings>>

\* The API server's timeout, or a webhook that cannot be reached.
WebhookFails ==
    /\ phase \in {"mutation", "admission"}
    /\ IF settings.failurePolicy = "Fail" THEN End("denied", "unavailable")
       ELSE IF phase = "mutation" THEN phase' = "admission" /\ UNCHANGED cause
       ELSE End("admitted", "unavailable")
    /\ UNCHANGED <<settings, policies, changes, request, doc, readings>>

(***************************************************************************)
(* TerraformHandler.ServeHTTP: every violation counts, enforced or not.    *)
(***************************************************************************)
ServeHTTP ==
    LET ps == GetAll("terraform") IN
    /\ phase = "terraform"
    /\ \/ /\ Decides(ps, doc)
          /\ Reads("terraform", ps)
          /\ IF Violated(ps, doc) = {} THEN End("passed", "validated")
                                       ELSE End("failed", "violations")
       \/ End("failed", "error") /\ UNCHANGED readings
    /\ UNCHANGED <<settings, policies, changes, request, doc>>

Next == PolicyChange \/ MutationHandle \/ AdmissionHandle \/ HandleError
            \/ WebhookFails \/ ServeHTTP

Spec == Init /\ [][Next]_vars
-----------------------------------------------------------------------------
(***************************************************************************)
(* Type invariant.  The object has the paths that it may have from the     *)
(* start, Nil where there is nothing (yet).                                *)
(***************************************************************************)
TypeOK ==
    /\ settings \in [mutate : BOOLEAN, failurePolicy : {"Fail", "Ignore"}]
    /\ policies \subseteq Pool
    /\ changes \in 0..MaxChanges
    /\ request.doc \in Documents
    /\ DOMAIN doc = DOMAIN request.doc
    /\ phase \in {"mutation", "admission", "terraform", "admitted", "denied", "passed", "failed"}
    /\ cause \in {"none", "excluded", "validated", "violations", "error", "unavailable"}
    /\ DOMAIN readings \subseteq {"mutation", "admission", "terraform"}
    /\ \A h \in DOMAIN readings : readings[h] \subseteq Pool

(***************************************************************************)
(* An object that goes into the cluster violates, as it goes in (after     *)
(* mutation), none of the enforced policies that the admission handler     *)
(* read, and each of them could be evaluated.  Exceptions are the          *)
(* namespaces the code excludes and, with a failure policy of Ignore,      *)
(* requests the webhook did not answer.  A Terraform plan that passes      *)
(* violates no policy at all.                                              *)
(***************************************************************************)
EnforcedHolds ==
    /\ phase = "admitted" =>
          \/ request.namespace \in ExcludedNamespaces
          \/ settings.failurePolicy = "Ignore" /\ cause = "unavailable"
          \/ /\ "admission" \in DOMAIN readings
             /\ \A p \in readings["admission"] :
                   /\ VerdictOn(p, doc) # "error"
                   /\ p.enforce => VerdictOn(p, doc) # "violation"
    /\ phase = "passed" =>
          \A p \in readings["terraform"] : VerdictOn(p, doc) \notin {"error", "violation"}

(***************************************************************************)
(* An object is turned away only for a cause: an enforced policy that it   *)
(* violates as it stands, an error, or a webhook that did not answer.      *)
(* Objects of the excluded namespaces are turned away only for the latter. *)
(***************************************************************************)
DeniedForCause ==
    phase = "denied" =>
        \/ cause = "unavailable" /\ settings.failurePolicy = "Fail"
        \/ /\ request.namespace \notin ExcludedNamespaces
           /\ \/ cause = "error"
              \/ \E p \in readings["admission"] : p.enforce /\ VerdictOn(p, doc) = "violation"

\* What the violated, mutating policies of ps recommend for document d.
Recommendations(ps, d) ==
    UNION {ToSet(OccurrencesOn(p, d)) : p \in {q \in Violated(ps, d) : q.mutate}}

\* Path k may go from value `old` to `new` for one of these recommendations.
Explained(os, k, old, new) ==
    \E o \in os :
        /\ o.key = k
        /\ \/ Mutable(o) /\ new = o.value
           \/ LookedUp(o) /\ old = Nil /\ new = EmptyMap

(***************************************************************************)
(* In whatever order the violations come, and whatever the cache did       *)
(* between the two webhooks: a path of the object (its label aside) changes*)
(* only to a value that a violated, mutating policy of the mutation        *)
(* handler's reading recommends for it, or from nothing to the empty map   *)
(* that LookupCreate leaves; and the object is labelled as mutated if, and *)
(* only if, a recommended value was put into it.  Without such a reading   *)
(* (no mutation webhook, an excluded namespace, an error or a timeout) the *)
(* object stays as it was submitted.                                       *)
(***************************************************************************)
MutationFootprint ==
    IF "mutation" \notin DOMAIN readings THEN doc = request.doc
    ELSE LET os == Recommendations(readings["mutation"], request.doc)
         IN /\ request.namespace \notin ExcludedNamespaces
            /\ \A k \in DOMAIN doc \ {MutatedLabel} :
                  doc[k] # request.doc[k] => Explained(os, k, request.doc[k], doc[k])
            /\ doc[MutatedLabel] = IF \E o \in os : Mutable(o) THEN ""
                                   ELSE request.doc[MutatedLabel]
=============================================================================
