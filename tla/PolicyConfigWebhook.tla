------------------------- MODULE PolicyConfigWebhook -------------------------
(***************************************************************************)
(* The admission of PolicyConfig objects (PolicyConfigController.Handle)   *)
(* between the API server and the informer cache.  The webhook compares a  *)
(* new config with the ones in the cache, and the API server stores it     *)
(* some time after the webhook answered.                                   *)
(*                                                                         *)
(* The API server and the cache (external) are one history of the stored   *)
(* set of configs: the store is its last element, and the cache an earlier *)
(* one that moves forward.                                                 *)
(***************************************************************************)
EXTENDS PolicyConfig

CONSTANTS
    Candidates,     \* the configs users may write
    Entities,       \* the entities that are validated
    MaxWrites,      \* bound on the number of writes
    SerialWrites    \* users wait for a write to reach the cache before the next

ASSUME WebhookAssumption == MaxWrites \in Nat /\ SerialWrites \in BOOLEAN

VARIABLES
    history,        \* the sets of configs that have been stored, oldest first
    seen,           \* the position in history that the cache has reached
    inflight        \* writes in the API server: [config, phase]

vars == <<history, seen, inflight>>

Store == history[Len(history)]

Cache == history[seen]

Init ==
    /\ history = <<{}>>
    /\ seen = 1
    /\ inflight = {}

\* A user creates or updates a config; the API server calls the webhook.
Submit(c) ==
    /\ Len(history) <= MaxWrites
    /\ c \notin Store
    /\ SerialWrites => inflight = {} /\ seen = Len(history)
    /\ inflight' = inflight \cup {[config |-> c, phase |-> "review"]}
    /\ UNCHANGED <<history, seen>>

\* Plausible bug: the loop over the existing configs is lost.
Denied_NoComparison(newConfig) == ~Validate(newConfig)

Denied(newConfig) ==
    \/ ~Validate(newConfig)
    \/ \E c \in Cache : c.name # newConfig.name /\ checkTargetOverlap(c, newConfig)

\* Handle answers Denied, Errored (decoding or the List fail) or Allowed.
Handle(r) ==
    /\ r.phase = "review"
    /\ \/ inflight' = inflight \ {r}
       \/ /\ ~Denied(r.config)
          /\ inflight' = (inflight \ {r}) \cup {[r EXCEPT !.phase = "admitted"]}
    /\ UNCHANGED <<history, seen>>

\* Other writes of the same object now meet a conflict (or NotFound).
OtherNames(name) == {r \in inflight : r.config.name # name}

Commit(r) ==
    /\ r.phase = "admitted"
    /\ Len(history) <= MaxWrites
    /\ history' = Append(history, {c \in Store : c.name # r.config.name} \cup {r.config})
    /\ inflight' = OtherNames(r.config.name)
    /\ UNCHANGED seen

\* No webhook is called for a deletion.
Delete(c) ==
    /\ Len(history) <= MaxWrites
    /\ history' = Append(history, Store \ {c})
    /\ inflight' = OtherNames(c.name)
    /\ UNCHANGED seen

CacheSync ==
    /\ seen < Len(history)
    /\ seen' = seen + 1
    /\ UNCHANGED <<history, inflight>>

Next ==
    \/ \E c \in Candidates : Submit(c)
    \/ \E r \in inflight : Handle(r) \/ Commit(r)
    \/ \E c \in Store : Delete(c)
    \/ CacheSync

Spec == Init /\ [][Next]_vars
-----------------------------------------------------------------------------
TypeOK ==
    /\ history \in Seq(SUBSET Candidates) /\ history # << >>
    /\ seen \in 1..Len(history)
    /\ inflight \subseteq [config : Candidates, phase : {"review", "admitted"}]

(***************************************************************************)
(* No two stored configs target the same workspace, namespace, application *)
(* or resource, by the comparison of the webhook: what the webhook is for. *)
(***************************************************************************)
NoOverlap ==
    \A c, d \in Store : c.name # d.name => ~checkTargetOverlap(c, d)

(***************************************************************************)
(* Two stored configs are applied to an entity with the same priority only *)
(* as configs of applications, and only if GetFluxObject, which            *)
(* GetPolicyConfig asks anew for each config, gave each another owner.     *)
(***************************************************************************)
OnePerTier ==
    \A e \in Entities : \A c, d \in Store : c.name # d.name =>
        \A ownerOfC, ownerOfD \in Owners(e) :
            \A tier \in Tiers(c, e, ownerOfC) \cap Tiers(d, e, ownerOfD) :
                tier \in {3, 4} /\ ownerOfC # ownerOfD

(***************************************************************************)
(* The configuration of an entity with at most one Flux owner does not     *)
(* depend on the order in which the cache lists the configs, which is that *)
(* of a Go map.                                                            *)
(***************************************************************************)
Resolutions(e) ==
    {GetPolicyConfig(list, e, [i \in DOMAIN list |-> owner]) :
        list \in SetToSeqs(Cache), owner \in Owners(e)}

Deterministic ==
    \A e \in Entities : Cardinality(FluxObjects(e.labels)) <= 1 =>
        Cardinality(Resolutions(e)) = 1
=============================================================================
