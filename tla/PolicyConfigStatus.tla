-------------------------- MODULE PolicyConfigStatus --------------------------
(***************************************************************************)
(* The status of PolicyConfig objects (PolicyConfigController.Reconcile    *)
(* and reconcile, controllers/policyconfig_controller.go): which of the    *)
(* policies that a config sets parameters of do not exist.                 *)
(*                                                                         *)
(* The controller reads configs and policies from two informer caches,     *)
(* each of which follows the API server in its own time, and patches the   *)
(* status in the API server with the difference from the copy it read.     *)
(* The API server, the caches and the work queue are external.  A config   *)
(* is a record [ids, status, missing]: the policies it names, and its      *)
(* status, with missing a list.                                            *)
(***************************************************************************)
EXTENDS Integers, Sequences, FiniteSets

CONSTANTS
    Names,        \* the names of configs
    PolicyIDs,    \* the names of policies
    MaxChanges,   \* bound on what users change
    MaxFailures   \* bound on failing requests

ASSUME StatusAssumption == MaxChanges \in Nat /\ MaxFailures \in Nat

VARIABLES
    policies,      \* the policies in the API server
    configs,       \* the configs in the API server, a function on their names
    seenPolicies,  \* the policies in the cache
    seenConfigs,   \* the configs in the cache
    newPolicies,   \* the policies with changes that the cache has not seen
    newConfigs,    \* the configs with changes that the cache has not seen
    queue,         \* the work queue: names to reconcile
    pc,            \* what the controller's worker is doing
    current,       \* the name it reconciles
    copy,          \* policyConfig, as read from the cache
    unchecked,     \* the policies it has still to look up
    missing,       \* missingPolicies
    changes,       \* how much users have changed
    failures,      \* how many requests have failed
    lost           \* the configs that a change of a policy should have enqueued
                   \* and did not, and that were not reconciled since (history)

vars == <<policies, configs, seenPolicies, seenConfigs, newPolicies, newConfigs,
          queue, pc, current, copy, unchecked, missing, changes, failures, lost>>

apiVars == <<policies, configs, newPolicies, newConfigs, changes>>
cacheVars == <<seenPolicies, seenConfigs>>
localVars == <<current, copy, unchecked, missing>>

Fresh(ids) == [ids |-> ids, status |-> "", missing |-> << >>]

Without(f, n) == [m \in DOMAIN f \ {n} |-> f[m]]

With(f, n, value) == [m \in DOMAIN f \cup {n} |-> IF m = n THEN value ELSE f[m]]

Init ==
    /\ policies = {} /\ configs = << >>
    /\ seenPolicies = {} /\ seenConfigs = << >>
    /\ newPolicies = {} /\ newConfigs = {}
    /\ queue = {}
    /\ pc = "idle"
    /\ current \in Names
    /\ copy = Fresh({})
    /\ unchecked = {}
    /\ missing = << >>
    /\ changes = 0
    /\ failures = 0
    /\ lost = {}
-----------------------------------------------------------------------------
(***************************************************************************)
(* Users.                                                                  *)
(***************************************************************************)
ChangePolicy(p) ==
    /\ changes < MaxChanges
    /\ changes' = changes + 1
    /\ policies' = IF p \in policies THEN policies \ {p} ELSE policies \cup {p}
    /\ newPolicies' = newPolicies \cup {p}
    /\ UNCHANGED <<configs, newConfigs, cacheVars, queue, pc, localVars, failures, lost>>

\* An update of the spec leaves the status as it is.
PutConfig(n) ==
    /\ changes < MaxChanges
    /\ changes' = changes + 1
    /\ \E ids \in SUBSET PolicyIDs :
          configs' = With(configs, n, IF n \in DOMAIN configs
                                      THEN [configs[n] EXCEPT !.ids = ids] ELSE Fresh(ids))
    /\ newConfigs' = newConfigs \cup {n}
    /\ UNCHANGED <<policies, newPolicies, cacheVars, queue, pc, localVars, failures, lost>>

DeleteConfig(n) ==
    /\ changes < MaxChanges
    /\ n \in DOMAIN configs
    /\ changes' = changes + 1
    /\ configs' = Without(configs, n)
    /\ newConfigs' = newConfigs \cup {n}
    /\ UNCHANGED <<policies, newPolicies, cacheVars, queue, pc, localVars, failures, lost>>
-----------------------------------------------------------------------------
(***************************************************************************)
(* The caches.  A change of a policy enqueues the configs that name it, by *)
(* the index policyConfigIndexKey of the cache; a change of a config       *)
(* enqueues it, be it of its spec or of its status.  The steps of a cache  *)
(* may take in several changes of an object at once.                       *)
(***************************************************************************)
PolicyArrives(p) ==
    /\ p \in newPolicies
    /\ newPolicies' = newPolicies \ {p}
    /\ seenPolicies' = IF p \in policies THEN seenPolicies \cup {p} ELSE seenPolicies \ {p}
    /\ UNCHANGED <<policies, configs, newConfigs, changes, seenConfigs, pc, localVars>>

\* The configs that `reconcile` lists.
Indexed(p) == {n \in DOMAIN seenConfigs : p \in seenConfigs[n].ids}

SyncPolicy(p) ==
    /\ PolicyArrives(p)
    /\ queue' = queue \cup Indexed(p)
    /\ UNCHANGED <<failures, lost>>

\* List fails: reconcile returns no requests, and nothing tries again.
SyncPolicyFails(p) ==
    /\ failures < MaxFailures
    /\ failures' = failures + 1
    /\ PolicyArrives(p)
    /\ lost' = lost \cup Indexed(p)
    /\ UNCHANGED queue

(***************************************************************************)
(* The informer's resync, every ten hours (no SyncPeriod in main.go): an   *)
(* update of each config in the cache.  The watch of policies has a        *)
(* predicate that passes such updates over.                                *)
(***************************************************************************)
Resync ==
    /\ queue' = queue \cup DOMAIN seenConfigs
    /\ UNCHANGED <<apiVars, cacheVars, pc, localVars, failures, lost>>

\* Plausible bug: GenerationChangedPredicate, so that only changes of the
\* spec are looked at.
Enqueues_SpecOnly(n) ==
    {m \in {n} : \/ m \notin DOMAIN configs \/ m \notin DOMAIN seenConfigs
                 \/ configs[m].ids # seenConfigs[m].ids}

\* For(&PolicyConfig{}), without predicates
Enqueues(n) == {n}

SyncConfig(n) ==
    /\ n \in newConfigs
    /\ newConfigs' = newConfigs \ {n}
    /\ seenConfigs' = IF n \in DOMAIN configs THEN With(seenConfigs, n, configs[n])
                                              ELSE Without(seenConfigs, n)
    /\ queue' = queue \cup Enqueues(n)
    /\ UNCHANGED <<policies, configs, newPolicies, changes, seenPolicies, pc, localVars, failures, lost>>
-----------------------------------------------------------------------------
\* Plausible bug: missingPolicies is left over from the last run.
GetConfig_NoReset(n) ==
    /\ pc = "idle"
    /\ n \in queue
    /\ queue' = queue \ {n}
    /\ IF n \in DOMAIN seenConfigs
       THEN /\ pc' = "lookup"
            /\ current' = n
            /\ copy' = seenConfigs[n]
            /\ unchecked' = seenConfigs[n].ids
            /\ UNCHANGED missing
       ELSE UNCHANGED <<pc, localVars>>
    /\ lost' = lost \ {n}
    /\ UNCHANGED <<apiVars, cacheVars, failures>>

(***************************************************************************)
(* Reconcile.  A config that is gone (or on its way out) needs no status.  *)
(***************************************************************************)
GetConfig(n) ==
    /\ pc = "idle"
    /\ n \in queue
    /\ queue' = queue \ {n}
    /\ IF n \in DOMAIN seenConfigs
       THEN /\ pc' = "lookup"
            /\ current' = n
            /\ copy' = seenConfigs[n]
            /\ unchecked' = seenConfigs[n].ids
            /\ missing' = << >>
       ELSE UNCHANGED <<pc, localVars>>
    /\ lost' = lost \ {n}
    /\ UNCHANGED <<apiVars, cacheVars, failures>>

\* One turn of the loop over spec.config, a Go map: any order.
GetPolicy(p) ==
    /\ pc = "lookup"
    /\ p \in unchecked
    /\ unchecked' = unchecked \ {p}
    /\ missing' = IF p \in seenPolicies THEN missing ELSE Append(missing, p)
    /\ UNCHANGED <<apiVars, cacheVars, queue, pc, current, copy, failures, lost>>

\* SetPolicyConfigStatus
StatusOf(missingPolicies) == IF missingPolicies # << >> THEN "Warning" ELSE "OK"

\* Plausible bug: the list goes with the status, when that changes.
Patched_StatusOnly(config) ==
    IF StatusOf(missing) # copy.status
    THEN [config EXCEPT !.status = StatusOf(missing), !.missing = missing] ELSE config

\* The merge patch holds the fields that differ from the copy, and changes
\* those of the stored object, whatever it has become.
Patched(config) ==
    [config EXCEPT
        !.status = IF StatusOf(missing) # copy.status THEN StatusOf(missing) ELSE @,
        !.missing = IF missing # copy.missing THEN missing ELSE @]

PatchStatus ==
    /\ pc = "lookup"
    /\ unchecked = {}
    /\ pc' = "idle"
    /\ IF current \in DOMAIN configs
       THEN /\ configs' = With(configs, current, Patched(configs[current]))
            /\ newConfigs' = IF configs' = configs THEN newConfigs
                                                  ELSE newConfigs \cup {current}
            /\ UNCHANGED queue
       ELSE queue' = queue \cup {current} /\ UNCHANGED <<configs, newConfigs>>
    /\ UNCHANGED <<policies, newPolicies, changes, cacheVars, localVars, failures, lost>>

\* The error that Reconcile returns makes the queue retry.
Requeue(n) == {n}

\* The request for the config fails, other than for there being none.
GetConfigFails(n) ==
    /\ pc = "idle"
    /\ n \in queue
    /\ failures < MaxFailures
    /\ failures' = failures + 1
    /\ queue' = (queue \ {n}) \cup Requeue(n)
    /\ UNCHANGED <<apiVars, cacheVars, pc, localVars, lost>>

\* A request for a policy, or the patch, fails.
RequestFails ==
    /\ pc = "lookup"
    /\ failures < MaxFailures
    /\ failures' = failures + 1
    /\ pc' = "idle"
    /\ queue' = queue \cup Requeue(current)
    /\ UNCHANGED <<apiVars, cacheVars, localVars, lost>>
-----------------------------------------------------------------------------
Users == \/ \E p \in PolicyIDs : ChangePolicy(p)
         \/ \E n \in Names : PutConfig(n) \/ DeleteConfig(n)

Controller ==
    \/ \E n \in queue : GetConfig(n) \/ GetConfigFails(n)
    \/ \E p \in unchecked : GetPolicy(p)
    \/ PatchStatus
    \/ RequestFails

Next ==
    \/ Users
    \/ \E p \in PolicyIDs : SyncPolicy(p) \/ SyncPolicyFails(p)
    \/ \E n \in Names : SyncConfig(n)
    \/ Resync
    \/ Controller

(***************************************************************************)
(* Informers catch up and resync, the controller's worker runs when there  *)
(* is work, and takes the names of the queue in turn.                      *)
(***************************************************************************)
Fairness ==
    /\ \A p \in PolicyIDs : WF_vars(SyncPolicy(p))
    /\ WF_vars(Resync)
    /\ \A n \in Names : WF_vars(SyncConfig(n)) /\ SF_vars(GetConfig(n))
    /\ WF_vars(Controller)

Spec == Init /\ [][Next]_vars

FairSpec == Spec /\ Fairness
-----------------------------------------------------------------------------
Config == [ids : SUBSET PolicyIDs, status : {"", "OK", "Warning"}, missing : Seq(PolicyIDs)]

TypeOK ==
    /\ policies \subseteq PolicyIDs /\ seenPolicies \subseteq PolicyIDs
    /\ DOMAIN configs \subseteq Names /\ DOMAIN seenConfigs \subseteq Names
    /\ \A n \in DOMAIN configs : configs[n] \in Config
    /\ \A n \in DOMAIN seenConfigs : seenConfigs[n] \in Config
    /\ newPolicies \subseteq PolicyIDs /\ newConfigs \subseteq Names
    /\ queue \subseteq Names
    /\ pc \in {"idle", "lookup"}
    /\ current \in Names
    /\ copy \in Config
    /\ unchecked \subseteq copy.ids
    /\ missing \in Seq(copy.ids)
    /\ changes \in 0..MaxChanges
    /\ failures \in 0..MaxFailures
    /\ lost \subseteq Names

MissingSet(config) == {config.missing[j] : j \in DOMAIN config.missing}

\* The status says what is so.
Accurate(config) ==
    /\ MissingSet(config) = config.ids \ policies
    /\ config.status = IF config.ids \subseteq policies THEN "OK" ELSE "Warning"

Quiet ==
    /\ newPolicies = {} /\ newConfigs = {}
    /\ queue = {} /\ pc = "idle"

(***************************************************************************)
(* When nothing is left to do (both caches have caught up, the queue is    *)
(* empty and no reconciliation runs), every status is accurate, except     *)
(* where the list of the policy watch failed.  The errors of Reconcile     *)
(* lose no wake-up, and the patches of stale copies, which may leave a     *)
(* status of one run with the list of another, are always followed by a    *)
(* further run.                                                            *)
(***************************************************************************)
QuietAccurate == Quiet => \A n \in DOMAIN configs \ lost : Accurate(configs[n])

(***************************************************************************)
(* SetupWithManager: "watch both policies and policy config in case user   *)
(* changed either of them".  So when nothing is left to do, every status   *)
(* says what has become of the policies.                                   *)
(***************************************************************************)
NoWakeupLost == Quiet => \A n \in DOMAIN configs : Accurate(configs[n])

(***************************************************************************)
(* Once users leave policies and configs alone, every status becomes       *)
(* accurate and stays so: also where a wake-up was lost, by the resync.    *)
(***************************************************************************)
StatusConverges == <>[](\A n \in DOMAIN configs : Accurate(configs[n]))
=============================================================================
