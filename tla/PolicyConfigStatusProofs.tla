------------------------ MODULE PolicyConfigStatusProofs ------------------------
(***************************************************************************)
(* Proofs, for any configs and policies, that a failing list of the policy *)
(* watch is the status controller's only way to lose a wake-up: when       *)
(* nothing is left to do, every other status is accurate.                  *)
(***************************************************************************)
EXTENDS PolicyConfigStatus, SequenceTheorems, TLAPS

\* The policy p is missing according to the list.
Lists(list, p) == \E j \in DOMAIN list : list[j] = p

\* The status says what is so, were ps the policies.
AccurateFor(config, ps) ==
    /\ \A p \in PolicyIDs : Lists(config.missing, p) <=> p \in config.ids \ ps
    /\ config.status = IF config.ids \subseteq ps THEN "OK" ELSE "Warning"

\* What a cache has seen it has as it is.
CacheInv ==
    /\ \A p \in PolicyIDs \ newPolicies : p \in policies <=> p \in seenPolicies
    /\ \A n \in Names \ newConfigs :
          /\ n \in DOMAIN configs <=> n \in DOMAIN seenConfigs
          /\ n \in DOMAIN configs => configs[n] = seenConfigs[n]

\* The config will be reconciled (again), or should have been.
Awaited(n) == n \in newConfigs \cup queue \cup lost

(***************************************************************************)
(* A reconciliation that is not to be repeated works on the config as it   *)
(* is, and what it has found of the policies is still so in the cache.     *)
(***************************************************************************)
LookupInv ==
    pc = "lookup" =>
        /\ \A p \in PolicyIDs : Lists(missing, p) => p \in copy.ids \ unchecked
        /\ current \in DOMAIN configs /\ ~Awaited(current) =>
              /\ copy = configs[current]
              /\ \A p \in copy.ids \ unchecked : Lists(missing, p) <=> p \notin seenPolicies

(***************************************************************************)
(* A config is to be reconciled, is being reconciled, was left out by a    *)
(* failing list, or has a status that agrees with the policies of the      *)
(* cache.                                                                  *)
(***************************************************************************)
WakeInv ==
    \A n \in DOMAIN configs :
        \/ Awaited(n)
        \/ pc = "lookup" /\ current = n
        \/ AccurateFor(configs[n], seenPolicies)

IInv == TypeOK /\ CacheInv /\ LookupInv /\ WakeInv

-----------------------------------------------------------------------------
(***************************************************************************)
(* Lists.                                                                  *)
(***************************************************************************)

\* An appended list has one more member.
LEMMA ListsAppend ==
    ASSUME NEW S, NEW list \in Seq(S), NEW p \in S
    PROVE  /\ Append(list, p) \in Seq(S)
           /\ \A q : Lists(Append(list, p), q) <=> Lists(list, q) \/ q = p
<1>1. /\ Append(list, p) \in Seq(S) /\ Len(list) \in Nat
      /\ DOMAIN list = 1..Len(list)
      /\ DOMAIN Append(list, p) = 1..(Len(list) + 1)
      /\ \A i \in 1..Len(list) : Append(list, p)[i] = list[i]
      /\ Append(list, p)[Len(list) + 1] = p
  BY AppendProperties, LenProperties
<1> QED
  BY <1>1 DEF Lists

\* The empty list lists nothing.
LEMMA ListsEmpty ==
    \A q : ~Lists(<< >>, q)
  BY DEF Lists

\* A list with a member is not empty.
LEMMA EmptyList ==
    ASSUME NEW S, NEW list \in Seq(S)
    PROVE  list = << >> <=> \A p \in S : ~Lists(list, p)
<1>1. CASE list # << >>
  <2>1. 1 \in DOMAIN list /\ list[1] \in S
    BY <1>1
  <2> QED
    BY <1>1, <2>1 DEF Lists
<1> QED
  BY <1>1, ListsEmpty

\* The status computed from a list says whether a policy is missing.
LEMMA StatusTells ==
    ASSUME NEW ids \in SUBSET PolicyIDs, NEW ps, NEW list \in Seq(ids),
           \A p \in ids : Lists(list, p) <=> p \notin ps
    PROVE  StatusOf(list) = IF ids \subseteq ps THEN "OK" ELSE "Warning"
  BY EmptyList DEF StatusOf

-----------------------------------------------------------------------------
\* A config whose list is empty is a config.
LEMMA FreshType == ASSUME NEW ids \in SUBSET PolicyIDs PROVE Fresh(ids) \in Config
<1>1. << >> \in Seq(PolicyIDs)
  OBVIOUS
<1> QED
  BY <1>1 DEF Fresh, Config

\* A config with other policies is a config.
LEMMA OtherIdsType ==
    ASSUME NEW ids \in SUBSET PolicyIDs, NEW config \in Config
    PROVE  [config EXCEPT !.ids = ids] \in Config
  BY DEF Config

-----------------------------------------------------------------------------
(***************************************************************************)
(* The initial state satisfies the inductive invariant.                    *)
(***************************************************************************)
LEMMA InitIInv == Init => IInv
<1> SUFFICES ASSUME Init PROVE IInv
  OBVIOUS
<1>1. TypeOK
  <2>1. copy \in Config /\ copy.ids = {}
    BY FreshType DEF Init, Fresh
  <2> QED
    BY <2>1, StatusAssumption DEF Init, TypeOK
<1>2. CacheInv /\ LookupInv /\ WakeInv
  BY DEF Init, CacheInv, LookupInv, WakeInv
<1> QED
  BY <1>1, <1>2 DEF IInv

\* A user's change of a policy: the caches have still to see it.
LEMMA ChangePolicyStep == ASSUME IInv, NEW p \in PolicyIDs, ChangePolicy(p) PROVE IInv'
<1> USE DEF IInv, ChangePolicy, cacheVars, localVars
<1>1. TypeOK'
  BY StatusAssumption DEF TypeOK
<1>2. CacheInv'
  BY DEF CacheInv
<1>3. LookupInv' /\ WakeInv'
  BY DEF LookupInv, WakeInv, Awaited
<1> QED
  BY <1>1, <1>2, <1>3

\* A user's change of a config: it awaits the cache.
LEMMA PutConfigStep == ASSUME IInv, NEW n \in Names, PutConfig(n) PROVE IInv'
<1> USE DEF IInv, cacheVars, localVars
<1>1. PICK ids \in SUBSET PolicyIDs :
         configs' = With(configs, n, IF n \in DOMAIN configs
                                     THEN [configs[n] EXCEPT !.ids = ids] ELSE Fresh(ids))
  BY DEF PutConfig
<1> DEFINE new == IF n \in DOMAIN configs THEN [configs[n] EXCEPT !.ids = ids] ELSE Fresh(ids)
<1>2. new \in Config
  BY FreshType, OtherIdsType DEF TypeOK
<1>3. /\ DOMAIN configs' = DOMAIN configs \cup {n}
      /\ \A m \in DOMAIN configs : m # n => configs'[m] = configs[m]
      /\ configs'[n] \in Config
  <2> HIDE DEF new
  <2>1. configs' = With(configs, n, new)
    BY <1>1 DEF new
  <2> QED
    BY <1>2, <2>1 DEF With
<1>4. TypeOK'
  BY <1>3, StatusAssumption DEF TypeOK, PutConfig
<1>5. CacheInv'
  BY <1>3 DEF CacheInv, PutConfig
<1>6. LookupInv' /\ WakeInv'
  BY <1>3 DEF LookupInv, WakeInv, Awaited, PutConfig
<1> QED
  BY <1>4, <1>5, <1>6

\* A user deletes a config.
LEMMA DeleteConfigStep == ASSUME IInv, NEW n \in Names, DeleteConfig(n) PROVE IInv'
<1> USE DEF IInv, cacheVars, localVars
<1>1. /\ DOMAIN configs' = DOMAIN configs \ {n}
      /\ \A m \in DOMAIN configs : m # n => configs'[m] = configs[m]
  BY DEF Without, DeleteConfig
<1>2. TypeOK'
  BY <1>1, StatusAssumption DEF TypeOK, DeleteConfig
<1>3. CacheInv'
  BY <1>1 DEF CacheInv, DeleteConfig
<1>4. LookupInv' /\ WakeInv'
  BY <1>1 DEF LookupInv, WakeInv, Awaited, DeleteConfig
<1> QED
  BY <1>2, <1>3, <1>4

(***************************************************************************)
(* The cache sees a policy: the configs that name it are queued or, when   *)
(* the list fails, left out; the statuses of the others do not depend on   *)
(* it.                                                                     *)
(***************************************************************************)
LEMMA SyncPolicyStep ==
    ASSUME IInv, NEW p \in PolicyIDs, SyncPolicy(p) \/ SyncPolicyFails(p)
    PROVE  IInv'
<1> USE DEF IInv, localVars, PolicyArrives
<1>1. /\ PolicyArrives(p)
      /\ queue \subseteq queue' /\ lost \subseteq lost'
      /\ Indexed(p) \subseteq queue' \cup lost'
  BY DEF SyncPolicy, SyncPolicyFails
<1>2. /\ \A q : q # p => (q \in seenPolicies' <=> q \in seenPolicies)
      /\ p \in seenPolicies' <=> p \in policies
  BY <1>1
<1>3. \A n \in DOMAIN configs : ~Awaited(n)' =>
         /\ ~Awaited(n) /\ p \notin configs[n].ids
  BY <1>1 DEF TypeOK, CacheInv, Awaited, Indexed
<1>4. TypeOK'
  <2>1. queue' \subseteq Names /\ lost' \subseteq Names /\ failures' \in 0..MaxFailures
    BY StatusAssumption DEF SyncPolicy, SyncPolicyFails, Indexed, TypeOK
  <2> QED
    BY <1>1, <2>1 DEF TypeOK
<1>5. CacheInv'
  BY <1>1, <1>2 DEF CacheInv
<1>6. LookupInv'
  BY <1>1, <1>2, <1>3 DEF LookupInv
<1>7. WakeInv'
  <2> SUFFICES ASSUME NEW n \in DOMAIN configs, ~Awaited(n)', ~(pc = "lookup" /\ current = n)
               PROVE  AccurateFor(configs[n], seenPolicies')
    BY <1>1 DEF WakeInv, AccurateFor
  <2>1. AccurateFor(configs[n], seenPolicies) /\ p \notin configs[n].ids
    BY <1>3 DEF WakeInv
  <2> QED
    BY <1>2, <2>1 DEF AccurateFor
<1> QED
  BY <1>4, <1>5, <1>6, <1>7

\* The resync queues every config of the cache.
LEMMA ResyncStep == ASSUME IInv, Resync PROVE IInv'
<1> USE DEF IInv, Resync, apiVars, cacheVars, localVars
<1>1. TypeOK'
  BY DEF TypeOK
<1>2. CacheInv'
  BY DEF CacheInv
<1>3. LookupInv' /\ WakeInv'
  BY DEF LookupInv, WakeInv, Awaited
<1> QED
  BY <1>1, <1>2, <1>3

\* The cache sees a config, which is then queued.
LEMMA SyncConfigStep == ASSUME IInv, NEW n \in Names, SyncConfig(n) PROVE IInv'
<1> USE DEF IInv, localVars
<1>1. /\ n \in DOMAIN configs <=> n \in DOMAIN seenConfigs'
      /\ n \in DOMAIN configs => seenConfigs'[n] = configs[n]
      /\ \A m : m # n => (m \in DOMAIN seenConfigs' <=> m \in DOMAIN seenConfigs)
      /\ \A m \in DOMAIN seenConfigs : m # n => seenConfigs'[m] = seenConfigs[m]
  <2>1. CASE n \in DOMAIN configs
    BY <2>1 DEF SyncConfig, With
  <2>2. CASE n \notin DOMAIN configs
    BY <2>2 DEF SyncConfig, Without
  <2> QED
    BY <2>1, <2>2
<1>2. \A m : Awaited(m)' <=> Awaited(m)
  BY DEF SyncConfig, Awaited, Enqueues
<1>3. TypeOK'
  BY <1>1 DEF TypeOK, SyncConfig, Enqueues
<1>4. CacheInv'
  BY <1>1 DEF CacheInv, SyncConfig, TypeOK
<1>5. LookupInv' /\ WakeInv'
  BY <1>2 DEF LookupInv, WakeInv, SyncConfig
<1> QED
  BY <1>3, <1>4, <1>5

(***************************************************************************)
(* A reconciliation begins with what the cache has of the config.          *)
(***************************************************************************)
LEMMA GetConfigStep == ASSUME IInv, NEW n \in queue, GetConfig(n) PROVE IInv'
<1> USE DEF IInv, apiVars, cacheVars, localVars
<1>1. CASE n \in DOMAIN seenConfigs
  <2>1. /\ pc' = "lookup" /\ current' = n /\ copy' = seenConfigs[n]
        /\ unchecked' = copy'.ids /\ missing' = << >> /\ queue' = queue \ {n}
        /\ lost' = lost \ {n}
        /\ UNCHANGED <<apiVars, cacheVars, failures>>
    BY <1>1 DEF GetConfig
  <2>2. TypeOK'
    BY <1>1, <2>1 DEF TypeOK
  <2>3. CacheInv'
    BY <2>1 DEF CacheInv
  <2>4. LookupInv'
    BY <2>1, ListsEmpty DEF LookupInv, CacheInv, Awaited, TypeOK
  <2>5. WakeInv'
    BY <2>1 DEF WakeInv, Awaited, GetConfig
  <2> QED
    BY <2>2, <2>3, <2>4, <2>5
<1>2. CASE n \notin DOMAIN seenConfigs
  <2>1. /\ queue' = queue \ {n} /\ lost' = lost \ {n}
        /\ UNCHANGED <<apiVars, cacheVars, failures, pc, localVars>>
    BY <1>2 DEF GetConfig
  <2>2. n \in DOMAIN configs => n \in newConfigs
    BY <1>2 DEF CacheInv, TypeOK
  <2>3. TypeOK' /\ CacheInv'
    BY <2>1 DEF TypeOK, CacheInv
  <2>4. pc = "idle" /\ pc' = "idle"
    BY <2>1 DEF GetConfig
  <2>5. LookupInv' /\ WakeInv'
    BY <2>1, <2>2, <2>4 DEF LookupInv, WakeInv, Awaited
  <2> QED
    BY <2>3, <2>5
<1> QED
  BY <1>1, <1>2

\* One turn of the loop over the policies.
LEMMA GetPolicyStep == ASSUME IInv, NEW p \in unchecked, GetPolicy(p) PROVE IInv'
<1> USE DEF IInv, apiVars, cacheVars
<1>1. p \in copy.ids /\ copy.ids \subseteq PolicyIDs /\ missing \in Seq(copy.ids)
  BY DEF TypeOK, Config
<1>2. /\ missing' \in Seq(copy.ids)
      /\ \A q : Lists(missing', q) <=> Lists(missing, q) \/ (q = p /\ p \notin seenPolicies)
  <2>1. CASE p \in seenPolicies
    BY <1>1, <2>1 DEF GetPolicy
  <2>2. CASE p \notin seenPolicies
    <3>1. missing' = Append(missing, p)
      BY <2>2 DEF GetPolicy
    <3> QED
      BY <1>1, <2>2, <3>1, ListsAppend
  <2> QED
    BY <2>1, <2>2
<1>3. TypeOK'
  BY <1>2 DEF TypeOK, GetPolicy
<1>4. CacheInv'
  BY DEF CacheInv, GetPolicy
<1>5. LookupInv'
  BY <1>1, <1>2 DEF LookupInv, GetPolicy, Awaited
<1>6. WakeInv'
  BY DEF WakeInv, GetPolicy, Awaited
<1> QED
  BY <1>3, <1>4, <1>5, <1>6

(***************************************************************************)
(* The patch.  If the config is not to be reconciled again, it is as the   *)
(* copy was, so both fields become what this reconciliation computed.      *)
(***************************************************************************)
LEMMA PatchStatusStep == ASSUME IInv, PatchStatus PROVE IInv'
<1> USE DEF IInv, cacheVars, localVars
<1>1. CASE current \in DOMAIN configs
  <2> DEFINE new == Patched(configs[current])
  <2>1. /\ configs' = With(configs, current, new)
        /\ newConfigs' = IF configs' = configs THEN newConfigs ELSE newConfigs \cup {current}
        /\ UNCHANGED <<queue, policies, newPolicies, changes, seenPolicies, seenConfigs,
                       current, copy, unchecked, missing, failures, lost>>
        /\ pc = "lookup" /\ pc' = "idle" /\ unchecked = {}
    BY <1>1 DEF PatchStatus
  <2>2. /\ DOMAIN configs' = DOMAIN configs
        /\ configs'[current] = new
        /\ \A m \in DOMAIN configs : m # current => configs'[m] = configs[m]
    <3> HIDE DEF new
    <3> QED
      BY <1>1, <2>1 DEF With
  <2>3. /\ configs[current] \in Config /\ copy \in Config
        /\ copy.ids \subseteq PolicyIDs /\ missing \in Seq(copy.ids)
        /\ current \in Names
    BY <1>1 DEF TypeOK, Config
  <2>4. /\ new \in Config /\ new.ids = configs[current].ids
        /\ new.status = IF StatusOf(missing) # copy.status THEN StatusOf(missing)
                                                          ELSE configs[current].status
        /\ new.missing = IF missing # copy.missing THEN missing ELSE configs[current].missing
    <3>1. missing \in Seq(PolicyIDs) /\ StatusOf(missing) \in {"", "OK", "Warning"}
      BY <2>3 DEF StatusOf
    <3> QED
      BY <2>3, <3>1 DEF Patched, Config
  <2>5. TypeOK'
    BY <2>1, <2>2, <2>3, <2>4 DEF TypeOK
  <2>6. configs' # configs => current \in newConfigs'
    BY <2>1
  <2>7. CacheInv'
    BY <2>1, <2>2, <2>6 DEF CacheInv
  <2>8. LookupInv'
    BY <2>1 DEF LookupInv
  <2>9. ASSUME ~Awaited(current)
        PROVE  AccurateFor(new, seenPolicies)
    <3>1. /\ copy = configs[current]
          /\ \A p \in copy.ids : Lists(missing, p) <=> p \notin seenPolicies
          /\ \A p \in PolicyIDs : Lists(missing, p) => p \in copy.ids
      BY <1>1, <2>1, <2>9 DEF LookupInv
    <3>2. new.status = StatusOf(missing) /\ new.missing = missing /\ new.ids = copy.ids
      BY <2>4, <3>1
    <3>3. StatusOf(missing) = IF copy.ids \subseteq seenPolicies THEN "OK" ELSE "Warning"
      BY <2>3, <3>1, StatusTells
    <3> QED
      BY <3>1, <3>2, <3>3 DEF AccurateFor
  <2>10. WakeInv'
    <3> SUFFICES ASSUME NEW n \in DOMAIN configs, ~Awaited(n)'
                 PROVE  AccurateFor(configs'[n], seenPolicies)
      BY <2>1, <2>2 DEF WakeInv, AccurateFor
    <3>1. ~Awaited(n)
      BY <2>1 DEF Awaited
    <3>2. CASE n = current
      BY <2>2, <2>9, <3>1, <3>2
    <3>3. CASE n # current
      BY <2>2, <3>1, <3>3 DEF WakeInv
    <3> QED
      BY <3>2, <3>3
  <2> QED
    BY <2>5, <2>7, <2>8, <2>10
<1>2. CASE current \notin DOMAIN configs
  <2>1. /\ queue' = queue \cup {current}
        /\ UNCHANGED <<configs, newConfigs, policies, newPolicies, changes, seenPolicies,
                       seenConfigs, current, copy, unchecked, missing, failures, lost>>
        /\ pc' = "idle"
    BY <1>2 DEF PatchStatus
  <2>2. TypeOK' /\ CacheInv'
    BY <2>1 DEF TypeOK, CacheInv
  <2>3. LookupInv' /\ WakeInv'
    BY <1>2, <2>1 DEF LookupInv, WakeInv, Awaited
  <2> QED
    BY <2>2, <2>3
<1> QED
  BY <1>1, <1>2

\* A request of a reconciliation fails: the config is queued again.
LEMMA RequestFailsStep ==
    ASSUME IInv, RequestFails \/ \E n \in queue : GetConfigFails(n)
    PROVE  IInv'
<1> USE DEF IInv, RequestFails, GetConfigFails, Requeue, apiVars, cacheVars, localVars
<1>1. TypeOK'
  BY StatusAssumption DEF TypeOK
<1>2. CacheInv'
  BY DEF CacheInv
<1>3. LookupInv' /\ WakeInv'
  BY DEF LookupInv, WakeInv, Awaited
<1> QED
  BY <1>1, <1>2, <1>3

(***************************************************************************)
(* IInv is inductive.                                                      *)
(***************************************************************************)
LEMMA NextIInv == IInv /\ [Next]_vars => IInv'
<1> SUFFICES ASSUME IInv, [Next]_vars PROVE IInv'
  OBVIOUS
<1>1. CASE UNCHANGED vars
  BY <1>1 DEF vars, IInv, TypeOK, CacheInv, LookupInv, WakeInv, Awaited
<1>2. CASE Users
  BY <1>2, ChangePolicyStep, PutConfigStep, DeleteConfigStep DEF Users
<1>3. CASE \E p \in PolicyIDs : SyncPolicy(p) \/ SyncPolicyFails(p)
  BY <1>3, SyncPolicyStep
<1>4. CASE \E n \in Names : SyncConfig(n)
  BY <1>4, SyncConfigStep
<1>5. CASE Resync
  BY <1>5, ResyncStep
<1>6. CASE Controller
  BY <1>6, GetConfigStep, GetPolicyStep, PatchStatusStep, RequestFailsStep DEF Controller
<1> QED
  BY <1>1, <1>2, <1>3, <1>4, <1>5, <1>6 DEF Next

(***************************************************************************)
(* Every state of the status controller satisfies the inductive invariant: *)
(* whatever fails, a config waits for the queue or a cache, is in the      *)
(* worker's hands, agrees with the cache, or is one that `reconcile` could *)
(* not list when a policy changed.                                         *)
(***************************************************************************)
THEOREM StatusInvariance == Spec => []IInv
  BY InitIInv, NextIInv, PTL DEF Spec

(***************************************************************************)
(* Every variable of the status controller keeps its type.                 *)
(***************************************************************************)
THEOREM StatusTypeCorrect == Spec => []TypeOK
<1>1. IInv => TypeOK
  BY DEF IInv
<1> QED
  BY <1>1, StatusInvariance, PTL

(***************************************************************************)
(* No other wake-up is lost: in a state in which nothing is left to do,    *)
(* every status says which policies are missing, but for the configs left  *)
(* out by a failing list of the policy watch and not reconciled since.     *)
(***************************************************************************)
THEOREM NoLostWakeup == Spec => []QuietAccurate
<1>1. ASSUME IInv, Quiet, NEW n \in DOMAIN configs \ lost
      PROVE  Accurate(configs[n])
  <2> DEFINE c == configs[n]
  <2>1. AccurateFor(c, seenPolicies)
    BY <1>1 DEF IInv, WakeInv, Quiet, Awaited
  <2>2. c \in Config /\ policies = seenPolicies
    BY <1>1 DEF IInv, TypeOK, CacheInv, Quiet
  <2>3. c.ids \subseteq PolicyIDs /\ MissingSet(c) \subseteq PolicyIDs
    <3>1. c.ids \in SUBSET PolicyIDs /\ c.missing \in Seq(PolicyIDs)
      BY <2>2 DEF Config
    <3> QED
      BY <3>1 DEF MissingSet
  <2>4. \A p : p \in MissingSet(c) <=> Lists(c.missing, p)
    BY DEF MissingSet, Lists
  <2>5. MissingSet(c) = c.ids \ policies
    BY <2>1, <2>2, <2>3, <2>4 DEF AccurateFor
  <2> QED
    BY <2>1, <2>2, <2>5 DEF Accurate, AccurateFor
<1>2. IInv => QuietAccurate
  BY <1>1 DEF QuietAccurate
<1> QED
  BY <1>2, StatusInvariance, PTL
=============================================================================
