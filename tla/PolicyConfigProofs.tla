-------------------------- MODULE PolicyConfigProofs --------------------------
(***************************************************************************)
(* Proofs about the admission of PolicyConfigs, for any set of configs and *)
(* any entities: if users wait for each write to reach the cache, the      *)
(* webhook keeps stored configs from overlapping, and then at most one     *)
(* config applies to an entity at each priority, so that the order of the  *)
(* cache's list does not matter for what GetPolicyConfig returns.          *)
(***************************************************************************)
EXTENDS PolicyConfigWebhook, FiniteSetTheorems, TLAPS

\* Everything stored or about to be stored has passed Validate.
ValidInv ==
    /\ \A n \in 1..Len(history) : \A c \in history[n] : Validate(c)
    /\ \A r \in inflight : r.phase = "admitted" => Validate(r.config)

\* With serial writes the cache can only be behind by deletions.
SerialInv ==
    SerialWrites =>
        /\ \A r, s \in inflight : r = s
        /\ inflight # {} => \A n \in seen..Len(history) : Store \subseteq history[n]
        /\ \A r \in inflight : r.phase = "admitted" =>
              \A c \in Store : c.name # r.config.name => ~checkTargetOverlap(c, r.config)
        /\ NoOverlap

WInv == TypeOK /\ ValidInv /\ SerialInv
-----------------------------------------------------------------------------
(***************************************************************************)
(* A config that has passed Validate is compared by its only field.        *)
(***************************************************************************)
LEMMA ComparedIsOnly ==
    ASSUME NEW c, Validate(c), NEW f \in DOMAIN c.match
    PROVE  f = ComparedField(c) /\ DOMAIN c.match = {f}
  BY DEF Validate, ComparedField, TargetFields

(***************************************************************************)
(* Between validated configs the overlap check is symmetric.               *)
(***************************************************************************)
LEMMA OverlapSymmetric ==
    ASSUME NEW c, NEW d, Validate(c), Validate(d), checkTargetOverlap(d, c)
    PROVE  checkTargetOverlap(c, d)
<1>1. PICK f : DOMAIN c.match = {f} /\ f = ComparedField(c)
  BY ComparedIsOnly DEF Validate
<1>2. \A g : g # f => TargetIDs(c, g) = {}
  BY <1>1 DEF TargetIDs, Items
<1>3. ComparedField(d) = f
  BY <1>2 DEF checkTargetOverlap
<1> QED
  BY <1>1, <1>3 DEF checkTargetOverlap

(***************************************************************************)
(* What a config that is applied at a priority lists, and under what.      *)
(***************************************************************************)
TierField(t) ==
    CASE t = 1 -> "workspaces" [] t = 2 -> "namespaces" [] t = 3 -> "apps" [] t = 4 -> "apps"
      [] OTHER -> "resources"

AnyNamespace == ""

TierKey(t, e, owner) ==
    CASE t = 1 -> Workspace[e.namespace]
      [] t = 2 -> e.namespace
      [] t = 3 -> <<Lower[owner.kind], owner.name, AnyNamespace>>
      [] t = 4 -> <<Lower[owner.kind], owner.name, owner.namespace>>
      [] t = 5 -> <<Lower[e.kind], e.name, AnyNamespace>>
      [] OTHER -> <<Lower[e.kind], e.name, e.namespace>>

\* A config of the first tier lists the entity's workspace.
LEMMA WorkspaceTier ==
    ASSUME NEW x, NEW e, NEW owner, NEW t \in WorkspaceTiers(x, e)
    PROVE  TierKey(t, e, owner) \in TargetIDs(x, TierField(t))
<1>1. PICK i \in DOMAIN Items(x, "workspaces") :
        t = 1 /\ Items(x, "workspaces")[i] = Workspace[e.namespace]
  BY DEF WorkspaceTiers
<1> QED
  BY <1>1 DEF TargetIDs, TierKey, TierField

\* A config of the second tier lists the entity's namespace.
LEMMA NamespaceTier ==
    ASSUME NEW x, NEW e, NEW owner, NEW t \in NamespaceTiers(x, e)
    PROVE  TierKey(t, e, owner) \in TargetIDs(x, TierField(t))
<1>1. PICK i \in DOMAIN Items(x, "namespaces") :
        t = 2 /\ Items(x, "namespaces")[i] = e.namespace
  BY DEF NamespaceTiers
<1> QED
  BY <1>1 DEF TargetIDs, TierKey, TierField

\* A config of the third or fourth tier lists the entity's Flux owner.
LEMMA AppTier ==
    ASSUME NEW x, NEW e, NEW owner, NEW t \in AppTiers(x, owner)
    PROVE  TierKey(t, e, owner) \in TargetIDs(x, TierField(t))
<1> DEFINE apps == Items(x, "apps")
<1>1. PICK i \in DOMAIN apps :
        /\ t = IF apps[i].namespace = "" THEN 3 ELSE 4
        /\ apps[i].name = owner.name /\ apps[i].kind = owner.kind
        /\ apps[i].namespace \in {"", owner.namespace}
  BY Zenon DEF AppTiers, FirstWhere
<1>2. ID(apps[i]) \in TargetIDs(x, "apps")
  BY <1>1 DEF TargetIDs
<1>3. ID(apps[i]) = <<Lower[owner.kind], owner.name, apps[i].namespace>>
  BY <1>1 DEF ID
<1>4. CASE apps[i].namespace = ""
  <2>1. t = 3
    BY <1>1, <1>4
  <2>2. ID(apps[i]) = <<Lower[owner.kind], owner.name, AnyNamespace>>
    BY <1>3, <1>4 DEF AnyNamespace
  <2>3. TierKey(t, e, owner) = <<Lower[owner.kind], owner.name, AnyNamespace>>
    BY <2>1 DEF TierKey
  <2>4. TierField(t) = "apps"
    BY <2>1 DEF TierField
  <2> QED
    BY <1>2, <2>2, <2>3, <2>4
<1>5. CASE apps[i].namespace # ""
  <2>1. t = 4
    BY <1>1, <1>5
  <2>2. ID(apps[i]) = <<Lower[owner.kind], owner.name, owner.namespace>>
    BY <1>1, <1>3, <1>5
  <2>3. TierKey(t, e, owner) = <<Lower[owner.kind], owner.name, owner.namespace>>
    BY <2>1 DEF TierKey
  <2>4. TierField(t) = "apps"
    BY <2>1 DEF TierField
  <2> QED
    BY <1>2, <2>2, <2>3, <2>4
<1> QED
  BY <1>4, <1>5

\* A config of the fifth or sixth tier lists the entity itself.
LEMMA ResourceTier ==
    ASSUME NEW x, NEW e, NEW owner, NEW t \in ResourceTiers(x, e)
    PROVE  TierKey(t, e, owner) \in TargetIDs(x, TierField(t))
<1> DEFINE resources == Items(x, "resources")
<1>1. PICK i \in DOMAIN resources :
        /\ t = IF resources[i].namespace = "" THEN 5 ELSE 6
        /\ resources[i].name = e.name /\ resources[i].kind = e.kind
        /\ resources[i].namespace \in {"", e.namespace}
  BY Zenon DEF ResourceTiers, FirstWhere
<1>2. ID(resources[i]) \in TargetIDs(x, "resources")
  BY <1>1 DEF TargetIDs
<1>3. ID(resources[i]) = <<Lower[e.kind], e.name, resources[i].namespace>>
  BY <1>1 DEF ID
<1>4. CASE resources[i].namespace = ""
  <2>1. t = 5
    BY <1>1, <1>4
  <2>2. ID(resources[i]) = <<Lower[e.kind], e.name, AnyNamespace>>
    BY <1>3, <1>4 DEF AnyNamespace
  <2>3. TierKey(t, e, owner) = <<Lower[e.kind], e.name, AnyNamespace>>
    BY <2>1 DEF TierKey
  <2>4. TierField(t) = "resources"
    BY <2>1 DEF TierField
  <2> QED
    BY <1>2, <2>2, <2>3, <2>4
<1>5. CASE resources[i].namespace # ""
  <2>1. t = 6
    BY <1>1, <1>5
  <2>2. ID(resources[i]) = <<Lower[e.kind], e.name, e.namespace>>
    BY <1>1, <1>3, <1>5
  <2>3. TierKey(t, e, owner) = <<Lower[e.kind], e.name, e.namespace>>
    BY <2>1 DEF TierKey
  <2>4. TierField(t) = "resources"
    BY <2>1 DEF TierField
  <2> QED
    BY <1>2, <2>2, <2>3, <2>4
<1> QED
  BY <1>4, <1>5

(***************************************************************************)
(* Two configs that apply to an entity with the same priority have a       *)
(* target in common.                                                       *)
(***************************************************************************)
LEMMA SameTierOverlaps ==
    ASSUME NEW c, NEW d, NEW e, NEW owner, Validate(c),
           NEW t \in Tiers(c, e, owner) \cap Tiers(d, e, owner)
    PROVE  checkTargetOverlap(c, d)
<1>1. ASSUME NEW x, t \in Tiers(x, e, owner)
      PROVE  TierKey(t, e, owner) \in TargetIDs(x, TierField(t))
  BY <1>1, WorkspaceTier, NamespaceTier, AppTier, ResourceTier DEF Tiers
<1> DEFINE f == TierField(t)
           id == TierKey(t, e, owner)
<1>2. id \in TargetIDs(c, f) /\ id \in TargetIDs(d, f)
  BY <1>1
<1> HIDE DEF f, id
<1>3. f \in DOMAIN c.match
  BY <1>2 DEF TargetIDs, Items
<1> QED
  BY <1>2, <1>3, ComparedIsOnly DEF checkTargetOverlap
-----------------------------------------------------------------------------
(***************************************************************************)
(* The initial state satisfies the invariant.                              *)
(***************************************************************************)
LEMMA InitWInv == Init => WInv
<1> SUFFICES ASSUME Init PROVE WInv
  OBVIOUS
<1>1. Len(history) = 1 /\ history[1] = {} /\ Store = {}
  BY DEF Init, Store
<1>2. TypeOK
  BY <1>1 DEF Init, TypeOK
<1>3. ValidInv /\ SerialInv
  BY <1>1 DEF Init, ValidInv, SerialInv, NoOverlap
<1> QED
  BY <1>2, <1>3 DEF WInv

\* What appending a set of configs to the history does.
LEMMA HistoryGrows ==
    ASSUME TypeOK, NEW S \in SUBSET Candidates, history' = Append(history, S)
    PROVE  /\ history' \in Seq(SUBSET Candidates) /\ history' # << >>
           /\ Len(history') = Len(history) + 1 /\ Len(history) \in Nat \ {0}
           /\ Store' = S
           /\ \A n \in 1..Len(history) : history'[n] = history[n]
           /\ history'[Len(history) + 1] = S
<1>1. history \in Seq(SUBSET Candidates) /\ history # << >>
  BY DEF TypeOK
<1> QED
  BY <1>1 DEF Store

\* The store is one of the sets in the history.
LEMMA StoreInHistory ==
    ASSUME TypeOK
    PROVE  /\ Len(history) \in Nat \ {0} /\ Len(history) \in 1..Len(history)
           /\ Store = history[Len(history)] /\ Store \subseteq Candidates
           /\ seen \in 1..Len(history)
<1>1. history \in Seq(SUBSET Candidates) /\ history # << >>
  BY DEF TypeOK
<1> QED
  BY <1>1 DEF TypeOK, Store

\* Submit preserves the invariant.
LEMMA SubmitStep == ASSUME WInv, NEW c \in Candidates, Submit(c) PROVE WInv'
<1>1. TypeOK'
  BY DEF WInv, TypeOK, Submit
<1>2. ValidInv'
  BY DEF WInv, ValidInv, Submit
<1>3. SerialInv'
  <2> SUFFICES ASSUME SerialWrites PROVE SerialInv'
    BY DEF SerialInv
  <2>1. inflight = {} /\ inflight' = {[config |-> c, phase |-> "review"]}
        /\ seen = Len(history) /\ UNCHANGED <<history, seen>>
    BY DEF Submit
  <2>2. Store' = Store
    BY <2>1 DEF Store
  <2>3. \A n \in seen..Len(history) : Store \subseteq history[n]
    BY <2>1, StoreInHistory DEF WInv
  <2> QED
    BY <2>1, <2>2, <2>3 DEF WInv, SerialInv, NoOverlap
<1> QED
  BY <1>1, <1>2, <1>3 DEF WInv

\* Handle preserves the invariant.
LEMMA HandleStep == ASSUME WInv, NEW r \in inflight, Handle(r) PROVE WInv'
<1> DEFINE a == [r EXCEPT !.phase = "admitted"]
<1>0. /\ UNCHANGED <<history, seen>> /\ Store' = Store /\ r.phase = "review"
      /\ r \in [config : Candidates, phase : {"review", "admitted"}]
  BY DEF Handle, Store, WInv, TypeOK
<1>1. a \in [config : Candidates, phase : {"review", "admitted"}] /\ a.config = r.config
  BY <1>0
<1>2. \/ inflight' = inflight \ {r}
      \/ ~Denied(r.config) /\ inflight' = (inflight \ {r}) \cup {a}
  BY DEF Handle
<1>3. TypeOK'
  BY <1>0, <1>1, <1>2 DEF WInv, TypeOK
<1>4. ValidInv'
  BY <1>0, <1>1, <1>2 DEF WInv, ValidInv, Denied
<1>5. SerialInv'
  <2> SUFFICES ASSUME SerialWrites PROVE SerialInv'
    BY DEF SerialInv
  <2>1. CASE inflight' = inflight \ {r}
    BY <1>0, <2>1 DEF WInv, SerialInv, NoOverlap
  <2>2. CASE ~Denied(r.config) /\ inflight' = (inflight \ {r}) \cup {a}
    <3>1. inflight' = {a}
      BY <2>2 DEF WInv, SerialInv
    <3>2. Store \subseteq Cache
      BY StoreInHistory DEF WInv, SerialInv, Cache
    <3>3. \A c \in Store : c.name # a.config.name => ~checkTargetOverlap(c, a.config)
      BY <1>1, <2>2, <3>2 DEF Denied
    <3> QED
      BY <1>0, <3>1, <3>3 DEF WInv, SerialInv, NoOverlap
  <2> QED
    BY <1>2, <2>1, <2>2
<1> QED
  BY <1>3, <1>4, <1>5 DEF WInv

\* Commit preserves the invariant.
LEMMA CommitStep == ASSUME WInv, NEW r \in inflight, Commit(r) PROVE WInv'
<1> DEFINE S == {c \in Store : c.name # r.config.name} \cup {r.config}
<1>0. /\ r.phase = "admitted" /\ history' = Append(history, S) /\ seen' = seen
      /\ inflight' = {q \in inflight : q.config.name # r.config.name}
      /\ S \in SUBSET Candidates
  BY StoreInHistory DEF Commit, OtherNames, WInv, TypeOK
<1> HIDE DEF S
<1>1. /\ history' \in Seq(SUBSET Candidates) /\ history' # << >>
      /\ Len(history') = Len(history) + 1 /\ Len(history) \in Nat \ {0}
      /\ Store' = S /\ history'[Len(history) + 1] = S
      /\ \A n \in 1..Len(history) : history'[n] = history[n]
  BY <1>0, HistoryGrows DEF WInv
<1>2. TypeOK'
  BY <1>0, <1>1 DEF WInv, TypeOK
<1>3. \A c \in S : Validate(c)
  BY <1>0, StoreInHistory DEF S, WInv, ValidInv
<1>4. ValidInv'
  BY <1>0, <1>1, <1>3 DEF WInv, ValidInv
<1>5. SerialInv'
  <2> SUFFICES ASSUME SerialWrites PROVE SerialInv'
    BY DEF SerialInv
  <2>1. inflight' = {}
    BY <1>0 DEF WInv, SerialInv
  <2>2. ASSUME NEW c \in S, NEW d \in S, c.name # d.name PROVE ~checkTargetOverlap(c, d)
    <3>1. CASE c \in Store /\ d \in Store
      BY <2>2, <3>1 DEF WInv, SerialInv, NoOverlap
    <3>2. CASE c \in Store /\ d = r.config
      BY <1>0, <2>2, <3>2 DEF WInv, SerialInv
    <3>3. CASE c = r.config /\ d \in Store
      BY <1>0, <1>3, <2>2, <3>3, OverlapSymmetric DEF WInv, SerialInv
    <3> QED
      BY <2>2, <3>1, <3>2, <3>3 DEF S
  <2> QED
    BY <1>1, <2>1, <2>2 DEF SerialInv, NoOverlap
<1> QED
  BY <1>2, <1>4, <1>5 DEF WInv

\* Delete preserves the invariant.
LEMMA DeleteStep == ASSUME WInv, NEW c \in Store, Delete(c) PROVE WInv'
<1> DEFINE S == Store \ {c}
<1>0. /\ history' = Append(history, S) /\ seen' = seen
      /\ inflight' \subseteq inflight /\ S \in SUBSET Candidates /\ S \subseteq Store
  BY StoreInHistory DEF Delete, OtherNames, WInv
<1> HIDE DEF S
<1>1. /\ history' \in Seq(SUBSET Candidates) /\ history' # << >>
      /\ Len(history') = Len(history) + 1 /\ Len(history) \in Nat \ {0}
      /\ Store' = S /\ history'[Len(history) + 1] = S
      /\ \A n \in 1..Len(history) : history'[n] = history[n]
  BY <1>0, HistoryGrows DEF WInv
<1>2. TypeOK'
  BY <1>0, <1>1 DEF WInv, TypeOK
<1>4. ValidInv'
  BY <1>0, <1>1, StoreInHistory DEF WInv, ValidInv
<1>5. SerialInv'
  <2> SUFFICES ASSUME SerialWrites PROVE SerialInv'
    BY DEF SerialInv
  <2>1. ASSUME inflight' # {}, NEW n \in seen'..Len(history') PROVE Store' \subseteq history'[n]
    <3>1. CASE n = Len(history) + 1
      BY <1>1, <3>1
    <3>2. CASE n \in seen..Len(history)
      BY <1>0, <1>1, <2>1, <3>2, StoreInHistory DEF WInv, SerialInv
    <3> QED
      BY <1>0, <1>1, <3>1, <3>2, StoreInHistory DEF WInv
  <2> QED
    BY <1>0, <1>1, <2>1 DEF WInv, SerialInv, NoOverlap
<1> QED
  BY <1>2, <1>4, <1>5 DEF WInv

\* CacheSync preserves the invariant.
LEMMA CacheSyncStep == ASSUME WInv, CacheSync PROVE WInv'
<1>0. /\ seen < Len(history) /\ seen' = seen + 1 /\ UNCHANGED <<history, inflight>>
      /\ Store' = Store
  BY DEF CacheSync, Store
<1>1. TypeOK'
  BY <1>0, StoreInHistory DEF WInv, TypeOK
<1>2. ValidInv'
  BY <1>0 DEF WInv, ValidInv
<1>3. SerialInv'
  <2>1. seen'..Len(history') \subseteq seen..Len(history)
    BY <1>0, StoreInHistory DEF WInv
  <2> QED
    BY <1>0, <2>1 DEF WInv, SerialInv, NoOverlap
<1> QED
  BY <1>1, <1>2, <1>3 DEF WInv

(***************************************************************************)
(* Every reachable state satisfies the invariant.                          *)
(***************************************************************************)
THEOREM WebhookInvariance == Spec => []WInv
<1>1. WInv /\ [Next]_vars => WInv'
  <2> SUFFICES ASSUME WInv, [Next]_vars PROVE WInv'
    OBVIOUS
  <2>1. CASE UNCHANGED vars
    BY <2>1 DEF vars, WInv, TypeOK, ValidInv, SerialInv, NoOverlap, Store
  <2>2. CASE Next
    BY <2>2, SubmitStep, HandleStep, CommitStep, DeleteStep, CacheSyncStep DEF Next
  <2> QED
    BY <2>1, <2>2
<1> QED
  BY <1>1, InitWInv, PTL DEF Spec

(***************************************************************************)
(* With serial writes, the webhook keeps stored configs from overlapping.  *)
(***************************************************************************)
THEOREM SerialWritesNoOverlap == Spec => [](SerialWrites => NoOverlap)
<1>1. WInv => (SerialWrites => NoOverlap)
  BY DEF WInv, SerialInv
<1> QED
  BY <1>1, WebhookInvariance, PTL

\* Only the priorities of applications depend on the owner.
LEMMA OwnerTiers ==
    ASSUME NEW c, NEW e, NEW o1, NEW o2, NEW t \in Tiers(c, e, o1), t \notin {3, 4}
    PROVE  t \in Tiers(c, e, o2)
  BY DEF Tiers, AppTiers

\* Configs that do not overlap share a priority only if the owner changed.
LEMMA SharedTier ==
    ASSUME NEW c, NEW d, NEW e, Validate(c), ~checkTargetOverlap(c, d),
           NEW o1, NEW o2, NEW t \in Tiers(c, e, o1) \cap Tiers(d, e, o2)
    PROVE  t \in {3, 4} /\ o1 # o2
<1>1. t \notin Tiers(c, e, o2)
  BY SameTierOverlaps
<1> QED
  BY <1>1, OwnerTiers

(***************************************************************************)
(* With serial writes, two stored configs apply to an entity at the same   *)
(* priority only as configs of two applications, for which GetFluxObject   *)
(* was asked twice.                                                        *)
(***************************************************************************)
THEOREM SerialWritesOnePerTier == Spec => [](SerialWrites => OnePerTier)
<1>1. ASSUME WInv, SerialWrites PROVE OnePerTier
  <2> SUFFICES ASSUME NEW e \in Entities, NEW c \in Store, NEW d \in Store, c.name # d.name,
                      NEW o1 \in Owners(e), NEW o2 \in Owners(e),
                      NEW t \in Tiers(c, e, o1) \cap Tiers(d, e, o2)
               PROVE  t \in {3, 4} /\ o1 # o2
    BY DEF OnePerTier
  <2>1. Validate(c)
    BY <1>1, StoreInHistory DEF WInv, ValidInv
  <2>2. ~checkTargetOverlap(c, d)
    BY <1>1 DEF WInv, SerialInv, NoOverlap
  <2> QED
    BY <2>1, <2>2, SharedTier
<1>2. WInv => (SerialWrites => OnePerTier)
  BY <1>1
<1> QED
  BY <1>2, WebhookInvariance, PTL
-----------------------------------------------------------------------------
\* A config by the priority it is applied with.
Applied(S, e, owner) == {a \in (1..6) \X S : a[1] \in Tiers(a[2], e, owner)}

\* Of these, the ones that set parameter p of policy id.
Setters(S, e, owner, id, p) ==
    {a \in Applied(S, e, owner) : id \in DOMAIN a[2].config /\ p \in DOMAIN a[2].config[id]}

IsTop(a, T) == a \in T /\ \A b \in T \ {a} : b[1] < a[1]

(***************************************************************************)
(* What the configs of S say to an entity, without any order of S: the     *)
(* highest priority decides.                                               *)
(***************************************************************************)
Resolved(S, e, owner) ==
    LET ids == UNION {DOMAIN a[2].config : a \in Applied(S, e, owner)}
        params(id) == UNION {DOMAIN a[2].config[id] :
                                a \in {a \in Applied(S, e, owner) : id \in DOMAIN a[2].config}}
    IN [id \in ids |-> [p \in params(id) |->
           LET a == CHOOSE a : IsTop(a, Setters(S, e, owner, id, p)) IN
           [value |-> a[2].config[id][p], configRef |-> a[2].name]]]

\* One of several priorities is the highest.
LEMMA HighestPriority ==
    ASSUME NEW K \in SUBSET (1..6), K # {}
    PROVE  \E k \in K : \A j \in K : j <= k
<1>1. CASE 6 \in K
  BY <1>1
<1>2. CASE 6 \notin K /\ 5 \in K
  BY <1>2
<1>3. CASE 6 \notin K /\ 5 \notin K /\ 4 \in K
  BY <1>3
<1>4. CASE 6 \notin K /\ 5 \notin K /\ 4 \notin K /\ 3 \in K
  BY <1>4
<1>5. CASE 6 \notin K /\ 5 \notin K /\ 4 \notin K /\ 3 \notin K /\ 2 \in K
  BY <1>5
<1>6. CASE 6 \notin K /\ 5 \notin K /\ 4 \notin K /\ 3 \notin K /\ 2 \notin K
  <2>1. \A j \in K : j = 1
    BY <1>6
  <2>2. PICK k \in K : TRUE
    OBVIOUS
  <2> QED
    BY <2>1, <2>2
<1> QED
  BY <1>1, <1>2, <1>3, <1>4, <1>5, <1>6

\* At each priority one config applies, so one setter is on top.
LEMMA TopExists ==
    ASSUME NEW S, NEW e, NEW owner,
           \A c, d \in S : Tiers(c, e, owner) \cap Tiers(d, e, owner) # {} => c = d,
           NEW T \in SUBSET Applied(S, e, owner), T # {}
    PROVE  \E m : IsTop(m, T)
<1>1. \A a \in T : /\ a = <<a[1], a[2]>> /\ a[1] \in 1..6 /\ a[2] \in S
                   /\ a[1] \in Tiers(a[2], e, owner)
  BY DEF Applied
<1> DEFINE K == {a[1] : a \in T}
<1>2. K \in SUBSET (1..6) /\ K # {}
  BY <1>1
<1>3. PICK k \in K : \A j \in K : j <= k
  <2> HIDE DEF K
  <2> QED
    BY <1>2, HighestPriority
<1>4. PICK m \in T : m[1] = k
  OBVIOUS
<1>5. ASSUME NEW b \in T, b # m PROVE b[1] < m[1]
  <2>1. b[1] <= m[1] /\ b[1] \in Int /\ m[1] \in Int
    BY <1>1, <1>2, <1>3, <1>4
  <2>2. b[1] # m[1]
    <3>1. b[1] = m[1] => b[2] = m[2]
      BY <1>1
    <3> QED
      BY <1>1, <1>5, <3>1
  <2> QED
    BY <2>1, <2>2
<1> QED
  BY <1>4, <1>5 DEF IsTop

\* The parts of GetPolicyConfig: positions of the list by priority, and
\* those where a parameter is set.
ListApplied(list, e, owner) ==
    {a \in (1..6) \X DOMAIN list : a[1] \in Tiers(list[a[2]], e, owner[a[2]])}

ListSetters(list, e, owner, id, p) ==
    {a \in ListApplied(list, e, owner) :
        id \in DOMAIN list[a[2]].config /\ p \in DOMAIN list[a[2]].config[id]}

Winner(U) == CHOOSE a \in U : \A b \in U \ {a} : AppliedBefore(b, a)

\* GetPolicyConfig in these terms.
LEMMA GetPolicyConfigParts ==
    ASSUME NEW list, NEW e, NEW owner
    PROVE  GetPolicyConfig(list, e, owner) =
              [id \in UNION {DOMAIN list[a[2]].config : a \in ListApplied(list, e, owner)} |->
                 [p \in UNION {DOMAIN list[a[2]].config[id] :
                                  a \in {a \in ListApplied(list, e, owner) :
                                            id \in DOMAIN list[a[2]].config}} |->
                    [value |-> list[Winner(ListSetters(list, e, owner, id, p))[2]].config[id][p],
                     configRef |-> list[Winner(ListSetters(list, e, owner, id, p))[2]].name]]]
  BY DEF GetPolicyConfig, ListApplied, ListSetters, Winner

(***************************************************************************)
(* Where at most one config applies at each priority, GetPolicyConfig is   *)
(* the same for every list of the configs.                                 *)
(***************************************************************************)
LEMMA ListOrderIsIrrelevant ==
    ASSUME NEW S, NEW e, NEW owner,
           \A c, d \in S : Tiers(c, e, owner) \cap Tiers(d, e, owner) # {} => c = d,
           NEW D \in SUBSET Int, NEW list \in [D -> S],
           \A i, j \in D : i # j => list[i] # list[j],
           \A c \in S : \E i \in D : list[i] = c
    PROVE  GetPolicyConfig(list, e, [i \in DOMAIN list |-> owner]) = Resolved(S, e, owner)
<1> DEFINE owners == [i \in DOMAIN list |-> owner]
           A == Applied(S, e, owner)
           LA == ListApplied(list, e, owners)
           T(id, p) == Setters(S, e, owner, id, p)
           U(id, p) == ListSetters(list, e, owners, id, p)
<1>1. LA = {a \in (1..6) \X D : a[1] \in Tiers(list[a[2]], e, owner)}
  BY DEF ListApplied
<1>2. \A a \in LA : <<a[1], list[a[2]]>> \in A
  BY <1>1 DEF Applied
<1>3. \A b \in A : \E a \in LA : a[1] = b[1] /\ list[a[2]] = b[2]
  <2> SUFFICES ASSUME NEW b \in A PROVE \E a \in LA : a[1] = b[1] /\ list[a[2]] = b[2]
    OBVIOUS
  <2>1. b[1] \in 1..6 /\ b[2] \in S /\ b[1] \in Tiers(b[2], e, owner)
    BY DEF Applied
  <2>2. PICK i \in D : list[i] = b[2]
    BY <2>1
  <2>3. <<b[1], i>> \in LA
    BY <1>1, <2>1, <2>2
  <2> QED
    BY <2>2, <2>3
<1> DEFINE LIds == UNION {DOMAIN list[a[2]].config : a \in LA}
           Ids == UNION {DOMAIN a[2].config : a \in A}
           LParams(id) == UNION {DOMAIN list[a[2]].config[id] :
                                    a \in {a \in LA : id \in DOMAIN list[a[2]].config}}
           Params(id) == UNION {DOMAIN a[2].config[id] : a \in {a \in A : id \in DOMAIN a[2].config}}
<1>4. LIds = Ids
  <2>1. \A x : x \in LIds <=> \E a \in LA : x \in DOMAIN list[a[2]].config
    OBVIOUS
  <2>2. \A x : x \in Ids <=> \E b \in A : x \in DOMAIN b[2].config
    OBVIOUS
  <2> HIDE DEF LA, A, LIds, Ids
  <2>3. \A x : x \in LIds <=> x \in Ids
    <3>1. ASSUME NEW x \in LIds PROVE x \in Ids
      <4>1. PICK a \in LA : x \in DOMAIN list[a[2]].config
        BY <2>1
      <4> QED
        BY <1>2, <2>2, <4>1
    <3>2. ASSUME NEW x \in Ids PROVE x \in LIds
      BY <1>3, <2>1, <2>2
    <3> QED
      BY <3>1, <3>2
  <2> QED
    BY <2>3
<1>5. \A id : LParams(id) = Params(id)
  <2> SUFFICES ASSUME NEW id PROVE LParams(id) = Params(id)
    OBVIOUS
  <2>1. \A x : x \in LParams(id) <=>
                 \E a \in LA : id \in DOMAIN list[a[2]].config /\ x \in DOMAIN list[a[2]].config[id]
    OBVIOUS
  <2>2. \A x : x \in Params(id) <=>
                 \E b \in A : id \in DOMAIN b[2].config /\ x \in DOMAIN b[2].config[id]
    OBVIOUS
  <2> HIDE DEF LA, A, LParams, Params
  <2>3. \A x : x \in LParams(id) <=> x \in Params(id)
    <3>1. ASSUME NEW x \in LParams(id) PROVE x \in Params(id)
      <4>1. PICK a \in LA : /\ id \in DOMAIN list[a[2]].config
                            /\ x \in DOMAIN list[a[2]].config[id]
        BY <2>1
      <4> QED
        BY <1>2, <2>2, <4>1
    <3>2. ASSUME NEW x \in Params(id) PROVE x \in LParams(id)
      <4>1. PICK b \in A : id \in DOMAIN b[2].config /\ x \in DOMAIN b[2].config[id]
        BY <2>2
      <4> QED
        BY <1>3, <2>1, <4>1
    <3> QED
      BY <3>1, <3>2
  <2> QED
    BY <2>3
<1>6. ASSUME NEW id, NEW p, NEW a0 \in A,
             id \in DOMAIN a0[2].config, p \in DOMAIN a0[2].config[id]
      PROVE  list[Winner(U(id, p))[2]] = (CHOOSE a : IsTop(a, T(id, p)))[2]
  <2>1. /\ T(id, p) \in SUBSET A /\ T(id, p) # {}
        /\ \A a \in U(id, p) : /\ a \in LA /\ a = <<a[1], a[2]>> /\ a[1] \in 1..6 /\ a[2] \in D
                               /\ <<a[1], list[a[2]]>> \in T(id, p)
        /\ \A b \in T(id, p) : /\ b = <<b[1], b[2]>>
                               /\ \E a \in U(id, p) : a[1] = b[1] /\ list[a[2]] = b[2]
    <3>1. T(id, p) = {a \in A : id \in DOMAIN a[2].config /\ p \in DOMAIN a[2].config[id]}
      BY DEF Setters
    <3>2. U(id, p) = {a \in LA : id \in DOMAIN list[a[2]].config
                                  /\ p \in DOMAIN list[a[2]].config[id]}
      BY DEF ListSetters
    <3>3. \A b \in A : b = <<b[1], b[2]>>
      BY DEF Applied
    <3>4. \A a \in LA : a = <<a[1], a[2]>> /\ a[1] \in 1..6 /\ a[2] \in D
      BY <1>1
    <3> HIDE DEF LA, A, T, U
    <3> QED
      BY <1>2, <1>3, <1>6, <3>1, <3>2, <3>3, <3>4
  <2> DEFINE m == CHOOSE a : IsTop(a, T(id, p))
  <2>2. IsTop(m, T(id, p))
    BY <2>1, TopExists
  <2> HIDE DEF m, T, U, A, LA
  <2>3. PICK w \in U(id, p) : w[1] = m[1] /\ list[w[2]] = m[2]
    BY <2>1, <2>2 DEF IsTop
  <2>4. ASSUME NEW b \in U(id, p), b # w PROVE b[1] < w[1] /\ b[1] \in Int /\ w[1] \in Int
    <3>1. <<b[1], list[b[2]]>> \in T(id, p)
      BY <2>1
    <3>2. <<b[1], list[b[2]]>> # m
      BY <2>1, <2>3, <2>4
    <3>3. b[1] < m[1]
      BY <2>2, <3>1, <3>2 DEF IsTop
    <3>4. b[1] \in 1..6 /\ w[1] \in 1..6
      BY <2>1
    <3> QED
      BY <2>3, <3>3, <3>4
  <2>5. \A b \in U(id, p) \ {w} : AppliedBefore(b, w) /\ ~AppliedBefore(w, b)
    BY <2>4 DEF AppliedBefore
  <2>6. Winner(U(id, p)) = w
    BY <2>5 DEF Winner
  <2> QED
    BY <2>3, <2>6 DEF m
<1> DEFINE a1(id, p) == list[Winner(U(id, p))[2]]
           a2(id, p) == (CHOOSE a : IsTop(a, T(id, p)))[2]
           R1(id, p) == [value |-> a1(id, p).config[id][p], configRef |-> a1(id, p).name]
           R2(id, p) == [value |-> a2(id, p).config[id][p], configRef |-> a2(id, p).name]
<1>7. GetPolicyConfig(list, e, owners) = [id \in LIds |-> [p \in LParams(id) |-> R1(id, p)]]
  BY GetPolicyConfigParts
<1>8. Resolved(S, e, owner) = [id \in Ids |-> [p \in Params(id) |-> R2(id, p)]]
  BY DEF Resolved
<1>9. ASSUME NEW id \in Ids, NEW p \in Params(id)
      PROVE  R1(id, p) = R2(id, p)
  <2>1. PICK a0 \in A : id \in DOMAIN a0[2].config /\ p \in DOMAIN a0[2].config[id]
    <3> HIDE DEF A
    <3> QED
      OBVIOUS
  <2> HIDE DEF A, T, U
  <2> QED
    BY <1>6, <2>1
<1>10. [id \in LIds |-> [p \in LParams(id) |-> R1(id, p)]]
          = [id \in Ids |-> [p \in Params(id) |-> R2(id, p)]]
  <2> HIDE DEF Ids, LIds, Params, LParams, R1, R2
  <2> QED
    BY <1>4, <1>5, <1>9
<1> QED
  BY <1>7, <1>8, <1>10, Zenon

\* A finite set can be listed; a list of it has each element at one position.
LEMMA ListsOf ==
    ASSUME NEW S, IsFiniteSet(S)
    PROVE  /\ SetToSeqs(S) # {} /\ 1..Cardinality(S) \in SUBSET Int
           /\ \A list \in SetToSeqs(S) :
                 /\ list \in [1..Cardinality(S) -> S]
                 /\ \A i, j \in 1..Cardinality(S) : i # j => list[i] # list[j]
                 /\ \A c \in S : \E i \in 1..Cardinality(S) : list[i] = c
<1> DEFINE N == Cardinality(S)
<1>1. N \in Nat /\ ExistsBijection(1..N, S)
  BY FS_CardinalityType
<1>2. IsFiniteSet(1..N) /\ Cardinality(1..N) = N
  <2> HIDE DEF N
  <2> QED
    BY <1>1, FS_Interval
<1>3. SetToSeqs(S) = {f \in [1..N -> S] : \A i, j \in 1..N : i # j => f[i] # f[j]}
  BY Zenon DEF SetToSeqs
<1>4. PICK f : f \in Bijection(1..N, S)
  BY <1>1 DEF ExistsBijection
<1>5. f \in SetToSeqs(S)
  <2> HIDE DEF N
  <2> QED
    BY <1>3, <1>4 DEF Bijection, Injection, IsInjective
<1>6. ASSUME NEW list \in SetToSeqs(S) PROVE list \in Surjection(1..N, S)
  <2>1. list \in Injection(1..N, S)
    <3> HIDE DEF N
    <3> QED
      BY <1>3 DEF Injection, IsInjective
  <2> QED
    BY <1>2, <2>1, FS_Injection
<1> HIDE DEF N
<1> QED
  BY <1>1, <1>3, <1>5, <1>6 DEF Surjection, N

\* An entity with at most one Flux owner has one owner, or none.
LEMMA OneOwner ==
    ASSUME NEW e, Cardinality(FluxObjects(e.labels)) <= 1
    PROVE  \E owner : Owners(e) = {owner}
<1> DEFINE F == FluxObjects(e.labels)
           fluxObject(v) == [kind |-> fluxControllerKindMap[v], name |-> e.labels[<<v, "name">>],
                             namespace |-> e.labels[<<v, "namespace">>]]
<1>1. F \subseteq {fluxObject("helm"), fluxObject("kustomize")}
  BY DEF FluxObjects, fluxControllerKindMap
<1> HIDE DEF F, fluxObject
<1>2. IsFiniteSet({fluxObject("helm"), fluxObject("kustomize")})
  <2>1. IsFiniteSet({fluxObject("helm")} \cup {fluxObject("kustomize")})
    BY FS_Singleton, FS_AddElement
  <2> QED
    BY <2>1
<1>3. IsFiniteSet(F) /\ Cardinality(F) \in Nat
  BY <1>1, <1>2, FS_Subset, FS_CardinalityType
<1>4. Cardinality(F) = 0 \/ Cardinality(F) = 1
  BY <1>3 DEF F
<1>5. F = {} \/ \E x : F = {x}
  BY <1>3, <1>4, FS_EmptySet, FS_Singleton
<1> QED
  BY <1>5 DEF Owners, F
-----------------------------------------------------------------------------
(***************************************************************************)
(* Every set of configs that was stored is finite, has one config of each  *)
(* name and, with serial writes, no overlap.                               *)
(***************************************************************************)
HistoryInv ==
    \A n \in 1..Len(history) :
        /\ IsFiniteSet(history[n])
        /\ \A c, d \in history[n] : c.name = d.name => c = d
        /\ SerialWrites => \A c, d \in history[n] : c.name # d.name => ~checkTargetOverlap(c, d)

\* Next adds the new store to the history, or leaves the history alone.
LEMMA HistoryStep ==
    ASSUME WInv, WInv', HistoryInv, [Next]_vars
    PROVE  HistoryInv'
<1>1. Store = history[Len(history)] /\ Len(history) \in 1..Len(history)
  BY StoreInHistory DEF WInv
<1>2. IsFiniteSet(Store) /\ \A c, d \in Store : c.name = d.name => c = d
  BY <1>1 DEF HistoryInv
<1>3. ASSUME NEW S \in SUBSET Candidates, history' = Append(history, S), IsFiniteSet(S),
             \A c, d \in S : c.name = d.name => c = d
      PROVE  HistoryInv'
  <2>1. /\ Len(history') = Len(history) + 1 /\ Len(history) \in Nat
        /\ \A n \in 1..Len(history) : history'[n] = history[n]
        /\ history'[Len(history) + 1] = S /\ Store' = S
    BY <1>3, HistoryGrows DEF WInv
  <2>2. SerialWrites => \A c, d \in S : c.name # d.name => ~checkTargetOverlap(c, d)
    BY <2>1 DEF WInv, SerialInv, NoOverlap
  <2>3. \A n \in 1..Len(history') : n = Len(history) + 1 \/ n \in 1..Len(history)
    BY <2>1
  <2> QED
    BY <1>3, <2>1, <2>2, <2>3 DEF HistoryInv
<1>4. ASSUME UNCHANGED history PROVE HistoryInv'
  BY <1>4 DEF HistoryInv
<1>5. ASSUME NEW r \in inflight, Commit(r) PROVE HistoryInv'
  <2> DEFINE R == {c \in Store : c.name # r.config.name}
  <2>1. history' = Append(history, R \cup {r.config}) /\ R \cup {r.config} \in SUBSET Candidates
    BY <1>5, StoreInHistory DEF Commit, WInv, TypeOK
  <2>2. IsFiniteSet(R) /\ IsFiniteSet(R \cup {r.config})
    BY <1>2, FS_Subset, FS_AddElement
  <2>3. \A c, d \in R \cup {r.config} : c.name = d.name => c = d
    BY <1>2
  <2> QED
    BY <1>3, <2>1, <2>2, <2>3
<1>6. ASSUME NEW c \in Store, Delete(c) PROVE HistoryInv'
  <2>1. history' = Append(history, Store \ {c}) /\ Store \ {c} \in SUBSET Candidates
    BY <1>6, StoreInHistory DEF Delete, WInv
  <2>2. IsFiniteSet(Store \ {c})
    BY <1>2, FS_Subset
  <2> QED
    BY <1>2, <1>3, <2>1, <2>2
<1> QED
  BY <1>4, <1>5, <1>6 DEF Next, Submit, Handle, CacheSync, vars

\* The invariant with the history's.
THEOREM HistoryInvariance == Spec => [](WInv /\ HistoryInv)
<1>1. Init => HistoryInv
  <2> SUFFICES ASSUME Init PROVE HistoryInv
    OBVIOUS
  <2>1. Len(history) = 1 /\ history[1] = {}
    BY DEF Init
  <2> QED
    BY <2>1, FS_EmptySet DEF HistoryInv
<1>2. WInv /\ WInv' /\ HistoryInv /\ [Next]_vars => HistoryInv'
  BY HistoryStep
<1> QED
  BY <1>1, <1>2, WebhookInvariance, PTL DEF Spec

(***************************************************************************)
(* Whatever the order of the cache's list, and whatever GetFluxObject says *)
(* in the turn of each config, each parameter that an applied config sets  *)
(* gets the value of a config a of which no other that sets it has a       *)
(* higher priority, nor the same, unless both are configs of applications  *)
(* and were asked for different ones.                                      *)
(***************************************************************************)
HighestDecides ==
    \A e \in Entities : \A list \in SetToSeqs(Cache) : \A owner \in [DOMAIN list -> Owners(e)] :
        \A set \in ListApplied(list, e, owner) : \A id \in DOMAIN list[set[2]].config :
            \A p \in DOMAIN list[set[2]].config[id] :
                \E a \in ListSetters(list, e, owner, id, p) :
                    /\ GetPolicyConfig(list, e, owner)[id][p] =
                          [value |-> list[a[2]].config[id][p], configRef |-> list[a[2]].name]
                    /\ \A b \in ListSetters(list, e, owner, id, p) \ {a} :
                          \/ b[1] < a[1]
                          \/ b[1] = a[1] /\ a[1] \in {3, 4} /\ owner[a[2]] # owner[b[2]]

\* No two configs of the cache overlap.
LEMMA CacheApart ==
    ASSUME WInv, HistoryInv, SerialWrites
    PROVE  /\ IsFiniteSet(Cache)
           /\ \A c, d \in Cache : c # d => ~checkTargetOverlap(c, d)
           /\ \A c \in Cache : Validate(c)
<1>1. seen \in 1..Len(history)
  BY StoreInHistory DEF WInv
<1>2. /\ IsFiniteSet(Cache)
      /\ \A c, d \in Cache : c.name = d.name => c = d
      /\ \A c, d \in Cache : c.name # d.name => ~checkTargetOverlap(c, d)
      /\ \A c \in Cache : Validate(c)
  BY <1>1 DEF Cache, HistoryInv, WInv, ValidInv
<1> QED
  BY <1>2

\* An entity has at most two owners.
LEMMA TwoOwners == ASSUME NEW e PROVE \E x, y : Owners(e) \subseteq {x, y}
<1> DEFINE fluxObject(v) == [kind |-> fluxControllerKindMap[v], name |-> e.labels[<<v, "name">>],
                             namespace |-> e.labels[<<v, "namespace">>]]
<1>1. FluxObjects(e.labels) \subseteq {fluxObject("helm"), fluxObject("kustomize")}
  BY DEF FluxObjects, fluxControllerKindMap
<1> HIDE DEF fluxObject
<1>2. \/ Owners(e) \subseteq {NoOwner, NoOwner}
      \/ Owners(e) \subseteq {fluxObject("helm"), fluxObject("kustomize")}
  BY <1>1 DEF Owners
<1> QED
  BY <1>2

(***************************************************************************)
(* Of the positions of a list that set a parameter, one is applied last:   *)
(* at the highest priority there are at most two, one for each owner.      *)
(***************************************************************************)
LEMMA LastExists ==
    \A x, y, owner, U :
        /\ U # {}
        /\ \A a \in U : /\ a = <<a[1], a[2]>> /\ a[1] \in 1..6 /\ a[2] \in Int
                         /\ owner[a[2]] \in {x, y}
        /\ \A a, b \in U : a[1] = b[1] /\ a # b => owner[a[2]] # owner[b[2]]
        => \E w \in U : \A b \in U \ {w} : AppliedBefore(b, w) /\ ~AppliedBefore(w, b)
<1> SUFFICES ASSUME NEW x, NEW y, NEW owner, NEW U, U # {},
                    \A a \in U : /\ a = <<a[1], a[2]>> /\ a[1] \in 1..6 /\ a[2] \in Int
                                 /\ owner[a[2]] \in {x, y},
                    \A a, b \in U : a[1] = b[1] /\ a # b => owner[a[2]] # owner[b[2]]
             PROVE  \E w \in U : \A b \in U \ {w} : AppliedBefore(b, w) /\ ~AppliedBefore(w, b)
  OBVIOUS
<1> DEFINE K == {a[1] : a \in U}
<1>1. K \in SUBSET (1..6) /\ K # {}
  OBVIOUS
<1>2. PICK k \in K : \A j \in K : j <= k
  <2> HIDE DEF K
  <2> QED
    BY <1>1, HighestPriority
<1>3. PICK m \in U : m[1] = k
  OBVIOUS
<1>4. \A b \in U : b[1] <= m[1]
  BY <1>2, <1>3
<1>5. CASE \A b \in U : b[1] = m[1] => b[2] <= m[2]
  <2>1. ASSUME NEW b \in U, b # m PROVE AppliedBefore(b, m) /\ ~AppliedBefore(m, b)
    <3>1. b[1] = m[1] => b[2] # m[2]
      BY <2>1
    <3>2. b[1] \in Int /\ m[1] \in Int /\ b[2] \in Int /\ m[2] \in Int
      OBVIOUS
    <3> QED
      BY <1>4, <1>5, <3>1, <3>2 DEF AppliedBefore
  <2> QED
    BY <2>1
<1>6. CASE \E b \in U : b[1] = m[1] /\ ~(b[2] <= m[2])
  <2>1. PICK n \in U : n[1] = m[1] /\ ~(n[2] <= m[2])
    BY <1>6
  <2>2. n # m /\ m[2] < n[2]
    BY <2>1
  <2>3. ASSUME NEW b \in U, b # n PROVE AppliedBefore(b, n) /\ ~AppliedBefore(n, b)
    <3>1. b[1] \in Int /\ n[1] \in Int /\ b[2] \in Int /\ n[2] \in Int
      OBVIOUS
    <3>2. CASE b[1] = n[1]
      <4>1. owner[b[2]] # owner[n[2]] /\ owner[m[2]] # owner[n[2]]
        BY <2>1, <2>2, <2>3, <3>2
      <4>2. owner[b[2]] = owner[m[2]]
        BY <4>1
      <4>3. b = m
        BY <2>1, <3>2, <4>2
      <4> QED
        BY <2>1, <2>2, <3>1, <4>3 DEF AppliedBefore
    <3>3. CASE b[1] # n[1]
      BY <1>4, <2>1, <3>1, <3>3 DEF AppliedBefore
    <3> QED
      BY <3>2, <3>3
  <2> QED
    BY <2>3
<1> QED
  BY <1>5, <1>6

\* HighestDecides follows from the invariant.
LEMMA InvHighestDecides == ASSUME WInv, HistoryInv, SerialWrites PROVE HighestDecides
<1> SUFFICES ASSUME NEW e \in Entities, NEW list \in SetToSeqs(Cache),
                    NEW owner \in [DOMAIN list -> Owners(e)],
                    NEW set \in ListApplied(list, e, owner),
                    NEW id \in DOMAIN list[set[2]].config,
                    NEW p \in DOMAIN list[set[2]].config[id]
             PROVE  \E a \in ListSetters(list, e, owner, id, p) :
                      /\ GetPolicyConfig(list, e, owner)[id][p] =
                           [value |-> list[a[2]].config[id][p], configRef |-> list[a[2]].name]
                      /\ \A b \in ListSetters(list, e, owner, id, p) \ {a} :
                           \/ b[1] < a[1]
                           \/ b[1] = a[1] /\ a[1] \in {3, 4} /\ owner[a[2]] # owner[b[2]]
  BY DEF HighestDecides
<1> DEFINE U == ListSetters(list, e, owner, id, p)
           LA == ListApplied(list, e, owner)
<1>1. PICK D \in SUBSET Int :
         /\ list \in [D -> Cache] /\ \A i, j \in D : i # j => list[i] # list[j]
  BY CacheApart, ListsOf
<1>2. DOMAIN list = D
  BY <1>1
<1>3. \A a \in LA : /\ a = <<a[1], a[2]>> /\ a[1] \in 1..6 /\ a[2] \in D
                    /\ a[1] \in Tiers(list[a[2]], e, owner[a[2]])
  BY <1>2 DEF ListApplied
<1>4. /\ U = {a \in LA : id \in DOMAIN list[a[2]].config /\ p \in DOMAIN list[a[2]].config[id]}
      /\ set \in U
  BY DEF ListSetters
<1> HIDE DEF U, LA
<1>5. ASSUME NEW a \in U, NEW b \in U, a[1] = b[1], a # b
      PROVE  a[1] \in {3, 4} /\ owner[a[2]] # owner[b[2]]
  <2> DEFINE c == list[a[2]]
             d == list[b[2]]
             t == a[1]
  <2>1. a[2] # b[2] /\ a[2] \in D /\ b[2] \in D
    BY <1>3, <1>4, <1>5
  <2>2. c \in Cache /\ d \in Cache /\ c # d
    BY <1>1, <2>1
  <2>3. t \in Tiers(c, e, owner[a[2]]) \cap Tiers(d, e, owner[b[2]])
    BY <1>3, <1>4, <1>5
  <2> HIDE DEF c, d, t
  <2>4. Validate(c) /\ ~checkTargetOverlap(c, d)
    BY <2>2, CacheApart
  <2>5. t \in {3, 4} /\ owner[a[2]] # owner[b[2]]
    BY <2>3, <2>4, SharedTier
  <2> QED
    BY <2>5 DEF t
<1>6. PICK w \in U : \A b \in U \ {w} : AppliedBefore(b, w) /\ ~AppliedBefore(w, b)
  <2>1. PICK x, y : Owners(e) \subseteq {x, y}
    BY TwoOwners
  <2>2. \A a \in U : /\ a = <<a[1], a[2]>> /\ a[1] \in 1..6 /\ a[2] \in Int
                     /\ owner[a[2]] \in {x, y}
    BY <1>2, <1>3, <1>4, <2>1
  <2>3. \A a, b \in U : a[1] = b[1] /\ a # b => owner[a[2]] # owner[b[2]]
    BY <1>5
  <2>4. U # {}
    BY <1>4
  <2>5. (/\ U # {}
         /\ \A a \in U : /\ a = <<a[1], a[2]>> /\ a[1] \in 1..6 /\ a[2] \in Int
                          /\ owner[a[2]] \in {x, y}
         /\ \A a, b \in U : a[1] = b[1] /\ a # b => owner[a[2]] # owner[b[2]])
        => \E w \in U : \A b \in U \ {w} : AppliedBefore(b, w) /\ ~AppliedBefore(w, b)
    BY LastExists
  <2> QED
    BY <2>2, <2>3, <2>4, <2>5
<1>7. Winner(U) = w
  BY <1>6 DEF Winner
<1>8. GetPolicyConfig(list, e, owner)[id][p]
         = [value |-> list[w[2]].config[id][p], configRef |-> list[w[2]].name]
  <2> DEFINE R(i, q) ==
               [value |-> list[Winner(ListSetters(list, e, owner, i, q))[2]].config[i][q],
                configRef |-> list[Winner(ListSetters(list, e, owner, i, q))[2]].name]
             Ids == UNION {DOMAIN list[a[2]].config : a \in LA}
             Params(i) == UNION {DOMAIN list[a[2]].config[i] :
                                    a \in {a \in LA : i \in DOMAIN list[a[2]].config}}
  <2>1. GetPolicyConfig(list, e, owner) = [i \in Ids |-> [q \in Params(i) |-> R(i, q)]]
    BY GetPolicyConfigParts DEF LA
  <2>2. id \in Ids /\ p \in Params(id)
    BY <1>4
  <2>3. R(id, p) = [value |-> list[w[2]].config[id][p], configRef |-> list[w[2]].name]
    BY <1>7 DEF U
  <2> HIDE DEF R, Ids, Params
  <2> QED
    BY <2>1, <2>2, <2>3
<1>9. ASSUME NEW b \in U, b # w
      PROVE  \/ b[1] < w[1]
             \/ b[1] = w[1] /\ w[1] \in {3, 4} /\ owner[w[2]] # owner[b[2]]
  BY <1>5, <1>6, <1>9 DEF AppliedBefore
<1> QED
  BY <1>8, <1>9 DEF U

(***************************************************************************)
(* With serial writes the configuration of an entity is that of a config   *)
(* with the highest priority that sets a parameter, which is the only one  *)
(* unless the entity has two Flux owners, in whatever order the cache      *)
(* lists the configs.                                                      *)
(***************************************************************************)
THEOREM HighestPriorityDecides == Spec => [](SerialWrites => HighestDecides)
<1>1. WInv /\ HistoryInv => (SerialWrites => HighestDecides)
  BY InvHighestDecides
<1> QED
  BY <1>1, HistoryInvariance, PTL

\* With one owner, the list's order does not matter.
LEMMA InvResolved ==
    ASSUME WInv, HistoryInv, SerialWrites,
           NEW e, NEW owner, NEW list \in SetToSeqs(Cache)
    PROVE  GetPolicyConfig(list, e, [i \in DOMAIN list |-> owner]) = Resolved(Cache, e, owner)
<1>1. \A c, d \in Cache : Tiers(c, e, owner) \cap Tiers(d, e, owner) # {} => c = d
  BY CacheApart, SameTierOverlaps
<1> DEFINE S == Cache
           D == 1..Cardinality(S)
<1>2. /\ D \in SUBSET Int /\ list \in [D -> S]
      /\ \A i, j \in D : i # j => list[i] # list[j]
      /\ \A c \in S : \E i \in D : list[i] = c
  BY CacheApart, ListsOf
<1> HIDE DEF S, D
<1>3. \A c, d \in S : Tiers(c, e, owner) \cap Tiers(d, e, owner) # {} => c = d
  BY <1>1 DEF S
<1>4. GetPolicyConfig(list, e, [i \in DOMAIN list |-> owner]) = Resolved(S, e, owner)
  BY <1>2, <1>3, ListOrderIsIrrelevant
<1> QED
  BY <1>4 DEF S

(***************************************************************************)
(* With serial writes the configuration of an entity with at most one Flux *)
(* owner is determined by what is stored.                                  *)
(***************************************************************************)
THEOREM SerialWritesDeterministic == Spec => [](SerialWrites => Deterministic)
<1>1. ASSUME WInv, HistoryInv, SerialWrites PROVE Deterministic
  <2> SUFFICES ASSUME NEW e \in Entities, Cardinality(FluxObjects(e.labels)) <= 1
               PROVE  Cardinality(Resolutions(e)) = 1
    BY DEF Deterministic
  <2>1. PICK owner : Owners(e) = {owner}
    BY OneOwner
  <2>2. seen \in 1..Len(history)
    BY <1>1, StoreInHistory DEF WInv
  <2>3. SetToSeqs(Cache) # {}
    BY <1>1, <2>2, ListsOf DEF Cache, HistoryInv
  <2>4. \A list \in SetToSeqs(Cache) :
           GetPolicyConfig(list, e, [i \in DOMAIN list |-> owner]) = Resolved(Cache, e, owner)
    BY <1>1, InvResolved
  <2>5. Resolutions(e) = {Resolved(Cache, e, owner)}
    <3> DEFINE G(list, o) == GetPolicyConfig(list, e, [i \in DOMAIN list |-> o])
    <3>1. Resolutions(e) = {G(list, o) : list \in SetToSeqs(Cache), o \in Owners(e)}
      BY DEF Resolutions
    <3>2. \A list \in SetToSeqs(Cache) : G(list, owner) = Resolved(Cache, e, owner)
      BY <2>4
    <3> HIDE DEF G
    <3> QED
      BY <2>1, <2>3, <3>1, <3>2
  <2> QED
    BY <2>5, FS_Singleton
<1>2. WInv /\ HistoryInv => (SerialWrites => Deterministic)
  BY <1>1
<1> QED
  BY <1>2, HistoryInvariance, PTL
=============================================================================
