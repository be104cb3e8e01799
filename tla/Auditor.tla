-------------------------------- MODULE Auditor --------------------------------
(***************************************************************************)
(* The audit (internal/auditor/auditor.go) over the entity sources         *)
(* (internal/entities/k8s/k8s.go): on a request or a tick it lists every   *)
(* source page by page and validates the entities, while the objects in    *)
(* the cluster come and go.                                                *)
(*                                                                         *)
(* The sources follow from the agent's permissions (EntitySources).  An    *)
(* object is a record [name, parent, ignored]: it has an owner reference,  *)
(* it is in the namespace of the agent.  The API server (external) serves  *)
(* the pages of a list from the state at its first page; a continue token  *)
(* stands for the objects that are left.                                   *)
(***************************************************************************)
EXTENDS EntitySources

CONSTANTS
    Rules,         \* the agent's RBAC rules
    APIResources,  \* the API resources of the cluster
    Objects,       \* resource -> the objects it may hold
    Limit,         \* entitiesSizeLimit: the length of a page
    MaxChanges     \* bound on the changes in the cluster

ASSUME AuditorAssumption ==
    /\ getValidateRules(Rules)
    /\ Len(Rules) \in Nat /\ DOMAIN Rules = 1..Len(Rules)
    /\ Len(APIResources) \in Nat /\ DOMAIN APIResources = 1..Len(APIResources)
    /\ \A i, j \in DOMAIN APIResources : APIResources[i] = APIResources[j] => i = j
    /\ \A i \in DOMAIN APIResources : IsFiniteSet(Objects[APIResources[i]])
    /\ Limit \in Nat \ {0}
    /\ MaxChanges \in Nat

VARIABLES
    cluster,     \* resource -> its objects
    changes,     \* how often the cluster changed
    ctxDone,     \* the context of the manager is cancelled
    auditEvent,  \* how many events the channel holds
    tick,        \* the ticker's channel holds a tick
    begun,       \* an audit has been started
    pc,          \* what Start is doing
    src,         \* doAudit's position in entitiesSources
    keySet,      \* the objects that the continue token stands for
    first,       \* keySet is "": the list starts afresh
    hasNext,     \* the token of the last page was not ""
    page,        \* the entities of the page that are still to be looked at
    log,         \* what this audit validated
    failed,      \* the sources whose list failed in this audit
    steady       \* resource -> the objects that were there all through this audit

vars == <<cluster, changes, ctxDone, auditEvent, tick, begun, pc, src, keySet,
          first, hasNext, page, log, failed, steady>>

clusterVars == <<cluster, changes, steady>>
eventVars == <<ctxDone, auditEvent, tick, begun>>
listVars == <<src, keySet, first, hasNext, page>>

\* make(chan AuditEvent, 1)
ChanCap == 1

entitiesSources == GetEntitiesSources(Rules, APIResources)

Sources == Len(entitiesSources)

Resource(s) == entitiesSources[s].resource

ResourceNames(s) == entitiesSources[s].resourceNames

Resources == {APIResources[i] : i \in DOMAIN APIResources}

AllObjects == UNION {Objects[r] : r \in Resources}

Clusters ==
    {c \in [Resources -> SUBSET AllObjects] : \A r \in Resources : c[r] \subseteq Objects[r]}

\* main.go requests the initial audit before the manager starts anything.
Init ==
    /\ cluster \in Clusters
    /\ changes = 0
    /\ ctxDone = FALSE
    /\ auditEvent = 1
    /\ tick = FALSE
    /\ begun = FALSE
    /\ pc = "new"
    /\ src = Sources + 1
    /\ keySet = {}
    /\ first = TRUE
    /\ hasNext = FALSE
    /\ page = {}
    /\ log = << >>
    /\ failed = {}
    /\ steady = cluster

Change(r) ==
    /\ changes < MaxChanges
    /\ changes' = changes + 1
    /\ \E o \in Objects[r] :
          cluster' = [cluster EXCEPT ![r] = IF o \in @ THEN @ \ {o} ELSE @ \cup {o}]
    /\ steady' = [steady EXCEPT ![r] = @ \cap cluster'[r]]
    /\ UNCHANGED <<eventVars, pc, listVars, log, failed>>

\* Plausible bug: the send does not wait.
Audit_NoWait ==
    /\ auditEvent' = auditEvent + 1
    /\ UNCHANGED <<clusterVars, ctxDone, tick, begun, pc, listVars, log, failed>>

\* Audit: the send waits while the channel is full.
Audit ==
    /\ auditEvent < ChanCap
    /\ auditEvent' = auditEvent + 1
    /\ UNCHANGED <<clusterVars, ctxDone, tick, begun, pc, listVars, log, failed>>

\* time.Ticker drops a tick that nobody has taken.
Tick ==
    /\ ~tick
    /\ pc \notin {"new", "stopped"}
    /\ tick' = TRUE
    /\ UNCHANGED <<clusterVars, ctxDone, auditEvent, begun, pc, listVars, log, failed>>

Shutdown ==
    /\ ~ctxDone
    /\ ctxDone' = TRUE
    /\ UNCHANGED <<clusterVars, auditEvent, tick, begun, pc, listVars, log, failed>>
-----------------------------------------------------------------------------
(***************************************************************************)
(* Start                                                                   *)
(***************************************************************************)
Start ==
    /\ pc = "new"
    /\ pc' = "select"
    /\ UNCHANGED <<clusterVars, eventVars, listVars, log, failed>>

\* The beginning of doAudit, and of its turn for the first source.
doAudit ==
    /\ begun' = TRUE
    /\ pc' = "list"
    /\ src' = 1
    /\ keySet' = {} /\ first' = TRUE /\ hasNext' = TRUE
    /\ page' = {}
    /\ log' = << >>
    /\ failed' = {}
    /\ steady' = cluster

OnTick ==
    /\ pc = "select"
    /\ tick
    /\ tick' = FALSE
    /\ doAudit
    /\ UNCHANGED <<cluster, changes, ctxDone, auditEvent>>

\* Plausible bug: ticks go first.
OnEvent_NoTick ==
    /\ pc = "select"
    /\ auditEvent > 0
    /\ ~tick
    /\ auditEvent' = auditEvent - 1
    /\ doAudit
    /\ UNCHANGED <<cluster, changes, ctxDone, tick>>

OnEvent ==
    /\ pc = "select"
    /\ auditEvent > 0
    /\ auditEvent' = auditEvent - 1
    /\ doAudit
    /\ UNCHANGED <<cluster, changes, ctxDone, tick>>

\* Plausible bug: the context is looked at when there is nothing else.
OnDone_Last ==
    /\ pc = "select"
    /\ ctxDone
    /\ ~tick
    /\ pc' = "stopped"
    /\ UNCHANGED <<clusterVars, eventVars, listVars, log, failed>>

OnDone ==
    /\ pc = "select"
    /\ ctxDone
    /\ pc' = "stopped"
    /\ UNCHANGED <<clusterVars, eventVars, listVars, log, failed>>
-----------------------------------------------------------------------------
(***************************************************************************)
(* The loops of doAudit.                                                   *)
(***************************************************************************)

\* The items behind the token: those of a new list, or the rest of one.
Listed(s) == IF first THEN cluster[Resource(s)] ELSE keySet

\* Plausible bug: a page that is not full is taken for the last one.
HasNext_ShortPage(data, rest) == Cardinality(data) >= Limit /\ rest # {}

\* HasNext: keySet != ""
HasNext(data, rest) == rest # {}

\* keySet = entitiesList.KeySet; a token of "" lists from the beginning.
NextKeySet(rest) == rest = {}

(***************************************************************************)
(* K8SEntitySource.List.  With resource names it makes one request for     *)
(* each of them, without a limit; entities in the namespace of the agent   *)
(* are left out of the page.                                               *)
(***************************************************************************)
List ==
    /\ pc = "list"
    /\ src <= Sources
    /\ hasNext
    /\ LET named == ResourceNames(src) # {}
           items == IF named THEN {o \in cluster[Resource(src)] : o.name \in ResourceNames(src)}
                             ELSE Listed(src)
           size == IF named \/ Cardinality(items) < Limit THEN Cardinality(items) ELSE Limit
       IN \E chunk \in kSubset(size, items) :
             LET rest == items \ chunk
                 data == {o \in chunk : ~o.ignored}
             IN /\ page' = data
                /\ hasNext' = HasNext(data, rest)
                /\ keySet' = rest
                /\ first' = NextKeySet(rest)
    /\ pc' = "validate"
    /\ UNCHANGED <<clusterVars, eventVars, src, log, failed>>

\* The request fails (also: the token has expired, the context is cancelled).
ListFails ==
    /\ pc = "list"
    /\ src <= Sources
    /\ hasNext
    /\ failed' = failed \cup {src}
    /\ hasNext' = FALSE
    /\ UNCHANGED <<clusterVars, eventVars, pc, src, keySet, first, page, log>>

\* One turn of the loop over the page.  An entity with a parent is skipped;
\* the error of Validate is logged.
Validate ==
    /\ pc = "validate"
    /\ \E e \in page :
          /\ page' = page \ {e}
          /\ log' = IF e.parent THEN log ELSE Append(log, <<Resource(src), e>>)
    /\ UNCHANGED <<clusterVars, eventVars, pc, src, keySet, first, hasNext, failed>>

PageDone ==
    /\ pc = "validate"
    /\ page = {}
    /\ pc' = "list"
    /\ UNCHANGED <<clusterVars, eventVars, listVars, log, failed>>

NextSource ==
    /\ pc = "list"
    /\ src <= Sources
    /\ ~hasNext
    /\ src' = src + 1
    /\ keySet' = {} /\ first' = TRUE /\ hasNext' = TRUE
    /\ UNCHANGED <<clusterVars, eventVars, pc, page, log, failed>>

AuditDone ==
    /\ pc = "list"
    /\ src > Sources
    /\ pc' = "select"
    /\ UNCHANGED <<clusterVars, eventVars, listVars, log, failed>>
-----------------------------------------------------------------------------
Auditing == List \/ ListFails \/ Validate \/ PageDone \/ NextSource \/ AuditDone

Next ==
    \/ \E r \in Resources : Change(r)
    \/ Audit \/ Tick \/ Shutdown
    \/ Start \/ OnTick \/ OnEvent \/ OnDone
    \/ Auditing

(***************************************************************************)
(* The goroutine of Start runs when it can, and a Go select chooses at     *)
(* random among its ready cases, so it does not pass over one for ever.    *)
(***************************************************************************)
Fairness ==
    /\ WF_vars(Start)
    /\ WF_vars(Auditing)
    /\ SF_vars(OnTick)
    /\ SF_vars(OnEvent)
    /\ SF_vars(OnDone)

Spec == Init /\ [][Next]_vars

FairSpec == Spec /\ Fairness
-----------------------------------------------------------------------------
TypeOK ==
    /\ cluster \in Clusters
    /\ changes \in 0..MaxChanges
    /\ ctxDone \in BOOLEAN
    /\ auditEvent \in 0..ChanCap
    /\ tick \in BOOLEAN
    /\ begun \in BOOLEAN
    /\ pc \in {"new", "select", "list", "validate", "stopped"}
    /\ src \in 1..(Sources + 1)
    /\ keySet \subseteq AllObjects
    /\ first \in BOOLEAN
    /\ hasNext \in BOOLEAN
    /\ page \subseteq AllObjects
    /\ log \in Seq(Resources \X AllObjects)
    /\ failed \subseteq 1..Sources
    /\ steady \in Clusters

\* The objects of source s that an audit is to validate.
Auditable(s) ==
    {o \in Objects[Resource(s)] :
        /\ ~o.parent /\ ~o.ignored
        /\ ResourceNames(s) # {} => o.name \in ResourceNames(s)}

Validated(r) == {o \in AllObjects : \E j \in DOMAIN log : log[j] = <<r, o>>}

(***************************************************************************)
(* An audit that is through with a source, and could list it, has          *)
(* validated every auditable object that was there from its start to its   *)
(* end, however the objects fell into pages, which of them were left out   *)
(* of a page, and whatever happened to the lists of other sources.         *)
(***************************************************************************)
Covered ==
    \A s \in 1..Sources :
        begun /\ s < src /\ s \notin failed =>
            steady[Resource(s)] \cap Auditable(s) \subseteq Validated(Resource(s))

\* An audit validates no object twice, and none it is to leave alone.
OnceEach ==
    /\ \A j, l \in DOMAIN log : log[j] = log[l] => j = l
    /\ \A s \in 1..Sources : Validated(Resource(s)) \subseteq Auditable(s)

\* Both: each object that was there all along is validated exactly once.
Exact == Covered /\ OnceEach

(***************************************************************************)
(* docs/README.md: the audit "lists all the resources in the cluster which *)
(* the agent has access to read and validates those resources".  So an     *)
(* audit without failures has validated every steady object that some rule *)
(* lets the agent list (policies, owned objects and the agent's own        *)
(* namespace aside).                                                       *)
(***************************************************************************)
AuditsAllReadable ==
    begun /\ src > Sources /\ failed = {} =>
        \A i \in DOMAIN APIResources :
            LET r == APIResources[i] IN
            listVerb \in r.verbs /\ ~IsPolicyResource(r) =>
                \A o \in steady[r] :
                    ~o.parent /\ ~o.ignored /\ MayList(Rules, r, o.name) =>
                        o \in Validated(r)

(***************************************************************************)
(* An audit ends, also when lists fail and objects come and go.            *)
(***************************************************************************)
AuditEnds == (pc \in {"list", "validate"}) ~> (pc = "select")

(***************************************************************************)
(* A requested audit is begun: the event that main.go sends before Start   *)
(* is not lost, and ticks do not keep requests waiting for ever.           *)
(***************************************************************************)
RequestsServed ==
    (auditEvent > 0) ~> (auditEvent = 0 \/ ctxDone)

\* Both: audits end, and requested ones begin.
AuditsProceed == AuditEnds /\ RequestsServed

\* Start returns once the context is cancelled, though requests and ticks
\* may win the race for the select a number of times.
StopsOnShutdown == ctxDone /\ pc # "new" ~> pc = "stopped"
=============================================================================
