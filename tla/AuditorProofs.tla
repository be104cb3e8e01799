---------------------------- MODULE AuditorProofs ----------------------------
(***************************************************************************)
(* Proofs, for any rules, API resources, objects, page size and number of  *)
(* changes in the cluster, of what an audit validates: everything it is    *)
(* to, nothing else, and nothing twice.                                    *)
(***************************************************************************)
EXTENDS Auditor, FiniteSetTheorems, SequenceTheorems, WellFoundedInduction, TLAPS

\* An audit is looking at a source.
Looking == pc \in {"list", "validate"} /\ src <= Sources

\* The source has not been listed yet in this audit.
Fresh == hasNext /\ first

\* The objects that pages still to be listed may hold.
Remaining(s) == IF ~hasNext THEN {} ELSE IF first THEN cluster[Resource(s)] ELSE keySet

(***************************************************************************)
(* Where the loops are.                                                    *)
(***************************************************************************)
PlaceInv ==
    /\ pc \in {"list", "validate"} => begun
    /\ pc \notin {"list", "validate"} => src = Sources + 1
    /\ pc = "validate" => src <= Sources /\ hasNext = ~first
    /\ src \in failed => pc = "list" /\ ~hasNext
    /\ pc = "list" => page = {}
    /\ failed \subseteq 1..src

\* What was there all along is there.
SteadyInv == \A r \in Resources : steady[r] \subseteq cluster[r]

(***************************************************************************)
(* The log tells the sources in their order, and what it holds is to be    *)
(* audited.                                                                *)
(***************************************************************************)
LogInv ==
    /\ \A j \in DOMAIN log : \E s \in 1..Sources :
          s <= src /\ log[j][1] = Resource(s) /\ log[j][2] \in Auditable(s)
    /\ \A j, l \in DOMAIN log : log[j] = log[l] => j = l

(***************************************************************************)
(* The objects of the source in hand: those validated, those on the page   *)
(* and those behind the continue token are different ones, and none that   *)
(* must be validated has slipped between them.                             *)
(***************************************************************************)
SourceInv ==
    Looking =>
        /\ page \subseteq {o \in Objects[Resource(src)] :
                             /\ ~o.ignored
                             /\ ResourceNames(src) # {} => o.name \in ResourceNames(src)}
        /\ keySet \subseteq Objects[Resource(src)]
        /\ page \cap Validated(Resource(src)) = {}
        /\ Fresh => page = {} /\ Validated(Resource(src)) = {}
        /\ hasNext /\ ~first => /\ keySet \cap (page \cup Validated(Resource(src))) = {}
                                /\ ResourceNames(src) = {}
        /\ src \notin failed =>
              steady[Resource(src)] \cap Auditable(src)
                  \subseteq Validated(Resource(src)) \cup page \cup Remaining(src)

IInv == TypeOK /\ PlaceInv /\ SteadyInv /\ LogInv /\ SourceInv /\ Covered

-----------------------------------------------------------------------------
(***************************************************************************)
(* Ascending lists a finite set of numbers, each once and smaller ones     *)
(* first: a loop over a list that passes over some of its members.         *)
(***************************************************************************)
LEMMA AscendingFacts ==
    ASSUME NEW I \in SUBSET Nat, IsFiniteSet(I)
    PROVE  /\ Cardinality(I) \in Nat
           /\ Ascending(I) \in [1..Cardinality(I) -> I]
           /\ \A m, l \in 1..Cardinality(I) : Ascending(I)[m] = Ascending(I)[l] => m = l
           /\ \A m, l \in 1..Cardinality(I) : m < l => Ascending(I)[m] < Ascending(I)[l]
           /\ \A i \in I : \E m \in 1..Cardinality(I) : Ascending(I)[m] = i
<1> DEFINE n == Cardinality(I)
           upto(i) == {k \in I : k <= i}
           rank == [i \in I |-> Cardinality(upto(i))]
<1>1. n \in Nat /\ IsFiniteSet(1..n) /\ Cardinality(1..n) = n
  BY FS_CardinalityType, FS_Interval
<1>2. \A i \in I : /\ IsFiniteSet(upto(i)) /\ Cardinality(upto(i)) \in Nat
                   /\ Cardinality(upto(i)) <= n
  BY FS_Subset, FS_CardinalityType
<1>3. \A i \in I : Cardinality(upto(i)) # 0
  <2>1. \A i \in I : i \in upto(i)
    OBVIOUS
  <2> QED
    BY <1>2, <2>1, FS_EmptySet
<1>4. rank \in [I -> 1..n]
  BY <1>1, <1>2, <1>3
<1>5. ASSUME NEW i \in I, NEW k \in I, i < k PROVE rank[i] < rank[k]
  <2>0. i \in Nat /\ k \in Nat /\ \A x \in I : x \in Nat
    OBVIOUS
  <2>1. upto(i) \subseteq upto(k) /\ k \in upto(k) /\ k \notin upto(i)
    <3>1. k \in upto(k) /\ k \notin upto(i)
      BY <1>5, <2>0
    <3>2. ASSUME NEW x \in I, x <= i PROVE x <= k
      BY <1>5, <2>0, <3>2
    <3> QED
      BY <3>1, <3>2
  <2>2. Cardinality(upto(i)) <= Cardinality(upto(k)) /\ Cardinality(upto(k)) # Cardinality(upto(i))
    <3> HIDE DEF upto
    <3> QED
      BY <1>2, <2>1, FS_Subset
  <2> QED
    BY <1>2, <2>2
<1>6. \A i, k \in I : rank[i] = rank[k] => i = k
  <2> SUFFICES ASSUME NEW i \in I, NEW k \in I, rank[i] = rank[k], i # k PROVE FALSE
    OBVIOUS
  <2>1. i < k \/ k < i
    OBVIOUS
  <2>2. rank[i] \in Nat /\ rank[k] \in Nat
    BY <1>4
  <2> HIDE DEF rank
  <2> QED
    BY <1>5, <2>1, <2>2
<1>7. rank \in Surjection(I, 1..n)
  <2>1. rank \in Injection(I, 1..n)
    <3> HIDE DEF rank
    <3> QED
      BY <1>4, <1>6 DEF Injection, IsInjective
  <2> HIDE DEF rank
  <2> QED
    BY <1>1, <2>1, FS_Injection
<1>8. ASSUME NEW m \in 1..n PROVE Ascending(I)[m] \in I /\ rank[Ascending(I)[m]] = m
  <2>1. \E i \in I : Cardinality(upto(i)) = m
    <3>1. \E i \in I : rank[i] = m
      BY <1>7 DEF Surjection
    <3> QED
      BY <3>1
  <2> QED
    BY <2>1 DEF Ascending
<1>9. Ascending(I) \in [1..n -> I]
  BY <1>8 DEF Ascending
<1>10. ASSUME NEW i \in I PROVE \E m \in 1..n : Ascending(I)[m] = i
  <2> HIDE DEF rank
  <2>1. rank[i] \in 1..n
    BY <1>4
  <2> QED
    BY <1>6, <1>8, <2>1
<1>11. ASSUME NEW m \in 1..n, NEW l \in 1..n, m < l PROVE Ascending(I)[m] < Ascending(I)[l]
  <2> HIDE DEF rank
  <2>1. PICK a, b \in I : a = Ascending(I)[m] /\ b = Ascending(I)[l] /\ rank[a] = m /\ rank[b] = l
    BY <1>8
  <2>2. ~(b < a) /\ a # b
    BY <1>5, <1>11, <2>1
  <2> QED
    BY <2>1, <2>2
<1>12. \A m, l \in 1..n : Ascending(I)[m] = Ascending(I)[l] => m = l
  <2> HIDE DEF rank
  <2> QED
    BY <1>8
<1> QED
  BY <1>1, <1>9, <1>10, <1>11, <1>12

\* The positions of a list that pass a test are finitely many.
LEMMA PositionsFinite ==
    ASSUME NEW n \in Nat, NEW I \in SUBSET (1..n)
    PROVE  I \in SUBSET Nat /\ IsFiniteSet(I)
<1>1. IsFiniteSet(1..n) /\ 1..n \subseteq Nat
  BY FS_Interval
<1> QED
  BY <1>1, FS_Subset

\* The order of the natural numbers, as a relation.
Less == {pair \in Nat \X Nat : pair[1] < pair[2]}

\* There is no infinite descent.
LEMMA LessWellFounded == IsWellFoundedOn(Less, Nat)
  BY NatLessThanWellFounded, Zenon DEF Less, OpToRel

\* A smaller number is before a larger one.
LEMMA LessMember == \A x, y \in Nat : x < y => <<x, y>> \in Less
  BY DEF Less

\* A minimum is one, of a set of numbers that is not empty.
LEMMA MinFacts ==
    ASSUME NEW S \in SUBSET Nat, S # {}
    PROVE  Min(S) \in S /\ \A k \in S : Min(S) <= k
<1>1. PICK m \in S : \A k \in S : ~(<<k, m>> \in Less)
  BY LessWellFounded, WFMin
<1>2. ASSUME NEW k \in S PROVE m <= k
  <2>1. ~(k < m)
    BY <1>1, LessMember
  <2> QED
    BY <2>1
<1> QED
  BY <1>2 DEF Min

(***************************************************************************)
(* Each API resource that passes the tests is a source, once, with the     *)
(* names of the first rule that allows it; nothing else is a source.       *)
(***************************************************************************)
LEMMA SourceList ==
    /\ Sources \in Nat
    /\ \A s \in 1..Sources : Resource(s) \in Resources
    /\ \A s, t \in 1..Sources : Resource(s) = Resource(t) => s = t
    /\ \A r \in Resources : IsSource(rulesCaches(Rules), r) =>
          \E s \in 1..Sources :
              /\ Resource(s) = r
              /\ ResourceNames(s) =
                    rulesCaches(Rules)[Min(Allowing(rulesCaches(Rules), r))].resourceNames
<1> DEFINE I == {i \in DOMAIN APIResources : IsSource(rulesCaches(Rules), APIResources[i])}
           listed == Ascending(I)
<1>1. I \in SUBSET Nat /\ IsFiniteSet(I)
  BY AuditorAssumption, PositionsFinite
<1>2. /\ Cardinality(I) \in Nat
      /\ DOMAIN listed = 1..Cardinality(I)
      /\ \A n \in 1..Cardinality(I) : listed[n] \in I
      /\ \A n, m \in 1..Cardinality(I) : listed[n] = listed[m] => n = m
      /\ \A i \in I : \E n \in 1..Cardinality(I) : listed[n] = i
  <2> HIDE DEF I
  <2> QED
    BY <1>1, AscendingFacts
<1> DEFINE names(r) == rulesCaches(Rules)[Min(Allowing(rulesCaches(Rules), r))].resourceNames
           entry(n) == [resource      |-> APIResources[listed[n]],
                        resourceNames |-> names(APIResources[listed[n]])]
<1>3. entitiesSources = [n \in DOMAIN listed |-> entry(n)]
  BY DEF entitiesSources, GetEntitiesSources
<1> HIDE DEF names
<1>4. \A n : /\ entry(n).resource = APIResources[listed[n]]
             /\ entry(n).resourceNames = names(APIResources[listed[n]])
  OBVIOUS
<1>5. entitiesSources = [n \in 1..Cardinality(I) |-> entry(n)]
  BY <1>2, <1>3
<1> HIDE DEF entry, I
<1>6. Sources = Cardinality(I)
  <2>1. Len([n \in 1..Cardinality(I) |-> entry(n)]) = Cardinality(I)
    BY <1>2
  <2> QED
    BY <1>5, <2>1 DEF Sources
<1>7. \A s \in 1..Sources : /\ Resource(s) = APIResources[listed[s]]
                            /\ ResourceNames(s) = names(Resource(s))
  BY <1>4, <1>5, <1>6 DEF Resource, ResourceNames
<1>8. \A n \in 1..Sources : listed[n] \in DOMAIN APIResources
  BY <1>2, <1>6 DEF I
<1>9. ASSUME NEW r \in Resources, IsSource(rulesCaches(Rules), r)
      PROVE  \E s \in 1..Sources : Resource(s) = r /\ ResourceNames(s) = names(r)
  <2>1. PICK i \in I : APIResources[i] = r
    BY <1>9 DEF Resources, I
  <2> QED
    BY <1>2, <1>6, <1>7, <2>1
<1> HIDE DEF listed
<1> QED
  BY <1>2, <1>6, <1>7, <1>8, <1>9, AuditorAssumption DEF Resources, names

\* The sources are a list, of API resources, each at most once.
LEMMA SourceFacts ==
    /\ Sources \in Nat
    /\ \A s \in 1..Sources : Resource(s) \in Resources
    /\ \A s, t \in 1..Sources : Resource(s) = Resource(t) => s = t
  BY SourceList

-----------------------------------------------------------------------------
\* The initial states satisfy the inductive invariant.
LEMMA InitIInv == Init => IInv
<1> SUFFICES ASSUME Init PROVE IInv
  OBVIOUS
<1> USE DEF Init
<1>1. TypeOK
  <2>1. changes \in 0..MaxChanges /\ auditEvent \in 0..ChanCap /\ src \in 1..(Sources + 1)
    BY SourceFacts, AuditorAssumption DEF ChanCap
  <2>2. log \in Seq(Resources \X AllObjects)
    OBVIOUS
  <2>3. cluster \in Clusters /\ steady \in Clusters
    OBVIOUS
  <2>4. ctxDone \in BOOLEAN /\ tick \in BOOLEAN /\ begun \in BOOLEAN
    OBVIOUS
  <2>5. /\ first \in BOOLEAN /\ hasNext \in BOOLEAN
        /\ keySet \subseteq AllObjects /\ page \subseteq AllObjects /\ failed \subseteq 1..Sources
    OBVIOUS
  <2> QED
    BY <2>1, <2>2, <2>3, <2>4, <2>5 DEF TypeOK
<1>2. PlaceInv /\ SteadyInv /\ Covered
  BY DEF PlaceInv, SteadyInv, Covered
<1>3. LogInv /\ SourceInv
  BY DEF LogInv, SourceInv, Looking
<1> QED
  BY <1>1, <1>2, <1>3 DEF IInv

\* A step that leaves the audit alone.
LEMMA AuditKept ==
    ASSUME IInv, UNCHANGED <<clusterVars, begun, pc, listVars, log, failed>>
    PROVE  PlaceInv' /\ SteadyInv' /\ LogInv' /\ SourceInv' /\ Covered'
<1> USE DEF clusterVars, listVars
<1>1. PlaceInv' /\ SteadyInv' /\ LogInv'
  BY DEF IInv, PlaceInv, SteadyInv, LogInv, Auditable
<1>2. \A r : Validated(r)' = Validated(r)
  BY DEF Validated
<1>3. \A s : Auditable(s)' = Auditable(s) /\ Remaining(s)' = Remaining(s)
  BY DEF Auditable, Remaining
<1>4. SourceInv'
  BY <1>2, <1>3 DEF IInv, SourceInv, Looking, Fresh
<1>5. Covered'
  BY <1>2, <1>3 DEF IInv, Covered
<1> QED
  BY <1>1, <1>4, <1>5

\* Requests, ticks and the end of the manager leave the audit alone.
LEMMA EventStep == IInv /\ (Audit \/ Tick \/ Shutdown) => IInv'
<1> SUFFICES ASSUME IInv, Audit \/ Tick \/ Shutdown PROVE IInv'
  OBVIOUS
<1>1. UNCHANGED <<clusterVars, begun, pc, listVars, log, failed>>
  BY DEF Audit, Tick, Shutdown
<1>2. auditEvent' \in 0..ChanCap /\ ctxDone' \in BOOLEAN /\ tick' \in BOOLEAN
  <2>1. auditEvent \in 0..ChanCap /\ ctxDone \in BOOLEAN /\ tick \in BOOLEAN
    BY DEF IInv, TypeOK
  <2>2. \/ auditEvent < ChanCap /\ auditEvent' = auditEvent + 1
        \/ auditEvent' = auditEvent
    BY DEF Audit, Tick, Shutdown
  <2>3. auditEvent' \in 0..ChanCap
    BY <2>1, <2>2 DEF ChanCap
  <2>4. ctxDone' \in {ctxDone, TRUE} /\ tick' \in {tick, TRUE}
    BY DEF Audit, Tick, Shutdown
  <2> QED
    BY <2>1, <2>3, <2>4
<1>3. TypeOK'
  BY <1>1, <1>2 DEF IInv, TypeOK, clusterVars, listVars
<1> QED
  BY <1>1, <1>3, AuditKept DEF IInv

\* Start and the end of the loop do, too.
LEMMA StartStep == IInv /\ (Start \/ OnDone) => IInv'
<1> SUFFICES ASSUME IInv, Start \/ OnDone PROVE IInv'
  OBVIOUS
<1>1. /\ pc \in {"new", "select"} /\ pc' \in {"select", "stopped"}
      /\ UNCHANGED <<clusterVars, eventVars, listVars, log, failed>>
  BY DEF Start, OnDone
<1> USE DEF clusterVars, eventVars, listVars
<1>2. TypeOK'
  BY <1>1 DEF IInv, TypeOK
<1>3. PlaceInv' /\ SteadyInv' /\ LogInv' /\ SourceInv'
  BY <1>1 DEF IInv, PlaceInv, SteadyInv, LogInv, SourceInv, Looking, Auditable
<1>4. \A r : Validated(r)' = Validated(r)
  BY <1>1 DEF Validated
<1>5. Covered'
  BY <1>1, <1>4 DEF IInv, Covered, Auditable
<1> QED
  BY <1>2, <1>3, <1>5 DEF IInv

\* A change in the cluster takes from what was there all along.
LEMMA ChangeStep == ASSUME IInv, NEW r \in Resources, Change(r) PROVE IInv'
<1>0. /\ UNCHANGED <<eventVars, pc, listVars, log, failed>>
      /\ changes < MaxChanges /\ changes' = changes + 1
  BY DEF Change
<1> USE DEF eventVars, listVars
<1>1. PICK o \in Objects[r] :
         cluster' = [cluster EXCEPT ![r] = IF o \in @ THEN @ \ {o} ELSE @ \cup {o}]
  BY DEF Change
<1>2. cluster \in [Resources -> SUBSET AllObjects] /\ steady \in [Resources -> SUBSET AllObjects]
      /\ o \in AllObjects
  BY DEF IInv, TypeOK, Clusters, AllObjects
<1>3. cluster' \in Clusters
  <2>1. cluster' \in [Resources -> SUBSET AllObjects]
    BY <1>1, <1>2
  <2>2. \A q \in Resources : cluster'[q] \subseteq Objects[q]
    BY <1>1, <1>2 DEF IInv, TypeOK, Clusters
  <2> QED
    BY <2>1, <2>2 DEF Clusters
<1>4. \A q \in Resources : steady'[q] = IF q = r THEN steady[q] \cap cluster'[q] ELSE steady[q]
  BY <1>2 DEF Change
<1>5. steady' \in Clusters
  <2>1. steady' \in [Resources -> SUBSET AllObjects]
    BY <1>2, <1>4 DEF Change
  <2> QED
    BY <1>4, <2>1 DEF Clusters, IInv, TypeOK
<1>6. \A q \in Resources : steady'[q] \subseteq steady[q] /\ steady'[q] \subseteq cluster'[q]
  <2>1. \A q \in Resources : q # r => cluster'[q] = cluster[q]
    BY <1>1, <1>2
  <2> QED
    BY <1>4, <2>1 DEF IInv, SteadyInv
<1>7. TypeOK'
  BY <1>0, <1>3, <1>5, AuditorAssumption DEF IInv, TypeOK
<1>8. PlaceInv' /\ LogInv'
  BY <1>0 DEF IInv, PlaceInv, LogInv, Auditable
<1>9. SteadyInv'
  BY <1>6 DEF SteadyInv
<1>10. \A q : Validated(q)' = Validated(q)
  BY <1>0 DEF Validated
<1>11. Covered'
  BY <1>0, <1>6, <1>10, SourceFacts DEF IInv, Covered, Auditable
<1>12. SourceInv'
  <2> SUFFICES ASSUME Looking' PROVE SourceInv'
    BY DEF SourceInv
  <2>1. Looking /\ src \in 1..Sources /\ Resource(src) \in Resources
    BY <1>0, SourceFacts DEF Looking, IInv, TypeOK
  <2>2. src \notin failed =>
           steady'[Resource(src)] \cap Auditable(src)
               \subseteq Validated(Resource(src)) \cup page \cup Remaining(src)'
    <3>1. CASE hasNext /\ first
      BY <1>0, <1>6, <2>1, <3>1 DEF Remaining
    <3>2. CASE ~(hasNext /\ first)
      <4>1. Remaining(src)' = Remaining(src)
        BY <1>0, <3>2 DEF Remaining
      <4> QED
        BY <1>6, <2>1, <4>1 DEF IInv, SourceInv
    <3> QED
      BY <3>1, <3>2
  <2> QED
    BY <1>0, <1>10, <2>1, <2>2 DEF IInv, SourceInv, Fresh, Auditable
<1> QED
  BY <1>7, <1>8, <1>9, <1>11, <1>12 DEF IInv

\* An audit begins: nothing is done yet.
LEMMA BeginStep == IInv /\ (OnTick \/ OnEvent) => IInv'
<1> SUFFICES ASSUME IInv, OnTick \/ OnEvent PROVE IInv'
  OBVIOUS
<1>1. /\ pc = "select" /\ begun' = TRUE /\ pc' = "list" /\ src' = 1
      /\ keySet' = {} /\ first' = TRUE /\ hasNext' = TRUE /\ page' = {}
      /\ log' = << >> /\ failed' = {} /\ steady' = cluster
      /\ UNCHANGED <<cluster, changes, ctxDone>>
  BY DEF OnTick, OnEvent, doAudit
<1>2. tick' \in BOOLEAN /\ auditEvent' \in 0..ChanCap
  <2>1. auditEvent \in 0..ChanCap /\ tick \in BOOLEAN
    BY DEF IInv, TypeOK
  <2>2. \/ auditEvent > 0 /\ auditEvent' = auditEvent - 1
        \/ auditEvent' = auditEvent
    BY DEF OnTick, OnEvent
  <2>3. auditEvent' \in 0..ChanCap
    BY <2>1, <2>2 DEF ChanCap
  <2>4. tick' \in {tick, FALSE}
    BY DEF OnTick, OnEvent
  <2> QED
    BY <2>1, <2>3, <2>4
<1>3. TypeOK'
  BY <1>1, <1>2, SourceFacts DEF IInv, TypeOK
<1>4. PlaceInv' /\ SteadyInv' /\ LogInv'
  BY <1>1, SourceFacts DEF PlaceInv, SteadyInv, LogInv
<1>5. SourceInv'
  <2> SUFFICES ASSUME src' <= Sources PROVE SourceInv'
    BY DEF SourceInv, Looking
  <2>1. Remaining(src)' = cluster[Resource(src')]
    BY <1>1 DEF Remaining
  <2>2. Validated(Resource(src))' = {}
    BY <1>1 DEF Validated
  <2>3. page' = {} /\ keySet' = {} /\ first'
    BY <1>1
  <2>4. steady'[Resource(src')] = cluster[Resource(src')]
    BY <1>1
  <2> QED
    BY <2>1, <2>2, <2>3, <2>4 DEF SourceInv
<1>6. Covered'
  BY <1>1 DEF Covered
<1> QED
  BY <1>3, <1>4, <1>5, <1>6 DEF IInv

\* The list of a source fails: the loop goes on to the next source.
LEMMA ListFailsStep == IInv /\ ListFails => IInv'
<1> SUFFICES ASSUME IInv, ListFails PROVE IInv'
  OBVIOUS
<1>1. /\ pc = "list" /\ src <= Sources /\ hasNext /\ failed' = failed \cup {src} /\ hasNext' = FALSE
      /\ UNCHANGED <<cluster, changes, steady, ctxDone, auditEvent, tick, begun, pc, src,
                     keySet, first, page, log>>
  BY DEF ListFails, clusterVars, eventVars
<1>2. src \in 1..Sources
  BY <1>1, SourceFacts DEF IInv, TypeOK
<1>3. TypeOK'
  BY <1>1, <1>2 DEF IInv, TypeOK
<1>4. PlaceInv' /\ SteadyInv' /\ LogInv'
  BY <1>1, <1>2 DEF IInv, PlaceInv, SteadyInv, LogInv, Auditable
<1>5. \A r : Validated(r)' = Validated(r)
  BY <1>1 DEF Validated
<1>6. SourceInv'
  BY <1>1, <1>5 DEF IInv, SourceInv, Looking, Fresh
<1>7. Covered'
  BY <1>1, <1>5 DEF IInv, Covered, Auditable
<1> QED
  BY <1>3, <1>4, <1>6, <1>7 DEF IInv

\* The loop over a page ends.
LEMMA PageDoneStep == IInv /\ PageDone => IInv'
<1> SUFFICES ASSUME IInv, PageDone PROVE IInv'
  OBVIOUS
<1>1. /\ pc = "validate" /\ page = {} /\ pc' = "list"
      /\ UNCHANGED <<cluster, changes, steady, ctxDone, auditEvent, tick, begun, src,
                     keySet, first, hasNext, page, log, failed>>
  BY DEF PageDone, clusterVars, eventVars, listVars
<1>2. TypeOK'
  BY <1>1 DEF IInv, TypeOK
<1>3. PlaceInv' /\ SteadyInv' /\ LogInv'
  BY <1>1 DEF IInv, PlaceInv, SteadyInv, LogInv, Auditable
<1>4. \A r : Validated(r)' = Validated(r)
  BY <1>1 DEF Validated
<1>5. SourceInv'
  BY <1>1, <1>4 DEF IInv, SourceInv, Looking, Fresh, Auditable, Remaining
<1>6. Covered'
  BY <1>1, <1>4 DEF IInv, Covered, Auditable
<1> QED
  BY <1>2, <1>3, <1>5, <1>6 DEF IInv

\* The loop over the sources ends.
LEMMA AuditDoneStep == IInv /\ AuditDone => IInv'
<1> SUFFICES ASSUME IInv, AuditDone PROVE IInv'
  OBVIOUS
<1>1. /\ pc = "list" /\ src > Sources /\ pc' = "select"
      /\ UNCHANGED <<cluster, changes, steady, ctxDone, auditEvent, tick, begun, src,
                     keySet, first, hasNext, page, log, failed>>
  BY DEF AuditDone, clusterVars, eventVars, listVars
<1>2. src = Sources + 1 /\ src \notin failed
  BY <1>1, SourceFacts DEF IInv, TypeOK
<1>3. TypeOK'
  BY <1>1 DEF IInv, TypeOK
<1>4. PlaceInv' /\ SteadyInv' /\ LogInv'
  BY <1>1, <1>2 DEF IInv, PlaceInv, SteadyInv, LogInv, Auditable
<1>5. \A r : Validated(r)' = Validated(r)
  BY <1>1 DEF Validated
<1>6. SourceInv'
  BY <1>1 DEF SourceInv, Looking
<1>7. Covered'
  BY <1>1, <1>5 DEF IInv, Covered, Auditable
<1> QED
  BY <1>3, <1>4, <1>6, <1>7 DEF IInv

\* What was validated is of the sources up to the one in hand.
LEMMA ValidatedFacts ==
    ASSUME IInv, NEW s \in 1..Sources
    PROVE  /\ Validated(Resource(s)) \subseteq Auditable(s)
           /\ s > src => Validated(Resource(s)) = {}
<1>1. ASSUME NEW o \in Validated(Resource(s)) PROVE s <= src /\ o \in Auditable(s)
  <2>1. PICK j \in DOMAIN log : log[j] = <<Resource(s), o>>
    BY DEF Validated
  <2>2. PICK t \in 1..Sources : t <= src /\ log[j][1] = Resource(t) /\ log[j][2] \in Auditable(t)
    BY DEF IInv, LogInv
  <2>3. t = s
    BY <2>1, <2>2, SourceFacts
  <2> QED
    BY <2>1, <2>2, <2>3
<1>2. src \in Nat
  BY SourceFacts DEF IInv, TypeOK
<1> QED
  BY <1>1, <1>2

\* The audit goes on to the next source, of which nothing is validated yet.
LEMMA NextSourceStep == IInv /\ NextSource => IInv'
<1> SUFFICES ASSUME IInv, NextSource PROVE IInv'
  OBVIOUS
<1>1. /\ pc = "list" /\ src <= Sources /\ ~hasNext /\ src' = src + 1
      /\ keySet' = {} /\ first' = TRUE /\ hasNext' = TRUE
      /\ UNCHANGED <<cluster, changes, steady, ctxDone, auditEvent, tick, begun, pc, page, log,
                     failed>>
  BY DEF NextSource, clusterVars, eventVars
<1>2. src \in 1..Sources /\ src' \in 1..(Sources + 1) /\ page = {} /\ failed \subseteq 1..src
  BY <1>1, SourceFacts DEF IInv, TypeOK, PlaceInv
<1>3. TypeOK'
  BY <1>1, <1>2 DEF IInv, TypeOK
<1>4. PlaceInv' /\ SteadyInv'
  BY <1>1, <1>2, SourceFacts DEF IInv, PlaceInv, SteadyInv
<1>5. \A r : Validated(r)' = Validated(r)
  BY <1>1 DEF Validated
<1>6. LogInv'
  <2>1. \A j \in DOMAIN log : \E s \in 1..Sources :
           s <= src + 1 /\ log[j][1] = Resource(s) /\ log[j][2] \in Auditable(s)
    BY <1>2 DEF IInv, LogInv
  <2> QED
    BY <1>1, <2>1 DEF IInv, LogInv, Auditable
<1>7. Covered'
  <2> SUFFICES ASSUME NEW s \in 1..Sources, begun, s < src', s \notin failed
               PROVE  steady[Resource(s)] \cap Auditable(s) \subseteq Validated(Resource(s))
    BY <1>1, <1>5 DEF Covered, Auditable
  <2>1. CASE s < src
    BY <2>1 DEF IInv, Covered
  <2>2. CASE s = src
    BY <1>1, <1>2, <2>2 DEF IInv, SourceInv, Looking, Remaining
  <2> QED
    BY <1>1, <1>2, <2>1, <2>2
<1>8. SourceInv'
  <2> SUFFICES ASSUME src' <= Sources PROVE SourceInv'
    BY DEF SourceInv, Looking
  <2>1. src' \in 1..Sources /\ Resource(src') \in Resources
    BY <1>1, <1>2, SourceFacts
  <2>2. Validated(Resource(src')) = {}
    <3>1. src' > src
      BY <1>1, <1>2
    <3> QED
      BY <2>1, <3>1, ValidatedFacts
  <2>3. Remaining(src)' = cluster[Resource(src')]
    BY <1>1 DEF Remaining
  <2>4. Validated(Resource(src))' = {}
    BY <1>1, <2>2 DEF Validated
  <2>5. page' = {} /\ keySet' = {} /\ first'
    BY <1>1, <1>2
  <2>6. steady'[Resource(src')] \subseteq cluster[Resource(src')]
    BY <1>1, <2>1 DEF IInv, SteadyInv
  <2> QED
    BY <2>3, <2>4, <2>5, <2>6 DEF SourceInv
<1> QED
  BY <1>3, <1>4, <1>6, <1>7, <1>8 DEF IInv

\* A page takes the items that were named or, of the rest, no more than Limit.
LEMMA ListFacts ==
    ASSUME IInv, List
    PROVE  \E items, chunk :
              /\ items = IF ResourceNames(src) # {}
                         THEN {o \in cluster[Resource(src)] : o.name \in ResourceNames(src)}
                         ELSE Listed(src)
              /\ chunk \subseteq items
              /\ ResourceNames(src) # {} => chunk = items
              /\ page' = {o \in chunk : ~o.ignored}
              /\ keySet' = items \ chunk
              /\ hasNext' = (items \ chunk # {})
              /\ first' = (items \ chunk = {})
<1> DEFINE named == ResourceNames(src) # {}
           items == IF named THEN {o \in cluster[Resource(src)] : o.name \in ResourceNames(src)}
                    ELSE Listed(src)
           size == IF named \/ Cardinality(items) < Limit THEN Cardinality(items) ELSE Limit
<1>1. PICK chunk \in kSubset(size, items) :
         /\ page' = {o \in chunk : ~o.ignored}
         /\ hasNext' = HasNext({o \in chunk : ~o.ignored}, items \ chunk)
         /\ keySet' = items \ chunk
         /\ first' = NextKeySet(items \ chunk)
  BY DEF List
<1>2. chunk \subseteq items /\ Cardinality(chunk) = size
  BY DEF kSubset
<1>3. ASSUME named PROVE chunk = items
  <2>1. Resource(src) \in Resources /\ items \subseteq cluster[Resource(src)]
    <3>1. src \in 1..Sources
      BY SourceFacts DEF List, IInv, TypeOK
    <3> QED
      BY <1>3, <3>1, SourceFacts
  <2>2. items \subseteq Objects[Resource(src)] /\ IsFiniteSet(Objects[Resource(src)])
    BY <2>1, AuditorAssumption DEF IInv, TypeOK, Clusters, Resources
  <2>3. IsFiniteSet(items)
    BY <2>2, FS_Subset
  <2>4. Cardinality(chunk) = Cardinality(items)
    BY <1>2, <1>3
  <2> HIDE DEF items
  <2> QED
    BY <1>2, <2>3, <2>4, FS_Subset
<1>4. items = IF named THEN {o \in cluster[Resource(src)] : o.name \in ResourceNames(src)}
              ELSE Listed(src)
  OBVIOUS
<1> HIDE DEF size, items
<1> QED
  BY <1>1, <1>2, <1>3, <1>4 DEF HasNext, NextKeySet

\* A page is listed: what is on it and what remains was there to be listed.
LEMMA ListStep == IInv /\ List => IInv'
<1> SUFFICES ASSUME IInv, List PROVE IInv'
  OBVIOUS
<1>1. /\ pc = "list" /\ src <= Sources /\ hasNext /\ pc' = "validate"
      /\ UNCHANGED <<cluster, changes, steady, ctxDone, auditEvent, tick, begun, src, log, failed>>
  BY DEF List, clusterVars, eventVars
<1>2. PICK items, chunk :
         /\ items = IF ResourceNames(src) # {}
                    THEN {o \in cluster[Resource(src)] : o.name \in ResourceNames(src)}
                    ELSE Listed(src)
         /\ chunk \subseteq items
         /\ ResourceNames(src) # {} => chunk = items
         /\ page' = {o \in chunk : ~o.ignored}
         /\ keySet' = items \ chunk
         /\ hasNext' = (items \ chunk # {})
         /\ first' = (items \ chunk = {})
  BY ListFacts
<1>3. /\ src \in 1..Sources /\ Resource(src) \in Resources /\ page = {} /\ Looking
      /\ cluster[Resource(src)] \subseteq Objects[Resource(src)]
      /\ Objects[Resource(src)] \subseteq AllObjects
  BY <1>1, SourceFacts DEF IInv, TypeOK, PlaceInv, Looking, Clusters, AllObjects
<1>4. items \subseteq Objects[Resource(src)] /\ items \subseteq Remaining(src)
  BY <1>1, <1>2, <1>3 DEF IInv, SourceInv, Listed, Remaining
<1>5. ~(ResourceNames(src) # {}) => items = Remaining(src)
  BY <1>1, <1>2 DEF Listed, Remaining
<1>6. items \cap Validated(Resource(src)) = {}
  BY <1>1, <1>3, <1>4 DEF IInv, SourceInv, Fresh, Remaining
<1>7. \A r : Validated(r)' = Validated(r)
  BY <1>1 DEF Validated
<1>8. src \notin failed
  BY <1>1 DEF IInv, PlaceInv
<1>9. page' \subseteq AllObjects /\ keySet' \subseteq AllObjects
  BY <1>2, <1>3, <1>4
<1>10. TypeOK'
  BY <1>1, <1>2, <1>9 DEF IInv, TypeOK
<1>11. PlaceInv' /\ SteadyInv' /\ LogInv'
  BY <1>1, <1>2, <1>8 DEF IInv, PlaceInv, SteadyInv, LogInv, Auditable
<1>12. Covered'
  BY <1>1, <1>7 DEF IInv, Covered, Auditable
<1>13. SourceInv'
  <2>1. page' \subseteq {o \in Objects[Resource(src)] :
                          /\ ~o.ignored
                          /\ ResourceNames(src) # {} => o.name \in ResourceNames(src)}
    BY <1>2, <1>4
  <2>2. keySet' \subseteq Objects[Resource(src)]
    BY <1>2, <1>4
  <2>3. page' \cap Validated(Resource(src)) = {}
    BY <1>2, <1>6
  <2>4. ~(hasNext' /\ first')
    BY <1>2
  <2>5. hasNext' /\ ~first' => /\ keySet' \cap (page' \cup Validated(Resource(src))) = {}
                              /\ ResourceNames(src) = {}
    BY <1>2, <1>6
  <2>6. ASSUME NEW o \in steady[Resource(src)] \cap Auditable(src), o \notin Validated(Resource(src))
        PROVE  o \in page' \cup keySet'
    <3>1. o \in Remaining(src)
      BY <1>3, <1>8, <2>6 DEF IInv, SourceInv
    <3>2. CASE ResourceNames(src) = {}
      BY <1>2, <1>5, <2>6, <3>1, <3>2 DEF Auditable
    <3>3. CASE ResourceNames(src) # {}
      <4>1. Remaining(src) = cluster[Resource(src)]
        BY <1>1, <1>3, <3>3 DEF IInv, SourceInv, Remaining
      <4> QED
        BY <1>2, <2>6, <3>1, <3>3, <4>1 DEF Auditable
    <3> QED
      BY <3>2, <3>3
  <2>7. Remaining(src)' = keySet'
    BY <1>2 DEF Remaining
  <2> QED
    BY <1>1, <1>7, <2>1, <2>2, <2>3, <2>4, <2>5, <2>6, <2>7 DEF SourceInv, Fresh, Auditable
<1> QED
  BY <1>10, <1>11, <1>12, <1>13 DEF IInv

\* An entity of the page is validated, or skipped because it has an owner.
LEMMA ValidateStep == IInv /\ Validate => IInv'
<1> SUFFICES ASSUME IInv, Validate PROVE IInv'
  OBVIOUS
<1> DEFINE R == Resource(src)
<1>1. PICK e \in page :
         /\ page' = page \ {e}
         /\ log' = IF e.parent THEN log ELSE Append(log, <<R, e>>)
  BY DEF Validate
<1>2. /\ pc = "validate" /\ src <= Sources /\ Looking /\ src \notin failed /\ hasNext = ~first
      /\ UNCHANGED <<cluster, changes, steady, ctxDone, auditEvent, tick, begun, pc, src, keySet,
                     first, hasNext, failed>>
  BY DEF Validate, IInv, PlaceInv, Looking, clusterVars, eventVars
<1>3. /\ src \in 1..Sources /\ R \in Resources /\ e \in AllObjects
      /\ e \in Objects[R] /\ ~e.ignored /\ (ResourceNames(src) # {} => e.name \in ResourceNames(src))
      /\ e \notin Validated(R)
      /\ log \in Seq(Resources \X AllObjects)
  BY <1>1, <1>2, SourceFacts DEF IInv, TypeOK, SourceInv
<1> HIDE DEF R
<1>4. TypeOK'
  BY <1>1, <1>2, <1>3 DEF IInv, TypeOK
<1>5. PlaceInv' /\ SteadyInv'
  BY <1>1, <1>2 DEF IInv, PlaceInv, SteadyInv
<1>6. ASSUME ~e.parent
      PROVE  /\ Len(log') = Len(log) + 1 /\ Len(log) \in Nat
             /\ DOMAIN log = 1..Len(log) /\ DOMAIN log' = 1..(Len(log) + 1)
             /\ \A j \in 1..Len(log) : log'[j] = log[j]
             /\ log'[Len(log) + 1] = <<R, e>>
  <2>1. log' = Append(log, <<R, e>>) /\ <<R, e>> \in Resources \X AllObjects
    BY <1>1, <1>3, <1>6
  <2> QED
    BY <1>3, <2>1, AppendProperties
<1>7. \A r : Validated(r)' = IF ~e.parent /\ r = R THEN Validated(r) \cup {e} ELSE Validated(r)
  <2>1. CASE e.parent
    <3>1. log' = log
      BY <1>1, <2>1
    <3> QED
      BY <2>1, <3>1 DEF Validated
  <2>2. CASE ~e.parent
    <3>1. ASSUME NEW r, NEW o \in Validated(r)' PROVE o \in Validated(r) \/ (r = R /\ o = e)
      <4>1. PICK j \in DOMAIN log' : log'[j] = <<r, o>> /\ o \in AllObjects
        BY DEF Validated
      <4>2. CASE j = Len(log) + 1
        BY <1>6, <2>2, <4>1, <4>2
      <4>3. CASE j # Len(log) + 1
        <5>1. j \in DOMAIN log /\ log[j] = <<r, o>>
          BY <1>6, <2>2, <4>1, <4>3
        <5> QED
          BY <4>1, <5>1 DEF Validated
      <4> QED
        BY <4>2, <4>3
    <3>2. ASSUME NEW r, NEW o \in Validated(r) PROVE o \in Validated(r)'
      <4>1. PICK j \in DOMAIN log : log[j] = <<r, o>> /\ o \in AllObjects
        BY DEF Validated
      <4>2. j \in DOMAIN log' /\ log'[j] = <<r, o>>
        BY <1>6, <2>2, <4>1
      <4> QED
        BY <4>1, <4>2 DEF Validated
    <3>3. ASSUME NEW r, r = R PROVE e \in Validated(r)'
      <4>1. Len(log) + 1 \in DOMAIN log' /\ log'[Len(log) + 1] = <<r, e>>
        BY <1>6, <2>2, <3>3
      <4> QED
        BY <1>3, <4>1 DEF Validated
    <3>4. ASSUME NEW r PROVE Validated(r)' = IF r = R THEN Validated(r) \cup {e} ELSE Validated(r)
      BY <3>1, <3>2, <3>3
    <3> QED
      BY <2>2, <3>4
  <2> QED
    BY <2>1, <2>2
<1>8. LogInv'
  <2>1. CASE e.parent
    BY <1>1, <1>2, <2>1 DEF IInv, LogInv, Auditable
  <2>2. CASE ~e.parent
    <3>1. e \in Auditable(src)
      BY <1>3, <2>2 DEF Auditable, R
    <3>2. ASSUME NEW j \in 1..(Len(log) + 1)
          PROVE  \E s \in 1..Sources :
                    s <= src /\ log'[j][1] = Resource(s) /\ log'[j][2] \in Auditable(s)
      <4>1. CASE j = Len(log) + 1
        <5>1. log'[j][1] = Resource(src) /\ log'[j][2] = e
          BY <1>6, <2>2, <4>1 DEF R
        <5> QED
          BY <1>3, <3>1, <5>1
      <4>2. CASE j # Len(log) + 1
        <5>1. j \in DOMAIN log /\ log'[j] = log[j]
          BY <1>6, <2>2, <4>2
        <5> QED
          BY <5>1 DEF IInv, LogInv
      <4> QED
        BY <4>1, <4>2
    <3>3. \A j \in 1..Len(log) : log[j] # <<R, e>>
      BY <1>3, <1>6, <2>2 DEF Validated
    <3>4. ASSUME NEW j \in 1..(Len(log) + 1), NEW l \in 1..(Len(log) + 1), log'[j] = log'[l]
          PROVE  j = l
      <4>1. CASE j <= Len(log) /\ l <= Len(log)
        BY <1>6, <2>2, <3>4, <4>1 DEF IInv, LogInv
      <4>2. CASE j <= Len(log) /\ l = Len(log) + 1
        BY <1>6, <2>2, <3>3, <3>4, <4>2
      <4>3. CASE j = Len(log) + 1 /\ l <= Len(log)
        BY <1>6, <2>2, <3>3, <3>4, <4>3
      <4> QED
        BY <1>6, <2>2, <4>1, <4>2, <4>3
    <3>5. src' = src /\ DOMAIN log' = 1..(Len(log) + 1)
      BY <1>2, <1>6, <2>2
    <3> QED
      BY <3>2, <3>4, <3>5 DEF LogInv, Auditable
  <2> QED
    BY <2>1, <2>2
<1>9. Covered'
  BY <1>2, <1>7 DEF IInv, Covered, Auditable
<1>10. SourceInv'
  <2>1. page' \subseteq {o \in Objects[Resource(src)] :
                          /\ ~o.ignored
                          /\ ResourceNames(src) # {} => o.name \in ResourceNames(src)}
    BY <1>1, <1>2 DEF IInv, SourceInv
  <2>2. keySet' \subseteq Objects[Resource(src)]
    BY <1>2 DEF IInv, SourceInv
  <2>3. page' \cap Validated(R)' = {}
    BY <1>1, <1>2, <1>7 DEF IInv, SourceInv, R
  <2>4. ~(hasNext' /\ first')
    BY <1>2
  <2>5. hasNext' /\ ~first' => /\ keySet' \cap (page' \cup Validated(R)') = {}
                              /\ ResourceNames(src) = {}
    BY <1>1, <1>2, <1>7 DEF IInv, SourceInv, R
  <2>6. ASSUME NEW o \in steady[R] \cap Auditable(src)
        PROVE  o \in Validated(R)' \cup page' \cup Remaining(src)
    <3>1. o \in Validated(R) \cup page \cup Remaining(src)
      BY <1>2, <2>6 DEF IInv, SourceInv, R
    <3>2. o = e => ~e.parent
      BY <2>6 DEF Auditable
    <3>3. Validated(R)' = IF ~e.parent THEN Validated(R) \cup {e} ELSE Validated(R)
      BY <1>2, <1>7 DEF R
    <3> QED
      BY <1>1, <3>1, <3>2, <3>3
  <2>7. Remaining(src)' = Remaining(src)
    BY <1>2 DEF Remaining
  <2>8. Validated(Resource(src))' = Validated(R)'
    BY <1>2 DEF R, Validated
  <2> QED
    BY <1>2, <2>1, <2>2, <2>3, <2>4, <2>5, <2>6, <2>7, <2>8 DEF SourceInv, Fresh, Auditable, R
<1> QED
  BY <1>4, <1>5, <1>8, <1>9, <1>10 DEF IInv

\* IInv is inductive.
LEMMA NextIInv == IInv /\ [Next]_vars => IInv'
<1> SUFFICES ASSUME IInv, [Next]_vars PROVE IInv'
  OBVIOUS
<1>1. CASE UNCHANGED vars
  <2>1. TypeOK'
    BY <1>1 DEF vars, IInv, TypeOK
  <2> QED
    BY <1>1, <2>1, AuditKept DEF IInv, vars, clusterVars, listVars
<1>2. ASSUME NEW r \in Resources, Change(r) PROVE IInv'
  BY <1>2, ChangeStep
<1>3. CASE Audit \/ Tick \/ Shutdown
  BY <1>3, EventStep
<1>4. CASE Start \/ OnDone
  BY <1>4, StartStep
<1>5. CASE OnTick \/ OnEvent
  BY <1>5, BeginStep
<1>6. CASE Auditing
  BY <1>6, ListStep, ListFailsStep, ValidateStep, PageDoneStep, NextSourceStep, AuditDoneStep
     DEF Auditing
<1> QED
  BY <1>1, <1>2, <1>3, <1>4, <1>5, <1>6 DEF Next

(***************************************************************************)
(* Every state of the auditor satisfies the inductive invariant.           *)
(***************************************************************************)
THEOREM AuditInvariance == Spec => []IInv
  BY InitIInv, NextIInv, PTL DEF Spec

(***************************************************************************)
(* Every variable of the auditor keeps its type: the event channel holds   *)
(* at most one request.                                                    *)
(***************************************************************************)
THEOREM AuditTypeCorrect == Spec => []TypeOK
<1>1. IInv => TypeOK
  BY DEF IInv
<1> QED
  BY <1>1, AuditInvariance, PTL

(***************************************************************************)
(* Whatever the pages, the failures and the changes in the cluster: an     *)
(* audit validates each object it is to validate, that was there all       *)
(* along, exactly once.                                                    *)
(***************************************************************************)
THEOREM AuditExact == Spec => []Exact
<1>1. ASSUME IInv PROVE Exact
  <2>1. \A s \in 1..Sources : Validated(Resource(s)) \subseteq Auditable(s)
    BY <1>1, ValidatedFacts
  <2> QED
    BY <1>1, <2>1 DEF IInv, LogInv, Exact, OnceEach
<1> QED
  BY <1>1, AuditInvariance, PTL

-----------------------------------------------------------------------------
(***************************************************************************)
(* No rule for some of the objects stands before a rule for more of them:  *)
(* of two rules that let the agent list a resource, the first is for all   *)
(* of its objects, or for every object that the second one names.          *)
(***************************************************************************)
BroadRulesFirst ==
    \A i, j \in DOMAIN Rules : \A r \in Resources :
        /\ i < j
        /\ AllowsList(Rules[i]) /\ Allows(Rules[i], r)
        /\ AllowsList(Rules[j]) /\ Allows(Rules[j], r)
        => \/ Rules[i].resourceNames = {}
           \/ allAllowed \in Rules[i].resourceNames
           \/ /\ Rules[j].resourceNames # {}
              /\ Rules[j].resourceNames \subseteq Rules[i].resourceNames

\* A resource with objects that a rule lets the agent list has a group version that parses.
AllowedParse ==
    \A r \in Resources :
        /\ Objects[r] # {}
        /\ \E i \in DOMAIN Rules : AllowsList(Rules[i]) /\ Allows(Rules[i], r)
        => r.parses

(***************************************************************************)
(* With the rules in that order, the source of a resource lists every      *)
(* object that some rule lets the agent list.                              *)
(***************************************************************************)
LEMMA ReadableIsListed ==
    ASSUME BroadRulesFirst, AllowedParse,
           NEW r \in Resources, Objects[r] # {}, listVerb \in r.verbs, ~IsPolicyResource(r),
           NEW name, MayList(Rules, r, name)
    PROVE  \E s \in 1..Sources :
              /\ Resource(s) = r
              /\ ResourceNames(s) # {} => name \in ResourceNames(s)
<1> DEFINE L == {i \in DOMAIN Rules : AllowsList(Rules[i])}
           listing == Ascending(L)
           caches == rulesCaches(Rules)
           A == Allowing(caches, r)
<1>1. PICK i \in L : /\ Allows(Rules[i], r)
                     /\ \/ Rules[i].resourceNames = {}
                        \/ checkAllowed(name, Rules[i].resourceNames)
  BY DEF MayList
<1>2. L \in SUBSET Nat /\ IsFiniteSet(L)
  BY AuditorAssumption, PositionsFinite
<1>3. /\ Cardinality(L) \in Nat
      /\ DOMAIN listing = 1..Cardinality(L)
      /\ \A m \in 1..Cardinality(L) : listing[m] \in L
      /\ \A m, l \in 1..Cardinality(L) : m < l => listing[m] < listing[l]
      /\ \E m \in 1..Cardinality(L) : listing[m] = i
  <2> HIDE DEF L
  <2> QED
    BY <1>2, AscendingFacts
<1>4. caches = [m \in DOMAIN listing |-> newRulesCache(Rules[listing[m]])]
  BY DEF rulesCaches
<1> HIDE DEF caches, listing
<1>5. \A m \in 1..Cardinality(L) :
         /\ Allows(caches[m], r) <=> Allows(Rules[listing[m]], r)
         /\ caches[m].resourceNames = IF allAllowed \in Rules[listing[m]].resourceNames
                                      THEN {} ELSE Rules[listing[m]].resourceNames
  BY <1>3, <1>4 DEF Allows, newRulesCache
<1>6. PICK n \in 1..Cardinality(L) : listing[n] = i
  BY <1>3
<1>7. A = {m \in 1..Cardinality(L) : Allows(Rules[listing[m]], r)}
  BY <1>3, <1>4, <1>5 DEF Allowing
<1>8. n \in A /\ A \in SUBSET Nat
  BY <1>1, <1>3, <1>6, <1>7
<1>9. PICK m \in A : m = Min(A) /\ m <= n
  <2> HIDE DEF A
  <2> QED
    BY <1>8, MinFacts
<1>10. PICK s \in 1..Sources : Resource(s) = r /\ ResourceNames(s) = caches[m].resourceNames
  <2>1. IsSource(caches, r)
    BY <1>1, <1>8 DEF IsSource, AllowedParse
  <2> QED
    BY <1>9, <2>1, SourceList DEF caches
<1>11. caches[m].resourceNames # {} => name \in caches[m].resourceNames
  <2>1. m \in 1..Cardinality(L) /\ listing[m] \in L /\ Allows(Rules[listing[m]], r)
    BY <1>3, <1>7, <1>9
  <2>2. CASE m = n
    BY <1>1, <1>5, <1>6, <2>1, <2>2 DEF checkAllowed
  <2>3. CASE m < n
    <3>1. listing[m] < i
      BY <1>3, <1>6, <2>1, <2>3
    <3>2. \/ Rules[listing[m]].resourceNames = {}
          \/ allAllowed \in Rules[listing[m]].resourceNames
          \/ /\ Rules[i].resourceNames # {}
             /\ Rules[i].resourceNames \subseteq Rules[listing[m]].resourceNames
      BY <1>1, <2>1, <3>1 DEF BroadRulesFirst
    <3> QED
      BY <1>1, <1>5, <2>1, <3>2 DEF checkAllowed
  <2> QED
    BY <1>3, <1>8, <1>9, <2>1, <2>2, <2>3
<1> QED
  BY <1>10, <1>11

(***************************************************************************)
(* If no rule for some objects stands before one for more of them, an      *)
(* audit without failures has validated everything that the agent may      *)
(* list, as docs/README.md says.  The order of the rules is all that the   *)
(* run with a violation takes away.                                        *)
(***************************************************************************)
THEOREM AuditReadsAll ==
    ASSUME BroadRulesFirst, AllowedParse
    PROVE  Spec => []AuditsAllReadable
<1>1. ASSUME IInv PROVE AuditsAllReadable
  <2> SUFFICES ASSUME begun, src > Sources, failed = {},
                      NEW i \in DOMAIN APIResources,
                      listVerb \in APIResources[i].verbs,
                      ~IsPolicyResource(APIResources[i]),
                      NEW o \in steady[APIResources[i]],
                      ~o.parent, ~o.ignored, MayList(Rules, APIResources[i], o.name)
               PROVE  o \in Validated(APIResources[i])
    BY DEF AuditsAllReadable
  <2>1. APIResources[i] \in Resources /\ Objects[APIResources[i]] # {}
    BY <1>1 DEF Resources, IInv, TypeOK, Clusters
  <2>2. PICK s \in 1..Sources : /\ Resource(s) = APIResources[i]
                                /\ ResourceNames(s) # {} => o.name \in ResourceNames(s)
    BY <2>1, ReadableIsListed
  <2>3. s < src /\ s \notin failed
    BY <1>1, <2>2, SourceFacts DEF IInv, TypeOK
  <2>4. o \in Objects[Resource(s)]
    BY <1>1, <2>1, <2>2 DEF IInv, TypeOK, Clusters
  <2>5. o \in Auditable(s)
    BY <2>2, <2>4 DEF Auditable
  <2> QED
    BY <1>1, <2>2, <2>3, <2>5 DEF IInv, Covered
<1> QED
  BY <1>1, AuditInvariance, PTL
====
