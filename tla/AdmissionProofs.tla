---------------------------- MODULE AdmissionProofs ----------------------------
(***************************************************************************)
(* Proofs about Admission: what the handlers answer, for every set of      *)
(* policies and documents, whatever Rego says of them.  The mutated        *)
(* document is a fold over the violations in the order they arrive; an     *)
(* induction over its length, by the least number that would contradict    *)
(* it, shows what it can have changed, and when it is labelled.            *)
(***************************************************************************)
EXTENDS Admission, FiniteSetTheorems, WellFoundedInduction, TLAPS

\* The order of the natural numbers, as a relation.
Less == {pair \in Nat \X Nat : pair[1] < pair[2]}

\* There is no infinite descent.
LEMMA LessWellFounded == IsWellFoundedOn(Less, Nat)
  BY NatLessThanWellFounded, Zenon DEF Less, OpToRel

\* A smaller number is before a larger one.
LEMMA LessMember == \A x, y \in Nat : x < y => <<x, y>> \in Less
  BY DEF Less

\* Induction: a set with 0 and each successor has all the natural numbers.
LEMMA NatSetInduction ==
    ASSUME NEW S, 0 \in S, \A n \in Nat : n \in S => n + 1 \in S
    PROVE  Nat \subseteq S
<1>1. SUFFICES ASSUME Nat \ S # {} PROVE FALSE
  OBVIOUS
<1>2. PICK m \in Nat \ S : \A k \in Nat \ S : ~(<<k, m>> \in Less)
  BY <1>1, LessWellFounded, WFMin
<1>3. m - 1 \in Nat /\ m - 1 < m
  BY <1>2
<1>4. m - 1 \in S
  BY <1>2, <1>3, LessMember
<1> QED
  BY <1>2, <1>3, <1>4

\* What the next violated policy does to the document.
StepOn(m, p, d) == IF p.mutate THEN MutateAndLabel(m, OccurrencesOn(p, d)) ELSE m

\* A step of the fold, over the positions s of an order.
Fold(g, d, order, s) ==
    IF s = {} THEN d ELSE StepOn(g[s \ {Max(s)}], order[Max(s)], d)

\* g folds, from d, the positions 1..n of the order.
IsFold(g, d, order, n) == g = [s \in SUBSET (1..n) |-> Fold(g, d, order, s)]

\* What the fold ends with.
Folded(d, order) ==
    (CHOOSE g : g = [s \in SUBSET DOMAIN order |-> Fold(g, d, order, s)])[DOMAIN order]

\* A mutated document is what the fold of some order of the violations ends with.
LEMMA MutationFolds ==
    ASSUME NEW ps, NEW d, NEW m \in Mutations(ps, d)
    PROVE  \E order \in SetToSeqs(Violated(ps, d)) : m = Folded(d, order)
  BY DEF Mutations, FoldLeft, MapThenFoldSet, Folded, Fold, StepOn

\* There is a fold.
LEMMA FoldExists ==
    ASSUME NEW d, NEW order, NEW N \in Nat
    PROVE  \E g : IsFold(g, d, order, N)
<1> DEFINE S == {n \in Nat : \E g : IsFold(g, d, order, n)}
<1>1. 0 \in S
  <2> DEFINE g == [s \in SUBSET (1..0) |-> d]
  <2>1. \A s \in SUBSET (1..0) : s = {}
    OBVIOUS
  <2>2. IsFold(g, d, order, 0)
    BY <2>1 DEF IsFold, Fold
  <2> QED
    BY <2>2
<1>2. ASSUME NEW n \in Nat, n \in S PROVE n + 1 \in S
  <2>1. PICK g : IsFold(g, d, order, n)
    BY <1>2
  <2> DEFINE h == [s \in SUBSET (1..(n + 1)) |->
                      IF s \subseteq 1..n THEN g[s] ELSE StepOn(g[s \ {Max(s)}], order[Max(s)], d)]
  <2>2. ASSUME NEW s \in SUBSET (1..(n + 1)) PROVE h[s] = Fold(h, d, order, s)
    <3>1. CASE s \subseteq 1..n
      <4>1. h[s] = Fold(g, d, order, s)
        BY <2>1, <3>1 DEF IsFold
      <4>2. h[s \ {Max(s)}] = g[s \ {Max(s)}]
        BY <3>1
      <4> QED
        BY <4>1, <4>2 DEF Fold
    <3>2. CASE ~(s \subseteq 1..n)
      <4>1. n + 1 \in s /\ \A k \in s : k \in Nat /\ k <= n + 1
        BY <3>2
      <4>2. Max(s) = n + 1
        <5>1. \A k \in s : n + 1 >= k
          BY <4>1
        <5>2. \A x \in s : (\A y \in s : x >= y) => x = n + 1
          BY <4>1
        <5> QED
          BY <4>1, <5>1, <5>2, Zenon DEF Max
      <4>3. s \ {Max(s)} \subseteq 1..n
        BY <4>1, <4>2
      <4>4. h[s \ {Max(s)}] = g[s \ {Max(s)}]
        BY <4>3
      <4>5. h[s] = StepOn(g[s \ {Max(s)}], order[Max(s)], d)
        BY <3>2
      <4> HIDE DEF h
      <4> QED
        BY <4>1, <4>4, <4>5 DEF Fold
    <3> QED
      BY <3>1, <3>2
  <2>3. IsFold(h, d, order, n + 1)
    <3>1. h = [s \in SUBSET (1..(n + 1)) |-> h[s]]
      OBVIOUS
    <3> HIDE DEF h
    <3> QED
      BY <2>2, <3>1 DEF IsFold
  <2> QED
    BY <2>3
<1>3. Nat \subseteq S
  <2> HIDE DEF S
  <2> QED
    BY <1>1, <1>2, NatSetInduction
<1> QED
  BY <1>3

\* Max is what its name says, of a set of numbers that has a bound.
LEMMA MaxFacts ==
    ASSUME NEW S \in SUBSET Nat, S # {}, NEW top \in Nat, \A x \in S : x <= top
    PROVE  Max(S) \in S
<1> DEFINE Bounds == {k \in Nat : \A x \in S : x <= k}
<1>1. PICK m \in Bounds : \A k \in Bounds : ~(<<k, m>> \in Less)
  <2>1. top \in Bounds
    OBVIOUS
  <2> QED
    BY <2>1, LessWellFounded, WFMin
<1>2. ASSUME NEW k \in Bounds PROVE m <= k
  <2>1. ~(k < m)
    BY <1>1, LessMember
  <2> QED
    BY <2>1
<1>3. m \in S
  <2>1. SUFFICES ASSUME m \notin S PROVE FALSE
    OBVIOUS
  <2>2. PICK x \in S : TRUE
    OBVIOUS
  <2>3. m - 1 \in Nat /\ \A y \in S : y <= m - 1
    BY <2>1, <2>2
  <2> QED
    BY <1>2, <2>3
<1> QED
  BY <1>3 DEF Max

\* Mutate puts a value that an occurrence recommends for the path, or the empty map.
LEMMA MutateFacts ==
    ASSUME NEW m, NEW os, Len(os) \in Nat, DOMAIN os = 1..Len(os), NEW k \in DOMAIN m
    PROVE  \/ Mutate(m, os)[k] = m[k]
           \/ Explained(ToSet(os), k, m[k], Mutate(m, os)[k])
<1> DEFINE Apt == {i \in DOMAIN os : Mutable(os[i]) /\ os[i].key = k}
           Found == {i \in DOMAIN os : LookedUp(os[i]) /\ os[i].key = k}
<1>1. Mutate(m, os)[k] = IF Apt # {} THEN os[Max(Apt)].value
                         ELSE IF Found # {} /\ m[k] = Nil THEN EmptyMap ELSE m[k]
  BY DEF Mutate
<1>2. CASE Apt # {}
  <2>1. Apt \in SUBSET Nat /\ \A x \in Apt : x <= Len(os)
    OBVIOUS
  <2>2. Max(Apt) \in Apt
    <3> HIDE DEF Apt
    <3> QED
      BY <1>2, <2>1, MaxFacts
  <2> QED
    BY <1>1, <1>2, <2>2 DEF Explained, ToSet
<1>3. CASE Apt = {} /\ Found # {} /\ m[k] = Nil
  <2>1. PICK i \in Found : TRUE
    BY <1>3
  <2> QED
    BY <1>1, <1>3, <2>1 DEF Explained, ToSet
<1> QED
  BY <1>1, <1>2, <1>3

\* Mutate leaves the label to MutateAndLabel.
LEMMA LabelLeft ==
    ASSUME NEW m, NEW os, MutatedLabel \in DOMAIN m
    PROVE  Mutate(m, os)[MutatedLabel] = m[MutatedLabel]
  BY DocumentAssumption DEF Mutate, Mutable, LookedUp

\* The paths that a step keeps, the values it puts there, and the label.
LEMMA LabelFacts ==
    ASSUME NEW m, NEW os, Len(os) \in Nat, DOMAIN os = 1..Len(os),
           MutatedLabel \in DOMAIN m
    PROVE  LET n == MutateAndLabel(m, os) IN
           /\ DOMAIN n = DOMAIN m
           /\ \A k \in DOMAIN m \ {MutatedLabel} :
                 n[k] # m[k] => Explained(ToSet(os), k, m[k], n[k])
           /\ n[MutatedLabel] = IF SetsLabel(os) THEN "" ELSE m[MutatedLabel]
<1> DEFINE u == Mutate(m, os)
<1>1. DOMAIN u = DOMAIN m
  BY DEF Mutate
<1>2. \A k \in DOMAIN m : u[k] # m[k] => Explained(ToSet(os), k, m[k], u[k])
  BY MutateFacts
<1>3. u[MutatedLabel] = m[MutatedLabel]
  BY LabelLeft
<1>4. MutateAndLabel(m, os) = IF SetsLabel(os) THEN [u EXCEPT ![MutatedLabel] = ""] ELSE u
  BY DEF MutateAndLabel
<1> HIDE DEF u
<1> QED
  BY <1>1, <1>2, <1>3, <1>4

\* An explanation is one on account of more occurrences, too.
LEMMA MoreExplains ==
    ASSUME NEW os, NEW all, os \subseteq all, NEW k, NEW old, NEW new,
           Explained(os, k, old, new)
    PROVE  Explained(all, k, old, new)
  BY DEF Explained

\* A change that was explained, and another one after it.
LEMMA ExplainedTwice ==
    ASSUME NEW os, NEW k, NEW old, NEW mid, NEW new,
           mid # old => Explained(os, k, old, mid),
           new # mid => Explained(os, k, mid, new)
    PROVE  new # old => Explained(os, k, old, new)
  BY DEF Explained, Mutable, LookedUp

\* The orders of a set: each element has its position.
LEMMA OrderFacts ==
    ASSUME NEW V, IsFiniteSet(V), NEW order \in SetToSeqs(V)
    PROVE  /\ Cardinality(V) \in Nat
           /\ order \in [1..Cardinality(V) -> V]
           /\ \A p \in V : \E i \in 1..Cardinality(V) : order[i] = p
<1> DEFINE N == Cardinality(V)
<1>1. N \in Nat
  BY FS_CardinalityType
<1>2. order \in [1..N -> V] /\ \A i, j \in 1..N : i # j => order[i] # order[j]
  BY Zenon DEF SetToSeqs
<1>3. IsFiniteSet(1..N) /\ Cardinality(1..N) = N
  BY <1>1, FS_Interval
<1> HIDE DEF N
<1>4. order \in Injection(1..N, V)
  BY <1>2 DEF Injection, IsInjective
<1>5. order \in Surjection(1..N, V)
  BY <1>3, <1>4, FS_Injection DEF N
<1>6. \A p \in V : \E i \in 1..N : order[i] = p
  BY <1>5 DEF Surjection
<1> QED
  BY <1>1, <1>2, <1>6 DEF N

(***************************************************************************)
(* The mutated document has the paths that it had; what is new in it was   *)
(* recommended, and it is labelled if a value was put into it.             *)
(***************************************************************************)
LEMMA MutationsFootprint ==
    ASSUME NEW ps, IsFiniteSet(ps), ps \subseteq Pool, NEW d \in Documents,
           NEW m \in Mutations(ps, d)
    PROVE  LET R == Recommendations(ps, d) IN
           /\ DOMAIN m = DOMAIN d
           /\ \A k \in DOMAIN d \ {MutatedLabel} : m[k] # d[k] => Explained(R, k, d[k], m[k])
           /\ m[MutatedLabel] = IF \E o \in R : Mutable(o) THEN "" ELSE d[MutatedLabel]
<1>1. PICK order \in SetToSeqs(Violated(ps, d)) : m = Folded(d, order)
  BY MutationFolds
<1> DEFINE V == Violated(ps, d)
           N == Cardinality(V)
           R == Recommendations(ps, d)
<1>2. /\ N \in Nat /\ order \in [1..N -> V] /\ \A p \in V : \E i \in 1..N : order[i] = p
      /\ V \subseteq Pool
  <2>1. IsFiniteSet(V) /\ V \subseteq Pool
    BY FS_Subset DEF Violated
  <2> QED
    BY <2>1, OrderFacts
<1>3. PICK g : g = [s \in SUBSET (1..N) |-> Fold(g, d, order, s)] /\ m = g[1..N]
  <2>1. DOMAIN order = 1..N
    BY <1>2
  <2>2. m = (CHOOSE g : IsFold(g, d, order, N))[1..N]
    BY <1>1, <2>1, Zenon DEF Folded, IsFold
  <2>3. IsFold(CHOOSE g : IsFold(g, d, order, N), d, order, N)
    BY <1>2, FoldExists, Zenon
  <2> QED
    BY <2>2, <2>3, Zenon DEF IsFold
<1> DEFINE Sets(i) == order[i].mutate /\ SetsLabel(OccurrencesOn(order[i], d))
           Fine(x, n) ==
              /\ DOMAIN x = DOMAIN d
              /\ \A k \in DOMAIN d \ {MutatedLabel} : x[k] # d[k] => Explained(R, k, d[k], x[k])
              /\ x[MutatedLabel] = IF \E i \in 1..n : Sets(i) THEN "" ELSE d[MutatedLabel]
           S == {n \in Nat : n <= N => Fine(g[1..n], n)}
<1> HIDE DEF N, V, R, Sets, Fine
<1>4. 0 \in S
  <2>1. 1..0 = {} /\ {} \in SUBSET (1..N)
    OBVIOUS
  <2>2. g[1..0] = d
    BY <1>3, <2>1 DEF Fold
  <2> QED
    BY <2>1, <2>2 DEF Fine
<1>5. ASSUME NEW n \in Nat, n \in S PROVE n + 1 \in S
  <2>1. SUFFICES ASSUME n + 1 <= N PROVE Fine(g[1..(n + 1)], n + 1)
    OBVIOUS
  <2>2. /\ Max(1..(n + 1)) = n + 1
        /\ (1..(n + 1)) \ {n + 1} = 1..n
        /\ 1..(n + 1) \in SUBSET (1..N) /\ 1..(n + 1) # {}
    <3>1. n + 1 \in 1..(n + 1) /\ \A k \in 1..(n + 1) : n + 1 >= k
      OBVIOUS
    <3>2. \A x \in 1..(n + 1) : (\A y \in 1..(n + 1) : x >= y) => x = n + 1
      OBVIOUS
    <3>3. Max(1..(n + 1)) = n + 1
      BY <3>1, <3>2, Zenon DEF Max
    <3>4. (1..(n + 1)) \ {n + 1} = 1..n
      OBVIOUS
    <3>5. 1..(n + 1) \subseteq 1..N
      BY <1>2, <2>1
    <3> QED
      BY <3>1, <3>3, <3>4, <3>5
  <2> DEFINE x == g[1..n]
             p == order[n + 1]
             os == OccurrencesOn(p, d)
             y == g[1..(n + 1)]
  <2>3. y = StepOn(x, p, d)
    BY <1>3, <2>2, Zenon DEF Fold
  <2>4. Fine(x, n)
    BY <1>2, <1>5, <2>1
  <2>5. p \in V /\ p \in Pool
    <3>1. n + 1 \in 1..N
      BY <1>2, <2>1
    <3> QED
      BY <1>2, <3>1
  <2>6. (\E i \in 1..(n + 1) : Sets(i)) <=> (\E j \in 1..n : Sets(j)) \/ Sets(n + 1)
    <3>1. \A i : i \in 1..(n + 1) <=> i \in 1..n \/ i = n + 1
      OBVIOUS
    <3> QED
      BY <3>1
  <2>7. CASE p.mutate
    <3>1. y = MutateAndLabel(x, os)
      BY <2>3, <2>7 DEF StepOn
    <3>2. Len(os) \in Nat /\ DOMAIN os = 1..Len(os)
      BY <2>5, RegoAssumption
    <3>3. ToSet(os) \subseteq R
      BY <2>5, <2>7 DEF R, V, Recommendations
    <3>4. Sets(n + 1) <=> SetsLabel(os)
      BY <2>7 DEF Sets
    <3>5. MutatedLabel \in DOMAIN x /\ DOMAIN x = DOMAIN d
      BY <2>4, DocumentAssumption DEF Fine
    <3> HIDE DEF x, y, os, p
    <3>6. /\ DOMAIN y = DOMAIN x
          /\ \A k \in DOMAIN x \ {MutatedLabel} :
                y[k] # x[k] => Explained(ToSet(os), k, x[k], y[k])
          /\ y[MutatedLabel] = IF SetsLabel(os) THEN "" ELSE x[MutatedLabel]
      BY <3>1, <3>2, <3>5, LabelFacts
    <3>7. ASSUME NEW k \in DOMAIN d \ {MutatedLabel}, y[k] # d[k]
          PROVE  Explained(R, k, d[k], y[k])
      <4>1. x[k] # d[k] => Explained(R, k, d[k], x[k])
        BY <2>4 DEF Fine
      <4>2. y[k] # x[k] => Explained(R, k, x[k], y[k])
        BY <3>3, <3>5, <3>6, MoreExplains
      <4> QED
        BY <3>7, <4>1, <4>2, ExplainedTwice
    <3>8. y[MutatedLabel] = IF \E i \in 1..(n + 1) : Sets(i) THEN "" ELSE d[MutatedLabel]
      BY <2>4, <2>6, <3>4, <3>6 DEF Fine
    <3>9. Fine(y, n + 1)
      BY <3>5, <3>6, <3>7, <3>8 DEF Fine
    <3> QED
      BY <3>9 DEF y
  <2>8. CASE ~p.mutate
    <3>1. y = x
      BY <2>3, <2>8 DEF StepOn
    <3>2. ~Sets(n + 1)
      BY <2>8 DEF Sets
    <3>3. Fine(y, n + 1)
      BY <2>4, <2>6, <3>1, <3>2 DEF Fine
    <3> QED
      BY <3>3
  <2> QED
    BY <2>7, <2>8
<1>6. N \in S
  <2> HIDE DEF S
  <2> QED
    BY <1>2, <1>4, <1>5, NatSetInduction
<1>7. Fine(m, N)
  BY <1>2, <1>3, <1>6
<1>8. (\E i \in 1..N : Sets(i)) <=> \E o \in R : Mutable(o)
  <2>1. ASSUME NEW i \in 1..N, Sets(i) PROVE \E o \in R : Mutable(o)
    BY <1>2, <2>1 DEF Sets, SetsLabel, R, V, Recommendations, ToSet
  <2>2. ASSUME NEW o \in R, Mutable(o) PROVE \E i \in 1..N : Sets(i)
    <3>1. PICK p \in V : p.mutate /\ o \in ToSet(OccurrencesOn(p, d))
      BY DEF R, V, Recommendations
    <3>2. PICK i \in 1..N : order[i] = p
      BY <1>2
    <3>3. SetsLabel(OccurrencesOn(p, d))
      BY <2>2, <3>1 DEF SetsLabel, ToSet
    <3> QED
      BY <3>1, <3>2, <3>3 DEF Sets
  <2> QED
    BY <2>1, <2>2
<1> QED
  BY <1>7, <1>8 DEF Fine, R

-----------------------------------------------------------------------------
(***************************************************************************)
(* The inductive invariant: the properties, and what they rest on.  Until  *)
(* the mutation webhook answers, the object is as it was submitted, and a  *)
(* plan passes only on a reading of the policies.                          *)
(***************************************************************************)
RequestInv ==
    /\ request \in [webhook : {"kubernetes", "terraform"}, namespace : Namespaces, doc : Documents]
    /\ phase = "mutation" => doc = request.doc /\ "mutation" \notin DOMAIN readings
    /\ phase = "passed" => "terraform" \in DOMAIN readings

IInv ==
    /\ TypeOK
    /\ RequestInv
    /\ EnforcedHolds
    /\ DeniedForCause
    /\ MutationFootprint

\* The policies that a provider gets are finite in number, and of the cache.
LEMMA GetAllFacts ==
    ASSUME TypeOK, NEW provider
    PROVE  IsFiniteSet(GetAll(provider)) /\ GetAll(provider) \subseteq Pool
<1>1. GetAll(provider) \subseteq Pool
  BY DEF GetAll, TypeOK
<1> QED
  BY <1>1, AdmissionAssumption, FS_Subset

\* A handler's reading is added to those of the others.
LEMMA ReadsFacts ==
    ASSUME NEW handler, NEW ps, Reads(handler, ps)
    PROVE  /\ DOMAIN readings' = DOMAIN readings \cup {handler}
           /\ readings'[handler] = ps
           /\ \A h \in DOMAIN readings \ {handler} : readings'[h] = readings[h]
  BY DEF Reads

\* A step that leaves the object and the mutation handler's reading alone.
LEMMA FootprintKept ==
    ASSUME MutationFootprint, UNCHANGED <<request, doc>>,
           "mutation" \in DOMAIN readings' <=> "mutation" \in DOMAIN readings,
           "mutation" \in DOMAIN readings => readings'["mutation"] = readings["mutation"]
    PROVE  MutationFootprint'
<1>1. CASE "mutation" \notin DOMAIN readings
  BY <1>1 DEF MutationFootprint
<1>2. CASE "mutation" \in DOMAIN readings
  <2> DEFINE os == Recommendations(readings["mutation"], request.doc)
  <2>1. os' = os
    BY <1>2 DEF Recommendations, Violated, VerdictOn, Entity
  <2>2. /\ request.namespace \notin ExcludedNamespaces
        /\ \A k \in DOMAIN doc \ {MutatedLabel} :
              doc[k] # request.doc[k] => Explained(os, k, request.doc[k], doc[k])
        /\ doc[MutatedLabel] = IF \E o \in os : Mutable(o) THEN ""
                               ELSE request.doc[MutatedLabel]
    BY <1>2, Zenon DEF MutationFootprint
  <2>3. MutationFootprint' =
          (/\ request.namespace \notin ExcludedNamespaces
           /\ \A k \in DOMAIN doc \ {MutatedLabel} :
                 doc[k] # request.doc[k] => Explained(os', k, request.doc[k], doc[k])
           /\ doc[MutatedLabel] = IF \E o \in os' : Mutable(o) THEN ""
                                  ELSE request.doc[MutatedLabel])
    BY <1>2 DEF MutationFootprint
  <2> HIDE DEF os
  <2> QED
    BY <2>1, <2>2, <2>3
<1> QED
  BY <1>1, <1>2

\* The invariant holds of a request that arrives.
LEMMA InitInv == Init => IInv
<1> SUFFICES ASSUME Init PROVE IInv
  OBVIOUS
<1>1. TypeOK
  BY AdmissionAssumption DEF Init, TypeOK
<1>2. RequestInv
  BY DEF Init, RequestInv
<1>3. EnforcedHolds /\ DeniedForCause
  BY DEF Init, EnforcedHolds, DeniedForCause
<1>4. MutationFootprint
  BY DEF Init, MutationFootprint
<1> QED
  BY <1>1, <1>2, <1>3, <1>4 DEF IInv

\* A change in the cache touches no reading and no request.
LEMMA PolicyChangeStep == ASSUME IInv, PolicyChange PROVE IInv'
<1>1. /\ UNCHANGED <<settings, request, doc, phase, cause, readings>>
      /\ policies' \subseteq Pool /\ changes' \in 0..MaxChanges
  BY AdmissionAssumption DEF PolicyChange, IInv, TypeOK
<1>2. TypeOK'
  BY <1>1 DEF IInv, TypeOK
<1>3. RequestInv'
  BY <1>1 DEF IInv, RequestInv
<1>4. EnforcedHolds'
  BY <1>1 DEF IInv, EnforcedHolds, VerdictOn, Entity, Labels
<1>5. DeniedForCause'
  BY <1>1 DEF IInv, DeniedForCause, VerdictOn, Entity, Labels
<1>6. MutationFootprint'
  BY <1>1, FootprintKept DEF IInv
<1> QED
  BY <1>2, <1>3, <1>4, <1>5, <1>6 DEF IInv

\* The mutation handler: the only step that touches the object.
LEMMA MutationHandleStep == ASSUME IInv, MutationHandle PROVE IInv'
<1> DEFINE ps == GetAll("kubernetes")
<1>1. /\ phase = "mutation" /\ phase' = "admission" /\ doc = request.doc
      /\ UNCHANGED <<settings, policies, changes, request, cause>>
  BY DEF MutationHandle, IInv, RequestInv
<1>2. CASE UNCHANGED <<doc, readings>>
  <2>1. TypeOK'
    BY <1>1, <1>2 DEF IInv, TypeOK
  <2>2. RequestInv' /\ EnforcedHolds' /\ DeniedForCause'
    BY <1>1, <1>2 DEF IInv, RequestInv, EnforcedHolds, DeniedForCause
  <2>3. MutationFootprint'
    BY <1>1, <1>2, FootprintKept DEF IInv
  <2> QED
    BY <2>1, <2>2, <2>3 DEF IInv
<1>3. CASE /\ request.namespace \notin ExcludedNamespaces
           /\ doc' \in Mutations(ps, doc)
           /\ Reads("mutation", ps)
  <2>1. IsFiniteSet(ps) /\ ps \subseteq Pool
    BY GetAllFacts DEF IInv
  <2> HIDE DEF ps
  <2> DEFINE R == Recommendations(ps, doc)
  <2>2. /\ DOMAIN doc' = DOMAIN doc
        /\ \A k \in DOMAIN doc \ {MutatedLabel} :
              doc'[k] # doc[k] => Explained(R, k, doc[k], doc'[k])
        /\ doc'[MutatedLabel] = IF \E o \in R : Mutable(o) THEN "" ELSE doc[MutatedLabel]
    <3>1. doc \in Documents
      BY <1>1 DEF IInv, TypeOK
    <3> QED
      BY <1>3, <2>1, <3>1, MutationsFootprint
  <2>3. /\ DOMAIN readings' = DOMAIN readings \cup {"mutation"}
        /\ readings'["mutation"] = ps
        /\ \A h \in DOMAIN readings \ {"mutation"} : readings'[h] = readings[h]
    BY <1>3, ReadsFacts
  <2>4. TypeOK'
    BY <1>1, <2>1, <2>2, <2>3 DEF IInv, TypeOK
  <2>5. RequestInv' /\ EnforcedHolds' /\ DeniedForCause'
    BY <1>1 DEF IInv, RequestInv, EnforcedHolds, DeniedForCause
  <2>6. Recommendations(readings["mutation"], request.doc)' = R
    BY <1>1, <2>3 DEF Recommendations, Violated, VerdictOn, Entity
  <2> HIDE DEF R
  <2>7. MutationFootprint'
    BY <1>1, <1>3, <2>2, <2>3, <2>6 DEF MutationFootprint
  <2> QED
    BY <2>4, <2>5, <2>7 DEF IInv
<1> QED
  BY <1>2, <1>3 DEF MutationHandle

\* The admission handler: it admits what violates no enforced policy.
LEMMA AdmissionHandleStep == ASSUME IInv, AdmissionHandle PROVE IInv'
<1> DEFINE ps == GetAll("kubernetes")
<1>1. phase = "admission" /\ UNCHANGED <<settings, policies, changes, request, doc>>
  BY DEF AdmissionHandle
<1>2. CASE /\ request.namespace \in ExcludedNamespaces
           /\ phase' = "admitted" /\ cause' = "excluded" /\ UNCHANGED readings
  <2>1. TypeOK'
    BY <1>1, <1>2 DEF IInv, TypeOK
  <2>2. RequestInv' /\ EnforcedHolds' /\ DeniedForCause'
    BY <1>1, <1>2 DEF IInv, RequestInv, EnforcedHolds, DeniedForCause
  <2>3. MutationFootprint'
    BY <1>1, <1>2, FootprintKept DEF IInv
  <2> QED
    BY <2>1, <2>2, <2>3 DEF IInv
<1>3. CASE /\ request.namespace \notin ExcludedNamespaces
           /\ Decides(ps, doc)
           /\ Reads("admission", ps)
           /\ IF Allowed(Violated(ps, doc)) THEN phase' = "admitted" /\ cause' = "validated"
                                            ELSE phase' = "denied" /\ cause' = "violations"
  <2>1. ps \subseteq Pool
    BY GetAllFacts DEF IInv
  <2> HIDE DEF ps
  <2>2. /\ DOMAIN readings' = DOMAIN readings \cup {"admission"}
        /\ readings'["admission"] = ps
        /\ \A h \in DOMAIN readings \ {"admission"} : readings'[h] = readings[h]
    BY <1>3, ReadsFacts
  <2>3. TypeOK'
    BY <1>1, <1>3, <2>1, <2>2 DEF IInv, TypeOK
  <2>4. RequestInv'
    BY <1>1, <1>3 DEF IInv, RequestInv
  <2>5. EnforcedHolds'
    BY <1>1, <1>3, <2>2 DEF EnforcedHolds, Decides, Allowed, Violated, VerdictOn, Entity, Labels
  <2>6. DeniedForCause'
    BY <1>1, <1>3, <2>2 DEF DeniedForCause, Allowed, Violated, VerdictOn, Entity, Labels
  <2>7. MutationFootprint'
    BY <1>1, <2>2, FootprintKept DEF IInv
  <2> QED
    BY <2>3, <2>4, <2>5, <2>6, <2>7 DEF IInv
<1> QED
  BY <1>2, <1>3 DEF AdmissionHandle, End, Reviewed

\* An error of a handler denies the request.
LEMMA HandleErrorStep == ASSUME IInv, HandleError PROVE IInv'
<1>1. /\ request.namespace \notin ExcludedNamespaces
      /\ phase' = "denied" /\ cause' = "error"
      /\ UNCHANGED <<settings, policies, changes, request, doc, readings>>
  BY DEF HandleError, End, ErrorOutcome
<1>2. TypeOK'
  BY <1>1 DEF IInv, TypeOK
<1>3. RequestInv' /\ EnforcedHolds' /\ DeniedForCause'
  BY <1>1 DEF IInv, RequestInv, EnforcedHolds, DeniedForCause
<1>4. MutationFootprint'
  BY <1>1, FootprintKept DEF IInv
<1> QED
  BY <1>2, <1>3, <1>4 DEF IInv

\* A webhook that does not answer: its failure policy decides.
LEMMA WebhookFailsStep == ASSUME IInv, WebhookFails PROVE IInv'
<1>1. /\ UNCHANGED <<settings, policies, changes, request, doc, readings>>
      /\ settings.failurePolicy \in {"Fail", "Ignore"}
      /\ \/ settings.failurePolicy = "Fail" /\ phase' = "denied" /\ cause' = "unavailable"
         \/ phase' = "admission" /\ UNCHANGED cause
         \/ settings.failurePolicy = "Ignore" /\ phase' = "admitted" /\ cause' = "unavailable"
  BY DEF WebhookFails, End, IInv, TypeOK
<1>2. TypeOK'
  BY <1>1 DEF IInv, TypeOK
<1>3. RequestInv' /\ EnforcedHolds' /\ DeniedForCause'
  BY <1>1 DEF IInv, RequestInv, EnforcedHolds, DeniedForCause
<1>4. MutationFootprint'
  BY <1>1, FootprintKept DEF IInv
<1> QED
  BY <1>2, <1>3, <1>4 DEF IInv

\* The Terraform handler: a plan passes without violations.
LEMMA ServeHTTPStep == ASSUME IInv, ServeHTTP PROVE IInv'
<1> DEFINE ps == GetAll("terraform")
<1>1. phase = "terraform" /\ UNCHANGED <<settings, policies, changes, request, doc>>
  BY DEF ServeHTTP
<1>2. CASE phase' = "failed" /\ cause' = "error" /\ UNCHANGED readings
  <2>1. TypeOK'
    BY <1>1, <1>2 DEF IInv, TypeOK
  <2>2. RequestInv' /\ EnforcedHolds' /\ DeniedForCause'
    BY <1>1, <1>2 DEF IInv, RequestInv, EnforcedHolds, DeniedForCause
  <2>3. MutationFootprint'
    BY <1>1, <1>2, FootprintKept DEF IInv
  <2> QED
    BY <2>1, <2>2, <2>3 DEF IInv
<1>3. CASE /\ Decides(ps, doc)
           /\ Reads("terraform", ps)
           /\ IF Violated(ps, doc) = {} THEN phase' = "passed" /\ cause' = "validated"
                                        ELSE phase' = "failed" /\ cause' = "violations"
  <2>1. ps \subseteq Pool
    BY GetAllFacts DEF IInv
  <2> HIDE DEF ps
  <2>2. /\ DOMAIN readings' = DOMAIN readings \cup {"terraform"}
        /\ readings'["terraform"] = ps
        /\ \A h \in DOMAIN readings \ {"terraform"} : readings'[h] = readings[h]
    BY <1>3, ReadsFacts
  <2>3. TypeOK'
    BY <1>1, <1>3, <2>1, <2>2 DEF IInv, TypeOK
  <2>4. RequestInv' /\ DeniedForCause'
    BY <1>1, <1>3, <2>2 DEF IInv, RequestInv, DeniedForCause
  <2>5. EnforcedHolds'
    BY <1>1, <1>3, <2>2 DEF EnforcedHolds, Decides, Violated, VerdictOn, Entity, Labels
  <2>6. MutationFootprint'
    BY <1>1, <2>2, FootprintKept DEF IInv
  <2> QED
    BY <2>3, <2>4, <2>5, <2>6 DEF IInv
<1> QED
  BY <1>2, <1>3 DEF ServeHTTP, End

\* Every step preserves the invariant.
LEMMA NextInv == IInv /\ [Next]_vars => IInv'
<1> SUFFICES ASSUME IInv, [Next]_vars PROVE IInv'
  OBVIOUS
<1>1. CASE UNCHANGED vars
  <2>1. UNCHANGED <<settings, policies, changes, request, doc, phase, cause, readings>>
    BY <1>1 DEF vars
  <2>2. TypeOK' /\ RequestInv'
    BY <2>1 DEF IInv, TypeOK, RequestInv
  <2>3. EnforcedHolds' /\ DeniedForCause'
    BY <2>1 DEF IInv, EnforcedHolds, DeniedForCause, VerdictOn, Entity, Labels
  <2>4. MutationFootprint'
    BY <2>1, FootprintKept DEF IInv
  <2> QED
    BY <2>2, <2>3, <2>4 DEF IInv
<1> QED
  BY <1>1, PolicyChangeStep, MutationHandleStep, AdmissionHandleStep, HandleErrorStep,
     WebhookFailsStep, ServeHTTPStep DEF Next

(***************************************************************************)
(* The invariant, for every pool of policies and every set of objects.     *)
(***************************************************************************)
THEOREM AdmissionInvariance == Spec => []IInv
  BY InitInv, NextInv, PTL DEF Spec

(***************************************************************************)
(* Every variable has a value of its type, whatever the handlers did: a    *)
(* reading is one of policies of the cache, and the object that            *)
(* MutationHandler.Handle hands on has a value or nothing at each path that*)
(* could have one.                                                         *)
(***************************************************************************)
THEOREM AdmissionTypeCorrect == Spec => []TypeOK
<1>1. IInv => TypeOK
  BY DEF IInv
<1> QED
  BY <1>1, AdmissionInvariance, PTL

(***************************************************************************)
(* AdmissionHandler.Handle lets nothing into the cluster that violates, as *)
(* it goes in, an enforced policy that the handler read, however the       *)
(* mutation handler changed it and the cache changed in between; a         *)
(* Terraform plan that passes violates no policy.                          *)
(***************************************************************************)
THEOREM OnlyCompliantAdmitted == Spec => []EnforcedHolds
<1>1. IInv => EnforcedHolds
  BY DEF IInv
<1> QED
  BY <1>1, AdmissionInvariance, PTL

\* Both webhooks turn an object away only for a cause.
THEOREM NothingDeniedWithoutCause == Spec => []DeniedForCause
<1>1. IInv => DeniedForCause
  BY DEF IInv
<1> QED
  BY <1>1, AdmissionInvariance, PTL

(***************************************************************************)
(* MutationHandler.Handle changes a path other than the label only to a    *)
(* value that a violated, mutating policy of its reading recommends for it *)
(* (or from nothing to an empty map), and sets the label if and only if it *)
(* put a recommended value into the object, in whatever order the          *)
(* violations come.                                                        *)
(***************************************************************************)
THEOREM MutationTouchesRecommended == Spec => []MutationFootprint
<1>1. IInv => MutationFootprint
  BY DEF IInv
<1> QED
  BY <1>1, AdmissionInvariance, PTL
================================================================================
