--------------------------- MODULE ElasticSinkProofs ---------------------------
(***************************************************************************)
(* Proofs, for any results, batch size and number of retries, of what the  *)
(* Elasticsearch sink does with the results: the batch is what was         *)
(* received and not yet written, the index holds what was written, once,   *)
(* and the sink keeps to the contract of sinks.                            *)
(***************************************************************************)
EXTENDS ElasticSink, FiniteSetTheorems, SequenceTheorems, WellFoundedInduction, TLAPS

\* How many results the sink is through with: they are the first ones.
Done == Cardinality(flushed)

(***************************************************************************)
(* What was received is either flushed or in the batch, in order, and a    *)
(* batch that is being written is not empty.                               *)
(***************************************************************************)
QueueInv ==
    /\ Done \in 0..taken
    /\ flushed = 1..Done
    /\ IF pc = "stopped" THEN Done = taken
       ELSE batch = [j \in 1..(taken - Done) |-> Done + j]
    /\ Len(batch) <= BatchSize
    /\ pc = "select" => Len(batch) < BatchSize
    /\ Writing => Len(batch) > 0

\* A document of the index is a result that fits, under its own id.
IndexInv ==
    \A d \in DOMAIN index :
        /\ index[d] \in 1..taken
        /\ accepted[index[d]].fits
        /\ DocID(index[d]) = d

IInv == TypeOK /\ QueueInv /\ IndexInv /\ Stored

-----------------------------------------------------------------------------
\* The order of the natural numbers, as a relation.
Less == {pair \in Nat \X Nat : pair[1] < pair[2]}

\* There is no infinite descent.
LEMMA LessWellFounded == IsWellFoundedOn(Less, Nat)
  BY NatLessThanWellFounded, Zenon DEF Less, OpToRel

\* A smaller number is before a larger one.
LEMMA LessMember == \A x, y \in Nat : x < y => <<x, y>> \in Less
  BY DEF Less

(***************************************************************************)
(* Max is what its name says, of a set of numbers that has a bound.        *)
(***************************************************************************)
LEMMA MaxFacts ==
    ASSUME NEW S \in SUBSET Nat, S # {}, NEW bound \in Nat, \A x \in S : x <= bound
    PROVE  Max(S) \in S /\ \A x \in S : x <= Max(S)
<1> DEFINE Bounds == {k \in Nat : \A x \in S : x <= k}
<1>1. PICK m \in Bounds : \A k \in Bounds : ~(<<k, m>> \in Less)
  <2>1. bound \in Bounds
    OBVIOUS
  <2> QED
    BY <2>1, LessWellFounded, WFMin
<1>2. ASSUME NEW k \in Bounds PROVE m <= k
  <2>1. ~(k < m)
    BY <1>1, LessMember
  <2> QED
    BY <2>1
<1>3. m \in S
  <2>1. SUFFICES ASSUME m \notin S PROVE FALSE
    OBVIOUS
  <2>2. PICK x \in S : TRUE
    OBVIOUS
  <2>3. m - 1 \in Nat /\ \A y \in S : y <= m - 1
    BY <2>1, <2>2
  <2> QED
    BY <1>2, <2>3
<1> QED
  BY <1>3 DEF Max

(***************************************************************************)
(* A list of successive numbers grows by the next one.                     *)
(***************************************************************************)
LEMMA AppendInterval ==
    ASSUME NEW a \in Nat, NEW n \in Nat
    PROVE  Append([j \in 1..n |-> a + j], a + n + 1) = [j \in 1..(n + 1) |-> a + j]
<1> DEFINE s == [j \in 1..n |-> a + j]
           t == [j \in 1..(n + 1) |-> a + j]
           u == Append(s, a + n + 1)
<1>1. s \in Seq(Nat) /\ Len(s) = n /\ t \in Seq(Nat) /\ Len(t) = n + 1
  OBVIOUS
<1>2. u \in Seq(Nat) /\ Len(u) = n + 1 /\ u[n + 1] = a + n + 1 /\ \A j \in 1..n : u[j] = s[j]
  BY <1>1, AppendProperties
<1>3. \A j \in 1..(n + 1) : u[j] = t[j]
  BY <1>2
<1> HIDE DEF s, t, u
<1> QED
  BY <1>1, <1>2, <1>3, SeqEqual DEF u, s, t

-----------------------------------------------------------------------------
(***************************************************************************)
(* The batch in a state in which writeBatch runs.                          *)
(***************************************************************************)
LEMMA WritingBatch ==
    ASSUME IInv, Writing
    PROVE  /\ Done \in Nat /\ taken \in Nat /\ Done < taken
           /\ flushed = 1..Done
           /\ DOMAIN batch = 1..(taken - Done)
           /\ \A j \in DOMAIN batch : batch[j] = Done + j
           /\ Members(batch) = (Done + 1)..taken
<1>1. /\ Done \in Nat /\ taken \in Nat /\ Done <= taken
      /\ flushed = 1..Done
      /\ batch = [j \in 1..(taken - Done) |-> Done + j]
      /\ Len(batch) > 0 /\ batch \in Seq(Nat \ {0})
  BY DEF IInv, TypeOK, QueueInv, Writing
<1>2. Len(batch) = taken - Done /\ DOMAIN batch = 1..(taken - Done)
  BY <1>1, LenProperties
<1>3. \A j \in DOMAIN batch : batch[j] = Done + j
  BY <1>1
<1>4. Members(batch) = (Done + 1)..taken
  <2>1. ASSUME NEW i \in (Done + 1)..taken PROVE i \in Members(batch)
    <3>1. i - Done \in DOMAIN batch /\ batch[i - Done] = i
      BY <1>1, <1>2, <1>3
    <3> QED
      BY <3>1 DEF Members
  <2>2. ASSUME NEW i \in Members(batch) PROVE i \in (Done + 1)..taken
    BY <1>1, <1>2, <1>3 DEF Members
  <2> QED
    BY <2>1, <2>2
<1> QED
  BY <1>1, <1>2, <1>3, <1>4

(***************************************************************************)
(* What a bulk request does to the index: the documents of the batch that  *)
(* fit are in it afterwards, each under its id or replaced by a later one, *)
(* and none of the index is replaced by an older one.                      *)
(***************************************************************************)
LEMMA AppliedFacts ==
    ASSUME IInv, Writing
    PROVE  /\ \A d \in DOMAIN Applied :
                 /\ Applied[d] \in 1..taken
                 /\ accepted[Applied[d]].fits
                 /\ DocID(Applied[d]) = d
           /\ \A i \in Members(batch) : accepted[i].fits =>
                 DocID(i) \in DOMAIN Applied /\ Applied[DocID(i)] >= i
           /\ \A d \in DOMAIN index : d \in DOMAIN Applied
                 /\ \A i \in 1..Done : index[d] >= i => Applied[d] >= i
<1> DEFINE Positions(d) == {j \in DOMAIN batch : accepted[batch[j]].fits /\ DocID(batch[j]) = d}
           ids == {DocID(i) : i \in {i \in Members(batch) : accepted[i].fits}}
<1>1. Applied = [d \in ids \cup DOMAIN index |->
                    IF d \in ids THEN batch[Max(Positions(d))] ELSE index[d]]
  BY DEF Applied, Wins
<1>2. ASSUME NEW i \in Members(batch), accepted[i].fits
      PROVE  DocID(i) \in ids /\ i - Done \in Positions(DocID(i))
  BY <1>2, WritingBatch
<1>3. ASSUME NEW d \in ids
      PROVE  /\ Max(Positions(d)) \in Positions(d)
             /\ \A j \in Positions(d) : j <= Max(Positions(d))
  <2>1. PICK i \in Members(batch) : accepted[i].fits /\ d = DocID(i)
    OBVIOUS
  <2>2. Positions(d) # {}
    BY <1>2, <2>1
  <2>3. /\ Positions(d) \in SUBSET Nat
        /\ taken \in Nat
        /\ \A j \in Positions(d) : j <= taken
    BY WritingBatch
  <2> HIDE DEF Positions
  <2> QED
    BY <2>2, <2>3, MaxFacts
<1>4. ASSUME NEW d \in ids
      PROVE  /\ d \in DOMAIN Applied
             /\ Applied[d] = Done + Max(Positions(d))
             /\ Max(Positions(d)) \in 1..(taken - Done)
  BY <1>1, <1>3, WritingBatch
<1>5. ASSUME NEW d \in ids
      PROVE  /\ Applied[d] \in 1..taken
             /\ Applied[d] > Done
             /\ accepted[Applied[d]].fits
             /\ DocID(Applied[d]) = d
  <2>1. LET m == Max(Positions(d)) IN
           m \in DOMAIN batch /\ accepted[batch[m]].fits /\ DocID(batch[m]) = d
    BY <1>3
  <2>2. batch[Max(Positions(d))] = Applied[d]
    BY <1>4, <2>1, WritingBatch
  <2>3. Applied[d] \in 1..taken /\ Applied[d] > Done
    <3> HIDE DEF Positions
    <3>1. PICK m : m = Max(Positions(d))
      OBVIOUS
    <3>2. Applied[d] = Done + m /\ m \in 1..(taken - Done)
      BY <1>4, <3>1
    <3> QED
      BY <3>2, WritingBatch
  <2> QED
    BY <2>1, <2>2, <2>3
<1>6. ASSUME NEW d \in DOMAIN index, d \notin ids
      PROVE  d \in DOMAIN Applied /\ Applied[d] = index[d]
  BY <1>1, <1>6
<1>7. DOMAIN Applied = ids \cup DOMAIN index
  BY <1>1
<1> HIDE DEF ids, Positions
<1>8. \A d \in DOMAIN Applied :
         /\ Applied[d] \in 1..taken
         /\ accepted[Applied[d]].fits
         /\ DocID(Applied[d]) = d
  BY <1>5, <1>6, <1>7 DEF IInv, IndexInv
<1>9. \A i \in Members(batch) : accepted[i].fits =>
         DocID(i) \in DOMAIN Applied /\ Applied[DocID(i)] >= i
  <2> SUFFICES ASSUME NEW i \in Members(batch), accepted[i].fits
               PROVE  DocID(i) \in DOMAIN Applied /\ Applied[DocID(i)] >= i
    OBVIOUS
  <2>1. DocID(i) \in ids /\ i - Done \in Positions(DocID(i))
    BY <1>2
  <2>2. i - Done <= Max(Positions(DocID(i)))
    BY <1>3, <2>1
  <2> QED
    BY <1>4, <2>1, <2>2, WritingBatch
<1>10. \A d \in DOMAIN index : d \in DOMAIN Applied
          /\ \A i \in 1..Done : index[d] >= i => Applied[d] >= i
  BY <1>5, <1>6, <1>7, WritingBatch
<1> QED
  BY <1>8, <1>9, <1>10

-----------------------------------------------------------------------------
(***************************************************************************)
(* The initial state satisfies the inductive invariant.                    *)
(***************************************************************************)
LEMMA InitIInv == Init => IInv
<1> SUFFICES ASSUME Init PROVE IInv
  OBVIOUS
<1>1. TypeOK
  <2>1. /\ accepted = << >> /\ accepted \in Seq(Results) /\ Len(accepted) = 0
        /\ batch = << >> /\ batch \in Seq(Nat \ {0})
    BY EmptySeq DEF Init
  <2>2. \A d \in DOMAIN index : index[d] \in Nat \ {0}
    BY DEF Init
  <2>3. taken \in 0..Len(accepted) /\ attempt \in 0..Retries
    BY <2>1, ElasticAssumption DEF Init
  <2> QED
    BY <2>1, <2>2, <2>3 DEF Init, TypeOK
<1>2. Done = 0
  BY FS_EmptySet DEF Init, Done
<1>3. QueueInv
  BY <1>2, ElasticAssumption DEF Init, QueueInv, Writing
<1> QED
  BY <1>1, <1>3 DEF Init, IInv, IndexInv, Stored

\* A validator sends a result; those sent before stay as they are.
LEMMA WriteStep == ASSUME IInv, Write PROVE IInv'
<1>1. PICK result \in Results : accepted' = Append(accepted, result)
  BY DEF Write
<1>2. accepted \in Seq(Results) /\ taken \in Nat /\ taken <= Len(accepted) /\ Len(accepted) \in Nat
  BY DEF IInv, TypeOK
<1>3. /\ accepted' \in Seq(Results)
      /\ Len(accepted') = Len(accepted) + 1
      /\ \A i \in 1..taken : accepted'[i] = accepted[i]
  BY <1>1, <1>2, AppendProperties
<1>4. \A i \in 1..taken : DocID(i)' = DocID(i)
  BY <1>3 DEF DocID, Write
<1>5. TypeOK'
  BY <1>2, <1>3 DEF IInv, TypeOK, Write
<1>6. QueueInv'
  BY DEF IInv, QueueInv, Write, Done, Writing
<1>7. IndexInv'
  BY <1>3, <1>4 DEF IInv, IndexInv, Write
<1>8. Stored'
  <2>1. \A i \in flushed : i \in 1..taken
    BY <1>2 DEF IInv, QueueInv
  <2> QED
    BY <1>3, <1>4, <2>1 DEF IInv, Stored, Write
<1> QED
  BY <1>5, <1>6, <1>7, <1>8 DEF IInv

\* The signal to stop, and the ticker, touch none of the results.
LEMMA SignalStep == ASSUME IInv, Shutdown \/ Tick PROVE IInv'
<1>1. TypeOK'
  BY DEF IInv, TypeOK, Shutdown, Tick
<1>2. QueueInv'
  BY DEF IInv, QueueInv, Shutdown, Tick, Done, Writing
<1>3. IndexInv' /\ Stored'
  BY DEF IInv, IndexInv, Stored, DocID, Shutdown, Tick
<1> QED
  BY <1>1, <1>2, <1>3 DEF IInv

\* The worker receives the next result: it joins the batch.
LEMMA ReceiveStep == ASSUME IInv, Receive PROVE IInv'
<1>1. /\ taken \in Nat /\ Done \in Nat /\ taken - Done \in Nat
      /\ batch \in Seq(Nat \ {0})
      /\ batch = [j \in 1..(taken - Done) |-> Done + j]
      /\ Len(batch) < BatchSize /\ pc = "select"
      /\ taken' = taken + 1 /\ batch' = Append(batch, taken + 1)
      /\ taken' <= Len(accepted) /\ Len(accepted) \in Nat
      /\ BatchSize \in Nat
  BY ElasticAssumption DEF IInv, TypeOK, QueueInv, Receive
<1>2. /\ batch' = [j \in 1..(taken' - Done) |-> Done + j]
  <2>1. Done + (taken - Done) + 1 = taken + 1 /\ (taken - Done) + 1 = taken' - Done
    BY <1>1
  <2> QED
    BY <1>1, <2>1, AppendInterval
<1>3. batch' \in Seq(Nat \ {0}) /\ Len(batch') = Len(batch) + 1 /\ Len(batch) \in Nat
  BY <1>1, AppendProperties, LenProperties
<1>4. TypeOK'
  BY <1>1, <1>3 DEF IInv, TypeOK, Receive
<1>5. QueueInv'
  BY <1>1, <1>2, <1>3 DEF IInv, QueueInv, Receive, Done, Writing
<1>6. IndexInv' /\ Stored'
  BY <1>1 DEF IInv, IndexInv, Stored, DocID, Receive
<1> QED
  BY <1>4, <1>5, <1>6 DEF IInv

\* The tick, and the end of the context: a batch with results is written.
LEMMA SelectStep == ASSUME IInv, Expire \/ Finish PROVE IInv'
<1>1. /\ taken \in Nat /\ Done \in 0..taken /\ batch \in Seq(Nat \ {0})
      /\ batch = [j \in 1..(taken - Done) |-> Done + j]
      /\ pc = "select"
      /\ UNCHANGED <<mode, accepted, taken, batch, attempt, index, flushed, givenUp>>
  BY DEF IInv, TypeOK, QueueInv, Expire, Finish
<1>2. Len(batch) = taken - Done
  BY <1>1, LenProperties
<1>3. TypeOK'
  BY DEF IInv, TypeOK, Expire, Finish
<1>4. Writing' => Len(batch) > 0
  BY <1>1 DEF Expire, Finish, Writing
<1>5. pc' = "stopped" => Len(batch) = 0
  BY <1>1, <1>2 DEF Expire, Finish
<1>6. QueueInv'
  BY <1>1, <1>2, <1>4, <1>5 DEF IInv, QueueInv, Done, Writing
<1>7. IndexInv' /\ Stored'
  BY <1>1 DEF IInv, IndexInv, Stored, DocID
<1> QED
  BY <1>3, <1>6, <1>7 DEF IInv

(***************************************************************************)
(* A failing attempt may leave the documents of the batch in the index:    *)
(* that replaces nothing by an older result.                               *)
(***************************************************************************)
LEMMA BulkFailsStep == ASSUME IInv, BulkFails PROVE IInv'
<1>1. Writing /\ index' \in {index, Applied} /\ attempt < Retries /\ attempt' = attempt + 1
      /\ UNCHANGED <<mode, ctxDone, accepted, taken, batch, tick, pc, flushed, givenUp>>
  BY DEF BulkFails
<1>2. /\ \A i : DocID(i)' = DocID(i)
      /\ Done' = Done
  BY <1>1 DEF DocID, Done
<1>3. QueueInv'
  BY <1>1, <1>2 DEF IInv, QueueInv, Writing
<1>4. CASE index' = index
  <2>1. TypeOK'
    BY <1>1, <1>4, ElasticAssumption DEF IInv, TypeOK
  <2> QED
    BY <1>1, <1>2, <1>3, <1>4, <2>1 DEF IInv, IndexInv, Stored
<1>5. CASE index' = Applied
  <2> DEFINE new == Applied
  <2>1. /\ \A d \in DOMAIN new : new[d] \in 1..taken /\ accepted[new[d]].fits /\ DocID(new[d]) = d
        /\ \A d \in DOMAIN index : d \in DOMAIN new
              /\ \A i \in 1..Done : index[d] >= i => new[d] >= i
    BY <1>1, AppliedFacts
  <2> HIDE DEF new
  <2>2. index' = new
    BY <1>5 DEF new
  <2>3. TypeOK'
    BY <1>1, <2>1, <2>2, ElasticAssumption DEF IInv, TypeOK
  <2>4. IndexInv'
    BY <1>1, <1>2, <2>1, <2>2 DEF IndexInv
  <2>5. Stored'
    BY <1>1, <1>2, <2>1, <2>2 DEF IInv, QueueInv, Stored
  <2> QED
    BY <1>3, <2>3, <2>4, <2>5 DEF IInv
<1> QED
  BY <1>1, <1>4, <1>5

(***************************************************************************)
(* writeBatch returns: all that was received is flushed.                   *)
(***************************************************************************)
LEMMA ReturnFacts ==
    ASSUME IInv, Writing, Return,
           UNCHANGED <<mode, ctxDone, accepted, taken, tick>>
    PROVE  /\ flushed' = 1..taken /\ Done' = taken
           /\ flushed = 1..Done /\ Done < taken /\ Done \in Nat /\ taken \in Nat
           /\ QueueInv'
           /\ batch' \in Seq(Nat \ {0}) /\ attempt' \in 0..Retries
           /\ pc' \in {"select", "stopped"}
<1>1. flushed' = flushed \cup Members(batch)
  BY DEF Return
<1>2. /\ Done \in Nat /\ taken \in Nat /\ Done < taken
      /\ flushed = 1..Done /\ Members(batch) = (Done + 1)..taken
  BY WritingBatch
<1>3. flushed' = 1..taken
  BY <1>1, <1>2
<1>4. Done' = taken
  BY <1>2, <1>3, FS_Interval DEF Done
<1>5. batch' \in Seq(Nat \ {0}) /\ attempt' \in 0..Retries /\ pc' \in {"select", "stopped"}
  BY ElasticAssumption DEF Return, IInv, TypeOK
<1>6. ASSUME pc = "last" PROVE QueueInv'
  <2>1. batch' = batch /\ pc' = "stopped" /\ Len(batch) <= BatchSize
    BY <1>6 DEF Return, IInv, QueueInv
  <2>2. taken' = taken
    OBVIOUS
  <2> QED
    BY <1>2, <1>3, <1>4, <2>1, <2>2 DEF QueueInv, Writing
<1>7. ASSUME pc # "last" PROVE QueueInv'
  <2>1. batch' = << >> /\ pc' = "select"
    BY <1>7 DEF Return
  <2>2. << >> = [j \in 1..(taken' - Done') |-> Done' + j]
    BY <1>2, <1>4
  <2> QED
    BY <1>2, <1>3, <1>4, <2>1, <2>2, ElasticAssumption DEF QueueInv, Writing
<1> QED
  BY <1>2, <1>3, <1>4, <1>5, <1>6, <1>7

(***************************************************************************)
(* The batch is written: its documents are in the index.                   *)
(***************************************************************************)
LEMMA BulkSucceedsStep == ASSUME IInv, BulkSucceeds PROVE IInv'
<1> DEFINE new == Applied
<1>1. /\ Writing /\ Return /\ index' = new
      /\ UNCHANGED <<mode, ctxDone, accepted, taken, tick, givenUp>>
  BY DEF BulkSucceeds
<1>2. \A i : DocID(i)' = DocID(i)
  BY <1>1 DEF DocID
<1>3. /\ \A d \in DOMAIN new : new[d] \in 1..taken /\ accepted[new[d]].fits /\ DocID(new[d]) = d
      /\ \A d \in DOMAIN index : d \in DOMAIN new
            /\ \A i \in 1..Done : index[d] >= i => new[d] >= i
      /\ \A i \in Members(batch) : accepted[i].fits => DocID(i) \in DOMAIN new /\ new[DocID(i)] >= i
  BY <1>1, AppliedFacts
<1> HIDE DEF new
<1>4. /\ flushed = 1..Done /\ flushed' = flushed \cup Members(batch)
      /\ QueueInv' /\ batch' \in Seq(Nat \ {0}) /\ attempt' \in 0..Retries
      /\ pc' \in {"select", "stopped"} /\ flushed' = 1..taken /\ taken \in Nat
  BY <1>1, ReturnFacts DEF Return
<1>5. TypeOK'
  BY <1>1, <1>3, <1>4 DEF IInv, TypeOK
<1>6. IndexInv'
  BY <1>1, <1>2, <1>3 DEF IndexInv
<1>7. Stored'
  BY <1>1, <1>2, <1>3, <1>4 DEF IInv, Stored
<1> QED
  BY <1>4, <1>5, <1>6, <1>7 DEF IInv

\* The attempts have run out: the batch is given up.
LEMMA GiveUpStep == ASSUME IInv, GiveUp PROVE IInv'
<1>1. /\ Writing /\ Return /\ givenUp' = givenUp \cup Members(batch)
      /\ UNCHANGED <<mode, ctxDone, accepted, taken, tick, index>>
  BY DEF GiveUp
<1>2. \A i : DocID(i)' = DocID(i)
  BY <1>1 DEF DocID
<1>3. /\ flushed = 1..Done /\ flushed' = flushed \cup Members(batch)
      /\ QueueInv' /\ batch' \in Seq(Nat \ {0}) /\ attempt' \in 0..Retries
      /\ pc' \in {"select", "stopped"} /\ flushed' = 1..taken /\ taken \in Nat
  BY <1>1, ReturnFacts DEF Return
<1>4. TypeOK'
  <2>1. flushed' \subseteq Nat \ {0}
    BY <1>3
  <2>2. givenUp' \subseteq flushed'
    <3>1. givenUp \subseteq flushed
      BY DEF IInv, TypeOK
    <3> QED
      BY <1>1, <1>3, <3>1
  <2> QED
    BY <1>1, <1>3, <2>1, <2>2 DEF IInv, TypeOK
<1>5. IndexInv' /\ Stored'
  BY <1>1, <1>2, <1>3 DEF IInv, IndexInv, Stored
<1> QED
  BY <1>3, <1>4, <1>5 DEF IInv

(***************************************************************************)
(* IInv is inductive.                                                      *)
(***************************************************************************)
LEMMA NextIInv == IInv /\ [Next]_vars => IInv'
<1> SUFFICES ASSUME IInv, [Next]_vars PROVE IInv'
  OBVIOUS
<1>1. CASE UNCHANGED vars
  BY <1>1 DEF vars, IInv, TypeOK, QueueInv, IndexInv, Stored, DocID, Done, Writing
<1>2. CASE Start
  BY <1>2, ReceiveStep, SelectStep, BulkFailsStep, BulkSucceedsStep, GiveUpStep
  DEF Start, WriteBatch
<1> QED
  BY <1>1, <1>2, WriteStep, SignalStep DEF Next

(***************************************************************************)
(* Every state of the sink satisfies the inductive invariant.              *)
(***************************************************************************)
THEOREM ElasticInvariance == Spec => []IInv
  BY InitIInv, NextIInv, PTL DEF Spec

(***************************************************************************)
(* The batch is what was received and not yet written, in order, and it    *)
(* never outgrows its capacity; every variable keeps its type.             *)
(***************************************************************************)
THEOREM BatchCorrect == Spec => []BatchOK
<1>1. IInv => BatchOK
  BY DEF IInv, QueueInv, BatchOK, Done
<1> QED
  BY <1>1, ElasticInvariance, PTL

(***************************************************************************)
(* A result that was written, and not given up, is in the index, or a      *)
(* newer one with its id is; and no result is in the index twice, whatever *)
(* attempts failed after they were carried out.                            *)
(***************************************************************************)
THEOREM IndexCorrect == Spec => []Indexed
<1>1. IInv => Indexed
  BY DEF IInv, IndexInv, Indexed, NoDuplicates
<1> QED
  BY <1>1, ElasticInvariance, PTL

-----------------------------------------------------------------------------
(***************************************************************************)
(* The steps of the sink are steps of SinkSpec: writing a batch handles    *)
(* all that was taken, and the worker ends only when it has.               *)
(***************************************************************************)
LEMMA StepSimulation == IInv /\ [Next]_vars => [Contract!Next]_(Contract!sinkVars)
<1> SUFFICES ASSUME IInv, [Next]_vars PROVE [Contract!Next]_(Contract!sinkVars)
  OBVIOUS
<1>1. accepted \in Seq(Results) /\ Len(accepted) \in Nat /\ taken \in Nat
  BY DEF IInv, TypeOK
<1>2. CASE Write
  <2>1. Len(accepted') = Len(accepted) + 1
    BY <1>1, <1>2, AppendProperties DEF Write
  <2> QED
    BY <1>1, <1>2, <2>1 DEF Write, Contract!Next, Contract!Accept
<1>3. CASE Receive
  BY <1>3 DEF Receive, Contract!Next, Contract!Take
<1>4. CASE Finish
  <2>1. CASE pc' = "stopped"
    <3>1. Done = taken
      <4>1. QueueInv'
        BY <1>4, SelectStep DEF IInv
      <4> QED
        BY <1>4, <2>1, <4>1 DEF QueueInv, Finish, Done
    <3> QED
      BY <1>4, <2>1, <3>1 DEF Finish, Done, Contract!Next, Contract!End
  <2>2. CASE pc' # "stopped"
    BY <1>4, <2>2 DEF Finish, Contract!sinkVars
  <2> QED
    BY <2>1, <2>2
<1>5. CASE BulkSucceeds \/ GiveUp
  <2>1. Writing /\ Return /\ UNCHANGED <<mode, ctxDone, accepted, taken, tick>>
    BY <1>5 DEF BulkSucceeds, GiveUp
  <2>2. Done' = taken /\ Done < taken /\ Done \in Nat /\ pc # "stopped"
    BY <2>1, ReturnFacts DEF Writing
  <2>3. Cardinality(flushed)' \in (Cardinality(flushed) + 1)..taken
        /\ Cardinality(flushed)' = taken
    BY <1>1, <2>2 DEF Done
  <2> QED
    BY <2>1, <2>2, <2>3 DEF Contract!Next, Contract!Handle
<1>6. CASE Shutdown \/ Tick \/ Expire \/ BulkFails \/ UNCHANGED vars
  <2>1. UNCHANGED <<accepted, taken, flushed>> /\ (pc' = "stopped" <=> pc = "stopped")
    BY <1>6 DEF Shutdown, Tick, Expire, BulkFails, vars
  <2> QED
    BY <2>1 DEF Contract!sinkVars
<1> QED
  BY <1>2, <1>3, <1>4, <1>5, <1>6 DEF Next, Start, WriteBatch

(***************************************************************************)
(* The sink keeps to the contract of sinks.                                *)
(***************************************************************************)
THEOREM ElasticImplementsSink == Spec => ImplementsSink
<1>1. Init => Contract!Init
  BY FS_EmptySet DEF Init, Contract!Init
<1> QED
  BY <1>1, StepSimulation, ElasticInvariance, PTL DEF Spec, ImplementsSink, Contract!Spec
=============================================================================
