--------------------------- MODULE ChannelSinkProofs ---------------------------
(***************************************************************************)
(* Proofs, for any results, any number of writers and any capacity, that   *)
(* the file system, Kubernetes event and Flux notification sinks deliver   *)
(* what they accept in order, each result once or not at all for a reason, *)
(* that what they hand over tells the result, and that they keep to the    *)
(* contract of sinks.                                                      *)
(***************************************************************************)
EXTENDS ChannelSink, FiniteSetTheorems, SequenceTheorems, WellFoundedInduction, TLAPS

(***************************************************************************)
(* The worker is through with all it took, except for the result in its    *)
(* hands.                                                                  *)
(***************************************************************************)
CountInv ==
    /\ IsFiniteSet(dropped)
    /\ taken = Len(delivered) + Cardinality(dropped) + (IF worker = "write" THEN 1 ELSE 0)

\* What was handed over is a list.
OutputInv == output \in Seq(Range(output))

IInv == Delivery /\ CountInv /\ OutputInv

-----------------------------------------------------------------------------
(***************************************************************************)
(* The initial state satisfies the inductive invariant.                    *)
(***************************************************************************)
LEMMA InitIInv == Init => IInv
<1> SUFFICES ASSUME Init PROVE IInv
  OBVIOUS
<1>1. \A S : << >> \in Seq(S) /\ Len(<< >>) = 0
  OBVIOUS
<1>2. TypeOK
  <2>1. todo \in [Writers -> Seq(Results)]
    BY <1>1 DEF Init
  <2>2. /\ accepted \in Seq(Results) /\ taken \in 0..Len(accepted)
        /\ delivered \in Seq(Nat \ {0}) /\ Len(output) = Len(delivered)
        /\ committed \in 0..Len(delivered)
    BY <1>1 DEF Init
  <2> QED
    BY <2>1, <2>2 DEF Init, TypeOK, MainStates
<1>3. InOrder /\ Accounted
  BY DEF Init, InOrder, Accounted, DeliveredSet, InHand
<1>4. CountInv /\ OutputInv
  BY <1>1, FS_EmptySet DEF Init, CountInv, OutputInv
<1> QED
  BY <1>2, <1>3, <1>4 DEF IInv, Delivery

(***************************************************************************)
(* The life of the sink, and the goroutines that call Write, touch none of *)
(* what the worker has done.                                               *)
(***************************************************************************)
LEMMA MainStep == ASSUME IInv, Main PROVE IInv'
<1>1. UNCHANGED <<kind, resultVars>>
  BY DEF Main, StartManager, InitFails, Shutdown, ManagerReturns, CallCancel, Sync,
         StopReturns, Exit
<1>2. UNCHANGED <<kind, todo, accepted, taken, worker, delivered, output, dropped>>
  BY <1>1 DEF resultVars, workerVars
<1>3. Len(delivered) \in Nat
  BY DEF IInv, Delivery, TypeOK
<1>4. TypeOK
  BY DEF IInv, Delivery
<1>5. /\ main' \in MainStates /\ ctxDone' \in BOOLEAN /\ cancelWorker' \in BOOLEAN
      /\ stop' \in {"no", "cancelled", "synced", "failed", "done", "error"}
  BY <1>4 DEF TypeOK, MainStates, Main, StartManager, InitFails, Shutdown,
              ManagerReturns, CallCancel, Sync, StopReturns, Exit
<1>6. committed' \in {committed, Len(delivered)}
  BY DEF Main, StartManager, InitFails, Shutdown, ManagerReturns, CallCancel, Sync,
         StopReturns, Exit
<1>7. TypeOK'
  BY <1>2, <1>3, <1>4, <1>5, <1>6 DEF TypeOK
<1> QED
  BY <1>2, <1>7 DEF IInv, Delivery, InOrder, Accounted, DeliveredSet, InHand, CountInv,
      OutputInv, Discards

\* A call of Write begins.
LEMMA BeginWriteStep == ASSUME IInv, NEW w \in Writers, BeginWrite(w) PROVE IInv'
<1>1. UNCHANGED <<kind, main, ctxDone, cancelWorker, stop, committed, accepted, taken,
                  worker, delivered, output, dropped>>
  BY DEF BeginWrite, lifeVars, workerVars
<1>2. todo' \in [Writers -> Seq(Results)]
  <2>1. PICK results \in UNION {[1..n -> Results] : n \in 1..MaxLen} :
           todo' = [todo EXCEPT ![w] = results]
    BY DEF BeginWrite
  <2>2. results \in Seq(Results)
    OBVIOUS
  <2> QED
    BY <2>1, <2>2 DEF IInv, Delivery, TypeOK
<1> QED
  BY <1>1, <1>2
  DEF IInv, Delivery, TypeOK, InOrder, Accounted, DeliveredSet, InHand, CountInv,
      OutputInv, Discards

(***************************************************************************)
(* Write sends a result: those sent before stay as they are.               *)
(***************************************************************************)
LEMMA SendFacts ==
    ASSUME IInv, NEW w \in Writers, Send(w)
    PROVE  /\ accepted' \in Seq(Results) /\ todo' \in [Writers -> Seq(Results)]
           /\ Len(accepted) \in Nat /\ Len(accepted') = Len(accepted) + 1
           /\ \A i \in 1..taken : accepted'[i] = accepted[i]
           /\ taken \in 0..Len(accepted)
           /\ UNCHANGED <<kind, main, ctxDone, cancelWorker, stop, committed, taken, worker,
                          delivered, output, dropped>>
<1>1. /\ todo \in [Writers -> Seq(Results)] /\ accepted \in Seq(Results)
      /\ taken \in 0..Len(accepted) /\ todo[w] # << >>
      /\ accepted' = Append(accepted, Head(todo[w]))
      /\ todo' = [todo EXCEPT ![w] = Tail(todo[w])]
  BY DEF IInv, Delivery, TypeOK, Send
<1>2. Head(todo[w]) \in Results /\ Tail(todo[w]) \in Seq(Results)
  BY <1>1, HeadTailProperties
<1>3. /\ accepted' \in Seq(Results) /\ Len(accepted) \in Nat
      /\ Len(accepted') = Len(accepted) + 1
      /\ \A i \in 1..Len(accepted) : accepted'[i] = accepted[i]
  BY <1>1, <1>2, AppendProperties, LenProperties
<1>4. todo' \in [Writers -> Seq(Results)]
  BY <1>1, <1>2
<1> QED
  BY <1>1, <1>3, <1>4 DEF Send, lifeVars, workerVars

\* Send: the channel takes a result, and what it had stays as it is.
LEMMA SendStep == ASSUME IInv, NEW w \in Writers, Send(w) PROVE IInv'
<1>1. /\ accepted' \in Seq(Results) /\ todo' \in [Writers -> Seq(Results)]
      /\ Len(accepted) \in Nat /\ Len(accepted') = Len(accepted) + 1
      /\ \A i \in 1..taken : accepted'[i] = accepted[i]
      /\ taken \in 0..Len(accepted)
      /\ UNCHANGED <<kind, main, ctxDone, cancelWorker, stop, committed, taken, worker,
                     delivered, output, dropped>>
  BY SendFacts
<1>2. TypeOK'
  BY <1>1 DEF IInv, Delivery, TypeOK
<1>3. InOrder' /\ CountInv' /\ OutputInv'
  BY <1>1 DEF IInv, Delivery, InOrder, CountInv, OutputInv
<1>4. Accounted'
  <2>1. \A i \in dropped : i \in 1..taken
    BY DEF IInv, Delivery, Accounted
  <2> QED
    BY <1>1, <2>1 DEF IInv, Delivery, Accounted, DeliveredSet, InHand, Discards
<1> QED
  BY <1>2, <1>3, <1>4 DEF IInv, Delivery

-----------------------------------------------------------------------------
\* The worker starts, and ends.
LEMMA StartStopStep == ASSUME IInv, Start \/ WorkerStops PROVE IInv'
<1>1. /\ worker # "write" /\ worker' # "write"
      /\ UNCHANGED <<kind, main, ctxDone, stop, committed, todo, accepted, taken, delivered,
                     output, dropped>>
      /\ cancelWorker' \in {cancelWorker, TRUE}
      /\ worker' \in {"select", "stopped"}
  BY DEF Start, WorkerStops, lifeVars
<1>2. TypeOK'
  BY <1>1 DEF IInv, Delivery, TypeOK
<1>3. InOrder' /\ Accounted' /\ CountInv' /\ OutputInv'
  BY <1>1 DEF IInv, Delivery, InOrder, Accounted, DeliveredSet, InHand, CountInv,
      OutputInv, Discards
<1> QED
  BY <1>2, <1>3 DEF IInv, Delivery

\* The worker receives a result: it has it in its hands.
LEMMA ReceiveStep == ASSUME IInv, Receive PROVE IInv'
<1>1. /\ worker = "select" /\ worker' = "write" /\ taken' = taken + 1
      /\ taken \in Nat /\ taken' \in 0..Len(accepted)
      /\ UNCHANGED <<kind, main, ctxDone, cancelWorker, stop, committed, todo, accepted,
                     delivered, output, dropped>>
  BY DEF IInv, Delivery, TypeOK, Receive, lifeVars
<1>2. TypeOK'
  BY <1>1 DEF IInv, Delivery, TypeOK
<1>3. Accounted'
  <2>1. /\ DeliveredSet \cup dropped = 1..taken /\ DeliveredSet \cap dropped = {}
        /\ DeliveredSet' = DeliveredSet
    BY <1>1 DEF IInv, Delivery, Accounted, InHand, DeliveredSet
  <2>2. InHand' = {taken + 1} /\ 1..(taken + 1) = (1..taken) \cup {taken + 1}
    BY <1>1 DEF InHand
  <2>3. taken + 1 \notin 1..taken
    BY <1>1
  <2>4. (kind = "flux_notification" => \A i \in dropped : Discards(accepted[i]))'
    BY <1>1 DEF IInv, Delivery, Accounted, Discards
  <2> QED
    BY <1>1, <2>1, <2>2, <2>3, <2>4 DEF Accounted
<1>4. InOrder' /\ CountInv' /\ OutputInv'
  <2>1. Len(delivered) \in Nat /\ Cardinality(dropped) \in Nat
    BY FS_CardinalityType DEF IInv, Delivery, TypeOK, CountInv
  <2> QED
    BY <1>1, <2>1 DEF IInv, Delivery, InOrder, CountInv, OutputInv
<1> QED
  BY <1>2, <1>3, <1>4 DEF IInv, Delivery

(***************************************************************************)
(* The result in the worker's hands comes after all that it is through     *)
(* with.                                                                   *)
(***************************************************************************)
LEMMA InHandLast ==
    ASSUME IInv, worker = "write"
    PROVE  /\ taken \in Nat \ {0} /\ taken \in 1..Len(accepted)
           /\ DeliveredSet \cup dropped \cup {taken} = 1..taken
           /\ \A j \in DOMAIN delivered : delivered[j] < taken /\ delivered[j] \in Nat
           /\ taken \notin DeliveredSet \cup dropped
<1>1. /\ DeliveredSet \cup dropped \cup {taken} = 1..taken
      /\ taken \notin DeliveredSet \cup dropped
      /\ taken \in 0..Len(accepted) /\ Len(accepted) \in Nat
  BY DEF IInv, Delivery, TypeOK, Accounted, InHand
<1>2. \A j \in DOMAIN delivered : delivered[j] \in DeliveredSet
  BY DEF DeliveredSet
<1>3. taken \in 1..taken
  BY <1>1
<1> QED
  BY <1>1, <1>2, <1>3

\* A list with one more member.
LEMMA OutputAppend ==
    ASSUME NEW list, list \in Seq(Range(list)), NEW out
    PROVE  /\ Append(list, out) \in Seq(Range(Append(list, out)))
           /\ Len(list) \in Nat /\ Len(Append(list, out)) = Len(list) + 1
           /\ \A j \in 1..Len(list) : Append(list, out)[j] = list[j]
           /\ Append(list, out)[Len(list) + 1] = out
<1> DEFINE S == Range(list) \cup {out}
           longer == Append(list, out)
<1>1. list \in Seq(S) /\ out \in S /\ Len(list) \in Nat
  <2>1. list \in [1..Len(list) -> Range(list)] /\ Len(list) \in Nat
    BY LenProperties
  <2> QED
    BY <2>1
<1>2. /\ longer \in Seq(S) /\ Len(longer) = Len(list) + 1
      /\ \A j \in 1..Len(list) : longer[j] = list[j]
      /\ longer[Len(list) + 1] = out
  BY <1>1, AppendProperties
<1>3. longer \in Seq(Range(longer))
  <2>1. DOMAIN longer = 1..Len(longer) /\ Len(longer) \in Nat
    BY <1>2, LenProperties
  <2>2. \A j \in 1..Len(longer) : longer[j] \in Range(longer)
    BY <2>1 DEF Range
  <2> QED
    BY <1>2, <2>1, <2>2, SeqDef
<1> QED
  BY <1>1, <1>2, <1>3

\* A result is delivered: it is the last of the list.
LEMMA DeliverStep == ASSUME IInv, Deliver PROVE IInv'
<1>1. /\ worker = "write" /\ worker' = "select"
      /\ delivered' = Append(delivered, taken)
      /\ UNCHANGED <<kind, main, ctxDone, cancelWorker, stop, committed, todo, accepted,
                     taken, dropped>>
      /\ delivered \in Seq(Nat \ {0}) /\ Len(delivered) \in Nat
  BY DEF IInv, Delivery, TypeOK, Deliver, lifeVars
<1>2. PICK out : output' = Append(output, out)
  BY DEF Deliver
<1>3. /\ delivered' \in Seq(Nat \ {0}) /\ Len(delivered') = Len(delivered) + 1
      /\ DOMAIN delivered = 1..Len(delivered)
      /\ DOMAIN delivered' = 1..(Len(delivered) + 1)
      /\ \A j \in 1..Len(delivered) : delivered'[j] = delivered[j]
      /\ delivered'[Len(delivered) + 1] = taken
  BY <1>1, InHandLast, AppendProperties, LenProperties
<1>4. TypeOK' /\ OutputInv'
  <2>1. /\ output' \in Seq(Range(output')) /\ Len(output') = Len(output) + 1
    BY <1>2, OutputAppend DEF IInv, OutputInv
  <2> QED
    BY <1>1, <1>3, <2>1 DEF IInv, Delivery, TypeOK, OutputInv
<1>5. InOrder'
  BY <1>1, <1>3, InHandLast DEF IInv, Delivery, InOrder
<1>6. Accounted'
  <2>1. DeliveredSet' = DeliveredSet \cup {taken}
    BY <1>3 DEF DeliveredSet
  <2> QED
    BY <1>1, <2>1, InHandLast DEF IInv, Delivery, Accounted, InHand, Discards
<1>7. CountInv'
  BY <1>1, <1>3, FS_CardinalityType DEF IInv, CountInv
<1> QED
  BY <1>4, <1>5, <1>6, <1>7 DEF IInv, Delivery

\* A result is dropped, for a reason or because the delivery failed.
LEMMA DropStep == ASSUME IInv, Drop PROVE IInv'
<1>1. /\ worker = "write" /\ worker' = "select"
      /\ dropped' = dropped \cup {taken}
      /\ Discards(accepted[taken]) \/ kind # "flux_notification"
      /\ UNCHANGED <<kind, main, ctxDone, cancelWorker, stop, committed, todo, accepted,
                     taken, delivered, output>>
  BY DEF Drop, lifeVars, AfterFailure, CanFail
<1>2. TypeOK'
  BY <1>1, InHandLast DEF IInv, Delivery, TypeOK
<1>3. InOrder' /\ OutputInv'
  BY <1>1 DEF IInv, Delivery, InOrder, OutputInv
<1>4. Accounted'
  BY <1>1, InHandLast DEF IInv, Delivery, Accounted, InHand, DeliveredSet, Discards
<1>5. CountInv'
  <2>1. IsFiniteSet(dropped') /\ Cardinality(dropped') = Cardinality(dropped) + 1
    BY <1>1, InHandLast, FS_AddElement DEF IInv, CountInv
  <2>2. Len(delivered) \in Nat /\ Cardinality(dropped) \in Nat
    BY FS_CardinalityType DEF IInv, Delivery, TypeOK, CountInv
  <2> QED
    BY <1>1, <2>1, <2>2 DEF IInv, CountInv
<1> QED
  BY <1>2, <1>3, <1>4, <1>5 DEF IInv, Delivery

(***************************************************************************)
(* IInv is inductive.                                                      *)
(***************************************************************************)
LEMMA NextIInv == IInv /\ [Next]_vars => IInv'
<1> SUFFICES ASSUME IInv, [Next]_vars PROVE IInv'
  OBVIOUS
<1>1. CASE UNCHANGED vars
  BY <1>1
  DEF vars, IInv, Delivery, TypeOK, InOrder, Accounted, DeliveredSet, InHand, CountInv,
      OutputInv, Discards
<1>2. CASE \E w \in Writers : Write(w)
  BY <1>2, BeginWriteStep, SendStep DEF Write
<1>3. CASE Worker
  BY <1>3, StartStopStep, ReceiveStep, DeliverStep, DropStep DEF Worker
<1> QED
  BY <1>1, <1>2, <1>3, MainStep DEF Next, Terminated

(***************************************************************************)
(* Every state of a sink satisfies the inductive invariant.                *)
(***************************************************************************)
THEOREM SinkInvariance == Spec => []IInv
  BY InitIInv, NextIInv, PTL DEF Spec

(***************************************************************************)
(* Results are delivered in the order in which Write accepted them, each   *)
(* at most once, and none vanishes between the channel and the delivery;   *)
(* every variable keeps its type.                                          *)
(***************************************************************************)
THEOREM DeliveryCorrect == Spec => []Delivery
<1>1. IInv => Delivery
  BY DEF IInv
<1> QED
  BY <1>1, SinkInvariance, PTL

-----------------------------------------------------------------------------
(***************************************************************************)
(* The steps of a sink are steps of SinkSpec: a delivery or a drop handles *)
(* the one result in the worker's hands, and the worker ends with nothing  *)
(* in its hands.                                                           *)
(***************************************************************************)
LEMMA StepSimulation == IInv /\ [Next]_vars => [Contract!Next]_(Contract!sinkVars)
<1> SUFFICES ASSUME IInv, [Next]_vars PROVE [Contract!Next]_(Contract!sinkVars)
  OBVIOUS
<1> DEFINE handled == Len(delivered) + Cardinality(dropped)
<1>1. /\ Len(accepted) \in Nat /\ taken \in Nat
      /\ Len(delivered) \in Nat /\ Cardinality(dropped) \in Nat
      /\ taken = handled + (IF worker = "write" THEN 1 ELSE 0)
      /\ worker \in {"new", "select", "write", "stopped"}
  BY FS_CardinalityType DEF IInv, Delivery, TypeOK, CountInv
<1>2. ASSUME UNCHANGED <<accepted, taken, worker, delivered, dropped>>
      PROVE  UNCHANGED Contract!sinkVars
  BY <1>2 DEF Contract!sinkVars
<1>3. CASE Main \/ UNCHANGED vars
  <2>1. UNCHANGED <<accepted, taken, worker, delivered, dropped>>
    BY <1>3 DEF vars, Main, StartManager, InitFails, Shutdown, ManagerReturns, CallCancel, Sync,
                StopReturns, Exit, resultVars, workerVars
  <2> QED
    BY <1>2, <2>1
<1>4. ASSUME NEW w \in Writers, BeginWrite(w) PROVE UNCHANGED Contract!sinkVars
  <2>1. UNCHANGED <<accepted, taken, worker, delivered, dropped>>
    BY <1>4 DEF BeginWrite, workerVars
  <2> QED
    BY <1>2, <2>1
<1>5. ASSUME NEW w \in Writers, Send(w) PROVE Contract!Accept
  <2>1. Len(accepted') = Len(accepted) + 1 /\ UNCHANGED <<taken, worker, delivered, dropped>>
    BY <1>5, SendFacts
  <2> QED
    BY <1>5, <2>1 DEF Send, Contract!Accept
<1>6. ASSUME Start PROVE Contract!Start
  BY <1>6 DEF Start, Contract!Start
<1>7. ASSUME Receive PROVE Contract!Take
  BY <1>7 DEF Receive, Contract!Take
<1>8. CASE Deliver \/ Drop
  <2>1. worker = "write" /\ worker' = "select" /\ UNCHANGED <<accepted, taken>>
    BY <1>8 DEF Deliver, Drop, AfterFailure
  <2>2. taken = handled'
    <3>1. IInv'
      BY <1>8, DeliverStep, DropStep
    <3>2. Len(delivered') \in Nat /\ Cardinality(dropped') \in Nat
      BY <3>1, FS_CardinalityType DEF IInv, Delivery, TypeOK, CountInv
    <3> QED
      BY <2>1, <3>1, <3>2 DEF IInv, CountInv
  <2>3. handled' \in (handled + 1)..taken
    BY <1>1, <2>1, <2>2
  <2> HIDE DEF handled
  <2>4. Contract!Handle
    BY <2>1, <2>3 DEF Contract!Handle, handled
  <2> QED
    BY <2>4 DEF Contract!Next
<1>9. ASSUME WorkerStops PROVE Contract!End
  BY <1>1, <1>9 DEF WorkerStops, Contract!End
<1> QED
  BY <1>3, <1>4, <1>5, <1>6, <1>7, <1>8, <1>9
  DEF Next, Write, Worker, Terminated, Contract!Next

(***************************************************************************)
(* The sinks keep to the contract of sinks.                                *)
(***************************************************************************)
THEOREM ChannelImplementsSink == Spec => ImplementsSink
<1>1. Init => Contract!Init
  BY FS_EmptySet DEF Init, Contract!Init
<1> QED
  BY <1>1, StepSimulation, SinkInvariance, PTL DEF Spec, ImplementsSink, Contract!Spec

-----------------------------------------------------------------------------
(***************************************************************************)
(* The codec.                                                              *)
(***************************************************************************)

\* The order of the natural numbers, as a relation.
Less == {pair \in Nat \X Nat : pair[1] < pair[2]}

\* There is no infinite descent.
LEMMA LessWellFounded == IsWellFoundedOn(Less, Nat)
  BY NatLessThanWellFounded, Zenon DEF Less, OpToRel

\* A smaller number is before a larger one.
LEMMA LessMember == \A x, y \in Nat : x < y => <<x, y>> \in Less
  BY DEF Less

\* What a list with one member adds to the end of another.
LEMMA ConcatOne ==
    ASSUME NEW S, NEW s \in Seq(S), NEW t \in Seq(S), Len(t) = 1
    PROVE  /\ s \o t \in Seq(S) /\ Len(s \o t) = Len(s) + 1
           /\ \A j \in 1..Len(s) : (s \o t)[j] = s[j]
           /\ (s \o t)[Len(s) + 1] = t[1]
<1>1. s \o t \in Seq(S) /\ Len(s \o t) = Len(s) + Len(t)
  BY ConcatProperties
<1>2. \A i \in 1..Len(s) + Len(t) :
         (s \o t)[i] = IF i <= Len(s) THEN s[i] ELSE t[i - Len(s)]
  BY ConcatProperties
<1>3. PICK k \in Nat : k = Len(s)
  OBVIOUS
<1>4. \A j \in 1..Len(s) : (s \o t)[j] = s[j]
  BY <1>2, <1>3
<1>5. (s \o t)[k + 1] = t[1]
  <2>1. k + 1 \in 1..(k + 1) /\ ~(k + 1 <= k) /\ (k + 1) - k = 1
    OBVIOUS
  <2> QED
    BY <1>2, <1>3, <2>1
<1> QED
  BY <1>1, <1>3, <1>4, <1>5

(***************************************************************************)
(* To flatten a list of lists with one member each is to take the members. *)
(***************************************************************************)
LEMMA FlattenPlain ==
    ASSUME NEW tags, NEW S, tags \in Seq(Seq(S)), NEW n \in Nat \ {0}, Len(tags) = n,
           \A i \in 1..n : Len(tags[i]) = 1
    PROVE  FlattenSeq(tags) = [i \in 1..n |-> tags[i][1]]
<1> DEFINE Def(f) == [i \in 1..n |-> IF i = 1 THEN tags[i] ELSE f[i - 1] \o tags[i]]
           prefix(i) == [j \in 1..i |-> tags[j][1]]
           all == [i \in 1..n |-> prefix(i)]
<1>1. \A i \in 1..n : tags[i] \in Seq(S) /\ Len(tags[i]) = 1 /\ tags[i][1] \in S
  OBVIOUS
<1>2. \A i \in 1..n : prefix(i) \in Seq(S) /\ Len(prefix(i)) = i
  BY <1>1
<1>3. prefix(1) = tags[1]
  BY <1>1, <1>2, SeqEqual
<1>4. ASSUME NEW i \in 1..n, i # 1 PROVE prefix(i) = prefix(i - 1) \o tags[i]
  <2>1. /\ prefix(i - 1) \in Seq(S) /\ Len(prefix(i - 1)) = i - 1
        /\ prefix(i) \in Seq(S) /\ Len(prefix(i)) = i
    <3> HIDE DEF prefix
    <3>1. i - 1 \in 1..n
      BY <1>4
    <3> QED
      BY <1>2, <3>1
  <2>2. /\ prefix(i - 1) \o tags[i] \in Seq(S) /\ Len(prefix(i - 1) \o tags[i]) = i
        /\ \A j \in 1..(i - 1) : (prefix(i - 1) \o tags[i])[j] = prefix(i - 1)[j]
        /\ (prefix(i - 1) \o tags[i])[i] = tags[i][1]
    <3> DEFINE p == prefix(i - 1)
               t == tags[i]
    <3>1. /\ p \in Seq(S) /\ Len(p) = i - 1 /\ Len(p) + 1 = i
          /\ t \in Seq(S) /\ Len(t) = 1
      BY <1>1, <2>1
    <3> HIDE DEF p, t
    <3>2. p \o t \in Seq(S) /\ Len(p \o t) = i
      BY <3>1, ConcatOne
    <3>3. \A j \in 1..Len(p) : (p \o t)[j] = p[j]
      BY <3>1, ConcatOne
    <3>4. (p \o t)[Len(p) + 1] = t[1]
      BY <3>1, ConcatOne
    <3> QED
      BY <3>1, <3>2, <3>3, <3>4 DEF p, t
  <2>3. ASSUME NEW j \in 1..i PROVE (prefix(i - 1) \o tags[i])[j] = prefix(i)[j]
    <3>1. CASE j = i
      BY <2>2, <3>1
    <3>2. CASE j # i
      BY <2>2, <3>2
    <3> QED
      BY <3>1, <3>2
  <2> HIDE DEF prefix
  <2> QED
    BY <2>1, <2>2, <2>3, SeqEqual
<1> DEFINE flat == CHOOSE f : f = Def(f)
<1>5. FlattenSeq(tags) = flat[n]
  BY DEF FlattenSeq
<1>6. all = Def(all)
  <2> HIDE DEF prefix
  <2> QED
    BY <1>3, <1>4
<1>7. flat = Def(flat)
  <2> HIDE DEF all, Def
  <2> QED
    BY <1>6
<1>8. \A i \in 1..n : flat[i] = prefix(i)
  <2> DEFINE Bad == {i \in 1..n : flat[i] # prefix(i)}
  <2> SUFFICES ASSUME Bad # {} PROVE FALSE
    OBVIOUS
  <2>1. Bad \subseteq Nat
    OBVIOUS
  <2>2. PICK i \in Bad : \A k \in Bad : ~(<<k, i>> \in Less)
    <3> HIDE DEF Bad
    <3> QED
      BY <2>1, LessWellFounded, WFMin
  <2> HIDE DEF flat, prefix
  <2>3. flat[i] = IF i = 1 THEN tags[i] ELSE flat[i - 1] \o tags[i]
    BY <1>7
  <2>4. i # 1
    BY <1>3, <2>3
  <2>5. i - 1 \in 1..n /\ i - 1 \notin Bad
    <3>1. i - 1 \in 1..n /\ <<i - 1, i>> \in Less
      BY <2>4, LessMember
    <3> HIDE DEF Bad
    <3> QED
      BY <2>2, <3>1
  <2> QED
    BY <1>4, <2>3, <2>4, <2>5
<1>9. flat[n] = prefix(n)
  <2> HIDE DEF flat, prefix
  <2> QED
    BY <1>8
<1> QED
  BY <1>5, <1>9

(***************************************************************************)
(* strings.Split undoes strings.Join, of tags without commas.              *)
(***************************************************************************)
LEMMA TagsSurvive ==
    ASSUME NEW result \in Results, PlainTags(result.policy.tags)
    PROVE  SplitTags(JoinTags(result.policy.tags)) = result.policy.tags
<1> DEFINE tags == result.policy.tags
           n == Len(tags)
           S == {tags[i][1] : i \in 1..n}
<1>1. /\ tags \in Seq(Range(tags)) /\ \A tag \in Range(tags) : tag \in Seq(Range(tag))
  BY ResultAssumption
<1> HIDE DEF tags
<1>2. tags # << >> /\ \A i \in DOMAIN tags : Len(tags[i]) = 1
  BY DEF PlainTags, tags
<1>3. n \in Nat \ {0} /\ DOMAIN tags = 1..n /\ tags \in [1..n -> Range(tags)]
  BY <1>1, <1>2, EmptySeq, LenProperties
<1>4. ASSUME NEW i \in 1..n PROVE tags[i] = <<tags[i][1]>> /\ tags[i] \in Seq(S)
  <2>1. tags[i] \in Seq(Range(tags[i])) /\ Len(tags[i]) = 1
    BY <1>1, <1>2, <1>3
  <2> HIDE DEF S
  <2>2. tags[i] = <<tags[i][1]>>
    BY <2>1
  <2>3. tags[i][1] \in S
    BY DEF S
  <2>4. \A x \in S : <<x>> \in Seq(S)
    OBVIOUS
  <2> QED
    BY <2>2, <2>3, <2>4
<1>5. tags \in Seq(Seq(S))
  <2> HIDE DEF S, n
  <2> QED
    BY <1>3, <1>4
<1>6. FlattenSeq(tags) = [i \in 1..n |-> tags[i][1]]
  <2> HIDE DEF S, n
  <2>1. \A i \in 1..n : Len(tags[i]) = 1
    BY <1>2, <1>3
  <2>2. Len(tags) = n
    BY DEF n
  <2> QED
    BY <1>3, <1>5, <2>1, <2>2, FlattenPlain
<1>7. SplitTags(JoinTags(tags)) = [i \in 1..n |-> <<tags[i][1]>>]
  BY <1>2, <1>6 DEF JoinTags, SplitTags
<1>8. tags = [i \in 1..n |-> <<tags[i][1]>>]
  <2> HIDE DEF S, n
  <2> QED
    BY <1>3, <1>4
<1> QED
  BY <1>7, <1>8 DEF tags

(***************************************************************************)
(* What an event says of a result in its annotations is read back.         *)
(***************************************************************************)
LEMMA AnnotationsSurvive ==
    ASSUME NEW result \in Results
    PROVE  AnnotationsTell(NewK8sEventFromPolicyValidation(result).annotations, result)
<1> DEFINE annotations == NewK8sEventFromPolicyValidation(result).annotations
           read == FromAnnotations(annotations)
<1>1. /\ annotations.text = result.text
      /\ annotations.policy_id = result.policy.id
      /\ annotations.standards = Marshal(result.policy.standards)
      /\ annotations.entity_manifest = Marshal(result.entity.manifest)
      /\ annotations.occurrences = MarshalOccurrences(result.occurrences)
      /\ annotations.tags = JoinTags(result.policy.tags)
      /\ annotations.enforce = Sprint(result.policy.enforce)
  BY DEF NewK8sEventFromPolicyValidation
<1> HIDE DEF annotations
<1>2. read.text = result.text /\ read.policy_id = result.policy.id
  BY <1>1 DEF FromAnnotations
<1>3. read.manifest = result.entity.manifest /\ read.standards = result.policy.standards
  BY <1>1 DEF FromAnnotations, Marshal, Unmarshal
<1>4. read.enforced = result.enforced
  <2>1. read.enforced = ParseEnforced(Sprint(result.policy.enforce))
    BY <1>1 DEF FromAnnotations
  <2>2. result.enforced = result.policy.enforce /\ result.enforced \in BOOLEAN
    BY SinkAssumption, ResultAssumption
  <2>3. CASE result.enforced = TRUE
    BY <2>1, <2>2, <2>3 DEF ParseEnforced, Sprint
  <2>4. CASE result.enforced = FALSE
    BY <2>1, <2>2, <2>4 DEF ParseEnforced, Sprint
  <2> QED
    BY <2>2, <2>3, <2>4
<1>5. /\ Len(read.occurrences) = Len(result.occurrences)
      /\ \A i \in DOMAIN read.occurrences :
            read.occurrences[i].message = result.occurrences[i].message
  <2>1. read.occurrences = [i \in DOMAIN result.occurrences |->
                               [message |-> result.occurrences[i].message, mutated |-> FALSE]]
    <3> DEFINE plain == [i \in DOMAIN result.occurrences |->
                            [message |-> result.occurrences[i].message]]
    <3>1. Unmarshal(annotations.occurrences) = plain
      BY <1>1 DEF MarshalOccurrences, Marshal, Unmarshal
    <3>2. read.occurrences = [i \in DOMAIN Unmarshal(annotations.occurrences) |->
             [message |-> Unmarshal(annotations.occurrences)[i].message, mutated |-> FALSE]]
      BY DEF FromAnnotations, UnmarshalOccurrences
    <3> HIDE DEF read
    <3>3. read.occurrences = [i \in DOMAIN plain |->
                                 [message |-> plain[i].message, mutated |-> FALSE]]
      BY <3>1, <3>2
    <3> QED
      BY <3>3
  <2>2. /\ Len(result.occurrences) \in Nat
        /\ DOMAIN result.occurrences = 1..Len(result.occurrences)
    BY ResultAssumption, LenProperties
  <2> HIDE DEF read
  <2> QED
    BY <2>1, <2>2
<1>6. PlainTags(result.policy.tags) => read.tags = result.policy.tags
  BY <1>1, TagsSurvive DEF FromAnnotations
<1> HIDE DEF read
<1> QED
  BY <1>2, <1>3, <1>4, <1>5, <1>6 DEF AnnotationsTell, annotations, read

-----------------------------------------------------------------------------
\* A line of the file tells the result.
LEMMA FileTells ==
    ASSUME NEW result \in Results, kind = "filesystem",
           NEW out \in writeValidationResutl(result)
    PROVE  Tells(out, result)
<1>1. Unmarshal(out).id = result.id /\ Unmarshal(out).status = result.status
  BY DEF writeValidationResutl, EncodeResult, Marshal, Unmarshal
<1> QED
  BY <1>1 DEF Tells

\* The reason of an event, and its namespace, of which an event has one.
LEMMA EventFields ==
    ASSUME NEW result \in Results
    PROVE  LET event == NewK8sEventFromPolicyValidation(result) IN
           /\ StatusOf(event.reason) = result.status
           /\ event.namespace # ""
           /\ event.labels.id = result.id /\ event.labels.type = result.type
           /\ event.labels.trigger = result.trigger
           /\ event.message = result.message
           /\ event.involvedObject = result.entity.ref
<1>1. result.status \in {PolicyValidationStatusViolating, PolicyValidationStatusCompliant}
  BY ResultAssumption
<1>2. StatusOf(NewK8sEventFromPolicyValidation(result).reason) = result.status
  BY <1>1 DEF NewK8sEventFromPolicyValidation, StatusOf, PolicyValidationStatusViolating,
              PolicyValidationStatusCompliant, EventReasonPolicyViolation,
              EventReasonPolicyCompliance
<1> QED
  BY <1>2 DEF NewK8sEventFromPolicyValidation, NamespaceDefault

\* An event tells the result it was made for, and is about it or its owner.
LEMMA EventTells ==
    ASSUME NEW result \in Results, kind = "k8s_event", NEW out \in K8sEvents(result)
    PROVE  Tells(out, result)
<1> DEFINE event == NewK8sEventFromPolicyValidation(result)
           owners == FluxObjects(result.entity.labels)
           about == IF owners = {} THEN {result.entity.ref} ELSE owners
<1>1. /\ out.reason = event.reason /\ out.labels = event.labels
      /\ out.annotations = event.annotations /\ out.message = event.message
      /\ out.involvedObject \in about /\ out.namespace # ""
  <2>1. CASE owners = {}
    <3>1. out = event
      BY <2>1 DEF K8sEvents
    <3> QED
      BY <2>1, <3>1, EventFields
  <2>2. CASE owners # {}
    <3>1. PICK o \in owners : out = [event EXCEPT !.involvedObject = o, !.namespace = o.namespace]
      BY <2>2 DEF K8sEvents
    <3>2. o.namespace # ""
      BY ResultAssumption
    <3> HIDE DEF owners
    <3>3. /\ out.reason = event.reason /\ out.labels = event.labels
          /\ out.annotations = event.annotations /\ out.message = event.message
          /\ out.involvedObject = o /\ out.namespace = o.namespace
      BY <3>1 DEF NewK8sEventFromPolicyValidation
    <3> QED
      BY <2>2, <3>2, <3>3
  <2> QED
    BY <2>1, <2>2
<1>2. /\ StatusOf(event.reason) = result.status
      /\ event.labels.id = result.id /\ event.labels.type = result.type
      /\ event.labels.trigger = result.trigger /\ event.message = result.message
  BY EventFields
<1>3. AnnotationsTell(out.annotations, result)
  BY <1>1, AnnotationsSurvive
<1> DEFINE v == NewPolicyValidationFRomK8sEvent(out)
<1>4. /\ v.id = out.labels.id /\ v.status = StatusOf(out.reason)
      /\ v.type = out.labels.type /\ v.trigger = out.labels.trigger
      /\ v.message = out.message /\ v.entity.ref = out.involvedObject
  BY DEF NewPolicyValidationFRomK8sEvent
<1> HIDE DEF event, v
<1> QED
  BY <1>1, <1>2, <1>3, <1>4 DEF Tells, v

\* A notification tells the result it was made for, and is about its owner.
LEMMA FluxTells ==
    ASSUME NEW result \in Results, kind = "flux_notification", NEW out \in FluxEvents(result)
    PROVE  Tells(out, result)
<1> DEFINE event == NewK8sEventFromPolicyValidation(result)
<1>1. PICK o \in FluxObjects(result.entity.labels) :
         out = [object |-> o, annotations |-> event.annotations, type |-> event.type,
                reason |-> event.reason, message |-> event.message]
  BY DEF FluxEvents
<1> HIDE DEF event
<1>2. out.object = o /\ out.annotations = event.annotations /\ out.reason = event.reason
  BY <1>1
<1>3. StatusOf(out.reason) = result.status
  BY <1>2, EventFields DEF event
<1>4. AnnotationsTell(out.annotations, result)
  BY <1>2, AnnotationsSurvive DEF event
<1> QED
  BY <1>2, <1>3, <1>4 DEF Tells

(***************************************************************************)
(* A step that leaves the outputs alone leaves them true.                  *)
(***************************************************************************)
LEMMA OutputsStay ==
    ASSUME IInv, OutputTellsResult, UNCHANGED <<kind, delivered, output>>,
           \A i \in 1..taken : accepted'[i] = accepted[i]
    PROVE  OutputTellsResult'
<1>1. ASSUME NEW j \in DOMAIN output PROVE delivered[j] \in 1..taken
  <2>1. DOMAIN output = DOMAIN delivered
    BY LenProperties DEF IInv, Delivery, TypeOK, OutputInv
  <2> QED
    BY <1>1, <2>1 DEF IInv, Delivery, Accounted, DeliveredSet
<1>2. ASSUME NEW j \in DOMAIN output'
      PROVE  Tells(output'[j], accepted'[delivered'[j]])
  <2>1. j \in DOMAIN output /\ output'[j] = output[j]
        /\ accepted'[delivered'[j]] = accepted[delivered[j]]
    BY <1>1
  <2> QED
    BY <2>1 DEF OutputTellsResult
<1>3. \A out, result : Tells(out, result)' <=> Tells(out, result)
  BY DEF Tells
<1> QED
  BY <1>2, <1>3 DEF OutputTellsResult

\* A delivery adds an output, which tells its result.
LEMMA OutputsGrow == ASSUME IInv, OutputTellsResult, Deliver PROVE OutputTellsResult'
<1>1. /\ delivered' = Append(delivered, taken) /\ UNCHANGED <<kind, accepted>>
      /\ worker = "write"
  BY DEF Deliver, lifeVars
<1>2. PICK out \in Outputs(accepted[taken]) : output' = Append(output, out)
  BY DEF Deliver
<1>3. /\ Len(output) \in Nat /\ DOMAIN output = 1..Len(output)
      /\ DOMAIN output' = 1..(Len(output) + 1)
      /\ \A j \in 1..Len(output) : output'[j] = output[j]
      /\ output'[Len(output) + 1] = out
  BY <1>2, OutputAppend, LenProperties DEF IInv, OutputInv
<1>4. /\ \A j \in 1..Len(output) : delivered'[j] = delivered[j]
      /\ delivered'[Len(output) + 1] = taken
  BY <1>1, InHandLast, AppendProperties DEF IInv, Delivery, TypeOK
<1>5. accepted[taken] \in Results
  <2>1. taken \in 1..Len(accepted)
    BY <1>1, InHandLast
  <2> QED
    BY <2>1 DEF IInv, Delivery, TypeOK
<1>6. Tells(out, accepted[taken])
  BY <1>2, <1>5, FileTells, EventTells, FluxTells, SinkAssumption
  DEF Outputs, IInv, Delivery, TypeOK
<1>7. ASSUME NEW j \in DOMAIN output' PROVE Tells(output'[j], accepted[delivered'[j]])
  <2>1. CASE j = Len(output) + 1
    BY <1>3, <1>4, <1>6, <2>1
  <2>2. CASE j # Len(output) + 1
    BY <1>3, <1>4, <2>2 DEF OutputTellsResult
  <2> QED
    BY <2>1, <2>2
<1> QED
  BY <1>1, <1>7 DEF OutputTellsResult, Tells

(***************************************************************************)
(* Whoever reads the file, the events or the notifications learns the      *)
(* truth about the result each was made for.                               *)
(***************************************************************************)
THEOREM OutputsTellTheResults == Spec => []OutputTellsResult
<1>1. Init => OutputTellsResult
  BY DEF Init, OutputTellsResult
<1>2. ASSUME IInv, OutputTellsResult, [Next]_vars PROVE OutputTellsResult'
  <2>1. CASE Deliver
    BY <1>2, <2>1, OutputsGrow
  <2>2. ASSUME NEW w \in Writers, Send(w) PROVE OutputTellsResult'
    BY <1>2, <2>2, SendFacts, OutputsStay
  <2>3. ASSUME UNCHANGED <<kind, accepted, delivered, output>> PROVE OutputTellsResult'
    BY <1>2, <2>3, OutputsStay
  <2>4. \/ Deliver
        \/ \E w \in Writers : Send(w)
        \/ UNCHANGED <<kind, accepted, delivered, output>>
    BY <1>2 DEF Next, vars, Main, StartManager, InitFails, Shutdown, ManagerReturns, CallCancel,
                Sync, StopReturns, Exit, Write, BeginWrite, Worker, Start, Receive, Drop,
                WorkerStops, Terminated, lifeVars, resultVars, workerVars
  <2> QED
    BY <2>1, <2>2, <2>3, <2>4
<1> QED
  BY <1>1, <1>2, SinkInvariance, PTL DEF Spec
=============================================================================
