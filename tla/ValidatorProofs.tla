--------------------------- MODULE ValidatorProofs ---------------------------
(***************************************************************************)
(* Proofs, for any policies, any number of workers and any number of       *)
(* sinks, of the safety properties of Validator, of the outcome of its     *)
(* mutation loop, and that it implements ValidatorSpec.                    *)
(***************************************************************************)
EXTENDS Validator, FiniteSetTheorems, SequenceTheorems, WellFoundedInduction, TLAPS

\* The worker has decided, and sent its result if it has one.
Past(i) == worker[i] \in {"release", "finish", "done"}

\* The worker is counted by enqueueGroup.
Active == {i \in DOMAIN worker : worker[i] \in {"eval", "release", "finish"}}

Before == {"getAll", "getConfig"}

After == {"check", "mutate", "write", "ok"}

(***************************************************************************)
(* How the caller's place relates to what the goroutines are doing.        *)
(***************************************************************************)
CallerInv ==
    /\ pc = "getAll" => policies = << >>
    /\ pc \in Before => /\ next = 1
                        /\ \A i \in DOMAIN worker : worker[i] = "idle"
    /\ pc = "spawn" => /\ next <= Len(policies) + 1
                       /\ \A i \in DOMAIN worker : worker[i] = "idle" <=> i >= next
    /\ pc \in {"collect", "wait", "drain"} \cup After =>
          \A i \in DOMAIN worker : worker[i] # "idle"
    /\ pc \in {"drain"} \cup After => closed
    /\ pc \in Before \cup {"spawn", "collect"} => \A k \in Channels : collector[k] = "idle"
    /\ pc \in Before \cup {"spawn", "collect", "wait"} => ~closed
    /\ pc \in After => \A k \in Channels : collector[k] = "done"
    /\ closed => \A i \in DOMAIN worker : worker[i] = "done"

(***************************************************************************)
(* A channel holds the results of its verdict that were sent, each once.   *)
(***************************************************************************)
ChannelInv ==
    /\ ~panicked
    /\ \A k \in Channels : received[k] <= Len(sent[k])
    /\ \A k \in Channels : collector[k] = "done" => closed /\ received[k] = Len(sent[k])
    /\ \A k \in Channels : \A j \in DOMAIN sent[k] :
          Past(sent[k][j]) /\ VerdictOf(sent[k][j]) = k
    /\ \A k \in Channels : \A j, l \in DOMAIN sent[k] : sent[k][j] = sent[k][l] => j = l
    /\ \A i \in DOMAIN worker : Past(i) /\ VerdictOf(i) # "none" =>
          \E j \in DOMAIN sent[VerdictOf(i)] : sent[VerdictOf(i)][j] = i

\* The counters count what they are meant to count.
CountInv ==
    /\ enqueue = Cardinality(Active)
    /\ bound = Cardinality(Running)
    /\ bound <= MaxWorkers

\* What writeToSinks hands to each sink.
Results == Violations \o (IF WriteCompliance THEN Compliances ELSE << >>)

\* The progress of the write loop.
SinkInv ==
    /\ pc = "write" =>
          /\ next <= Sinks + 1
          /\ \A s \in 1..Sinks : written[s] = IF s < next THEN Results ELSE << >>
    /\ pc = "ok" => \A s \in 1..Sinks : written[s] = Results
    /\ pc \notin {"write", "ok"} => \A s \in 1..Sinks : written[s] = << >>

\* No policy failed to evaluate once the caller is past the check.
ErrorInv == pc \in {"mutate", "write", "ok"} => With("error") = {}

IInv == TypeOK /\ CallerInv /\ ChannelInv /\ CountInv /\ SinkInv /\ ErrorInv

-----------------------------------------------------------------------------
(***************************************************************************)
(* A worker sends to one of the three channels, or to none.                *)
(***************************************************************************)
LEMMA VerdictRange ==
    ASSUME NEW p, NEW e, NEW c
    PROVE  Verdict(p, e, c) \in Channels \cup {"none"}
  BY DEF Verdict, Eval, Channels

(***************************************************************************)
(* A collector that took all there was and has nothing was sent nothing.   *)
(***************************************************************************)
LEMMA NothingTaken ==
    ASSUME NEW S, NEW s \in Seq(S), SubSeq(s, 1, Len(s)) = << >>
    PROVE  s = << >>
<1>1. Len(SubSeq(s, 1, Len(s))) = Len(s)
  BY SMT
<1>2. Len(s) = 0
  BY <1>1
<1> QED
  BY <1>2

(***************************************************************************)
(* The initial state satisfies the inductive invariant.                    *)
(***************************************************************************)
LEMMA InitIInv == Init => IInv
<1> SUFFICES ASSUME Init PROVE IInv
  OBVIOUS
<1> USE ValidatorAssumption
<1>1. TypeOK
  <2>1. worker \in [DOMAIN policies -> WorkerStates]
    BY DEF Init
  <2>2. policies \in Seq(Pool) /\ unmutated \in Seq(DOMAIN policies)
    BY DEF Init
  <2>3. sent \in [Channels -> Seq(DOMAIN policies)]
    BY DEF Init
  <2>4. written \in [1..Sinks -> Seq(DOMAIN policies)]
    BY DEF Init
  <2>5. mutate \in BOOLEAN /\ closed \in BOOLEAN /\ labelled \in BOOLEAN /\ panicked \in BOOLEAN
    BY DEF Init
  <2>6. /\ entity \in Entities /\ config \in Configs /\ pc \in CallerStates
        /\ next \in Nat \ {0} /\ bound \in Nat /\ enqueue \in Nat
        /\ received \in [Channels -> Nat]
        /\ collector \in [Channels -> {"idle", "run", "done"}]
    BY DEF Init, CallerStates
  <2> QED
    BY <2>1, <2>2, <2>3, <2>4, <2>5, <2>6 DEF TypeOK
<1>2. CallerInv
  BY DEF Init, CallerInv, Before, After
<1>3. ChannelInv
  BY DEF Init, ChannelInv, Past
<1>4. CountInv
  <2>1. Active = {} /\ Running = {}
    BY DEF Init, Active, Running
  <2> QED
    BY <2>1, FS_EmptySet DEF Init, CountInv
<1>5. SinkInv
  BY DEF Init, SinkInv
<1>6. ErrorInv
  BY DEF Init, ErrorInv
<1> QED
  BY <1>1, <1>2, <1>3, <1>4, <1>5, <1>6 DEF IInv

\* A step that changes no worker changes no count.
LEMMA CountsKept ==
    ASSUME CountInv, UNCHANGED workerVars
    PROVE  CountInv'
  BY DEF CountInv, Active, Running, workerVars

\* The numbers from 1 to n are n numbers.
LEMMA IntervalSize ==
    ASSUME NEW n \in Nat
    PROVE  IsFiniteSet(1..n) /\ Cardinality(1..n) = n
  BY FS_Interval

\* There is one worker per policy.
LEMMA TypeFacts ==
    ASSUME TypeOK
    PROVE  /\ DOMAIN policies = 1..Len(policies) /\ Len(policies) \in Nat
           /\ DOMAIN worker = DOMAIN policies
           /\ \A i \in DOMAIN worker : worker[i] \in WorkerStates
  BY DEF TypeOK

\* The sets that the counters count are finite.
LEMMA WorkersFinite ==
    ASSUME TypeOK
    PROVE  IsFiniteSet(Active) /\ IsFiniteSet(Running) /\ IsFiniteSet(DOMAIN policies)
<1>1. DOMAIN policies = 1..Len(policies) /\ Len(policies) \in Nat
  BY TypeFacts
<1>2. IsFiniteSet(DOMAIN policies)
  BY <1>1, FS_Interval
<1>3. Active \subseteq DOMAIN policies /\ Running \subseteq DOMAIN policies
  BY DEF TypeOK, Active, Running
<1> QED
  BY <1>2, <1>3, FS_Subset

\* Before the first worker starts the channels are empty.
LEMMA NothingSent ==
    ASSUME TypeOK, CallerInv, ChannelInv, pc \in Before
    PROVE  \A k \in Channels : sent[k] = << >>
<1> SUFFICES ASSUME NEW k \in Channels, sent[k] # << >> PROVE FALSE
  OBVIOUS
<1>1. sent[k] \in Seq(DOMAIN policies) /\ 1 \in DOMAIN sent[k]
  BY DEF TypeOK
<1>2. sent[k][1] \in DOMAIN worker
  BY <1>1 DEF TypeOK
<1> QED
  BY <1>1, <1>2 DEF CallerInv, ChannelInv, Past

\* GetAll preserves the inductive invariant.
LEMMA GetAllStep == IInv /\ GetAll => IInv'
<1> SUFFICES ASSUME IInv, GetAll PROVE IInv'
  OBVIOUS
<1> USE ValidatorAssumption DEF IInv, GetAll, inputVars, workerVars, channelVars, resultVars
<1>1. TypeOK'
  <2>1. CASE pc' = "error"
    BY <2>1 DEF TypeOK, CallerStates
  <2>2. CASE pc' = "getConfig"
    <3>1. policies' \in Seq(Pool)
      BY <2>2
    <3>2. worker' \in [DOMAIN policies' -> WorkerStates]
      BY <2>2 DEF WorkerStates
    <3>3. unmutated \in Seq(DOMAIN policies') /\ written \in [1..Sinks -> Seq(DOMAIN policies')]
      BY <2>2, <3>1 DEF TypeOK, CallerInv
    <3>4. sent \in [Channels -> Seq(DOMAIN policies')]
      BY NothingSent, <3>1 DEF TypeOK, Before
    <3> QED
      BY <2>2, <3>1, <3>2, <3>3, <3>4 DEF TypeOK, CallerStates
  <2> QED
    BY <2>1, <2>2
<1>2. CallerInv'
  BY DEF TypeOK, CallerInv, Before, After
<1>3. ChannelInv'
  <2>1. \A k \in Channels : sent[k] = << >>
    BY NothingSent DEF Before
  <2>2. \A i \in DOMAIN worker' : worker'[i] = "idle"
    BY DEF CallerInv, Before
  <2> QED
    BY <2>1, <2>2 DEF TypeOK, ChannelInv, CallerInv, Past
<1>4. CountInv'
  <2>1. Active = {} /\ Running = {}
    BY DEF CallerInv, Before, Active, Running
  <2>2. Active' = {} /\ Running' = {}
    BY DEF CallerInv, Before, Active, Running
  <2> QED
    BY <2>1, <2>2 DEF CountInv
<1>5. SinkInv'
  BY DEF TypeOK, SinkInv, Results, Violations, Compliances, Collected
<1>6. ErrorInv'
  BY DEF ErrorInv, With, VerdictOf
<1> QED
  BY <1>1, <1>2, <1>3, <1>4, <1>5, <1>6

\* GetPolicyConfig preserves the inductive invariant.
LEMMA GetPolicyConfigStep == IInv /\ GetPolicyConfig => IInv'
<1> SUFFICES ASSUME IInv, GetPolicyConfig PROVE IInv'
  OBVIOUS
<1> USE ValidatorAssumption DEF IInv, GetPolicyConfig, inputVars, workerVars, channelVars, resultVars
<1>1. TypeOK'
  BY DEF TypeOK, CallerStates, WorkerStates, Channels
<1>2. CallerInv'
  BY DEF TypeOK, CallerInv, Before, After
<1>3. ChannelInv'
  <2>1. \A k \in Channels : sent[k] = << >>
    BY NothingSent DEF Before
  <2>2. \A i \in DOMAIN worker' : worker'[i] = "idle"
    BY DEF CallerInv, Before
  <2> QED
    BY <2>1, <2>2 DEF TypeOK, ChannelInv, CallerInv, Past
<1>4. CountInv'
  BY CountsKept
<1>5. SinkInv'
  BY DEF TypeOK, SinkInv, Results, Violations, Compliances, Collected
<1>6. ErrorInv'
  BY DEF ErrorInv, With, VerdictOf
<1> QED
  BY <1>1, <1>2, <1>3, <1>4, <1>5, <1>6

\* SpawnDone preserves the inductive invariant.
LEMMA SpawnDoneStep == IInv /\ SpawnDone => IInv'
<1> SUFFICES ASSUME IInv, SpawnDone PROVE IInv'
  OBVIOUS
<1> USE ValidatorAssumption DEF IInv, SpawnDone, inputVars, workerVars, channelVars, resultVars
<1>1. TypeOK'
  BY DEF TypeOK, CallerStates, WorkerStates, Channels
<1>2. CallerInv'
  BY DEF TypeOK, CallerInv, Before, After
<1>3. ChannelInv'
  BY DEF TypeOK, ChannelInv, Past, VerdictOf
<1>4. CountInv'
  BY CountsKept
<1>5. SinkInv'
  BY DEF TypeOK, SinkInv, Results, Violations, Compliances, Collected
<1>6. ErrorInv'
  BY DEF ErrorInv, With, VerdictOf
<1> QED
  BY <1>1, <1>2, <1>3, <1>4, <1>5, <1>6

\* StartCollectors preserves the inductive invariant.
LEMMA StartCollectorsStep == IInv /\ StartCollectors => IInv'
<1> SUFFICES ASSUME IInv, StartCollectors PROVE IInv'
  OBVIOUS
<1> USE ValidatorAssumption DEF IInv, StartCollectors, inputVars, workerVars, channelVars, resultVars
<1>1. TypeOK'
  BY DEF TypeOK, CallerStates, WorkerStates, Channels
<1>2. CallerInv'
  BY DEF TypeOK, CallerInv, Before, After
<1>3. ChannelInv'
  BY DEF TypeOK, ChannelInv, Past, VerdictOf
<1>4. CountInv'
  BY CountsKept
<1>5. SinkInv'
  BY DEF TypeOK, SinkInv, Results, Violations, Compliances, Collected
<1>6. ErrorInv'
  BY DEF ErrorInv, With, VerdictOf
<1> QED
  BY <1>1, <1>2, <1>3, <1>4, <1>5, <1>6

\* CloseChannels preserves the inductive invariant.
LEMMA CloseChannelsStep == IInv /\ CloseChannels => IInv'
<1> SUFFICES ASSUME IInv, CloseChannels PROVE IInv'
  OBVIOUS
<1> USE ValidatorAssumption DEF IInv, CloseChannels, inputVars, workerVars, channelVars, resultVars
<1>1. TypeOK'
  BY DEF TypeOK, CallerStates, WorkerStates, Channels
<1>2. CallerInv'
  <2>1. Active = {}
    BY WorkersFinite, FS_EmptySet DEF CountInv, WorkersFinished
  <2>2. \A i \in DOMAIN worker : worker[i] = "done"
    BY <2>1 DEF TypeOK, CallerInv, Active, WorkerStates
  <2> QED
    BY <2>2 DEF TypeOK, CallerInv, Before, After
<1>3. ChannelInv'
  BY DEF TypeOK, ChannelInv, Past, VerdictOf
<1>4. CountInv'
  BY CountsKept
<1>5. SinkInv'
  BY DEF TypeOK, SinkInv, Results, Violations, Compliances, Collected
<1>6. ErrorInv'
  BY DEF ErrorInv, With, VerdictOf
<1> QED
  BY <1>1, <1>2, <1>3, <1>4, <1>5, <1>6

\* DrainDone preserves the inductive invariant.
LEMMA DrainDoneStep == IInv /\ DrainDone => IInv'
<1> SUFFICES ASSUME IInv, DrainDone PROVE IInv'
  OBVIOUS
<1> USE ValidatorAssumption DEF IInv, DrainDone, inputVars, workerVars, channelVars, resultVars
<1>1. TypeOK'
  BY DEF TypeOK, CallerStates, WorkerStates, Channels
<1>2. CallerInv'
  BY DEF TypeOK, CallerInv, Before, After, CollectorsFinished
<1>3. ChannelInv'
  BY DEF TypeOK, ChannelInv, Past, VerdictOf
<1>4. CountInv'
  BY CountsKept
<1>5. SinkInv'
  BY DEF TypeOK, SinkInv, Results, Violations, Compliances, Collected
<1>6. ErrorInv'
  BY DEF ErrorInv, With, VerdictOf
<1> QED
  BY <1>1, <1>2, <1>3, <1>4, <1>5, <1>6

\* Check preserves the inductive invariant.
LEMMA CheckStep == IInv /\ Check => IInv'
<1> SUFFICES ASSUME IInv, Check PROVE IInv'
  OBVIOUS
<1> USE ValidatorAssumption DEF IInv, Check, inputVars, workerVars, channelVars, resultVars
<1>1. TypeOK'
  BY DEF TypeOK, CallerStates, WorkerStates, Channels
<1>2. CallerInv'
  BY DEF TypeOK, CallerInv, Before, After
<1>3. ChannelInv'
  BY DEF TypeOK, ChannelInv, Past, VerdictOf
<1>4. CountInv'
  BY CountsKept
<1>5. SinkInv'
  BY DEF TypeOK, SinkInv, Results, Violations, Compliances, Collected
<1>6. ErrorInv'
  <2> SUFFICES ASSUME pc' # "error" PROVE With("error") = {}
    BY DEF ErrorInv, With, VerdictOf
  <2>1. sent["error"] = << >>
    <3>1. received["error"] = Len(sent["error"]) /\ sent["error"] \in Seq(DOMAIN policies)
      BY DEF TypeOK, CallerInv, ChannelInv, After, Channels
    <3>2. ~HasErrors
      OBVIOUS
    <3>3. SubSeq(sent["error"], 1, received["error"]) = << >>
      BY <3>2 DEF HasErrors, Collected
    <3> QED
      BY <3>1, <3>3, NothingTaken
  <2>2. \A i \in DOMAIN worker : Past(i)
    BY DEF TypeOK, CallerInv, After, Past
  <2>3. ASSUME NEW i \in DOMAIN policies, VerdictOf(i) = "error" PROVE FALSE
    <3>1. Past(i) /\ i \in DOMAIN worker
      BY <2>2, TypeFacts
    <3>2. PICK j \in DOMAIN sent["error"] : sent["error"][j] = i
      BY <2>3, <3>1 DEF ChannelInv
    <3> QED
      BY <2>1, <3>2
  <2> QED
    BY <2>3 DEF With
<1> QED
  BY <1>1, <1>2, <1>3, <1>4, <1>5, <1>6

\* The slices of the collectors are sequences of policies.
LEMMA CollectedType ==
    ASSUME TypeOK, ChannelInv, NEW k \in Channels
    PROVE  /\ Collected(k) \in Seq(DOMAIN policies)
           /\ Len(Collected(k)) = received[k]
           /\ \A j \in 1..received[k] : Collected(k)[j] = sent[k][j]
<1>1. sent[k] \in Seq(DOMAIN policies) /\ received[k] \in Nat /\ received[k] <= Len(sent[k])
  BY DEF TypeOK, ChannelInv
<1> QED
  BY <1>1 DEF Collected

\* What is written to a sink is a sequence of policies.
LEMMA ResultsType ==
    ASSUME TypeOK, ChannelInv
    PROVE  Results \in Seq(DOMAIN policies)
<1>1. Violations \in Seq(DOMAIN policies) /\ Compliances \in Seq(DOMAIN policies)
  BY CollectedType DEF TypeOK, Violations, Compliances, Channels
<1>2. CASE WriteCompliance
  BY <1>1, <1>2 DEF Results
<1>3. CASE ~WriteCompliance
  BY <1>1, <1>3 DEF Results
<1> QED
  BY <1>2, <1>3

\* MutateViolation preserves the inductive invariant.
LEMMA MutateViolationStep == IInv /\ MutateViolation => IInv'
<1> SUFFICES ASSUME IInv, MutateViolation PROVE IInv'
  OBVIOUS
<1> USE ValidatorAssumption DEF IInv, MutateViolation, inputVars, workerVars, channelVars, resultVars
<1>1. TypeOK'
  <2>1. Collected("violation")[next] \in DOMAIN policies
    BY CollectedType DEF TypeOK, Channels
  <2>2. unmutated' \in Seq(DOMAIN policies)
    <3>1. unmutated' = unmutated \/ unmutated' = Append(unmutated, Collected("violation")[next])
      OBVIOUS
    <3>2. unmutated \in Seq(DOMAIN policies)
      BY DEF TypeOK
    <3> HIDE DEF MutateViolation
    <3> QED
      BY <2>1, <3>1, <3>2
  <2>3. labelled' \in BOOLEAN
    BY DEF TypeOK, SetsLabel
  <2> QED
    BY <2>2, <2>3 DEF TypeOK
<1>2. CallerInv'
  BY DEF TypeOK, CallerInv, Before, After
<1>3. ChannelInv'
  BY DEF TypeOK, ChannelInv, Past, VerdictOf
<1>4. CountInv'
  BY CountsKept
<1>5. SinkInv'
  BY DEF TypeOK, SinkInv, Results, Violations, Compliances, Collected
<1>6. ErrorInv'
  BY DEF ErrorInv, With, VerdictOf
<1> QED
  BY <1>1, <1>2, <1>3, <1>4, <1>5, <1>6

\* MutateDone preserves the inductive invariant.
LEMMA MutateDoneStep == IInv /\ MutateDone => IInv'
<1> SUFFICES ASSUME IInv, MutateDone PROVE IInv'
  OBVIOUS
<1> USE ValidatorAssumption DEF IInv, MutateDone, inputVars, workerVars, channelVars, resultVars
<1>1. TypeOK'
  BY DEF TypeOK, CallerStates, WorkerStates, Channels
<1>2. CallerInv'
  BY DEF TypeOK, CallerInv, Before, After
<1>3. ChannelInv'
  BY DEF TypeOK, ChannelInv, Past, VerdictOf
<1>4. CountInv'
  BY CountsKept
<1>5. SinkInv'
  BY DEF TypeOK, SinkInv, Results, Violations, Compliances, Collected
<1>6. ErrorInv'
  BY DEF ErrorInv, With, VerdictOf
<1> QED
  BY <1>1, <1>2, <1>3, <1>4, <1>5, <1>6

\* WriteToSink preserves the inductive invariant.
LEMMA WriteToSinkStep == IInv /\ WriteToSink => IInv'
<1> SUFFICES ASSUME IInv, WriteToSink PROVE IInv'
  OBVIOUS
<1> USE ValidatorAssumption DEF IInv, WriteToSink, inputVars, workerVars, channelVars, resultVars
<1>0. Results \in Seq(DOMAIN policies) /\ Results' = Results
  BY ResultsType DEF Results, Violations, Compliances, Collected
<1>1. TypeOK'
  <2>1. written[next] = << >> /\ next \in 1..Sinks
    BY DEF TypeOK, SinkInv
  <2>2. written' = [written EXCEPT ![next] = Results]
    BY <1>0, <2>1 DEF Results, TypeOK
  <2>3. written' \in [1..Sinks -> Seq(DOMAIN policies)]
    BY <1>0, <2>1, <2>2 DEF TypeOK
  <2> QED
    BY <2>3 DEF TypeOK
<1>2. CallerInv'
  BY DEF TypeOK, CallerInv, Before, After
<1>3. ChannelInv'
  BY DEF TypeOK, ChannelInv, Past, VerdictOf
<1>4. CountInv'
  BY CountsKept
<1>5. SinkInv'
  <2>1. written[next] = << >> /\ next \in 1..Sinks
    BY DEF TypeOK, SinkInv
  <2>2. written' = [written EXCEPT ![next] = Results]
    BY <1>0, <2>1 DEF Results, TypeOK
  <2>3. \A s \in 1..Sinks : written'[s] = IF s = next THEN Results ELSE written[s]
    BY <2>1, <2>2 DEF TypeOK
  <2>4. \A s \in 1..Sinks : written'[s] = IF s < next + 1 THEN Results ELSE << >>
    BY <2>1, <2>3 DEF TypeOK, SinkInv
  <2> QED
    BY <1>0, <2>1, <2>4 DEF TypeOK, SinkInv
<1>6. ErrorInv'
  BY DEF ErrorInv, With, VerdictOf
<1> QED
  BY <1>1, <1>2, <1>3, <1>4, <1>5, <1>6

\* ReturnSummary preserves the inductive invariant.
LEMMA ReturnSummaryStep == IInv /\ ReturnSummary => IInv'
<1> SUFFICES ASSUME IInv, ReturnSummary PROVE IInv'
  OBVIOUS
<1> USE ValidatorAssumption DEF IInv, ReturnSummary, inputVars, workerVars, channelVars, resultVars
<1>1. TypeOK'
  BY DEF TypeOK, CallerStates, WorkerStates, Channels
<1>2. CallerInv'
  BY DEF TypeOK, CallerInv, Before, After
<1>3. ChannelInv'
  BY DEF TypeOK, ChannelInv, Past, VerdictOf
<1>4. CountInv'
  BY CountsKept
<1>5. SinkInv'
  <2>1. Results' = Results
    BY DEF Results, Violations, Compliances, Collected
  <2> QED
    BY <2>1 DEF TypeOK, SinkInv
<1>6. ErrorInv'
  BY DEF ErrorInv, With, VerdictOf
<1> QED
  BY <1>1, <1>2, <1>3, <1>4, <1>5, <1>6

(***************************************************************************)
(* The steps that move one worker.  Each is first reduced to what it does  *)
(* to that worker.                                                         *)
(***************************************************************************)
Moves(i, to) ==
    /\ DOMAIN worker' = DOMAIN worker
    /\ \A n \in DOMAIN worker : worker'[n] = IF n = i THEN to ELSE worker[n]

\* An update of the function of the workers moves one worker.
LEMMA MoveWorker ==
    ASSUME TypeOK, NEW i \in DOMAIN worker, NEW to \in WorkerStates,
           worker' = [worker EXCEPT ![i] = to]
    PROVE  Moves(i, to) /\ worker' \in [DOMAIN policies -> WorkerStates]
<1>1. worker \in [DOMAIN policies -> WorkerStates]
  BY DEF TypeOK
<1> QED
  BY <1>1 DEF Moves

\* A step that changes neither a channel nor which workers are past.
LEMMA ChannelsKept ==
    ASSUME TypeOK, ChannelInv, UNCHANGED <<inputVars, channelVars>>,
           DOMAIN worker' = DOMAIN worker,
           \A n \in DOMAIN worker : Past(n)' <=> Past(n)
    PROVE  ChannelInv'
<1>1. \A k \in Channels : \A j \in DOMAIN sent[k] : sent[k][j] \in DOMAIN worker
  BY DEF TypeOK
<1> QED
  BY <1>1 DEF ChannelInv, VerdictOf, inputVars, channelVars

\* Spawn preserves the inductive invariant.
LEMMA SpawnStep == IInv /\ Spawn => IInv'
<1> SUFFICES ASSUME IInv, Spawn PROVE IInv'
  OBVIOUS
<1>0. /\ pc = "spawn" /\ next <= Len(policies) /\ bound < MaxWorkers
      /\ bound' = bound + 1 /\ enqueue' = enqueue + 1 /\ next' = next + 1
      /\ UNCHANGED <<mutate, entity, policies, config, pc, sent, received, closed, collector,
                     panicked, doc, labelled, unmutated, written>>
  BY DEF Spawn, inputVars, channelVars, resultVars
<1>a. TypeOK /\ next \in DOMAIN worker /\ DOMAIN worker = DOMAIN policies /\ next \in Nat
  BY <1>0, TypeFacts DEF IInv, TypeOK
<1>b. worker[next] = "idle"
  BY <1>0, <1>a DEF IInv, CallerInv
<1>c. Moves(next, "eval") /\ worker' \in [DOMAIN policies -> WorkerStates]
  BY <1>a, MoveWorker DEF Spawn, WorkerStates
<1>1. TypeOK'
  BY <1>0, <1>c DEF IInv, TypeOK
<1>2. CallerInv'
  <2>1. next' <= Len(policies) + 1
    BY <1>0, <1>a, TypeFacts
  <2>2. \A n \in DOMAIN worker' : worker'[n] = "idle" <=> n >= next'
    BY <1>0, <1>a, <1>b, <1>c, TypeFacts DEF IInv, CallerInv, Moves
  <2> QED
    BY <1>0, <2>1, <2>2 DEF IInv, CallerInv, Before, After
<1>3. ChannelInv'
  BY <1>0, <1>a, <1>b, <1>c, ChannelsKept DEF IInv, Moves, Past, inputVars, channelVars
<1>4. CountInv'
  <2>1. Active' = Active \cup {next} /\ next \notin Active
    BY <1>a, <1>b, <1>c DEF Moves, Active
  <2>2. Running' = Running \cup {next} /\ next \notin Running
    BY <1>a, <1>b, <1>c DEF Moves, Running
  <2>3. Cardinality(Active') = Cardinality(Active) + 1
    BY <1>a, <2>1, WorkersFinite, FS_AddElement
  <2>4. Cardinality(Running') = Cardinality(Running) + 1
    BY <1>a, <2>2, WorkersFinite, FS_AddElement
  <2> QED
    BY <1>0, <2>3, <2>4, ValidatorAssumption DEF IInv, CountInv, TypeOK
<1>5. SinkInv'
  BY <1>0 DEF IInv, SinkInv, Results, Violations, Compliances, Collected
<1>6. ErrorInv'
  BY <1>0 DEF IInv, ErrorInv, With, VerdictOf
<1> QED
  BY <1>1, <1>2, <1>3, <1>4, <1>5, <1>6 DEF IInv

\* Evaluate preserves the inductive invariant.
LEMMA EvaluateStep == ASSUME IInv, NEW i \in DOMAIN worker, Evaluate(i) PROVE IInv'
<1>a. TypeOK /\ DOMAIN worker = DOMAIN policies /\ worker[i] = "eval" /\ ~closed
  BY TypeFacts DEF IInv, Evaluate, CallerInv
<1>b. VerdictOf(i) \in Channels \cup {"none"}
  BY VerdictRange DEF VerdictOf
<1>0. UNCHANGED <<mutate, entity, policies, config, pc, next, bound, enqueue, received, closed,
                  collector, doc, labelled, unmutated, written>>
  BY DEF Evaluate, inputVars, resultVars
<1>c. Moves(i, "release") /\ worker' \in [DOMAIN policies -> WorkerStates]
  BY <1>a, MoveWorker DEF Evaluate, WorkerStates
<1>d. /\ UNCHANGED panicked
      /\ \/ VerdictOf(i) = "none" /\ UNCHANGED sent
         \/ /\ VerdictOf(i) \in Channels
            /\ sent' = [sent EXCEPT ![VerdictOf(i)] = Append(@, i)]
  BY <1>a, <1>b DEF Evaluate
<1>1. TypeOK'
  <2>1. sent' \in [Channels -> Seq(DOMAIN policies)]
    <3>1. sent \in [Channels -> Seq(DOMAIN policies)]
      BY <1>a DEF TypeOK
    <3>2. ASSUME NEW k \in Channels PROVE Append(sent[k], i) \in Seq(DOMAIN policies)
      <4>1. sent[k] \in Seq(DOMAIN policies) /\ i \in DOMAIN policies
        BY <1>a, <3>1
      <4> QED
        BY <4>1
    <3> QED
      BY <1>d, <3>1, <3>2
  <2> QED
    BY <1>0, <1>c, <1>d, <2>1 DEF IInv, TypeOK
<1>2. CallerInv'
  BY <1>0, <1>a, <1>c DEF IInv, CallerInv, Before, After, Moves
<1>3. ChannelInv'
  <2>a. \A n \in DOMAIN worker' : Past(n)' <=> Past(n) \/ n = i
    BY <1>c DEF Moves, Past
  <2>b. \A n : VerdictOf(n)' = VerdictOf(n)
    BY <1>0 DEF VerdictOf
  <2>c. \A k \in Channels : /\ sent[k] \in Seq(DOMAIN policies)
                            /\ \A j \in DOMAIN sent[k] : sent[k][j] # i
    BY <1>a DEF IInv, TypeOK, ChannelInv, Past
  <2>1. CASE VerdictOf(i) = "none"
    <3>1. \A k \in Channels : \A j \in DOMAIN sent[k] : sent[k][j] \in DOMAIN worker
      BY <1>a, <2>c
    <3> QED
      BY <1>0, <1>c, <1>d, <2>1, <2>a, <2>b, <3>1 DEF IInv, ChannelInv, Moves, Channels
  <2>2. CASE VerdictOf(i) \in Channels
    <3> DEFINE v == VerdictOf(i)
               m == Len(sent[v]) + 1
    <3>1. /\ sent'[v] = Append(sent[v], i) /\ m \in Nat
          /\ \A k \in Channels \ {v} : sent'[k] = sent[k]
      BY <1>d, <2>2, <2>c, <1>a DEF TypeOK, Channels
    <3>2. /\ DOMAIN sent'[v] = DOMAIN sent[v] \cup {m}
          /\ m \notin DOMAIN sent[v]
          /\ sent'[v][m] = i /\ Len(sent'[v]) = m
          /\ \A j \in DOMAIN sent[v] : sent'[v][j] = sent[v][j]
      BY <3>1, <2>2, <2>c, <1>a
    <3>3. \A k \in Channels : received'[k] <= Len(sent'[k])
      <4>1. \A k \in Channels : received[k] \in Nat /\ received[k] <= Len(sent[k])
        BY <1>a DEF IInv, ChannelInv, TypeOK
      <4>2. Len(sent[v]) \in Nat
        BY <2>2, <2>c
      <4>3. received[v] <= m
        BY <2>2, <4>1, <4>2
      <4> QED
        BY <1>0, <2>2, <3>1, <3>2, <4>1, <4>3
    <3>4. \A k \in Channels : collector'[k] = "done" => closed' /\ received'[k] = Len(sent'[k])
      BY <1>0, <1>a DEF IInv, ChannelInv
    <3>5. ASSUME NEW k \in Channels, NEW j \in DOMAIN sent'[k]
          PROVE  Past(sent[k][j])' /\ (VerdictOf(sent[k][j]) = k)'
      <4>1. \A n \in DOMAIN sent[k] : sent[k][n] \in DOMAIN worker'
        BY <1>a, <1>c, <2>c DEF Moves
      <4>2. CASE k = v /\ j = m
        BY <3>2, <4>2, <2>a, <2>b, <1>a, <1>c DEF Moves
      <4>3. CASE ~(k = v /\ j = m)
        BY <3>1, <3>2, <4>1, <4>3, <2>a, <2>b DEF IInv, ChannelInv
      <4> QED
        BY <4>2, <4>3
    <3>6. ASSUME NEW k \in Channels, NEW j \in DOMAIN sent'[k], NEW l \in DOMAIN sent'[k],
                 sent'[k][j] = sent'[k][l]
          PROVE  j = l
      <4>1. CASE k # v
        BY <3>1, <3>6, <4>1 DEF IInv, ChannelInv
      <4>2. CASE k = v /\ (j = m \/ l = m)
        BY <3>2, <3>6, <4>2, <2>c
      <4>3. CASE k = v /\ j \in DOMAIN sent[v] /\ l \in DOMAIN sent[v]
        BY <3>2, <3>6, <4>3 DEF IInv, ChannelInv
      <4> QED
        BY <3>2, <4>1, <4>2, <4>3
    <3>7. ASSUME NEW n \in DOMAIN worker', Past(n)', VerdictOf(n) # "none"
          PROVE  \E j \in DOMAIN sent'[VerdictOf(n)] : sent'[VerdictOf(n)][j] = n
      <4>1. CASE n = i
        BY <4>1, <3>2
      <4>2. CASE n # i
        <5>1. PICK j \in DOMAIN sent[VerdictOf(n)] : sent[VerdictOf(n)][j] = n
          BY <4>2, <3>7, <2>a, <1>c DEF IInv, ChannelInv, Moves
        <5>2. VerdictOf(n) \in Channels
          BY <3>7, VerdictRange DEF VerdictOf
        <5> QED
          BY <5>1, <5>2, <3>1, <3>2
      <4> QED
        BY <4>1, <4>2
    <3> QED
      BY <1>d, <2>b, <3>3, <3>4, <3>5, <3>6, <3>7 DEF IInv, ChannelInv
  <2> QED
    BY <2>1, <2>2, <1>b
<1>4. CountInv'
  <2>1. Active' = Active /\ Running' = Running
    BY <1>a, <1>c DEF Moves, Active, Running
  <2> QED
    BY <1>0, <2>1 DEF IInv, CountInv
<1>5. SinkInv'
  <2>1. CASE pc \notin {"write", "ok"}
    BY <1>0, <2>1 DEF IInv, SinkInv
  <2>2. CASE pc \in {"write", "ok"}
    BY <1>a, <2>2 DEF IInv, CallerInv, After
  <2> QED
    BY <2>1, <2>2
<1>6. ErrorInv'
  BY <1>0 DEF IInv, ErrorInv, With, VerdictOf
<1> QED
  BY <1>1, <1>2, <1>3, <1>4, <1>5, <1>6 DEF IInv

\* Release preserves the inductive invariant.
LEMMA ReleaseStep == ASSUME IInv, NEW i \in DOMAIN worker, Release(i) PROVE IInv'
<1>0. /\ worker[i] = "release" /\ bound' = bound - 1
      /\ UNCHANGED <<mutate, entity, policies, config, pc, next, enqueue, sent, received, closed,
                     collector, panicked, doc, labelled, unmutated, written>>
  BY DEF Release, inputVars, channelVars, resultVars
<1>a. TypeOK /\ DOMAIN worker = DOMAIN policies
  BY TypeFacts DEF IInv
<1>c. Moves(i, "finish") /\ worker' \in [DOMAIN policies -> WorkerStates]
  BY <1>a, MoveWorker DEF Release, WorkerStates
<1>2. CallerInv'
  BY <1>0, <1>a, <1>c DEF IInv, CallerInv, Before, After, Moves
<1>3. ChannelInv'
  BY <1>0, <1>a, <1>c, ChannelsKept DEF IInv, Moves, Past, inputVars, channelVars
<1>4. CountInv' /\ bound' \in Nat
  <2>1. Running' = Running \ {i} /\ i \in Running /\ Active' = Active
    BY <1>0, <1>c DEF Moves, Active, Running
  <2>2. Cardinality(Running') = Cardinality(Running) - 1 /\ Cardinality(Running') \in Nat
    BY <1>a, <2>1, WorkersFinite, FS_RemoveElement, FS_CardinalityType
  <2> QED
    BY <1>0, <2>1, <2>2, ValidatorAssumption DEF IInv, CountInv, TypeOK
<1>1. TypeOK'
  BY <1>0, <1>4, <1>c DEF IInv, TypeOK
<1>5. SinkInv'
  BY <1>0 DEF IInv, SinkInv, Results, Violations, Compliances, Collected
<1>6. ErrorInv'
  BY <1>0 DEF IInv, ErrorInv, With, VerdictOf
<1> QED
  BY <1>1, <1>2, <1>3, <1>4, <1>5, <1>6 DEF IInv

\* Finish preserves the inductive invariant.
LEMMA FinishStep == ASSUME IInv, NEW i \in DOMAIN worker, Finish(i) PROVE IInv'
<1>0. /\ worker[i] = "finish" /\ enqueue' = enqueue - 1
      /\ UNCHANGED <<mutate, entity, policies, config, pc, next, bound, sent, received, closed,
                     collector, panicked, doc, labelled, unmutated, written>>
  BY DEF Finish, inputVars, channelVars, resultVars
<1>a. TypeOK /\ DOMAIN worker = DOMAIN policies
  BY TypeFacts DEF IInv
<1>c. Moves(i, "done") /\ worker' \in [DOMAIN policies -> WorkerStates]
  BY <1>a, MoveWorker DEF Finish, WorkerStates
<1>2. CallerInv'
  BY <1>0, <1>a, <1>c DEF IInv, CallerInv, Before, After, Moves
<1>3. ChannelInv'
  BY <1>0, <1>a, <1>c, ChannelsKept DEF IInv, Moves, Past, inputVars, channelVars
<1>4. CountInv' /\ enqueue' \in Nat
  <2>1. Active' = Active \ {i} /\ i \in Active /\ Running' = Running
    BY <1>0, <1>c DEF Moves, Active, Running
  <2>2. Cardinality(Active') = Cardinality(Active) - 1 /\ Cardinality(Active') \in Nat
    BY <1>a, <2>1, WorkersFinite, FS_RemoveElement, FS_CardinalityType
  <2> QED
    BY <1>0, <2>1, <2>2, ValidatorAssumption DEF IInv, CountInv, TypeOK
<1>1. TypeOK'
  BY <1>0, <1>4, <1>c DEF IInv, TypeOK
<1>5. SinkInv'
  BY <1>0 DEF IInv, SinkInv, Results, Violations, Compliances, Collected
<1>6. ErrorInv'
  BY <1>0 DEF IInv, ErrorInv, With, VerdictOf
<1> QED
  BY <1>1, <1>2, <1>3, <1>4, <1>5, <1>6 DEF IInv

\* Receive preserves the inductive invariant.
LEMMA ReceiveStep == ASSUME IInv, NEW k \in Channels, Receive(k) PROVE IInv'
<1> USE ValidatorAssumption DEF IInv, Receive, inputVars, workerVars, channelVars, resultVars
<1>1. TypeOK'
  BY DEF TypeOK
<1>2. CallerInv'
  BY DEF TypeOK, CallerInv, Before, After
<1>3. ChannelInv'
  BY DEF TypeOK, ChannelInv, Past, VerdictOf
<1>4. CountInv'
  BY CountsKept
<1>5. SinkInv'
  BY DEF TypeOK, CallerInv, SinkInv, Results, Violations, Compliances, Collected, After
<1>6. ErrorInv'
  BY DEF ErrorInv, With, VerdictOf
<1> QED
  BY <1>1, <1>2, <1>3, <1>4, <1>5, <1>6

\* CollectorDone preserves the inductive invariant.
LEMMA CollectorDoneStep == ASSUME IInv, NEW k \in Channels, CollectorDone(k) PROVE IInv'
<1> USE ValidatorAssumption DEF IInv, CollectorDone, inputVars, workerVars, channelVars, resultVars
<1>1. TypeOK'
  BY DEF TypeOK
<1>2. CallerInv'
  BY DEF TypeOK, CallerInv, Before, After
<1>3. ChannelInv'
  BY DEF TypeOK, ChannelInv, Past, VerdictOf
<1>4. CountInv'
  BY CountsKept
<1>5. SinkInv'
  BY DEF TypeOK, CallerInv, SinkInv, Results, Violations, Compliances, Collected, After
<1>6. ErrorInv'
  BY DEF ErrorInv, With, VerdictOf
<1> QED
  BY <1>1, <1>2, <1>3, <1>4, <1>5, <1>6

(***************************************************************************)
(* IInv is inductive.                                                      *)
(***************************************************************************)
LEMMA NextIInv == IInv /\ [Next]_vars => IInv'
<1> SUFFICES ASSUME IInv, [Next]_vars PROVE IInv'
  OBVIOUS
<1>1. CASE UNCHANGED vars
  <2> USE <1>1 DEF vars, IInv
  <2>1. TypeOK' /\ CallerInv'
    BY DEF TypeOK, CallerInv
  <2>2. ChannelInv'
    BY DEF ChannelInv, Past, VerdictOf
  <2>3. CountInv'
    BY CountsKept DEF workerVars
  <2>4. SinkInv' /\ ErrorInv'
    BY DEF SinkInv, ErrorInv, With, VerdictOf, Results, Violations, Compliances, Collected
  <2> QED
    BY <2>1, <2>2, <2>3, <2>4
<1>2. CASE Caller
  BY <1>2, GetAllStep, GetPolicyConfigStep, SpawnStep, SpawnDoneStep, StartCollectorsStep,
     CloseChannelsStep, DrainDoneStep, CheckStep, MutateViolationStep, MutateDoneStep,
     WriteToSinkStep, ReturnSummaryStep DEF Caller
<1>3. ASSUME NEW i \in DOMAIN worker, Worker(i) PROVE IInv'
  BY <1>3, EvaluateStep, ReleaseStep, FinishStep DEF Worker
<1>4. ASSUME NEW k \in Channels, Collector(k) PROVE IInv'
  BY <1>4, ReceiveStep, CollectorDoneStep DEF Collector
<1> QED
  BY <1>1, <1>2, <1>3, <1>4 DEF Next, Terminating

(***************************************************************************)
(* Every state of a Validate call satisfies the inductive invariant.       *)
(***************************************************************************)
THEOREM Invariance == Spec => []IInv
  BY InitIInv, NextIInv, PTL DEF Spec

(***************************************************************************)
(* Every variable of a Validate call keeps its type.                       *)
(***************************************************************************)
THEOREM TypeCorrect == Spec => []TypeOK
<1>1. IInv => TypeOK
  BY DEF IInv
<1> QED
  BY <1>1, Invariance, PTL

(***************************************************************************)
(* No worker ever sends on a closed channel.                               *)
(***************************************************************************)
THEOREM SendsAreSafe == Spec => []NoPanic
<1>1. IInv => NoPanic
  BY DEF IInv, ChannelInv, NoPanic
<1> QED
  BY <1>1, Invariance, PTL

(***************************************************************************)
(* The semaphore keeps at most maxWorkers evaluations going.               *)
(***************************************************************************)
THEOREM WorkersLimited == Spec => []WorkerLimit
<1>1. IInv => WorkerLimit
  BY DEF IInv, CountInv, WorkerLimit
<1> QED
  BY <1>1, Invariance, PTL

(***************************************************************************)
(* A result never waits for room in its channel: the policies whose        *)
(* results are in it are others, so there are fewer than len(policies).    *)
(***************************************************************************)
THEOREM RoomForEveryResult == Spec => []SendNeverBlocks
<1>1. ASSUME IInv, NEW i \in DOMAIN worker, worker[i] = "eval", VerdictOf(i) # "none"
      PROVE  Len(sent[VerdictOf(i)]) - received[VerdictOf(i)] < ChanCap
  <2> DEFINE v == VerdictOf(i)
             others == DOMAIN policies \ {i}
             q == sent[v]
  <2>1. v \in Channels /\ TypeOK
    BY <1>1, VerdictRange DEF VerdictOf, IInv
  <2>2. i \in DOMAIN policies /\ DOMAIN policies = 1..Len(policies) /\ Len(policies) \in Nat
    BY <1>1, <2>1, TypeFacts
  <2>3. q \in Seq(DOMAIN policies) /\ received[v] \in Nat
    BY <2>1 DEF TypeOK
  <2>4. Len(q) \in Nat /\ DOMAIN q = 1..Len(q)
    BY <2>3
  <2>5. \A j \in 1..Len(q) : q[j] \in others
    BY <1>1, <2>1, <2>3, <2>4 DEF IInv, ChannelInv, Past
  <2>6. q \in Injection(1..Len(q), others)
    <3>1. \A j, l \in 1..Len(q) : q[j] = q[l] => j = l
      BY <1>1, <2>1, <2>4 DEF IInv, ChannelInv
    <3>2. q \in [1..Len(q) -> others]
      BY <2>3, <2>4, <2>5
    <3> QED
      BY <3>1, <3>2 DEF Injection, IsInjective
  <2>7. IsFiniteSet(others) /\ Cardinality(others) = Len(policies) - 1
    <3>1. Len(policies) \in Nat
      BY <2>2
    <3>2. Cardinality(1..Len(policies)) = Len(policies)
      BY <3>1, IntervalSize
    <3>3. Cardinality(DOMAIN policies) = Len(policies)
      BY <2>2, <3>2
    <3>4. IsFiniteSet(DOMAIN policies)
      BY <2>1, WorkersFinite
    <3> QED
      BY <2>2, <3>3, <3>4, FS_RemoveElement
  <2>8. Cardinality(1..Len(q)) = Len(q) /\ IsFiniteSet(1..Len(q))
    BY <2>4, IntervalSize
  <2>9. Len(q) <= Len(policies) - 1
    BY <2>6, <2>7, <2>8, FS_Injection DEF ExistsInjection
  <2> QED
    BY <2>2, <2>3, <2>4, <2>9 DEF ChanCap
<1>2. IInv => SendNeverBlocks
  BY <1>1 DEF SendNeverBlocks
<1> QED
  BY <1>2, Invariance, PTL

\* Past the wait for the collectors each has the results of its verdict.
LEMMA AllCollected ==
    ASSUME IInv, pc \in After, NEW k \in Channels
    PROVE  Enumerates(Collected(k), With(k))
<1>1. TypeOK /\ received[k] = Len(sent[k]) /\ sent[k] \in Seq(DOMAIN policies)
  BY DEF IInv, TypeOK, CallerInv, ChannelInv
<1>2. Collected(k) = sent[k]
  BY <1>1 DEF Collected
<1>3. ASSUME NEW j \in DOMAIN sent[k] PROVE sent[k][j] \in With(k)
  BY <1>1 DEF IInv, ChannelInv, With
<1>4. ASSUME NEW i \in With(k) PROVE \E j \in DOMAIN sent[k] : sent[k][j] = i
  <2>1. i \in DOMAIN worker /\ VerdictOf(i) = k /\ k # "none"
    BY <1>1, TypeFacts DEF With, Channels
  <2>2. Past(i)
    BY <2>1 DEF IInv, CallerInv, After, Past
  <2> QED
    BY <2>1, <2>2 DEF IInv, ChannelInv
<1> QED
  BY <1>2, <1>3, <1>4 DEF IInv, ChannelInv, Enumerates

(***************************************************************************)
(* When the caller looks at the slices, each lists exactly the policies    *)
(* with its verdict, each once; past the error check none is missing.      *)
(***************************************************************************)
THEOREM ResultsComplete == Spec => []ResultComplete
<1>1. IInv => ResultComplete
  BY AllCollected DEF ResultComplete, After, IInv, ErrorInv
<1> QED
  BY <1>1, Invariance, PTL

-----------------------------------------------------------------------------
(***************************************************************************)
(* The mutation loop.  Its invariant holds because IInv does.              *)
(***************************************************************************)

\* The sequence has no member twice.
Once(seq) == \A j, l \in DOMAIN seq : seq[j] = seq[l] => j = l

\* The mutation loop has not touched anything.
Untouched == unmutated = << >> /\ doc = Manifest /\ ~labelled

(***************************************************************************)
(* What the mutation loop has made of the violations it has been through.  *)
(***************************************************************************)
Mutated(violations) ==
    /\ ToSet(unmutated) = {i \in violations : Unrepaired(i)}
    /\ Once(unmutated)
    /\ DOMAIN doc = DOMAIN Manifest
    /\ \A k \in DOMAIN Manifest : doc[k] \in Outcomes(Manifest[k], Recommended(violations, k))
    /\ labelled <=> \E k \in Lookup : \E o \in Recommended(violations, k) : Mutable(o)

\* The violations before position n of the collector's slice.
FirstViolations(n) == {Collected("violation")[j] : j \in 1..(n - 1)}

LoopInv ==
    /\ pc \notin {"mutate", "write", "ok"} => Untouched
    /\ pc = "mutate" => /\ mutate
                        /\ next <= Len(Collected("violation")) + 1
                        /\ Mutated(FirstViolations(next))
    /\ pc \in {"write", "ok"} =>
          IF mutate THEN Mutated(With("violation")) ELSE Untouched

-----------------------------------------------------------------------------
\* The order of the natural numbers, as a relation.
Less == {pair \in Nat \X Nat : pair[1] < pair[2]}

\* There is no infinite descent.
LEMMA LessWellFounded == IsWellFoundedOn(Less, Nat)
  BY NatLessThanWellFounded, Zenon DEF Less, OpToRel

\* A smaller number is before a larger one.
LEMMA LessMember == \A x, y \in Nat : x < y => <<x, y>> \in Less
  BY DEF Less

\* Max is what its name says, of a set of numbers that has a bound.
LEMMA MaxFacts ==
    ASSUME NEW S \in SUBSET Nat, S # {}, NEW top \in Nat, \A x \in S : x <= top
    PROVE  Max(S) \in S
<1> DEFINE Bounds == {k \in Nat : \A x \in S : x <= k}
<1>1. PICK m \in Bounds : \A k \in Bounds : ~(<<k, m>> \in Less)
  <2>1. top \in Bounds
    OBVIOUS
  <2> QED
    BY <2>1, LessWellFounded, WFMin
<1>2. ASSUME NEW k \in Bounds PROVE m <= k
  <2>1. ~(k < m)
    BY <1>1, LessMember
  <2> QED
    BY <2>1
<1>3. m \in S
  <2>1. SUFFICES ASSUME m \notin S PROVE FALSE
    OBVIOUS
  <2>2. PICK x \in S : TRUE
    OBVIOUS
  <2>3. m - 1 \in Nat /\ \A y \in S : y <= m - 1
    BY <2>1, <2>2
  <2> QED
    BY <1>2, <2>3
<1> QED
  BY <1>3 DEF Max

(***************************************************************************)
(* The last applicable occurrence for a path decides what Mutate puts      *)
(* there; a path without one keeps its value, or gets an empty map.        *)
(***************************************************************************)
LEMMA MutateFacts ==
    ASSUME NEW d, NEW os, Len(os) \in Nat, DOMAIN os = 1..Len(os), NEW k \in DOMAIN d
    PROVE  /\ k \in DOMAIN Mutate(d, os)
           /\ \/ \E i \in DOMAIN os : /\ Mutable(os[i]) /\ os[i].key = k
                                      /\ Mutate(d, os)[k] = os[i].value
              \/ /\ \A i \in DOMAIN os : os[i].key = k => ~Mutable(os[i])
                 /\ Mutate(d, os)[k] =
                      IF d[k] = Nil /\ \E i \in DOMAIN os : LookedUp(os[i]) /\ os[i].key = k
                      THEN EmptyMap ELSE d[k]
<1> DEFINE Apt == {i \in DOMAIN os : Mutable(os[i]) /\ os[i].key = k}
           Found == {i \in DOMAIN os : LookedUp(os[i]) /\ os[i].key = k}
<1>1. Mutate(d, os)[k] = IF Apt # {} THEN os[Max(Apt)].value
                         ELSE IF Found # {} /\ d[k] = Nil THEN EmptyMap ELSE d[k]
  BY DEF Mutate
<1>2. k \in DOMAIN Mutate(d, os)
  BY DEF Mutate
<1>3. CASE Apt # {}
  <2>1. Apt \in SUBSET Nat /\ \A x \in Apt : x <= Len(os)
    OBVIOUS
  <2>2. Max(Apt) \in Apt
    <3> HIDE DEF Apt
    <3> QED
      BY <1>3, <2>1, MaxFacts
  <2> QED
    BY <1>1, <1>2, <1>3, <2>2
<1>4. CASE Apt = {}
  BY <1>1, <1>2, <1>4
<1> QED
  BY <1>3, <1>4

\* Before the loop the step only has to leave its variables alone.
LEMMA UntouchedKept ==
    ASSUME LoopInv, pc \notin {"mutate", "write", "ok"}, pc' \notin {"mutate", "write", "ok"},
           UNCHANGED <<doc, labelled, unmutated>>
    PROVE  LoopInv'
  BY DEF LoopInv, Untouched

\* After the loop, too.
LEMMA MutatedKept ==
    ASSUME LoopInv, pc \in {"write", "ok"}, pc' \in {"write", "ok"},
           UNCHANGED <<inputVars, doc, labelled, unmutated>>
    PROVE  LoopInv'
<1> USE DEF inputVars
<1>1. With("violation")' = With("violation")
  BY DEF With, VerdictOf
<1>2. \A k : Recommended(With("violation"), k)' = Recommended(With("violation"), k)
  BY <1>1 DEF Recommended, RecommendedBy
<1>3. \A i : Unrepaired(i)' <=> Unrepaired(i)
  BY DEF Unrepaired
<1>4. Mutated(With("violation"))' <=> Mutated(With("violation"))
  BY <1>1, <1>2, <1>3 DEF Mutated, ToSet, Once
<1>5. Untouched' <=> Untouched
  BY DEF Untouched
<1> QED
  BY <1>4, <1>5 DEF LoopInv

\* The check starts the loop, or skips it.
LEMMA CheckLoop == TypeOK /\ LoopInv /\ Check => LoopInv'
<1> SUFFICES ASSUME TypeOK, LoopInv, Check PROVE LoopInv'
  OBVIOUS
<1> USE DEF Check, resultVars, channelVars, inputVars
<1>1. CASE pc' = "error"
  BY <1>1, UntouchedKept
<1>2. CASE pc' = "write" /\ ~mutate
  BY <1>2 DEF LoopInv, Untouched
<1>3. CASE pc' = "mutate" /\ mutate
  <2>1. FirstViolations(next)' = {}
    BY DEF FirstViolations
  <2>2. unmutated' = << >> /\ doc' = Manifest /\ ~labelled'
    BY DEF LoopInv, Untouched
  <2>3. \A k : Recommended(FirstViolations(next), k)' = {}
    BY <2>1 DEF Recommended
  <2>4. ToSet(unmutated)' = {}
    BY <2>2 DEF ToSet
  <2>5. \A k \in DOMAIN Manifest : Manifest[k] \in Outcomes(Manifest[k], {})
    BY DEF Outcomes
  <2>6. Mutated(FirstViolations(next))'
    BY <2>1, <2>2, <2>3, <2>4, <2>5 DEF Mutated, Once
  <2>7. next' <= Len(Collected("violation")') + 1
    BY DEF Collected, TypeOK, Channels
  <2> QED
    BY <1>3, <2>6, <2>7 DEF LoopInv
<1> QED
  BY <1>1, <1>2, <1>3 DEF TypeOK

\* Mutate keeps a path at one of its possible outcomes.
LEMMA MutateOutcome ==
    ASSUME NEW d, NEW os, Len(os) \in Nat, DOMAIN os = 1..Len(os), NEW k \in DOMAIN d,
           NEW original, NEW before, d[k] \in Outcomes(original, before),
           NEW new, new = {os[o] : o \in {o \in DOMAIN os : os[o].key = k}}
    PROVE  Mutate(d, os)[k] \in Outcomes(original, before \cup new)
<1> DEFINE Applied(set) == {o.value : o \in {r \in set : Mutable(r)}}
           all == before \cup new
<1>1. Applied(all) # {} => Outcomes(original, all) = Applied(all)
  BY DEF Outcomes
<1>2. CASE \E i \in DOMAIN os : /\ Mutable(os[i]) /\ os[i].key = k
                                /\ Mutate(d, os)[k] = os[i].value
  <2>1. Mutate(d, os)[k] \in Applied(all)
    BY <1>2
  <2> QED
    BY <1>1, <2>1
<1>3. CASE /\ \A i \in DOMAIN os : os[i].key = k => ~Mutable(os[i])
           /\ Mutate(d, os)[k] =
                IF d[k] = Nil /\ \E i \in DOMAIN os : LookedUp(os[i]) /\ os[i].key = k
                THEN EmptyMap ELSE d[k]
  <2>1. \A o \in new : ~Mutable(o)
    BY <1>3
  <2>2. Applied(all) = Applied(before)
    BY <2>1
  <2>3. (\E o \in new : LookedUp(o)) <=> \E i \in DOMAIN os : LookedUp(os[i]) /\ os[i].key = k
    OBVIOUS
  <2>4. CASE Applied(before) # {}
    <3>1. d[k] \in Applied(before)
      BY <2>4 DEF Outcomes
    <3>2. d[k] # Nil
      BY <3>1 DEF Mutable, LookedUp
    <3> QED
      BY <1>1, <1>3, <2>2, <2>4, <3>1, <3>2
  <2>5. CASE Applied(before) = {}
    <3>1. d[k] \in IF original = Nil /\ \E o \in before : LookedUp(o) THEN {EmptyMap} ELSE {original}
      BY <2>5 DEF Outcomes
    <3>2. Outcomes(original, all) =
            IF original = Nil /\ \E o \in all : LookedUp(o) THEN {EmptyMap} ELSE {original}
      BY <2>2, <2>5 DEF Outcomes
    <3>3. (\E o \in all : LookedUp(o)) <=> \/ \E o \in before : LookedUp(o)
                                           \/ \E o \in new : LookedUp(o)
      OBVIOUS
    <3> QED
      BY <1>3, <2>3, <3>1, <3>2, <3>3
  <2> QED
    BY <2>4, <2>5
<1> QED
  BY <1>2, <1>3, MutateFacts

\* One more violation adds its own occurrences, if its policy mutates.
LEMMA OneMoreViolation ==
    ASSUME NEW S, NEW i, NEW k
    PROVE  Recommended(S \cup {i}, k) =
             Recommended(S, k) \cup (IF policies[i].mutate THEN RecommendedBy(i, k) ELSE {})
  BY DEF Recommended

\* The violations before the next position are those so far, and one more.
LEMMA NextViolation ==
    ASSUME NEW n \in Nat \ {0}
    PROVE  FirstViolations(n + 1) = FirstViolations(n) \cup {Collected("violation")[n]}
<1>1. 1..((n + 1) - 1) = (1..(n - 1)) \cup {n}
  OBVIOUS
<1> QED
  BY <1>1 DEF FirstViolations

\* Append adds its element to what the sequence holds.
LEMMA AppendToSet ==
    ASSUME NEW S, NEW s \in Seq(S), NEW x \in S
    PROVE  ToSet(Append(s, x)) = ToSet(s) \cup {x}
<1>1. /\ DOMAIN s = 1..Len(s) /\ Len(s) \in Nat
      /\ DOMAIN Append(s, x) = 1..(Len(s) + 1)
      /\ \A j \in 1..(Len(s) + 1) : Append(s, x)[j] = IF j = Len(s) + 1 THEN x ELSE s[j]
  BY AppendProperties
<1>2. 1..(Len(s) + 1) = (1..Len(s)) \cup {Len(s) + 1}
  BY <1>1
<1> QED
  BY <1>1, <1>2 DEF ToSet

\* Appending what a sequence does not hold keeps its members apart.
LEMMA AppendOnce ==
    ASSUME NEW S, NEW s \in Seq(S), NEW x \in S, Once(s), x \notin ToSet(s)
    PROVE  Once(Append(s, x))
<1>1. /\ DOMAIN s = 1..Len(s) /\ Len(s) \in Nat
      /\ DOMAIN Append(s, x) = 1..(Len(s) + 1)
      /\ \A j \in 1..(Len(s) + 1) : Append(s, x)[j] = IF j = Len(s) + 1 THEN x ELSE s[j]
  BY AppendProperties
<1>2. \A j \in 1..Len(s) : s[j] # x
  BY <1>1 DEF ToSet
<1> QED
  BY <1>1, <1>2 DEF Once

\* The violation of a turn is one of a policy, whose answer is a list.
LEMMA TurnFacts ==
    ASSUME IInv, pc = "mutate", next <= Len(Collected("violation"))
    PROVE  /\ Collected("violation")[next] \in DOMAIN policies
           /\ LET os == Occurrences(policies[Collected("violation")[next]], config)
              IN Len(os) \in Nat /\ DOMAIN os = 1..Len(os)
<1>1. Collected("violation")[next] \in DOMAIN policies
  BY CollectedType DEF IInv, TypeOK, Channels
<1>2. policies[Collected("violation")[next]] \in Pool /\ config \in Configs
  BY <1>1 DEF IInv, TypeOK
<1> QED
  BY <1>1, <1>2, RegoAssumption

\* A turn of the mutation loop adds its violation to those processed.
LEMMA MutateViolationLoop == IInv /\ LoopInv /\ MutateViolation => LoopInv'
<1> SUFFICES ASSUME IInv, LoopInv, MutateViolation PROVE LoopInv'
  OBVIOUS
<1> DEFINE i == Collected("violation")[next]
           os == Occurrences(policies[i], config)
           S == FirstViolations(next)
<1>0. /\ pc = "mutate" /\ next <= Len(Collected("violation")) /\ next' = next + 1 /\ pc' = pc
      /\ UNCHANGED <<mutate, policies, config, sent, received>>
      /\ next \in Nat \ {0} /\ mutate /\ Mutated(S)
      /\ unmutated \in Seq(DOMAIN policies)
  BY DEF MutateViolation, LoopInv, IInv, TypeOK, inputVars, channelVars
<1>1. i \in DOMAIN policies /\ Len(os) \in Nat /\ DOMAIN os = 1..Len(os)
  BY <1>0, TurnFacts
<1>2. Collected("violation")' = Collected("violation")
  BY <1>0 DEF Collected
<1>3. FirstViolations(next)' = S \cup {i}
  <2>1. FirstViolations(next)' = FirstViolations(next + 1)
    BY <1>0, <1>2 DEF FirstViolations
  <2> QED
    BY <1>0, <2>1, NextViolation
<1>4. next' <= Len(Collected("violation")') + 1
  <2>1. Len(Collected("violation")) \in Nat
    BY CollectedType DEF IInv, TypeOK, Channels
  <2> QED
    BY <1>0, <1>2, <2>1
<1>5. /\ \A j : Unrepaired(j)' <=> Unrepaired(j)
      /\ \A k : Recommended(FirstViolations(next), k)' = Recommended(S \cup {i}, k)
  <2>1. \A j, k : RecommendedBy(j, k)' = RecommendedBy(j, k)
    BY <1>0 DEF RecommendedBy
  <2> QED
    BY <1>0, <1>3, <2>1 DEF Unrepaired, Recommended
<1>6. i \notin S
  <2>1. /\ DOMAIN sent["violation"] = 1..Len(sent["violation"])
        /\ \A j, l \in DOMAIN sent["violation"] :
              sent["violation"][j] = sent["violation"][l] => j = l
        /\ received["violation"] \in Nat /\ Len(sent["violation"]) \in Nat
        /\ received["violation"] <= Len(sent["violation"])
        /\ Len(Collected("violation")) = received["violation"]
        /\ \A j \in 1..received["violation"] : Collected("violation")[j] = sent["violation"][j]
    BY CollectedType DEF IInv, TypeOK, ChannelInv, Channels
  <2>2. ASSUME NEW j \in 1..(next - 1) PROVE Collected("violation")[j] # i
    BY <1>0, <2>1
  <2> QED
    BY <2>2 DEF FirstViolations
<1>7. /\ ToSet(unmutated)' = {j \in S \cup {i} : Unrepaired(j)}
      /\ Once(unmutated)'
      /\ DOMAIN doc' = DOMAIN Manifest
      /\ \A k \in DOMAIN Manifest : doc'[k] \in Outcomes(Manifest[k], Recommended(S \cup {i}, k))
      /\ labelled' <=> \E k \in Lookup : \E o \in Recommended(S \cup {i}, k) : Mutable(o)
  <2>1. CASE ~policies[i].mutate
    <3>1. UNCHANGED <<doc, labelled, unmutated>>
      BY <2>1 DEF MutateViolation
    <3>2. ~Unrepaired(i)
      BY <2>1 DEF Unrepaired
    <3>3. \A k : Recommended(S \cup {i}, k) = Recommended(S, k)
      <4>1. \A k : Recommended(S \cup {i}, k) = Recommended(S, k) \cup {}
        BY <2>1, OneMoreViolation
      <4> QED
        BY <4>1
    <3>4. ToSet(unmutated)' = ToSet(unmutated)
      BY <3>1 DEF ToSet
    <3> QED
      BY <1>0, <3>1, <3>2, <3>3, <3>4 DEF Mutated, Once
  <2>2. CASE policies[i].mutate
    <3>1. /\ doc' = Mutate(doc, os)
          /\ labelled' = (labelled \/ SetsLabel(os))
          /\ unmutated' = IF UnmutatedOccurrences(os) = {} THEN unmutated ELSE Append(unmutated, i)
      BY <2>2 DEF MutateViolation
    <3>2. \A k : Recommended(S \cup {i}, k) = Recommended(S, k) \cup RecommendedBy(i, k)
      BY <2>2, OneMoreViolation
    <3>3. ToSet(unmutated)' = {j \in S \cup {i} : Unrepaired(j)}
      <4>1. ToSet(unmutated)' = IF Unrepaired(i) THEN ToSet(unmutated) \cup {i} ELSE ToSet(unmutated)
        <5>1. CASE Unrepaired(i)
          <6>1. unmutated' = Append(unmutated, i)
            BY <2>2, <3>1, <5>1 DEF Unrepaired
          <6>2. ToSet(unmutated)' = ToSet(Append(unmutated, i))
            BY <6>1 DEF ToSet
          <6> QED
            BY <1>0, <1>1, <5>1, <6>2, AppendToSet
        <5>2. CASE ~Unrepaired(i)
          <6>1. unmutated' = unmutated
            BY <2>2, <3>1, <5>2 DEF Unrepaired
          <6> QED
            BY <5>2, <6>1 DEF ToSet
        <5> QED
          BY <5>1, <5>2
      <4> QED
        BY <1>0, <4>1 DEF Mutated
    <3>4. Once(unmutated)'
      <4>1. Once(unmutated) /\ i \notin ToSet(unmutated)
        BY <1>0, <1>6 DEF Mutated
      <4>2. Once(Append(unmutated, i))
        <5> HIDE DEF i
        <5> QED
          BY <1>0, <1>1, <4>1, AppendOnce
      <4>3. Once(unmutated')
        BY <3>1, <4>1, <4>2
      <4> QED
        BY <4>3 DEF Once
    <3>5. DOMAIN doc' = DOMAIN Manifest
      BY <1>0, <3>1 DEF Mutate, Mutated
    <3>6. ASSUME NEW k \in DOMAIN Manifest
          PROVE  doc'[k] \in Outcomes(Manifest[k], Recommended(S \cup {i}, k))
      <4>1. k \in DOMAIN doc /\ doc[k] \in Outcomes(Manifest[k], Recommended(S, k))
        BY <1>0 DEF Mutated
      <4>2. RecommendedBy(i, k) = {os[o] : o \in {o \in DOMAIN os : os[o].key = k}}
        BY DEF RecommendedBy
      <4>3. Mutate(doc, os)[k] \in Outcomes(Manifest[k], Recommended(S, k) \cup RecommendedBy(i, k))
        <5> HIDE DEF os, i, S
        <5> QED
          BY <1>1, <4>1, <4>2, MutateOutcome
      <4> QED
        BY <3>1, <3>2, <4>3
    <3>7. labelled' <=> \E k \in Lookup : \E o \in Recommended(S \cup {i}, k) : Mutable(o)
      <4>1. SetsLabel(os) <=> \E k \in Lookup : \E o \in RecommendedBy(i, k) : Mutable(o)
        BY DEF SetsLabel, RecommendedBy, Mutable, LookedUp
      <4> QED
        BY <1>0, <3>1, <3>2, <4>1 DEF Mutated
    <3> QED
      BY <3>3, <3>4, <3>5, <3>6, <3>7
  <2> QED
    BY <2>1, <2>2
<1>8. Mutated(FirstViolations(next))'
  <2> HIDE DEF i, S
  <2> QED
    BY <1>3, <1>5, <1>7 DEF Mutated
<1> QED
  BY <1>0, <1>4, <1>8 DEF LoopInv

\* Past the wait for the collectors their slices are the sets of policies.
LEMMA CollectedSet ==
    ASSUME IInv, pc \in After, NEW k \in Channels
    PROVE  ToSet(Collected(k)) = With(k)
  BY AllCollected DEF Enumerates, ToSet

\* When the loop ends it has been through all the violations.
LEMMA LoopEnd ==
    ASSUME IInv, LoopInv, pc = "mutate", next > Len(Collected("violation"))
    PROVE  Mutated(With("violation"))
<1>1. /\ next \in Nat \ {0} /\ Mutated(FirstViolations(next))
      /\ next <= Len(Collected("violation")) + 1
  BY DEF LoopInv, IInv, TypeOK
<1>2. Len(Collected("violation")) \in Nat
      /\ DOMAIN Collected("violation") = 1..Len(Collected("violation"))
  BY CollectedType DEF IInv, TypeOK, Channels
<1>3. next = Len(Collected("violation")) + 1
  BY <1>1, <1>2
<1>4. FirstViolations(next) = ToSet(Collected("violation"))
  BY <1>2, <1>3 DEF FirstViolations, ToSet
<1>5. FirstViolations(next) = With("violation")
  BY <1>4, CollectedSet DEF After, Channels
<1> QED
  BY <1>1, <1>5

\* MutateDone leaves what the loop has made of all the violations.
LEMMA MutateDoneLoop == IInv /\ LoopInv /\ MutateDone => LoopInv'
<1> SUFFICES ASSUME IInv, LoopInv, MutateDone PROVE LoopInv'
  OBVIOUS
<1>1. /\ pc = "mutate" /\ next > Len(Collected("violation")) /\ pc' = "write" /\ mutate
      /\ UNCHANGED <<mutate, entity, policies, config, doc, labelled, unmutated>>
  BY DEF MutateDone, LoopInv, inputVars, channelVars, resultVars
<1>2. Mutated(With("violation"))
  BY <1>1, LoopEnd
<1>3. With("violation")' = With("violation")
  BY <1>1 DEF With, VerdictOf
<1>4. \A k : Recommended(With("violation"), k)' = Recommended(With("violation"), k)
  <2>1. \A i, k : RecommendedBy(i, k)' = RecommendedBy(i, k)
    BY <1>1 DEF RecommendedBy
  <2>2. policies' = policies
    BY <1>1
  <2> QED
    BY <1>3, <2>1, <2>2 DEF Recommended
<1>5. \A i : Unrepaired(i)' <=> Unrepaired(i)
  BY <1>1 DEF Unrepaired
<1>6. Mutated(With("violation"))'
  BY <1>1, <1>2, <1>3, <1>4, <1>5 DEF Mutated, ToSet, Once
<1> QED
  BY <1>1, <1>6 DEF LoopInv

\* Goroutines are at rest once the caller looks at what they did.
LEMMA Quiet ==
    ASSUME IInv, pc \in After
    PROVE  /\ \A i \in DOMAIN worker : worker[i] = "done"
           /\ \A k \in Channels : collector[k] = "done"
  BY DEF IInv, CallerInv, After

\* LoopInv is inductive relative to IInv.
LEMMA NextLoopInv == IInv /\ LoopInv /\ [Next]_vars => LoopInv'
<1> SUFFICES ASSUME IInv, LoopInv, [Next]_vars PROVE LoopInv'
  OBVIOUS
<1> DEFINE InLoop == {"mutate", "write", "ok"}
<1>1. CASE pc \notin InLoop /\ pc' \notin InLoop /\ UNCHANGED <<doc, labelled, unmutated>>
  BY <1>1, UntouchedKept
<1>2. CASE GetAll \/ GetPolicyConfig
  BY <1>1, <1>2 DEF GetAll, GetPolicyConfig, resultVars
<1>3. CASE Spawn \/ SpawnDone \/ StartCollectors
  BY <1>1, <1>3 DEF Spawn, SpawnDone, StartCollectors, resultVars
<1>4. CASE CloseChannels \/ DrainDone
  BY <1>1, <1>4 DEF CloseChannels, DrainDone, resultVars
<1>5. CASE Check
  BY <1>5, CheckLoop DEF IInv
<1>6. CASE MutateViolation \/ MutateDone
  BY <1>6, MutateViolationLoop, MutateDoneLoop
<1>7. CASE WriteToSink \/ ReturnSummary
  BY <1>7, MutatedKept DEF WriteToSink, ReturnSummary, channelVars, resultVars
<1>8. ASSUME NEW i \in DOMAIN worker, Worker(i) PROVE LoopInv'
  <2>1. pc \notin After
    BY <1>8, Quiet DEF Worker, Evaluate, Release, Finish
  <2>2. pc' = pc /\ UNCHANGED <<doc, labelled, unmutated>>
    BY <1>8 DEF Worker, Evaluate, Release, Finish, resultVars
  <2> QED
    BY <1>1, <2>1, <2>2 DEF After
<1>9. ASSUME NEW k \in Channels, Collector(k) PROVE LoopInv'
  <2>1. pc \notin After
    BY <1>9, Quiet DEF Collector, Receive, CollectorDone
  <2>2. pc' = pc /\ UNCHANGED <<doc, labelled, unmutated>>
    BY <1>9 DEF Collector, Receive, CollectorDone, resultVars
  <2> QED
    BY <1>1, <2>1, <2>2 DEF After
<1>10. CASE UNCHANGED vars
  <2>1. CASE pc \in {"write", "ok"}
    BY <1>10, <2>1, MutatedKept DEF vars, inputVars
  <2>2. CASE pc \notin InLoop
    BY <1>1, <1>10, <2>2 DEF vars
  <2>3. CASE pc = "mutate"
    <3> USE <1>10 DEF vars
    <3>1. /\ Collected("violation")' = Collected("violation")
          /\ FirstViolations(next)' = FirstViolations(next)
      BY DEF Collected, FirstViolations
    <3>2. \A k : Recommended(FirstViolations(next), k)' = Recommended(FirstViolations(next), k)
      BY <3>1 DEF Recommended, RecommendedBy
    <3>3. \A i : Unrepaired(i)' <=> Unrepaired(i)
      BY DEF Unrepaired
    <3>4. Mutated(FirstViolations(next))' <=> Mutated(FirstViolations(next))
      BY <3>1, <3>2, <3>3 DEF Mutated, ToSet, Once
    <3> QED
      BY <2>3, <3>1, <3>4 DEF LoopInv
  <2> QED
    BY <2>1, <2>2, <2>3
<1> QED
  BY <1>2, <1>3, <1>4, <1>5, <1>6, <1>7, <1>8, <1>9, <1>10 DEF Next, Caller, Terminating

\* LoopInv holds from the start.
LEMMA InitLoopInv == Init => LoopInv
  BY DEF Init, LoopInv, Untouched

(***************************************************************************)
(* At any time the document is what the loop makes of the violations it    *)
(* has been through.                                                       *)
(***************************************************************************)
THEOREM LoopInvariance == Spec => [](IInv /\ LoopInv)
  BY InitIInv, NextIInv, InitLoopInv, NextLoopInv, PTL DEF Spec

(***************************************************************************)
(* However the results were ordered, the mutated document has at every     *)
(* path a recommended value where one could be applied, and is unchanged   *)
(* elsewhere, and the label says whether one was applied.                  *)
(***************************************************************************)
THEOREM MutationCorrect == Spec => []MutationOutcome
<1>1. ASSUME LoopInv PROVE MutationOutcome
  <2>1. SUFFICES ASSUME pc \in {"write", "ok"} PROVE MutationOutcome
    BY DEF MutationOutcome
  <2>2. CASE mutate
    BY <1>1, <2>1, <2>2 DEF LoopInv, Mutated, MutationOutcome
  <2>3. CASE ~mutate
    <3>1. doc = Manifest /\ ~labelled
      BY <1>1, <2>1, <2>3 DEF LoopInv, Untouched
    <3>2. \A k : Manifest[k] \in Outcomes(Manifest[k], {})
      BY DEF Outcomes
    <3> QED
      BY <2>3, <3>1, <3>2 DEF MutationOutcome
  <2> QED
    BY <2>2, <2>3
<1> QED
  BY <1>1, LoopInvariance, PTL

-----------------------------------------------------------------------------
(***************************************************************************)
(* The sinks.                                                              *)
(***************************************************************************)

\* What is written to a sink is the summary's results.
LEMMA DeliveredSet ==
    ASSUME TypeOK, ChannelInv
    PROVE  ToSet(Results) =
             ToSet(Violations) \cup (IF WriteCompliance THEN ToSet(Compliances) ELSE {})
<1>1. Violations \in Seq(DOMAIN policies) /\ Compliances \in Seq(DOMAIN policies)
  BY CollectedType DEF TypeOK, Violations, Compliances, Channels
<1>2. ASSUME NEW s \in Seq(DOMAIN policies), NEW t \in Seq(DOMAIN policies)
      PROVE  ToSet(s \o t) = ToSet(s) \cup ToSet(t)
  <2>1. /\ DOMAIN s = 1..Len(s) /\ DOMAIN t = 1..Len(t) /\ Len(s) \in Nat /\ Len(t) \in Nat
        /\ DOMAIN (s \o t) = 1..(Len(s) + Len(t))
        /\ \A j \in 1..(Len(s) + Len(t)) :
              (s \o t)[j] = IF j <= Len(s) THEN s[j] ELSE t[j - Len(s)]
    BY ConcatProperties
  <2>2. ASSUME NEW j \in DOMAIN t PROVE t[j] \in ToSet(s \o t)
    <3>1. j + Len(s) \in 1..(Len(s) + Len(t)) /\ (s \o t)[j + Len(s)] = t[j]
      BY <2>1
    <3> QED
      BY <2>1, <3>1 DEF ToSet
  <2>3. ASSUME NEW j \in DOMAIN s PROVE s[j] \in ToSet(s \o t)
    <3>1. j \in 1..(Len(s) + Len(t)) /\ (s \o t)[j] = s[j]
      BY <2>1
    <3> QED
      BY <2>1, <3>1 DEF ToSet
  <2>4. ASSUME NEW j \in DOMAIN (s \o t) PROVE (s \o t)[j] \in ToSet(s) \cup ToSet(t)
    BY <2>1 DEF ToSet
  <2> QED
    BY <2>2, <2>3, <2>4 DEF ToSet
<1>3. ToSet(<< >>) = {}
  BY DEF ToSet
<1>4. CASE WriteCompliance
  BY <1>1, <1>2, <1>4 DEF Results
<1>5. CASE ~WriteCompliance
  <2>1. Results = Violations
    BY <1>1, <1>5 DEF Results
  <2> QED
    BY <1>5, <2>1
<1> QED
  BY <1>4, <1>5

\* Two sequences without repetition or common members have none in a row.
LEMMA ConcatOnce ==
    ASSUME NEW S, NEW s \in Seq(S), NEW t \in Seq(S), Once(s), Once(t),
           ToSet(s) \cap ToSet(t) = {}
    PROVE  Once(s \o t)
<1>1. /\ DOMAIN s = 1..Len(s) /\ DOMAIN t = 1..Len(t) /\ Len(s) \in Nat /\ Len(t) \in Nat
      /\ DOMAIN (s \o t) = 1..(Len(s) + Len(t))
      /\ \A j \in 1..(Len(s) + Len(t)) :
            (s \o t)[j] = IF j <= Len(s) THEN s[j] ELSE t[j - Len(s)]
  BY ConcatProperties
<1>2. ASSUME NEW j \in DOMAIN s, NEW l \in DOMAIN t PROVE s[j] # t[l]
  BY DEF ToSet
<1>3. ASSUME NEW j \in DOMAIN (s \o t), NEW l \in DOMAIN (s \o t), (s \o t)[j] = (s \o t)[l]
      PROVE  j = l
  <2>1. CASE j <= Len(s) /\ l <= Len(s)
    <3>1. j \in DOMAIN s /\ l \in DOMAIN s /\ s[j] = s[l]
      BY <1>1, <1>3, <2>1
    <3> QED
      BY <3>1 DEF Once
  <2>2. CASE j > Len(s) /\ l > Len(s)
    <3>1. j - Len(s) \in DOMAIN t /\ l - Len(s) \in DOMAIN t /\ t[j - Len(s)] = t[l - Len(s)]
      BY <1>1, <1>3, <2>2
    <3>2. j - Len(s) = l - Len(s)
      BY <3>1 DEF Once
    <3> QED
      BY <1>1, <3>2
  <2>3. CASE j <= Len(s) /\ l > Len(s)
    <3>1. j \in DOMAIN s /\ l - Len(s) \in DOMAIN t /\ s[j] = t[l - Len(s)]
      BY <1>1, <1>3, <2>3
    <3> QED
      BY <1>2, <3>1
  <2>4. CASE j > Len(s) /\ l <= Len(s)
    <3>1. l \in DOMAIN s /\ j - Len(s) \in DOMAIN t /\ s[l] = t[j - Len(s)]
      BY <1>1, <1>3, <2>4
    <3> QED
      BY <1>2, <3>1
  <2> QED
    BY <1>1, <2>1, <2>2, <2>3, <2>4
<1> QED
  BY <1>3 DEF Once

\* The results of the summary are what is owed.
LEMMA ResultsOwed ==
    ASSUME IInv, LoopInv, pc \in {"write", "ok"}
    PROVE  Enumerates(Results, Owed)
<1>1. \A k \in Channels : ToSet(Collected(k)) = With(k) /\ Once(Collected(k))
  BY AllCollected DEF Enumerates, ToSet, Once, After
<1>2. /\ ToSet(Violations) = {i \in With("violation") : mutate => Unrepaired(i)}
      /\ Once(Violations)
  <2>1. CASE mutate
    BY <2>1 DEF LoopInv, Mutated, Violations
  <2>2. CASE ~mutate
    <3>1. ToSet(Violations) = With("violation") /\ Once(Violations)
      BY <1>1, <2>2 DEF Violations, Channels
    <3> QED
      BY <2>2, <3>1
  <2> QED
    BY <2>1, <2>2
<1>3. ToSet(Compliances) = With("compliance") /\ Once(Compliances)
  BY <1>1 DEF Compliances, Channels
<1>4. ToSet(Violations) \cap ToSet(Compliances) = {}
  BY <1>2, <1>3 DEF With
<1>5. Violations \in Seq(DOMAIN policies) /\ Compliances \in Seq(DOMAIN policies)
  BY CollectedType DEF IInv, TypeOK, Violations, Compliances, Channels
<1>6. ToSet(Results) = Owed
  BY <1>2, <1>3, DeliveredSet DEF IInv, Owed
<1>7. Once(Results)
  <2>1. CASE WriteCompliance
    BY <1>2, <1>3, <1>4, <1>5, <2>1, ConcatOnce DEF Results
  <2>2. CASE ~WriteCompliance
    <3>1. Results = Violations
      BY <1>5, <2>2 DEF Results
    <3> QED
      BY <1>2, <3>1
  <2> QED
    BY <2>1, <2>2
<1> QED
  BY <1>6, <1>7 DEF Enumerates, ToSet, Once

(***************************************************************************)
(* Whatever order the goroutines come in, a sink has nothing or, each      *)
(* once, the results that the policies' verdicts owe it: these when the    *)
(* call succeeds, and nothing when it fails.                               *)
(***************************************************************************)
THEOREM SinksAreServed == Spec => []SinksServed
<1>1. ASSUME IInv, LoopInv PROVE SinksServed
  <2> SUFFICES ASSUME NEW s \in 1..Sinks
               PROVE  /\ written[s] # << >> \/ pc = "ok" => Enumerates(written[s], Owed)
                      /\ pc = "error" \/ With("error") # {} => written[s] = << >>
    BY DEF SinksServed
  <2>1. CASE pc \notin {"write", "ok"}
    BY <1>1, <2>1 DEF IInv, SinkInv
  <2>2. CASE pc \in {"write", "ok"}
    <3>1. Enumerates(Results, Owed) /\ With("error") = {} /\ pc # "error"
      BY <1>1, <2>2, ResultsOwed DEF IInv, ErrorInv
    <3>2. written[s] = Results \/ (pc = "write" /\ written[s] = << >>)
      BY <1>1, <2>2 DEF IInv, SinkInv
    <3> QED
      BY <3>1, <3>2
  <2> QED
    BY <2>1, <2>2
<1> QED
  BY <1>1, LoopInvariance, PTL

-----------------------------------------------------------------------------
(***************************************************************************)
(* The refinement of ValidatorSpec.                                        *)
(***************************************************************************)

\* Both modules evaluate a policy alike.
LEMMA SameVerdict ==
    ASSUME NEW p, NEW e, NEW c
    PROVE  Abstract!Verdict(p, e, c) = Verdict(p, e, c)
<1>1. Abstract!Parameters(p, c) = Parameters(p, c)
  BY DEF Abstract!Parameters, Parameters, Abstract!Overrides, Overrides
<1>2. Abstract!matchEntity(e, p) <=> matchEntity(e, p)
  BY DEF Abstract!matchEntity, matchEntity, Abstract!SatisfiesLabels, SatisfiesLabels,
         Abstract!Wildcard, Wildcard
<1>3. Abstract!isExcluded(e, p) <=> isExcluded(e, p)
  BY DEF Abstract!isExcluded, isExcluded, Abstract!SatisfiesLabels, SatisfiesLabels,
         Abstract!Wildcard, Wildcard
<1>4. \A answer : Abstract!Eval(answer) = Eval(answer)
  BY DEF Abstract!Eval, Eval
<1> QED
  BY <1>1, <1>2, <1>3, <1>4 DEF Abstract!Verdict, Verdict

\* And find the same occurrences unrepaired.
LEMMA SameUnrepaired ==
    ASSUME NEW i
    PROVE  Abstract!Unrepaired(i) <=> Unrepaired(i)
<1>1. \A p, c : Abstract!Parameters(p, c) = Parameters(p, c)
  BY DEF Abstract!Parameters, Parameters, Abstract!Overrides, Overrides
<1>2. \A o : Abstract!parseOccurrence(o) = parseOccurrence(o)
  BY DEF Abstract!parseOccurrence, parseOccurrence
<1>3. \A p, c : Abstract!Occurrences(p, c) = Occurrences(p, c)
  BY <1>1, <1>2 DEF Abstract!Occurrences, Occurrences
<1>4. \A os : Abstract!UnmutatedOccurrences(os) = UnmutatedOccurrences(os)
  BY DEF Abstract!UnmutatedOccurrences, UnmutatedOccurrences, Abstract!Mutable, Mutable,
         Abstract!LookedUp, LookedUp
<1> QED
  BY <1>3, <1>4 DEF Abstract!Unrepaired, Unrepaired

\* The summary reports the policies that the specification reports.
LEMMA ReportedSet ==
    ASSUME IInv, pc \in After, mutate => Mutated(With("violation"))
    PROVE  /\ ToSet(Violations) = Abstract!Reported
           /\ ToSet(Compliances) = Abstract!With("compliance")
<1>1. ToSet(Collected("violation")) = With("violation")
  BY CollectedSet DEF Channels
<1>2. ToSet(Collected("compliance")) = With("compliance")
  BY CollectedSet DEF Channels
<1>3. \A v : Abstract!With(v) = With(v)
  BY SameVerdict DEF Abstract!With, With, VerdictOf
<1>4. CASE mutate
  <2>1. ToSet(unmutated) = {i \in With("violation") : Unrepaired(i)}
    BY <1>4 DEF Mutated
  <2> QED
    BY <1>2, <1>3, <1>4, <2>1, SameUnrepaired DEF Abstract!Reported, Violations, Compliances
<1>5. CASE ~mutate
  BY <1>1, <1>2, <1>3, <1>5 DEF Abstract!Reported, Violations, Compliances
<1> QED
  BY <1>4, <1>5

\* The steps before the decision that read nothing stutter.
LEMMA PendingStutters ==
    ASSUME pc \notin {"write", "ok", "error"}, pc' \notin {"write", "ok", "error"},
           UNCHANGED <<inputVars, written>>
    PROVE  UNCHANGED Abstract!specVars
  BY DEF Abstract!specVars, Decided, Returned, inputVars

\* Before the decision the call may fail.
LEMMA PendingFails ==
    ASSUME pc \notin {"write", "ok", "error"}, pc' = "error",
           UNCHANGED <<inputVars, written>>
    PROVE  Abstract!Fail
  BY DEF Abstract!Fail, Decided, Returned, inputVars

\* The sources are read before the decision.
LEMMA ReadSimulation ==
    ASSUME IInv, GetAll \/ GetPolicyConfig
    PROVE  Abstract!SpecNext
<1> USE ValidatorAssumption DEF inputVars, resultVars, Decided, Returned
<1>1. CASE GetAll /\ pc' = "getConfig"
  <2>1. policies' \in Seq(Pool)
    BY <1>1 DEF GetAll
  <2>2. Abstract!ReadPolicies
    BY <1>1, <2>1 DEF GetAll, Abstract!ReadPolicies
  <2> QED
    BY <2>2 DEF Abstract!SpecNext
<1>2. CASE GetPolicyConfig /\ pc' = "spawn"
  <2>1. Abstract!ReadConfig
    BY <1>2 DEF GetPolicyConfig, Abstract!ReadConfig
  <2> QED
    BY <2>1 DEF Abstract!SpecNext
<1>3. CASE GetAll /\ pc' = "error"
  BY <1>3, PendingFails DEF GetAll, Abstract!SpecNext
<1>4. CASE GetPolicyConfig /\ pc' = "error"
  BY <1>4, PendingFails DEF GetPolicyConfig, Abstract!SpecNext
<1> QED
  BY <1>1, <1>2, <1>3, <1>4 DEF GetAll, GetPolicyConfig

\* The caller decides when it goes to the write loop.
LEMMA DecideSimulation ==
    ASSUME IInv, IInv', LoopInv, pc' = "write", UNCHANGED <<inputVars, written>>,
           Check \/ MutateDone
    PROVE  Abstract!Decide
<1> USE DEF inputVars
<1>1. pc \in After /\ pc \notin {"write", "ok", "error"} /\ UNCHANGED <<sent, received, unmutated>>
  BY DEF Check, MutateDone, After, channelVars, resultVars
<1>2. mutate => Mutated(With("violation"))
  BY LoopEnd DEF Check, MutateDone
<1>3. /\ Violations' = Violations /\ Compliances' = Compliances
      /\ With("error")' = With("error")
  BY <1>1 DEF Violations, Compliances, Collected, With, VerdictOf
<1>4. ToSet(Violations)' = Abstract!Reported /\ ToSet(Compliances)' = Abstract!With("compliance")
  BY <1>1, <1>2, <1>3, ReportedSet DEF ToSet
<1>5. Abstract!With("error") = {}
  <2>1. With("error")' = {}
    BY DEF IInv, ErrorInv
  <2> QED
    BY <1>3, <2>1, SameVerdict DEF Abstract!With, With, VerdictOf
<1> QED
  BY <1>1, <1>4, <1>5 DEF Abstract!Decide, Decided, Returned

\* A turn of the write loop delivers the decision to one sink.
LEMMA WriteSimulation ==
    ASSUME IInv, WriteToSink
    PROVE  Abstract!Deliver(next)
<1>1. /\ pc = "write" /\ pc' = "write" /\ next \in 1..Sinks /\ written[next] = << >>
      /\ UNCHANGED <<mutate, entity, policies, config, unmutated, sent, received>>
  BY DEF WriteToSink, IInv, TypeOK, SinkInv, inputVars, channelVars
<1>2. /\ Violations' = Violations /\ Compliances' = Compliances
      /\ Results \in Seq(DOMAIN policies)
  BY <1>1, ResultsType DEF Violations, Compliances, Collected, IInv
<1>3. written' = [written EXCEPT ![next] = Results]
  <2>1. written[next] \o Violations \o (IF WriteCompliance THEN Compliances ELSE << >>) = Results
    <3>1. Violations \in Seq(DOMAIN policies)
      BY CollectedType DEF IInv, TypeOK, Violations, Channels
    <3> QED
      BY <1>1, <3>1 DEF Results
  <2> QED
    BY <2>1 DEF WriteToSink
<1>4. ToSet(Results) =
         ToSet(Violations) \cup (IF WriteCompliance THEN ToSet(Compliances) ELSE {})
  BY DeliveredSet DEF IInv
<1>5. [s \in 1..Sinks |-> ToSet(written'[s])] =
         [[s \in 1..Sinks |-> ToSet(written[s])] EXCEPT ![next] = ToSet(Results)]
  BY <1>1, <1>3 DEF IInv, TypeOK
<1>6. ToSet(written[next]) = {}
  BY <1>1 DEF ToSet
<1>7. ToSet(Violations)' = ToSet(Violations) /\ ToSet(Compliances)' = ToSet(Compliances)
  BY <1>2 DEF ToSet
<1>8. \A s \in 1..Sinks : ToSet(written[s])' = ToSet(written'[s])
  BY DEF ToSet
<1> QED
  BY <1>1, <1>4, <1>5, <1>6, <1>7, <1>8 DEF Abstract!Deliver, Decided, Returned

\* The call returns when every sink was served.
LEMMA ReturnSimulation ==
    ASSUME IInv, ReturnSummary
    PROVE  Abstract!Return
<1>1. /\ pc = "write" /\ pc' = "ok" /\ next > Sinks
      /\ UNCHANGED <<mutate, entity, policies, config, unmutated, sent, received, written>>
  BY DEF ReturnSummary, inputVars, channelVars, resultVars
<1>2. \A s \in 1..Sinks : written[s] = Results
  BY <1>1, ValidatorAssumption DEF IInv, TypeOK, SinkInv
<1>3. Violations' = Violations /\ Compliances' = Compliances
  BY <1>1 DEF Violations, Compliances, Collected
<1>4. ToSet(Results) =
         ToSet(Violations) \cup (IF WriteCompliance THEN ToSet(Compliances) ELSE {})
  BY DeliveredSet DEF IInv
<1>5. /\ ToSet(Violations)' = ToSet(Violations) /\ ToSet(Compliances)' = ToSet(Compliances)
      /\ \A s \in 1..Sinks : ToSet(written[s])' = ToSet(written[s])
  BY <1>1, <1>3 DEF ToSet
<1> QED
  BY <1>1, <1>2, <1>4, <1>5 DEF Abstract!Return, Decided, Returned

\* A step of a goroutine changes nothing of what the specification sees.
LEMMA GoroutineStutters ==
    ASSUME IInv,
           \/ \E i \in DOMAIN worker : Worker(i)
           \/ \E k \in Channels : Collector(k)
    PROVE  UNCHANGED Abstract!specVars
<1>1. CASE \E i \in DOMAIN worker : Worker(i)
  <2>1. PICK i \in DOMAIN worker : Worker(i)
    BY <1>1
  <2>2. pc \notin After
    BY <2>1, Quiet DEF Worker, Evaluate, Release, Finish
  <2>3. pc' = pc /\ UNCHANGED <<inputVars, written>>
    BY <2>1 DEF Worker, Evaluate, Release, Finish, resultVars
  <2> QED
    BY <2>2, <2>3 DEF Abstract!specVars, Decided, Returned, After, inputVars
<1>2. CASE \E k \in Channels : Collector(k)
  <2>1. PICK k \in Channels : Collector(k)
    BY <1>2
  <2>2. pc \notin After
    BY <2>1, Quiet DEF Collector, Receive, CollectorDone
  <2>3. pc' = pc /\ UNCHANGED <<inputVars, written>>
    BY <2>1 DEF Collector, Receive, CollectorDone, resultVars
  <2> QED
    BY <2>2, <2>3 DEF Abstract!specVars, Decided, Returned, After, inputVars
<1> QED
  BY <1>1, <1>2

\* Every step of the call is a step of the specification, or none.
LEMMA StepSimulation ==
    IInv /\ LoopInv /\ [Next]_vars => [Abstract!SpecNext]_(Abstract!specVars)
<1> SUFFICES ASSUME IInv, LoopInv, [Next]_vars
             PROVE  [Abstract!SpecNext]_(Abstract!specVars)
  OBVIOUS
<1>0. IInv'
  BY NextIInv
<1>1. CASE GetAll \/ GetPolicyConfig
  BY <1>1, ReadSimulation
<1>2. CASE Spawn \/ SpawnDone \/ StartCollectors \/ CloseChannels \/ DrainDone
  BY <1>2, PendingStutters
     DEF Spawn, SpawnDone, StartCollectors, CloseChannels, DrainDone, resultVars
<1>3. CASE Check
  <2>1. pc = "check" /\ pc' \in {"error", "mutate", "write"} /\ UNCHANGED <<inputVars, written>>
    BY <1>3 DEF Check, resultVars
  <2>2. CASE pc' = "error"
    BY <2>1, <2>2, PendingFails DEF Abstract!SpecNext
  <2>3. CASE pc' = "mutate"
    BY <2>1, <2>3, PendingStutters
  <2>4. CASE pc' = "write"
    BY <1>0, <1>3, <2>1, <2>4, DecideSimulation DEF Abstract!SpecNext
  <2> QED
    BY <2>1, <2>2, <2>3, <2>4
<1>4. CASE MutateViolation
  BY <1>4, PendingStutters DEF MutateViolation
<1>5. CASE MutateDone
  <2>1. pc' = "write" /\ UNCHANGED <<inputVars, written>>
    BY <1>5 DEF MutateDone, resultVars
  <2> QED
    BY <1>0, <1>5, <2>1, DecideSimulation DEF Abstract!SpecNext
<1>6. CASE WriteToSink
  <2>1. next \in 1..Sinks
    BY <1>6 DEF WriteToSink, IInv, TypeOK
  <2> QED
    BY <1>6, <2>1, WriteSimulation DEF Abstract!SpecNext
<1>7. CASE ReturnSummary
  BY <1>7, ReturnSimulation DEF Abstract!SpecNext
<1>8. CASE \/ \E i \in DOMAIN worker : Worker(i)
           \/ \E k \in Channels : Collector(k)
  BY <1>8, GoroutineStutters
<1>9. CASE UNCHANGED vars
  BY <1>9 DEF vars, Abstract!specVars, Decided, Returned, Violations, Compliances, Collected, ToSet
<1> QED
  BY <1>1, <1>2, <1>3, <1>4, <1>5, <1>6, <1>7, <1>8, <1>9 DEF Next, Caller, Terminating

(***************************************************************************)
(* Validate implements its abstract specification: with its goroutines,    *)
(* channels and wait groups it is a call that reads its sources, decides   *)
(* once, hands the decision to every sink once, and returns it.            *)
(***************************************************************************)
THEOREM ValidatorRefines == Spec => ImplementsSpec
<1>1. Init => Abstract!SpecInit
  <2> SUFFICES ASSUME Init PROVE Abstract!SpecInit
    OBVIOUS
  <2>1. [s \in 1..Sinks |-> ToSet(written[s])] = [s \in 1..Sinks |-> {}]
    BY DEF Init, ToSet
  <2> QED
    BY <2>1 DEF Init, Abstract!SpecInit, Decided, Returned
<1> QED
  BY <1>1, StepSimulation, LoopInvariance, PTL DEF Spec, ImplementsSpec, Abstract!AbstractSpec
=============================================================================
