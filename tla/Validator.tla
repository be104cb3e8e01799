------------------------------- MODULE Validator -------------------------------
(***************************************************************************)
(* One call of OpaValidator.Validate                                       *)
(* (pkg/policy-core/validation/opa_validation.go) as its goroutines run    *)
(* it: the caller, which starts one worker per policy behind the           *)
(* semaphore `bound`; the workers, each of which sends at most one result  *)
(* to one of three buffered channels; and three collectors, which the      *)
(* caller starts only after it has started every worker.                   *)
(*                                                                         *)
(* A channel is kept with its history: sent[k] is everything ever sent to  *)
(* it and received[k] how much of that its collector took, so its content  *)
(* is the rest, and what the collector has appended to its slice is the    *)
(* prefix.  A result is the index of its policy.                           *)
(***************************************************************************)
EXTENDS PolicyEval

CONSTANTS
    Pool,             \* the policies GetAll may return
    Configs,          \* the configurations GetPolicyConfig may return
    Entities,         \* the entities to validate
    Manifest,         \* the entity's document: a function key -> value
    MaxPolicies,      \* bound on the number of policies
    MaxWorkers,       \* maxWorkers: the capacity of the semaphore
    Sinks,            \* how many result sinks the validator has
    WriteCompliance   \* OpaValidator.writeCompliance

ASSUME ValidatorAssumption ==
    /\ MaxPolicies \in Nat
    /\ MaxWorkers \in Nat \ {0}
    /\ Sinks \in Nat
    /\ WriteCompliance \in BOOLEAN
    /\ Nil \in Configs

\* The violation objects of an answer are a list.
ASSUME RegoAssumption ==
    \A policy \in Pool, c \in Configs :
        LET occurrences == Occurrences(policy, c)
        IN Len(occurrences) \in Nat /\ DOMAIN occurrences = 1..Len(occurrences)

VARIABLES
    mutate,      \* OpaValidator.mutate: this validator mutates
    entity,      \* the argument of the call
    policies,    \* what GetAll returned
    config,      \* what GetPolicyConfig returned
    pc,          \* where the caller is
    next,        \* the position of the range loop the caller is in; each of the
                 \* three (spawn, mutate, write) starts at its own first element
    worker,      \* what the worker of each policy is doing
    bound,       \* tokens in the semaphore channel
    enqueue,     \* the counter of enqueueGroup
    sent,        \* per channel: the results sent so far
    received,    \* per channel: how many its collector took
    closed,      \* the three channels are closed
    collector,   \* what each collector is doing (dequeueGroup counts them)
    doc,         \* the mutated document (MutationResult.node)
    labelled,    \* the document has the label of a mutated one
    unmutated,   \* the violations the mutation loop kept
    written,     \* per sink: the results handed to it, in order
    panicked     \* a goroutine sent on a closed channel

vars == <<mutate, entity, policies, config, pc, next, worker, bound, enqueue, sent,
          received, closed, collector, doc, labelled, unmutated, written, panicked>>

Channels == {"violation", "compliance", "error"}

CallerStates == {"getAll", "getConfig", "spawn", "collect", "wait", "drain",
                 "check", "mutate", "write", "ok", "error"}

WorkerStates == {"idle", "eval", "release", "finish", "done"}

VerdictOf(i) == Verdict(policies[i], entity, config)

\* Plausible bug: the result channels have the size of the semaphore.
ChanCap_Small == MaxWorkers

\* make(chan domain.PolicyValidation, len(policies)), for each channel
ChanCap == Len(policies)

\* The slices of the collectors.
Collected(k) == SubSeq(sent[k], 1, received[k])

\* Plausible bug: the mutating validator reports what it has repaired, too.
Violations_AsFound == Collected("violation")

\* What the summary reports and writeToSinks hands to the sinks.
Violations == IF mutate THEN unmutated ELSE Collected("violation")

Compliances == Collected("compliance")
-----------------------------------------------------------------------------
Init ==
    /\ mutate \in BOOLEAN
    /\ entity \in Entities
    /\ policies = << >>
    /\ config = Nil
    /\ pc = "getAll"
    /\ next = 1
    /\ worker = << >>
    /\ bound = 0
    /\ enqueue = 0
    /\ sent = [k \in Channels |-> << >>]
    /\ received = [k \in Channels |-> 0]
    /\ closed = FALSE
    /\ collector = [k \in Channels |-> "idle"]
    /\ doc = Manifest
    /\ labelled = FALSE
    /\ unmutated = << >>
    /\ written = [s \in 1..Sinks |-> << >>]
    /\ panicked = FALSE

workerVars == <<worker, bound, enqueue>>
channelVars == <<sent, received, closed, collector, panicked>>
resultVars == <<doc, labelled, unmutated, written>>
inputVars == <<mutate, entity, policies, config>>

(***************************************************************************)
(* The caller.                                                             *)
(***************************************************************************)
GetAll ==
    /\ pc = "getAll"
    /\ \/ /\ policies' \in UNION {[1..n -> Pool] : n \in 0..MaxPolicies}
          /\ worker' = [i \in DOMAIN policies' |-> "idle"]
          /\ pc' = "getConfig"
       \/ /\ pc' = "error"
          /\ UNCHANGED <<policies, worker>>
    /\ UNCHANGED <<mutate, entity, config, next, bound, enqueue, channelVars, resultVars>>

GetPolicyConfig ==
    /\ pc = "getConfig"
    /\ \/ config' \in Configs /\ pc' = "spawn"
       \/ pc' = "error" /\ UNCHANGED config
    /\ UNCHANGED <<mutate, entity, policies, next, workerVars, channelVars, resultVars>>

\* Plausible bug: the semaphore is forgotten.
Spawn_Unbounded ==
    /\ pc = "spawn"
    /\ next <= Len(policies)
    /\ bound' = bound + 1
    /\ enqueue' = enqueue + 1
    /\ worker' = [worker EXCEPT ![next] = "eval"]
    /\ next' = next + 1
    /\ UNCHANGED <<inputVars, pc, channelVars, resultVars>>

\* Plausible bug: a worker is started without a token, and releases one.
Spawn_NoAcquire ==
    /\ pc = "spawn"
    /\ next <= Len(policies)
    /\ enqueue' = enqueue + 1
    /\ worker' = [worker EXCEPT ![next] = "eval"]
    /\ next' = next + 1
    /\ UNCHANGED <<inputVars, pc, bound, channelVars, resultVars>>

\* bound <- struct{}{} blocks while the semaphore is full.
Spawn ==
    /\ pc = "spawn"
    /\ next <= Len(policies)
    /\ bound < MaxWorkers
    /\ bound' = bound + 1
    /\ enqueue' = enqueue + 1
    /\ worker' = [worker EXCEPT ![next] = "eval"]
    /\ next' = next + 1
    /\ UNCHANGED <<inputVars, pc, channelVars, resultVars>>

SpawnDone ==
    /\ pc = "spawn"
    /\ next > Len(policies)
    /\ pc' = "collect"
    /\ UNCHANGED <<inputVars, next, workerVars, channelVars, resultVars>>

\* The three `go` statements; a collector's first step is its own.
StartCollectors ==
    /\ pc = "collect"
    /\ collector' = [k \in Channels |-> "run"]
    /\ pc' = "wait"
    /\ UNCHANGED <<inputVars, next, workerVars, sent, received, closed, panicked,
                   resultVars>>

\* Plausible bug: enqueueGroup.Wait() is missing.
WorkersFinished_NoWait == TRUE

\* enqueueGroup.Wait() returns
WorkersFinished == enqueue = 0

CloseChannels ==
    /\ pc = "wait"
    /\ WorkersFinished
    /\ closed' = TRUE
    /\ pc' = "drain"
    /\ UNCHANGED <<inputVars, next, workerVars, sent, received, collector, panicked,
                   resultVars>>

\* Plausible bug: only the collector of the errors is waited for.
CollectorsFinished_ErrorsOnly == collector["error"] = "done"

\* dequeueGroup.Wait() returns
CollectorsFinished == \A k \in Channels : collector[k] = "done"

DrainDone ==
    /\ pc = "drain"
    /\ CollectorsFinished
    /\ pc' = "check"
    /\ UNCHANGED <<inputVars, next, workerVars, channelVars, resultVars>>

\* Plausible bug: policies that could not be evaluated are passed over.
HasErrors_Ignored == FALSE

\* if errs != nil { return nil, ... }
HasErrors == Collected("error") # << >>

\* NewMutationResult, in mutate mode, may fail.
Check ==
    /\ pc = "check"
    /\ next' = 1
    /\ \/ HasErrors /\ pc' = "error"
       \/ ~HasErrors /\ mutate /\ pc' \in {"mutate", "error"}
       \/ ~HasErrors /\ ~mutate /\ pc' = "write"
    /\ UNCHANGED <<inputVars, workerVars, channelVars, resultVars>>

\* Plausible bug: the loop stops looking at a violation's own Mutate flag.
MutateViolation_Any ==
    /\ pc = "mutate"
    /\ next <= Len(Collected("violation"))
    /\ next' = next + 1
    /\ LET i == Collected("violation")[next]
           occurrences == Occurrences(policies[i], config)
       IN /\ doc' = Mutate(doc, occurrences)
          /\ labelled' = (labelled \/ SetsLabel(occurrences))
          /\ unmutated' = IF UnmutatedOccurrences(occurrences) = {}
                          THEN unmutated ELSE Append(unmutated, i)
    /\ UNCHANGED <<inputVars, pc, workerVars, channelVars, written>>

\* One turn of the loop over violations: next is the position in the slice.
MutateViolation ==
    /\ pc = "mutate"
    /\ next <= Len(Collected("violation"))
    /\ next' = next + 1
    /\ LET i == Collected("violation")[next]
           occurrences == Occurrences(policies[i], config)
       IN IF policies[i].mutate
          THEN /\ doc' = Mutate(doc, occurrences)
               /\ labelled' = (labelled \/ SetsLabel(occurrences))
               /\ unmutated' = IF UnmutatedOccurrences(occurrences) = {}
                               THEN unmutated ELSE Append(unmutated, i)
          ELSE UNCHANGED <<doc, labelled, unmutated>>
    /\ UNCHANGED <<inputVars, pc, workerVars, channelVars, written>>

MutateDone ==
    /\ pc = "mutate"
    /\ next > Len(Collected("violation"))
    /\ next' = 1
    /\ pc' = "write"
    /\ UNCHANGED <<inputVars, workerVars, channelVars, resultVars>>

\* One turn of writeToSinks: next is the position in resultsSinks.  A write
\* of no results is skipped; the error Write returns is not looked at.
WriteToSink ==
    /\ pc = "write"
    /\ next <= Sinks
    /\ next' = next + 1
    /\ written' = [written EXCEPT ![next] =
                      @ \o Violations \o (IF WriteCompliance THEN Compliances ELSE << >>)]
    /\ UNCHANGED <<inputVars, pc, workerVars, channelVars, doc, labelled, unmutated>>

ReturnSummary ==
    /\ pc = "write"
    /\ next > Sinks
    /\ pc' = "ok"
    /\ UNCHANGED <<inputVars, next, workerVars, channelVars, resultVars>>
-----------------------------------------------------------------------------
(***************************************************************************)
(* The worker of policy i.  A send blocks while the channel is full, and   *)
(* panics once it is closed.                                               *)
(***************************************************************************)
Evaluate(i) ==
    /\ worker[i] = "eval"
    /\ worker' = [worker EXCEPT ![i] = "release"]
    /\ IF VerdictOf(i) = "none"
       THEN UNCHANGED <<sent, panicked>>
       ELSE IF closed
       THEN panicked' = TRUE /\ UNCHANGED sent
       ELSE /\ Len(sent[VerdictOf(i)]) - received[VerdictOf(i)] < ChanCap
            /\ sent' = [sent EXCEPT ![VerdictOf(i)] = Append(@, i)]
            /\ UNCHANGED panicked
    /\ UNCHANGED <<inputVars, pc, next, bound, enqueue, received, closed, collector,
                   resultVars>>

\* Plausible bug: the token is kept on the early returns.
Release_Forgotten(i) ==
    /\ worker[i] = "release"
    /\ worker' = [worker EXCEPT ![i] = "finish"]
    /\ bound' = IF VerdictOf(i) = "none" THEN bound ELSE bound - 1
    /\ UNCHANGED <<inputVars, pc, next, enqueue, channelVars, resultVars>>

\* The deferred function: <-bound, then enqueueGroup.Done().
Release(i) ==
    /\ worker[i] = "release"
    /\ worker' = [worker EXCEPT ![i] = "finish"]
    /\ bound' = bound - 1
    /\ UNCHANGED <<inputVars, pc, next, enqueue, channelVars, resultVars>>

Finish(i) ==
    /\ worker[i] = "finish"
    /\ worker' = [worker EXCEPT ![i] = "done"]
    /\ enqueue' = enqueue - 1
    /\ UNCHANGED <<inputVars, pc, next, bound, channelVars, resultVars>>

(***************************************************************************)
(* The collector of channel k: a range loop, which ends when the channel   *)
(* is closed and empty.                                                    *)
(***************************************************************************)
Receive(k) ==
    /\ collector[k] = "run"
    /\ received[k] < Len(sent[k])
    /\ received' = [received EXCEPT ![k] = @ + 1]
    /\ UNCHANGED <<inputVars, pc, next, workerVars, sent, closed, collector, panicked,
                   resultVars>>

CollectorDone(k) ==
    /\ collector[k] = "run"
    /\ closed
    /\ received[k] = Len(sent[k])
    /\ collector' = [collector EXCEPT ![k] = "done"]
    /\ UNCHANGED <<inputVars, pc, next, workerVars, sent, received, closed, panicked,
                   resultVars>>
-----------------------------------------------------------------------------
Caller ==
    \/ GetAll \/ GetPolicyConfig
    \/ Spawn \/ SpawnDone \/ StartCollectors
    \/ CloseChannels \/ DrainDone
    \/ Check \/ MutateViolation \/ MutateDone
    \/ WriteToSink \/ ReturnSummary

Worker(i) == Evaluate(i) \/ Release(i) \/ Finish(i)

Collector(k) == Receive(k) \/ CollectorDone(k)

\* The call has returned: nothing more happens in it.
Returned == pc \in {"ok", "error"}

Terminating == Returned /\ UNCHANGED vars

Next ==
    \/ Caller
    \/ \E i \in DOMAIN worker : Worker(i)
    \/ \E k \in Channels : Collector(k)
    \/ Terminating

\* Go's scheduler runs every goroutine that can run.
Fairness ==
    /\ WF_vars(Caller)
    /\ \A i \in 1..MaxPolicies : WF_vars(i \in DOMAIN worker /\ Worker(i))
    /\ \A k \in Channels : WF_vars(Collector(k))

Spec == Init /\ [][Next]_vars

FairSpec == Spec /\ Fairness
-----------------------------------------------------------------------------
Running == {i \in DOMAIN worker : worker[i] \in {"eval", "release"}}

With(verdict) == {i \in DOMAIN policies : VerdictOf(i) = verdict}

\* The sequence lists the set, each member once.
Enumerates(seq, set) ==
    /\ {seq[j] : j \in DOMAIN seq} = set
    /\ \A j, l \in DOMAIN seq : seq[j] = seq[l] => j = l

TypeOK ==
    /\ mutate \in BOOLEAN
    /\ entity \in Entities
    /\ policies \in Seq(Pool)
    /\ config \in Configs
    /\ pc \in CallerStates
    /\ next \in Nat \ {0}
    /\ worker \in [DOMAIN policies -> WorkerStates]
    /\ bound \in Nat
    /\ enqueue \in Nat
    /\ sent \in [Channels -> Seq(DOMAIN policies)]
    /\ received \in [Channels -> Nat]
    /\ closed \in BOOLEAN
    /\ collector \in [Channels -> {"idle", "run", "done"}]
    /\ labelled \in BOOLEAN
    /\ unmutated \in Seq(DOMAIN policies)
    /\ written \in [1..Sinks -> Seq(DOMAIN policies)]
    /\ panicked \in BOOLEAN

(***************************************************************************)
(* No worker sends on a channel that the caller has closed: a Go panic     *)
(* there would take the whole agent down.                                  *)
(***************************************************************************)
NoPanic == ~panicked

(***************************************************************************)
(* A worker that has a result finds room in its channel, although nobody   *)
(* receives before the caller has started the last worker.  This is what   *)
(* the buffers of len(policies) are for: a worker that blocked would keep  *)
(* its semaphore token and the spawn loop would never end.                 *)
(***************************************************************************)
SendNeverBlocks ==
    \A i \in DOMAIN worker :
        worker[i] = "eval" /\ VerdictOf(i) # "none" =>
            Len(sent[VerdictOf(i)]) - received[VerdictOf(i)] < ChanCap

\* At most maxWorkers policies are evaluated at the same time.
WorkerLimit == Cardinality(Running) <= MaxWorkers

(***************************************************************************)
(* From the moment the caller looks at the collected results, they are all *)
(* there: each policy's result in the slice of its verdict, once.  After   *)
(* the check of the errors no policy has failed to evaluate.               *)
(***************************************************************************)
ResultComplete ==
    /\ pc \in {"check", "mutate", "write", "ok"} =>
          \A k \in Channels : Enumerates(Collected(k), With(k))
    /\ pc \in {"mutate", "write", "ok"} => With("error") = {}

\* The mutation loop could not repair the violation, or not all of it.
Unrepaired(i) ==
    /\ policies[i].mutate
    /\ UnmutatedOccurrences(Occurrences(policies[i], config)) # {}

\* What the verdicts of the policies owe to every sink.
Owed == {i \in With("violation") : mutate => Unrepaired(i)}
            \cup (IF WriteCompliance THEN With("compliance") ELSE {})

(***************************************************************************)
(* At any time, a sink has been handed nothing or each result owed once:   *)
(* every violation (of a mutating validator, those of mutating policies    *)
(* that are not repaired) and, if it is to write them, every compliance,   *)
(* in whatever order the goroutines came.  If the call succeeds every sink *)
(* has them; if it fails, or one of the policies could not be evaluated,   *)
(* none has anything.                                                      *)
(***************************************************************************)
SinksServed ==
    \A s \in 1..Sinks :
        /\ written[s] # << >> \/ pc = "ok" => Enumerates(written[s], Owed)
        /\ pc = "error" \/ With("error") # {} => written[s] = << >>

\* The occurrences of the violation of policy i that name the path k.
RecommendedBy(i, k) ==
    LET os == Occurrences(policies[i], config) IN
    {os[o] : o \in {o \in DOMAIN os : os[o].key = k}}

\* The occurrences for the path k that the loop over these violations applies.
Recommended(violations, k) ==
    UNION {RecommendedBy(i, k) : i \in {j \in violations : policies[j].mutate}}

(***************************************************************************)
(* What a path may hold that held `original` before these occurrences.     *)
(***************************************************************************)
Outcomes(original, occurrences) ==
    LET applied == {o.value : o \in {r \in occurrences : Mutable(r)}} IN
    IF applied # {} THEN applied
    ELSE IF original = Nil /\ \E o \in occurrences : LookedUp(o) THEN {EmptyMap}
    ELSE {original}

(***************************************************************************)
(* The mutated document, whatever order the results arrived in: a path     *)
(* that some violated, mutating policy recommends a value for has one of   *)
(* the values recommended, every other path is as it was (or an empty map, *)
(* where LookupCreate made one), and the document is labelled as mutated   *)
(* exactly if a value was applied.  Outside mutate mode nothing changes.   *)
(***************************************************************************)
MutationOutcome ==
    LET occurrences(k) == IF mutate THEN Recommended(With("violation"), k) ELSE {} IN
    pc \in {"write", "ok"} =>
        /\ \A k \in DOMAIN Manifest : doc[k] \in Outcomes(Manifest[k], occurrences(k))
        /\ labelled <=> \E k \in Lookup : \E o \in occurrences(k) : Mutable(o)

(***************************************************************************)
(* Every call returns: the semaphore, the channels and the wait groups     *)
(* never leave the caller, the workers and the collectors waiting on each  *)
(* other.                                                                  *)
(***************************************************************************)
Termination == <>Returned

(***************************************************************************)
(* The concurrent call implements the abstract one.  It decides when it    *)
(* enters writeToSinks.                                                    *)
(***************************************************************************)
Decided == pc \in {"write", "ok"}

ToSet(seq) == {seq[j] : j \in DOMAIN seq}

Abstract == INSTANCE ValidatorSpec WITH
    status    <- IF pc = "write" THEN "decided" ELSE IF Returned THEN pc ELSE "pending",
    violating <- IF Decided THEN ToSet(Violations) ELSE {},
    compliant <- IF Decided THEN ToSet(Compliances) ELSE {},
    delivered <- [s \in 1..Sinks |-> ToSet(written[s])]

\* Validate implements its abstract specification (ValidatorSpec).
ImplementsSpec == Abstract!AbstractSpec
=============================================================================
