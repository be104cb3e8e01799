# A TLA+ verification of policy-agent

The Weave policy agent validates Kubernetes objects (and Terraform plans)
against policies written in Rego. It validates when an object is created or
changed (admission webhooks) and periodically (audit), and hands the results to
sinks. This directory holds TLA+ models of the agent, TLC configurations that
check them on small instances, and TLAPS proofs of the properties that hold for
every instance.

`PROJECT.json` gives, for each definition, the source lines it models, and lists
runs, mutants, findings, hazards and theorems.

    tlc -workers 2 -config Validator.cfg MCValidator    # one run
    tlapm ValidatorProofs.tla                            # one module of proofs

## 1. Inventory

| Component | State | Operations | Interacts with |
|---|---|---|---|
| OPA validator (`pkg/policy-core/validation`) | per call: semaphore, three channels, two wait groups, three slices | `Validate` | policies source, Rego, sinks (`Write`) |
| Rego evaluation (`pkg/opa-core`) | none | `Parse`, `EvalGateKeeperCompliant`, `Eval` | OPA library |
| Mutation (`pkg/policy-core/domain/mutation.go`) | the YAML node of one object | `NewMutationResult`, `Mutate` | validator |
| Policies source (`internal/policies`) | none of its own: reads the manager's informer cache | `GetAll`, `GetPolicyConfig` | API server through the cache |
| PolicyConfig webhook (`controllers`, `api/v2beta3`) | none of its own | `Handle`, `Validate`, `CheckTargetOverlap` | API server, cache |
| PolicyConfig status controller (`controllers`) | work queue (controller-runtime) | `Reconcile`, `reconcile`, index function | API server, two caches |
| Admission, mutation, Terraform handlers (`internal/admission`, `mutation`, `terraform`) | per request | `Handle`, `ServeHTTP` | API server, one validator each |
| Auditor (`internal/auditor`) | event channel, ticker, position in the sources | `Start`, `Audit`, `doAudit` | entity sources, validator |
| Entity sources (`internal/entities/k8s`) | continue tokens | `List`, `GetEntitiesSources` | API server |
| Channel sinks (`internal/sink/filesystem`, `k8s-event`, `flux-notification`) | result channel, worker, open file | `Write`, `Start`, `Stop` | validators; file, API server, Flux |
| Elasticsearch sink (`internal/sink/elastic`) | result channel, batch, ticker | `Write`, `Start`, `writeBatch` | validators; Elasticsearch |
| Event codec (`pkg/policy-core/domain/policy_validation.go`) | none | policy validation <-> Kubernetes event | sinks |
| Startup and shutdown (`main.go`) | the manager | creation order, deferred `Stop`, first audit | everything |
| Configuration (`configuration`) | `Config`, read once | `GetAgentConfiguration`, `getField` | viper: file, environment, defaults |
| Kubernetes client (`internal/clients`), logging, UUIDs | none | wrapping | – |

How they interact. `main` builds the sinks, then the validators (one per use:
audit, admission, mutation, Terraform; each with its own sinks), then registers
webhooks and controllers with a controller-runtime manager, asks the auditor for
a first audit and starts the manager. A handler or the auditor calls
`Validate`, which reads policies and configuration from the cache, evaluates
every policy in a goroutine of its own, and calls `Write` of every sink before it
returns. `Write` puts results on the sink's channel and waits for room, so a slow
sink slows validation down.

What is hard to get right, and what makes each part correct:

* **Validator** – a semaphore, buffered channels, and collectors that start only
  after the last worker has: a full channel would block the spawn loop for ever; a channel
  closed too early is a panic of the whole agent; slices read too early lose
  results. Correct: every policy's result is counted exactly once, failed calls
  leave no trace in the sinks, calls return, mutation does not depend on luck
  beyond the choice between two recommended values.
* **PolicyConfig** – the webhook compares with a cache that lags behind the
  store; resolution goes through six priorities in the order of a Go map, and asks
  for the entity's Flux owner anew, from another Go map, for each config.
  Correct: configs do not overlap, one priority has one config where the owner is
  one, resolution does not depend on list order.
* **Status controller** – two caches that move independently, patches computed
  from stale copies, retries, an event handler whose list may fail. Correct: no
  wake-up is lost unless that list fails, the status converges.
* **Sinks** – bounded channels, failing deliveries, a shutdown that races with
  workers and writers. Correct: in order, at most once, everything accounted
  for, what is written is true of the result, writers not stuck while the agent
  runs.
* **Elasticsearch sink** – lost answers and retries, three competing cases of a
  select. Correct: no duplicates, nothing older over something newer, partial
  batches are written, also at shutdown.
* **Auditor** – objects change between pages, lists fail, requests, ticks and
  the shutdown compete; what is listed follows from the agent's permissions.
  Correct: whatever was there all along is validated, once.
* **Handlers** – policies change between webhooks, webhooks time out. Correct:
  nothing that violates an enforced policy, as the handler read it, goes in; the
  mutation puts in recommended values only, and labels the object if it did.
* **The process** – sinks are stopped by `defer`s set up before they can have
  been started, some errors end the process without them, the manager serves
  webhooks before the sinks work and after they have ended, and any sink may
  hang. Correct: what was started is stopped, the exit status is true, a hanging
  sink holds up its own mode only, a shutdown ends unless a file hangs in `Stop`; what
  runs is what the file and the environment say.

The list of hazards, each at its line, is in `PROJECT.json`.

## 2. Modules

| Module | Models | Uses |
|---|---|---|
| `PolicyEval` | one policy on one entity: filters, parameters, reading of the Rego answer, occurrences, `Mutate` | – |
| `Validator` | one call of `Validate` with its goroutines | `PolicyEval`, `ValidatorSpec` (refinement) |
| `ValidatorSpec` | what `Validate` promises: decide in one step, hand the decision to each sink once | `PolicyEval` |
| `ValidatorProofs` | proofs about `Validator` | `Validator`, TLAPS |
| `PolicyConfig` | overlap check, tiers, resolution (operators) | `FluxObject` |
| `PolicyConfigWebhook` | admission of configs between store and cache | `PolicyConfig` |
| `PolicyConfigProofs` | proofs about the webhook | `PolicyConfigWebhook`, TLAPS |
| `PolicyConfigStatus` | `Reconcile` between two caches, queue and API server | – |
| `PolicyConfigStatusProofs` | proofs about the status controller | `PolicyConfigStatus`, TLAPS |
| `FluxObject` | `GetFluxObject` (operators) | – |
| `EventCodec` | a policy validation as Kubernetes event, back, and as JSON (operators) | `FluxObject` |
| `ChannelSink` | the three sinks with a worker, what they deliver, and their life in `main.go` | `EventCodec`, `SinkSpec` (refinement) |
| `ElasticSink` | batching and bulk requests | `SinkSpec` (refinement) |
| `ChannelSinkProofs`, `ElasticSinkProofs` | proofs about the sinks, with their implementation of `SinkSpec` | the module of that name, TLAPS |
| `SinkSpec` | what any sink promises to validators and main: bounded channel, one worker, nothing taken is left behind when it ends | – |
| `Configuration` | file, environment and defaults to the agent's configuration (operators) | – |
| `Agent` | the process from `app.Before` to its exit, with manager, callers and sinks | `Configuration`, `SinkSpec` |
| `AgentProofs` | proofs about the process | `Agent`, TLAPS |
| `EntitySources` | `getValidateRules`, `GetEntitiesSources`: RBAC rules and API resources to sources (operators) | – |
| `Auditor` | `Start`, `doAudit` and `List` over a changing cluster | `EntitySources` |
| `AuditorProofs` | proofs about the auditor and its sources | `Auditor`, TLAPS |
| `Admission` | the three handlers on changing policies | `PolicyEval` |
| `AdmissionProofs` | proofs about the handlers | `Admission`, TLAPS |
| `MC*` | instances for TLC | the module of that name |

### State and actions against the code

**Validator.** `pc` is the caller's position; `worker[i]` that of the goroutine of
policy `i`; `bound` the tokens in the semaphore channel, `enqueue` the counter of
`enqueueGroup`. A channel is kept with its history: `sent[k]` is everything ever
sent, `received[k]` how much its collector took, so the channel's content is the rest
and the collector's slice the prefix. A result is the index of its policy.
`Spawn` is a turn of the spawn loop, `Evaluate` the body of a worker up to and
with its send, `Release` and `Finish` the two halves of its deferred function,
`CloseChannels`/`DrainDone` the two waits, `MutateViolation` and `WriteToSink`
single turns of the last loops; `next` is the position of the loop that is running, and
each loop starts at 1, as a `range` loop of Go does. `mutate` tells the mutating validator from the
others; it is chosen at the start and does not change. Whatever the Rego engine answers is data: a
policy carries a function from parameters to answers.

**PolicyConfigWebhook.** Store and cache are one history of sets of configs: the
store is its last element, the cache an earlier one. A write is submitted,
reviewed (`Handle`) and later committed; deletions are not reviewed.
`SerialWrites` says whether users wait for a write to reach the cache. Resolution
(`GetPolicyConfig` of `PolicyConfig`) takes, for each position of the list, what
`GetFluxObject` says in that turn: any of the owners that the entity's labels name.

**PolicyConfigStatus.** `seenPolicies` and `seenConfigs` are the caches;
`newPolicies`, `newConfigs` what they have not taken in yet (a cache may take
several changes of an object at once). `GetConfig`, `GetPolicy`, `PatchStatus` are the
steps of a reconciliation; the merge patch holds only the fields that differ
from the copy that was read. Each request of a reconciliation may fail
(`GetConfigFails`, `RequestFails`), upon which the queue tries again. When a policy
changes, `reconcile` lists the configs that name it (`Indexed`) and enqueues them
(`SyncPolicy`); when this list fails (`SyncPolicyFails`) it enqueues none, and nobody
tries again. `lost` remembers for which configs that has happened since they were last
reconciled; only the properties look at it. `Resync` is the informer's own, every ten hours.

**ChannelSink.** `accepted` is everything ever sent to the channel, the first
`taken` of it received; `kind` says which of the three sinks it is. What the
sinks differ in are `Discards`, `CanFail`, `CanDeliver`, `Outputs`, `Sync` and `WorkerStops`. `output` is what was handed over for
each delivered result: a line of the file, an event, or a notification.
`main` follows main.go: initialisation, the running manager, the shutdown with
its grace period, the deferred `Stop`.

**ElasticSink.** `batch` is the slice, `index` (external) a function from document
ids to results. A failed request may have been carried out; a successful one may
have refused documents.

**Agent.** `case` is the file, the environment and the sinks that hang; `todo` the
parts of `app.Action` still to come, one per enabled mode, sink, and handler, as
positions in `Steps` (`Part` is the next one, `Later` are those after it); `StopHangs` says that
the next deferred `Stop` is one of a file system sink whose file hangs;
`defers` the deferred `Stop`s, `made` the sinks given to the manager, `validators` the
sinks behind each webhook and the audit. `main` goes from "before" (`app.Before`)
through "init", "running" (in `mgr.Start`), "draining" (its stop procedure) and
"returning" (deferred calls) to "exited", or is cut short by `os.Exit`,
`logger.Fatal` or a crash; `exit` says how. A sink is abstract: `sent`, `taken`,
`handled` and `worker` are those of `SinkSpec`, with `sent` naming the callers.
`call[c]` is a request or the auditor inside `Validate`: `WriteNext` is one send of
`writeToSinks`, `Rewritten` the assignment of terraform.go:67, `Race` the end of
the process when the runtime notices it beside a worker that encodes the manifest.
The manager's own steps are external and follow controller-runtime 0.14: webhooks first
up and last down, a grace period of 30 seconds.

**Configuration.** `Lookup` is `viper.Get`; `Unmarshalled` is `viper.Unmarshal`, which only
sees keys of the file and the defaults; `getField` reads again what may be in the
environment alone. Viper takes an empty variable for one that is not set, so no identity
text of an instance's environment is empty (`AgentAssumption`); a text in the file may be.

**SinkSpec, composed.** `ChannelSink` and `ElasticSink`, each with its own delivery,
implement `SinkSpec` (`ImplementsSink`); `Agent` does nothing to its sinks, and relies
on nothing of them, that `SinkSpec` does not have (`SinksUsed`).

**Auditor.** The sources are a value, computed once as in main.go (`entitiesSources`):
the API resources, in the order of discovery, that some rule allows (`IsSource`), each with
the names of the first rule that does (`Allowing`; `Ascending` is a loop that passes
over some members of a list).
`keySet` stands for a continue token: the objects the API server has
still to list. `steady` remembers which objects were there all through the audit.

**Admission.** One request, followed through the mutation webhook and the
admission webhook, or through the Terraform webhook; `readings` remembers the policies
each handler decided on; `settings` is the configuration of the webhooks.
`Validate` is used by its contract. A document is a function on a fixed universe of paths,
Nil where there is nothing; `MutatedLabel` is one of them, which `MutateAndLabel` sets and
`Labels` shows to the label filters of the admission handler.

## 3. Runs

| Run | Instance | Shows |
|---|---|---|
| `validator` | with and without mutation, <= 3 policies of 6 kinds, 2 workers, 2 sinks | `NoPanic`, `SendNeverBlocks`, `WorkerLimit`, `ResultComplete`, `SinksServed`, `MutationOutcome`; `ImplementsSpec`; `Termination` |
| `webhook_serial` | 10 candidate configs, entities with no, one and two Flux owners, 4 writes, users wait | `NoOverlap`, `OnePerTier`, `Deterministic` |
| `webhook_concurrent` | the same, 3 writes, users do not wait | **violation** of `NoOverlap` |
| `status` | 2 configs, 2 policies, 3 changes, 1 failure | `QuietAccurate`; `StatusConverges` |
| `status_watch` | 1 config, 1 policy, 2 changes, 1 failure | **violation** of `NoWakeupLost` |
| `sinks` | 3 kinds of sink, 2 writers, channel of 1, 4 results | `Delivery` (`InOrder`, `Accounted`), `OutputTellsResult`; `Progress` (`WritersGetThrough`, `ResultsAreHandled`); `ImplementsSink` |
| `sink_file_stop` | file system sink | **violation** of `StopCommitsAll` |
| `elastic` | both modes, channel 2, batch 2, 2 attempts, 3 results | `BatchOK`, `Indexed` (`Stored`, `NoDuplicates`); `EventuallyFlushed`, `StopsOnShutdown`; `ImplementsSink` |
| `agent` | 14 configurations with up to 2 sinks, 2 requests, 2 audited entities, channel 1, batch 2 | `NoSinkLeftOpen`, `ExitTells` (`OkMeansQuiet`, `PanicOnlyEarly`, `CrashOnlyTerraform`), `AsConfigured` (`ElasticAddressed`, `IdentityKnown`); `SinksUsed` (with `OwnSinks`); `ModesIsolated`, `ExitsAfterShutdown` |
| `auditor` | 4 rules, 5 API resources, hence 2 sources (one by name); pages of 1, 3 objects each, 1 change | `Exact` (`Covered`, `OnceEach`), `AuditsAllReadable`; `AuditsProceed` (`AuditEnds`, `RequestsServed`), `StopsOnShutdown` |
| `auditor_rules` | a rule for one name before the rule for all | **violation** of `AuditsAllReadable` |
| `admission` | 6 policies (one leaves labelled objects alone), 2 paths and the label, 2 namespaces, 2 changes, all settings | `EnforcedHolds`, `DeniedForCause`, `MutationFootprint` |

Each module with variables has one type invariant `TypeOK`: a property of its run, or
part of one (`Delivery`, `BatchOK`), and for `PolicyConfigWebhook` part of the inductive
invariant that is proved. Every property has a mutant in `PROJECT.json`: a plausible bug in a definition
(the operators `X_Something` next to `X`) under which TLC finds it violated.

**Why the bounds are enough.** Three policies with two workers are the fewest
where the spawn loop waits for a token while results are in channels smaller
than the number of policies would need; the pool reaches every verdict, every
early return and two policies that want different values for
one path, a value that cannot be encoded, and an occurrence without a path. Four
writes let a config be created, changed and deleted and another take its target; the
candidates cover all six priorities, and apps of both kinds, which one entity belongs to. Three
changes let a config appear, a policy
appear and vanish while a reconciliation is under way. A channel of one with two writers makes
writers wait; four results leave some in the channel when the worker stops.
Three results with batches of two leave a partial batch next to a full one, and
two keys let one batch hold two documents of one id. Pages of one object over
three objects make lists of several pages, with pages that are empty after the
agent's own namespace is left out. The configurations of `agent` have every mode, every
kind of sink, sinks that hang in each mode beside sinks that do not, and each mistake the
code looks for; with a channel of one, two requests and two audited entities a
caller blocks behind a full channel, a worker ends with results left, and a plan
is rewritten while a worker has it. Two policy changes fit between the readings of
the mutation and the admission handler.

**Deadlock** is checked for `Validator` and `ChannelSink`, where a goroutine waiting
for ever is a defect; finished calls and exited processes stutter explicitly. The
other systems may stop: users and the cluster may leave them alone, bounds are
used up, and a request, a sink or the process ends.

**Fairness.** Weak fairness of a goroutine's steps is Go's scheduler: a goroutine
that can run does. Strong fairness of a case of a select is Go's random choice
among ready cases, so no case is passed over for ever. Strong fairness of
a send to a bounded channel is the first-in-first-out queue of blocked senders.
Tickers fire again and again. In `agent` the caches fill or fail, the grace period
ends, and sinks that are not among the hanging ones get rid of what they hold; a deferred `Stop`
returns, but for that of a file system sink whose file hangs. Informers catch up with the API
server and resync, and a controller's queue hands out its names in turn. Nothing is assumed of users, of failing
requests (except that the status controller's are finitely many: a request that
fails for ever keeps a status wrong; a resync is what repairs a status whose wake-up was lost), of the shutdown or of Elasticsearch.

## 4. Findings

1. **Concurrent PolicyConfigs overlap** (`webhook_concurrent`). Two configs with
   one target reviewed before either is in the cache are both admitted. What
   the webhook does promise is proved: with serial writes configs never overlap.
2. **A wake-up that is lost** (`status_watch`). When the list that follows a change of a policy fails,
   `reconcile` answers with no requests and the error is gone: the status of the configs that
   name the policy stays wrong, although nothing is left to do, until the informer resyncs
   (ten hours) or the config changes. `QuietAccurate` says that nothing else loses one.
3. **`FileSystemSink.Stop` does not commit everything** (`sink_file_stop`),
   contrary to its comment: the worker ignores its context, results in the channel
   or written after `Sync` are not committed.
4. **Readable objects that are not audited** (`auditor_rules`). The first RBAC rule
   that allows a resource decides; when it names objects, a later rule for all of
   them is not used. docs/README.md says that everything the agent can read is audited. With
   rules in another order (`auditor`) it is.

Observed, and part of the models, though no run is about them:

* The loop over resources in `GetPolicyConfig` stops at the first entry with the entity's kind and
  name, though its namespace may be another (policyconfig.go:79): a later entry of the same config
  that does match is not reached. docs/policy_config.md:74 says that a config lists "one or more
  resources"; the loop over apps goes on.
* An object with the labels of a HelmRelease and of a Kustomization belongs, for the agent, to the
  one that a range over a Go map meets first, drawn anew for each config (policyconfig.go:56). Two
  configs may then apply with one priority, or neither of them; `OnePerTier` says that nothing else
  can lead to that.

Observed, and part of what `agent` checks, though no document says otherwise:

* main.go defers `Stop` when a sink is made. If a later step of the initialisation
  fails, or the caches do, `cancelWorker` is nil and the agent panics in place of reporting
  the error. `PanicOnlyEarly`: it happens at no other time.
* With a file system sink every shutdown takes the whole grace period and ends with
  an error (`OkMeansQuiet`), for its worker never looks at its context.
* A Terraform plan with a `status` that violates a policy may crash the agent if Terraform
  results go to a sink (`CrashOnlyTerraform`); without the crash, a sink that encodes
  later delivers the plan without its status.
* Address and credentials of Terraform's Elasticsearch sink are not read from the
  environment unless the file has the keys too; a password of digits only becomes empty
  (`ElasticAddressed`). An account or cluster id that only the environment has, or that the
  file has as an empty text, is accepted, and then empty (`IdentityKnown`).
* `FileSystemSink.Stop` waits in `Sync` and `Close` for a file that hangs, and main with it: the grace
  period is over by then, and only a second signal ends the process (`ExitsAfterShutdown`,
  which excepts this and nothing else).
* A second SIGTERM during the grace period ends the process without any `Stop`.
* When Elasticsearch refuses to create the index with a status, `createIndexSchema`
  returns `errors.WithMessagef(nil, ...)`, which is nil (elastic.go:138, 145): the sink starts
  without its schema. (From reading; the creation of the index is not modelled.)
* `logLevel: "Info"`, the example of docs/README.md:177, is refused, and so is a
  configuration with Terraform as its only mode.

## 5. Proofs

Every safety property of a passing run, invariant or refinement, is proved for all values
of the constants that satisfy the named assumptions of its module. One theorem has further
hypotheses (`AuditReadsAll`); those about `PolicyConfigWebhook` have `SerialWrites` in
their statements, as the run has.

| Module | Theorems | Property of a run |
|---|---|---|
| `ValidatorProofs` | `TypeCorrect`, `SendsAreSafe`, `WorkersLimited`, `RoomForEveryResult`, `ResultsComplete`, `SinksAreServed` | `TypeOK`, `NoPanic`, `WorkerLimit`, `SendNeverBlocks`, `ResultComplete`, `SinksServed` |
| | `MutationCorrect`, `ValidatorRefines` | `MutationOutcome`, `ImplementsSpec` |
| `PolicyConfigProofs` | `SerialWritesNoOverlap`, `SerialWritesOnePerTier`, `SerialWritesDeterministic` | `NoOverlap`, `OnePerTier`, `Deterministic` |
| | `HighestPriorityDecides` | – |
| `PolicyConfigStatusProofs` | `StatusTypeCorrect`, `NoLostWakeup` | `TypeOK`, `QuietAccurate` |
| `ElasticSinkProofs` | `BatchCorrect`, `IndexCorrect`, `ElasticImplementsSink` | `BatchOK`, `Indexed`, `ImplementsSink` |
| `ChannelSinkProofs` | `DeliveryCorrect`, `OutputsTellTheResults`, `ChannelImplementsSink` | `Delivery`, `OutputTellsResult`, `ImplementsSink` |
| `AuditorProofs` | `AuditTypeCorrect`, `AuditExact`, `AuditReadsAll` | `TypeOK`, `Exact`, `AuditsAllReadable` |
| `AdmissionProofs` | `AdmissionTypeCorrect`, `OnlyCompliantAdmitted`, `NothingDeniedWithoutCause`, `MutationTouchesRecommended` | `TypeOK`, `EnforcedHolds`, `DeniedForCause`, `MutationFootprint` |
| `AgentProofs` | `AgentTypeCorrect`, `NoSinkIsLeftOpen`, `ExitIsTrue`, `RunsAsConfigured`, `SinksUsedAsPromised` | `TypeOK`, `NoSinkLeftOpen`, `ExitTells`, `AsConfigured`, `SinksUsed` |

Each module also has the theorem that its inductive invariant always holds
(`Invariance`, `LoopInvariance`, `WebhookInvariance`, `HistoryInvariance`,
`StatusInvariance` and so on). The proof that a step keeps the invariant has one lemma per action, or
per group of actions that leave the same state alone.

**Assumptions.** Bounds are numbers, capacities at least one, finite what is enumerated.
Beyond that: an answer of Rego is a list of violations (`RegoAssumption`, in `Validator` and `Admission`); the
documents of requests have all paths of their universe, and no key leads to the label, for
`parseKeyPath` splits it at its dots (`DocumentAssumption`); the validator's
configurations contain "none"; the sinks are handed results with one of the two statuses, lists of
tags and occurrences, and Flux objects in a namespace (`ResultAssumption`); the auditor is made
only if some rule lets the agent list something (`getValidateRules`, without it main.go
ends), discovery names a resource once, and the lists of a resource are finite (`AuditorAssumption`); no empty identity text
is in the environment (`AgentAssumption`). TLC evaluates all of them in the runs.

**The validator.** None of its properties is inductive. That no worker sends on a closed channel
depends on the wait group counting exactly the workers that have not finished, so
`IInv` says so with cardinalities (`CountInv`: `enqueue` is the number of active
workers, `bound` that of running ones). That there is room in the channel
depends on each policy having sent at most once, to the channel of its verdict
(`ChannelInv`: what was sent is injective, comes from workers past their send, and
conversely), which bounds the length of `sent[k]` by the number of policies
that have not still to send. `CallerInv` ties these to the caller's position,
`SinkInv` gives the progress of the write loop. Steps that leave the counted sets alone share
`CountsKept`.

For `MutationCorrect`, `LoopInv` follows the document through the loop over violations: before
it the document is `Untouched`, in it the document is what the violations so far
made of it (`Mutated(FirstViolations(next))`), whatever order the workers put them in.
One turn applies one policy's occurrences, a fold; its effect at a path is
proved by induction over the length of the list. `ValidatorRefines` maps the decision of
`ValidatorSpec` to the step with which the caller turns to its sinks (`Check`, or `MutateDone`
if it mutates), and its deliveries to `WriteToSink`; every other step stutters.

For `SinksAreServed`, `ResultsOwed` shows that when the caller turns to its sinks the results it
is to write are, each once, those that the verdicts on the policies owe (`Owed`): what the loops have
collected is an enumeration of it, whatever the order of the workers.

**PolicyConfigs.** With `SerialWrites` the cache can be behind the store by
deletions only while a write is
under way, so every stored config was among those the webhook compared with
(`SerialInv`); the comparison is symmetric only between configs that passed
`Validate`, hence `ValidInv`. A config applied at a tier lists the tier's
key of the entity (`TierKey`), so two at one tier overlap, unless the tier is one of
applications (3 or 4) and `GetFluxObject` gave them different owners (`SharedTier`): that is
`SerialWritesOnePerTier`. `HistoryInv` says the same of
every store that there was, since the cache is one of these. From it `HighestPriorityDecides`: whatever the order
of the list and whatever owner each turn sees, a parameter has the value of a config that sets it at
the highest tier, the only such config but for that exception. With one owner there is no
exception, so the order is irrelevant (`ListOrderIsIrrelevant`), which is `SerialWritesDeterministic`.

**Status controller.** `WakeInv` is the heart of `NoLostWakeup`: a config is awaited (in the queue, or
changed and not yet seen), or a failing list of the policy watch has lost a wake-up of it (`lost`), or it is
being reconciled, or its status agrees with the
policies *of the cache*. It is kept because a reconciliation that nobody has asked to repeat
works on the config as it is (`LookupInv`), and a cache has as it is whatever
has no change outstanding (`CacheInv`). When all is quiet the caches are exact, and
accurate for the cache is accurate.

**Elasticsearch sink.** `QueueInv`: what is flushed is a prefix of what was received, the
batch is the rest of it in order, and it is full only while it is being written. `IndexInv`
and `Stored` relate the index to that prefix, across requests that were carried out although
they seemed to fail and are sent again. In the refinement `handled` is the length of the prefix.

**Channel sinks.** `CountInv`: what was taken is delivered, dropped or in the worker's hand. With
the order in `Delivery` this gives the refinement. `OutputsTellTheResults` rests on
lemmas about the codec: what an event, a line or a notification gives back of the result it was made from.

**Auditor.** `SourceInv` says of the source in hand that objects validated, objects on the
page and objects behind the continue token are different ones, and that nothing that was there
all along slips between them; `Covered` says that earlier sources are done. `AuditReadsAll`
needs that no rule for some of the objects stands before one for more of
them (`BroadRulesFirst`) and that the group and version of an allowed resource that has objects can be parsed
(`AllowedParse`). Both hold of the rules of the run `auditor`. Those of
`auditor_rules`, the fourth finding, break only the first: the order of the rules is all that the
violation needs.

**Handlers.** The three properties are nearly inductive together; `RequestInv` adds that the
object is as submitted until the mutation webhook answers, and that a plan passes only on a reading
of the policies. The mutated document is a fold over the violated policies in any order, so what it
may change is an induction over their number; hence finite pools. The induction has both halves of
`MutationFootprint`: each path but the label holds what it held, or a recommended value, or the empty map in
place of nothing (`Explained`), and the label is set once one of the policies so far had a value to
put in. That every violated policy has its turn (`OrderFacts`: an injection between finite sets
of one size is onto) gives "if and only if".

**Process.** The invariant has types, what a worker is through with when it has ended (`WorkerInv`), how the
start of the runnables, `exit` and the position of `main` depend on each other (`PhaseInv`), which sinks
are made by then (`PartsInv`: every wanted sink is made or still to come), that a sink with a
`Stop` is among the deferred calls or the stopped sinks (`StopInv`), whose results a channel holds
(`CallInv`), and what a return without an error says of the workers and requests (`EndInv`). Steps are grouped into those of main
(`MainMoves`) and those of callers, workers and manager (`OthersMove`). `SinksUsedAsPromised` shows for each step
and each sink that it is a step of `SinkSpec` or leaves that sink alone. With
`ChannelImplementsSink` and `ElasticImplementsSink` the sinks that `Agent` assumes are those of
`internal/sink`.

**Induction.** The library's induction theorems take an operator as a parameter, which the provers here cannot
instantiate. Where a fold or a recursive function has to be followed along a list, the proof
takes a least length for which the statement fails (`NatLessThanWellFounded` and `WFMin`, or
`NatSetInduction` with a set in place of a predicate) and derives a contradiction. The models
have no `RECURSIVE` operator.

**Only model-checked** is what needs fairness, and so `ENABLED`, beyond this prover: `Termination`,
`StatusConverges`, `Progress`, `EventuallyFlushed`, `StopsOnShutdown`, `AuditsProceed`,
`ModesIsolated` and `ExitsAfterShutdown`. The violations of section 4 are traces of TLC.

## 6. Abstractions, and what is not modelled

* The Rego engine is a function from parameters (in `Admission`: documents and
  parameters) to answers. Panics in it (opa-core/core.go:67) are not modelled.
* A document is a function from paths to values; the parsing of key paths is left out, and
  which paths `LookupCreate` resolves is a constant. Other labels than that of a mutated object are left out
  of `Admission` (label filters are in `PolicyEval`, and `Validator`'s instance has them).
* The cache of namespaces is not modelled (hazard policyconfig.go:33): in `Admission` an error of
  `Validate` is a cause for a denial, whatever led to it.
* Policies and configuration may come from two moments of the cache (hazard opa_validation.go:61);
  `Validator` and its contract allow any pair of them, so no property tells whether they fit.
* In `Admission` no PolicyConfig applies; its effect on a verdict is part of
  `PolicyEval`, and that it may come from another moment than the policies is in
  `Validator`.
* Occurrences are not told apart in a summary (hazard opa_validation.go:256). The
  occurrences that mutation repaired, which the summary still lists, reach no sink:
  the mutating validator has none (`SinksUsed`), and its handler does not look at them.
* In `Agent` every call finds violations, a call sends one result to a sink, and the
  configuration keys are those that decide what runs; policies, documents and what
  is delivered are in the other modules. When discovery or the caches fail is open.
* Elasticsearch carries a request out before the next one or not at all, and
  refuses a document always or never. The creation of the index is left out, and the
  results of refused documents and of batches given up are lost by design (`Indexed` says which).
* `Auditor` starts with the initial request in the channel: that main.go's send finds room
  there before anybody receives (hazard auditor.go:98) is not checked.
* The API server serves the pages of one list from one state; a list by names is
  one step.
* In an event, strings that are copied are one field, names with timestamps are
  left out, and JSON only loses what its tags leave out (not the kinds of numbers).
  Tags that contain commas, or none at all, do not survive an event (`PlainTags`).
* The Kubernetes client asks for the agent's rules in the namespace kube-system and
  fails when discovery is incomplete (internal/clients/kube/kube.go); the rules and
  resources it returns are inputs of `EntitySources`.
* Not modelled: `RegisterAuditEventListener` (tests only), ports and paths of the
  configuration, client wrappers, logging, UUIDs, CRD types of other versions.

## 7. Plan

Done: all modules of section 2, with proofs of all safety properties and refinements.

Next, in this order:

1. The contents of the summary, occurrence by occurrence (opa_validation.go:256), and what
   mutation repairs of it.
2. Answers of the Rego engine that make a worker panic (opa-core/core.go:67).
3. The creation of the Elasticsearch index.
