------------------------------ MODULE ChannelSink ------------------------------
(***************************************************************************)
(* The result sinks that hand results over one by one: the file system,    *)
(* Kubernetes event and Flux notification sinks of internal/sink, with the *)
(* part of main.go that starts and stops them.  Validators write to the    *)
(* sink's buffered channel; one worker receives and delivers.              *)
(*                                                                         *)
(* A result is named by its position in `accepted`, the results sent to    *)
(* the channel so far.  The channel holds those after the first `taken`.   *)
(* A result is a policy validation as in EventCodec.                       *)
(***************************************************************************)
EXTENDS Integers, Sequences, FiniteSets, EventCodec

CONSTANTS
    Kinds,       \* which of the three sinks this may be
    Results,     \* the policy validations in use
    ChanSize,    \* resultChanSize: the capacity of the channel
    Writers,     \* the goroutines that call Write
    MaxLen,      \* bound on the results of one call of Write
    MaxResults   \* bound on the results of the whole run

ASSUME SinkAssumption ==
    /\ Kinds \subseteq {"filesystem", "k8s_event", "flux_notification"}
    /\ \A result \in Results : /\ result.broken \in BOOLEAN
                               /\ result.enforced = result.policy.enforce
    /\ ChanSize \in Nat \ {0}
    /\ MaxLen \in Nat /\ MaxResults \in Nat

\* What the sinks are handed: results of one of the two statuses, with lists
\* of tags and occurrences.  The objects of Flux are namespaced.
ASSUME ResultAssumption ==
    \A result \in Results :
        /\ result.status \in {PolicyValidationStatusViolating, PolicyValidationStatusCompliant}
        /\ result.enforced \in BOOLEAN
        /\ result.policy.tags \in Seq(Range(result.policy.tags))
        /\ \A tag \in Range(result.policy.tags) : tag \in Seq(Range(tag))
        /\ result.occurrences \in Seq(Range(result.occurrences))
        /\ \A o \in FluxObjects(result.entity.labels) : o.namespace # ""

VARIABLES
    kind,          \* which of the sinks this is
    main,          \* where main.go is with this sink
    ctxDone,       \* the context of the manager is cancelled
    cancelWorker,  \* the field of that name is set
    stop,          \* how far Stop has come
    todo,          \* per writer: what its call of Write has still to send
    accepted,      \* the results sent to the channel
    taken,         \* how many of them the worker received
    worker,        \* what the worker is doing
    delivered,     \* the results delivered (file, event), in order
    output,        \* what was handed over for each of them
    dropped,       \* the results the worker received and did not deliver
    committed      \* how many of delivered File.Sync has committed

vars == <<kind, main, ctxDone, cancelWorker, stop, todo, accepted, taken, worker,
          delivered, output, dropped, committed>>

lifeVars == <<kind, main, ctxDone, cancelWorker, stop, committed>>
workerVars == <<taken, worker, delivered, output, dropped>>
resultVars == <<todo, accepted, workerVars>>

MainStates == {"init", "running", "draining", "stopping", "exited"}

\* New*Sink, added to the manager by main.go's init*Sink.
Init ==
    /\ kind \in Kinds
    /\ main = "init"
    /\ ctxDone = FALSE
    /\ cancelWorker = FALSE
    /\ stop = "no"
    /\ todo = [w \in Writers |-> << >>]
    /\ accepted = << >>
    /\ taken = 0
    /\ worker = "new"
    /\ delivered = << >>
    /\ output = << >>
    /\ dropped = {}
    /\ committed = 0
-----------------------------------------------------------------------------
(***************************************************************************)
(* main.go.  Stop is deferred as soon as the sink is made, so it also runs *)
(* when a later part fails to initialise.                                  *)
(***************************************************************************)
StartManager ==
    /\ main = "init"
    /\ main' = "running"
    /\ UNCHANGED <<kind, ctxDone, cancelWorker, stop, resultVars, committed>>

InitFails ==
    /\ main = "init"
    /\ main' = "stopping"
    /\ UNCHANGED <<kind, ctxDone, cancelWorker, stop, resultVars, committed>>

\* The signal handler's context is cancelled.
Shutdown ==
    /\ main = "running"
    /\ main' = "draining"
    /\ ctxDone' = TRUE
    /\ UNCHANGED <<kind, cancelWorker, stop, resultVars, committed>>

\* mgr.Start returns when its runnables have ended, or after a grace period.
ManagerReturns ==
    /\ main = "draining"
    /\ main' = "stopping"
    /\ UNCHANGED <<kind, ctxDone, cancelWorker, stop, resultVars, committed>>

\* A call of a nil function value panics, which ends the process: see Agent.
CallCancel ==
    /\ main = "stopping"
    /\ stop = "no"
    /\ IF cancelWorker
       THEN stop' = "cancelled" /\ UNCHANGED main
       ELSE main' = "exited" /\ UNCHANGED stop
    /\ UNCHANGED <<kind, ctxDone, cancelWorker, resultVars, committed>>

\* File.Sync may fail; Stop then returns an error.
Sync ==
    /\ main = "stopping"
    /\ kind = "filesystem"
    /\ stop = "cancelled"
    /\ \/ stop' = "synced" /\ committed' = Len(delivered)
       \/ stop' = "failed" /\ UNCHANGED committed
    /\ UNCHANGED <<kind, main, ctxDone, cancelWorker, resultVars>>

\* With the deferred File.Close, in the file system sink.
StopReturns ==
    /\ main = "stopping"
    /\ stop \in IF kind = "filesystem" THEN {"synced", "failed"} ELSE {"cancelled"}
    /\ stop' = IF stop = "failed" THEN "error" ELSE "done"
    /\ UNCHANGED <<kind, main, ctxDone, cancelWorker, resultVars, committed>>

Exit ==
    /\ main = "stopping"
    /\ stop \in {"done", "error"}
    /\ main' = "exited"
    /\ UNCHANGED <<kind, ctxDone, cancelWorker, stop, resultVars, committed>>
-----------------------------------------------------------------------------
(***************************************************************************)
(* Write, called by a validator: the loop sends the results one by one,    *)
(* each send waiting for room.  Nothing interrupts it.                     *)
(***************************************************************************)
Requests ==
    Len(accepted) + Cardinality({w \in Writers : todo[w] # << >>}) * MaxLen

BeginWrite(w) ==
    /\ main \in {"running", "draining"} \/ (main = "stopping" /\ ctxDone)
    /\ todo[w] = << >>
    /\ Requests + MaxLen <= MaxResults
    /\ \E results \in UNION {[1..n -> Results] : n \in 1..MaxLen} :
          todo' = [todo EXCEPT ![w] = results]
    /\ UNCHANGED <<lifeVars, accepted, workerVars>>

Send(w) ==
    /\ main # "exited"
    /\ todo[w] # << >>
    /\ Len(accepted) - taken < ChanSize
    /\ accepted' = Append(accepted, Head(todo[w]))
    /\ todo' = [todo EXCEPT ![w] = Tail(@)]
    /\ UNCHANGED <<lifeVars, workerVars>>
-----------------------------------------------------------------------------
(***************************************************************************)
(* Start and the worker loop, in a goroutine of the manager.               *)
(***************************************************************************)
Start ==
    /\ main \in {"running", "draining"}
    /\ worker = "new"
    /\ cancelWorker' = TRUE
    /\ worker' = "select"
    /\ UNCHANGED <<kind, main, ctxDone, stop, todo, accepted, taken, delivered, output,
                   dropped, committed>>

\* Plausible bug: the worker does not wait for a result.
Receive_NoWait ==
    /\ main # "exited"
    /\ worker = "select"
    /\ taken' = taken + 1
    /\ worker' = "write"
    /\ UNCHANGED <<lifeVars, todo, accepted, delivered, output, dropped>>

\* The select may choose this case when the context is done, too.
Receive ==
    /\ main # "exited"
    /\ worker = "select"
    /\ taken < Len(accepted)
    /\ taken' = taken + 1
    /\ worker' = "write"
    /\ UNCHANGED <<lifeVars, todo, accepted, delivered, output, dropped>>

(***************************************************************************)
(* What the sink cannot deliver: the Flux sink discards results of         *)
(* entities without an owner, and no sink can encode a broken result.      *)
(***************************************************************************)
Discards(result) ==
    \/ kind = "flux_notification" /\ FluxObjects(result.entity.labels) = {}
    \/ result.broken

\* Writing the file or creating the event may fail; the Flux sink hands the
\* event to an in-process recorder, which does not report failures.
CanDeliver == kind = "filesystem" => stop \notin {"done", "error"}

CanFail == kind # "flux_notification"

\* Plausible bug: a failure ends the worker.
AfterFailure_Stops == "stopped"

\* Plausible bug: what failed is tried again, although it was counted out.
AfterFailure_Retries == "write"

\* A failure is logged and the loop goes on.
AfterFailure == "select"

\* A line of the file.
writeValidationResutl(result) == {EncodeResult(result)}

\* The event K8sEventSink.write creates: about the owner if there is one.
K8sEvents(result) ==
    LET event == NewK8sEventFromPolicyValidation(result)
        owners == FluxObjects(result.entity.labels)
    IN IF owners = {} THEN {event}
       ELSE {[event EXCEPT !.involvedObject = o, !.namespace = o.namespace] : o \in owners}

\* What FluxNotificationSink.write passes to the recorder.
FluxEvents(result) ==
    LET event == NewK8sEventFromPolicyValidation(result)
    IN {[object |-> o, annotations |-> event.annotations, type |-> event.type,
         reason |-> event.reason, message |-> event.message] :
           o \in FluxObjects(result.entity.labels)}

Outputs(result) ==
    CASE kind = "filesystem"        -> writeValidationResutl(result)
      [] kind = "k8s_event"         -> K8sEvents(result)
      [] kind = "flux_notification" -> FluxEvents(result)

Deliver ==
    /\ main # "exited"
    /\ worker = "write"
    /\ ~Discards(accepted[taken])
    /\ CanDeliver
    /\ delivered' = Append(delivered, taken)
    /\ \E out \in Outputs(accepted[taken]) : output' = Append(output, out)
    /\ worker' = "select"
    /\ UNCHANGED <<lifeVars, todo, accepted, taken, dropped>>

Drop ==
    /\ main # "exited"
    /\ worker = "write"
    /\ Discards(accepted[taken]) \/ CanFail
    /\ dropped' = dropped \cup {taken}
    /\ worker' = AfterFailure
    /\ UNCHANGED <<lifeVars, todo, accepted, taken, delivered, output>>

\* case <-ctx.Done().  The file system worker does not look at its context.
WorkerStops ==
    /\ main # "exited"
    /\ kind # "filesystem"
    /\ worker = "select"
    /\ ctxDone \/ stop # "no"
    /\ worker' = "stopped"
    /\ UNCHANGED <<lifeVars, todo, accepted, taken, delivered, output, dropped>>
-----------------------------------------------------------------------------
Main == StartManager \/ InitFails \/ Shutdown \/ ManagerReturns \/ CallCancel
            \/ Sync \/ StopReturns \/ Exit

Write(w) == BeginWrite(w) \/ Send(w)

Worker == Start \/ Receive \/ Deliver \/ Drop \/ WorkerStops

Terminated == main = "exited" /\ UNCHANGED vars

Next == Main \/ (\E w \in Writers : Write(w)) \/ Worker \/ Terminated

(***************************************************************************)
(* Go runs every goroutine that can run: the worker, and each writer's     *)
(* send when there is room (blocked senders are served in turn).           *)
(***************************************************************************)
Fairness ==
    /\ WF_vars(Worker)
    /\ \A w \in Writers : SF_vars(Send(w))

Spec == Init /\ [][Next]_vars

FairSpec == Spec /\ Fairness
-----------------------------------------------------------------------------
TypeOK ==
    /\ kind \in Kinds
    /\ main \in MainStates
    /\ ctxDone \in BOOLEAN
    /\ cancelWorker \in BOOLEAN
    /\ stop \in {"no", "cancelled", "synced", "failed", "done", "error"}
    /\ todo \in [Writers -> Seq(Results)]
    /\ accepted \in Seq(Results)
    /\ taken \in 0..Len(accepted)
    /\ worker \in {"new", "select", "write", "stopped"}
    /\ delivered \in Seq(Nat \ {0})
    /\ Len(output) = Len(delivered)
    /\ dropped \subseteq Nat \ {0}
    /\ committed \in 0..Len(delivered)

\* The result in the hands of the worker.
InHand == IF worker = "write" THEN {taken} ELSE {}

DeliveredSet == {delivered[j] : j \in DOMAIN delivered}

(***************************************************************************)
(* Results are delivered in the order in which Write accepted them, each   *)
(* at most once, whatever failed in between and however the shutdown       *)
(* interleaves with the worker.                                            *)
(***************************************************************************)
InOrder ==
    \A j, l \in DOMAIN delivered : j < l => delivered[j] < delivered[l]

(***************************************************************************)
(* Every result the worker received is delivered or dropped, not both, or  *)
(* still in its hands; no result vanishes between the channel and the      *)
(* delivery.  The Flux sink drops only what it must discard.               *)
(***************************************************************************)
Accounted ==
    /\ DeliveredSet \cup dropped \cup InHand = 1..taken
    /\ DeliveredSet \cap dropped = {}
    /\ (DeliveredSet \cup dropped) \cap InHand = {}
    /\ kind = "flux_notification" => \A i \in dropped : Discards(accepted[i])

\* What the sinks promise of the way from Write to the delivery: every
\* variable has its type, and results are InOrder and Accounted.
Delivery == TypeOK /\ InOrder /\ Accounted

\* Tags survive unless there are none, or one has a comma in it.
PlainTags(tags) == tags # << >> /\ \A i \in DOMAIN tags : Len(tags[i]) = 1

\* The annotations of an event say of the result what consumers read.
AnnotationsTell(annotations, result) ==
    LET read == FromAnnotations(annotations) IN
    /\ read.text = result.text
    /\ read.policy_id = result.policy.id
    /\ read.enforced = result.enforced
    /\ read.manifest = result.entity.manifest
    /\ read.standards = result.policy.standards
    /\ Len(read.occurrences) = Len(result.occurrences)
    /\ \A i \in DOMAIN read.occurrences :
          read.occurrences[i].message = result.occurrences[i].message
    /\ PlainTags(result.policy.tags) => read.tags = result.policy.tags

\* What was handed over for a result says what the result is.
Tells(out, result) ==
    LET owners == FluxObjects(result.entity.labels)
        about == IF owners = {} THEN {result.entity.ref} ELSE owners
    IN CASE kind = "filesystem" ->
              /\ Unmarshal(out).id = result.id
              /\ Unmarshal(out).status = result.status
         [] kind = "k8s_event" ->
              LET v == NewPolicyValidationFRomK8sEvent(out) IN
              /\ v.id = result.id /\ v.status = result.status
              /\ v.type = result.type /\ v.trigger = result.trigger
              /\ v.message = result.message
              /\ v.entity.ref \in about
              /\ out.namespace # ""
              /\ AnnotationsTell(out.annotations, result)
         [] kind = "flux_notification" ->
              /\ StatusOf(out.reason) = result.status
              /\ out.object \in owners
              /\ AnnotationsTell(out.annotations, result)

(***************************************************************************)
(* Whoever reads the file, the events or the notifications learns the      *)
(* truth about the result each was made for: status, enforcement,          *)
(* occurrences, and the object it is about, which is the entity or, for an *)
(* entity that Flux manages, an owner.                                     *)
(***************************************************************************)
OutputTellsResult ==
    \A j \in DOMAIN output : Tells(output[j], accepted[delivered[j]])

(***************************************************************************)
(* As long as the agent is not told to stop, a validator that writes to    *)
(* the sink gets through, although the channel fills up and deliveries     *)
(* fail, and what was accepted is delivered or dropped for a reason.       *)
(***************************************************************************)
WritersGetThrough ==
    \A w \in Writers : (main = "running" /\ todo[w] # << >>)
                           ~> (main # "running" \/ todo[w] = << >>)

ResultsAreHandled ==
    \A i \in 1..MaxResults : (main = "running" /\ i <= Len(accepted))
                                 ~> (main # "running" \/ i \in DeliveredSet \cup dropped)

\* Both: a running agent's sinks keep moving, whatever fails.
Progress == WritersGetThrough /\ ResultsAreHandled

(***************************************************************************)
(* filesystem.go: "Stop stops file writer worker and commits all results   *)
(* to disk".  When Stop has returned without an error, every result that   *)
(* Write had accepted and that could be written is on disk.                *)
(***************************************************************************)
StopCommitsAll ==
    stop = "done" =>
        \A i \in 1..Len(accepted) :
            i \in dropped \/ \E j \in 1..committed : delivered[j] = i

(***************************************************************************)
(* The three sinks keep to what validators and main.go rely on (SinkSpec). *)
(***************************************************************************)
Contract ==
    INSTANCE SinkSpec WITH
        sent <- Len(accepted),
        handled <- Len(delivered) + Cardinality(dropped),
        worker <- CASE worker = "new"     -> "new"
                    [] worker = "stopped" -> "ended"
                    [] OTHER              -> "working"

ImplementsSink == Contract!Spec
=============================================================================
