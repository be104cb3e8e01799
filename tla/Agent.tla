--------------------------------- MODULE Agent ---------------------------------
(***************************************************************************)
(* The agent as a process (main.go): it reads its configuration, makes the *)
(* sinks and validators of the enabled modes one after the other, runs     *)
(* them under a controller-runtime manager, and ends.  While it runs, the  *)
(* audit and the requests to its webhooks call validators, which write to  *)
(* the sinks of their mode and wait when one of these is full.             *)
(*                                                                         *)
(* A sink is named <<mode, kind>>; its channel holds the callers whose     *)
(* results were sent to it after the first `taken`.  The sinks behave as   *)
(* SinkSpec, which those of internal/sink implement.  A call has a result. *)
(***************************************************************************)
EXTENDS Configuration, Sequences, SequencesExt

CONSTANTS
    Cases,       \* what to run: records [file, env, hangs]
    Requests,    \* the requests to the webhooks
    MaxAudits,   \* bound on the entities that are audited
    ChanSize,    \* the capacity of the sinks' channels
    BatchSize    \* how many results the Elasticsearch sinks collect

ASSUME AgentAssumption ==
    /\ \A case \in Cases :
          /\ DOMAIN case.file \cup DOMAIN case.env \subseteq Keys
          /\ \A text \in Texts : <<"agent", text>> \in DOMAIN case.env =>
                                    case.env[<<"agent", text>>] # ""
    /\ MaxAudits \in Nat
    /\ ChanSize \in Nat \ {0} /\ BatchSize \in Nat \ {0}
    /\ "auditor" \notin Requests

VARIABLES
    case,         \* the file, the environment, and which sinks' receivers hang
    config,       \* configuration.Config
    main,         \* where main is
    todo,         \* the Steps of app.Action that are still to be done
    made,         \* the sinks that were given to the manager
    defers,       \* the sinks whose Stop is deferred, in order
    validators,   \* the callers' entry points: path -> the validator behind it
    ctxDone,      \* the manager's context is cancelled
    started,      \* the manager has started its runnables
    ret,          \* what app.Action is to return
    panicking,    \* a deferred call has panicked
    exit,         \* how the process ended, or "no"
    sent,         \* sink -> the callers whose results it accepted
    taken,        \* sink -> how many of them its worker took
    handled,      \* sink -> how many of these it is through with
    worker,       \* sink -> "new", "working" or "ended"
    stopped,      \* the sinks that were stopped, in order
    call          \* caller -> what it is doing

confVars == <<case, config>>
initVars == <<todo, made, defers, validators>>
runVars == <<ctxDone, started>>
endVars == <<ret, panicking, stopped>>
sinkVars == <<sent, taken, handled, worker>>
vars == <<confVars, main, initVars, runVars, endVars, exit, sinkVars, call>>

-----------------------------------------------------------------------------
(***************************************************************************)
(* The parts of app.Action, in order: everything that needs the cluster,   *)
(* the sinks mode by mode, the validators with their handlers, and the     *)
(* controller of PolicyConfigs.                                            *)
(***************************************************************************)
ModeOrder == <<"audit", "admission", "tfAdmission">>

KindOrder == <<"filesystem", "k8sEvents", "fluxNotification", "elastic">>

AllSinks == {ModeOrder[i] : i \in 1..3} \X {KindOrder[i] : i \in 1..4}

SinkSteps ==
    [i \in 1..12 |-> [do |-> "sink", sink |-> <<ModeOrder[((i - 1) \div 4) + 1],
                                                KindOrder[((i - 1) % 4) + 1]>>]]

Serve(path) == [do |-> "serve", path |-> path]

Steps ==
    <<[do |-> "cluster"]>> \o SinkSteps
        \o <<Serve("audit"), Serve("/admission"), Serve("/mutation"),
             Serve("/terraform/admission"), [do |-> "controller"]>>

ModeOf(path) ==
    CASE path = "audit"                      -> "audit"
      [] path \in {"/admission", "/mutation"} -> "admission"
      [] path = "/terraform/admission"       -> "tfAdmission"

\* The conditions around the parts.
Wanted(conf, step) ==
    CASE step.do = "sink"  -> /\ step.sink[1] \in Enabled(conf)
                              /\ step.sink[2] \in conf[<<step.sink[1], "sinks">>]
      [] step.do = "serve" -> /\ ModeOf(step.path) \in Enabled(conf)
                              /\ step.path = "/mutation" => conf[<<"admission", "mutate">>]
      [] OTHER -> TRUE

\* What is appended to the list of a mode's sinks.
SinkIfWanted(mode, kind) ==
    IF Wanted(config, [do |-> "sink", sink |-> <<mode, kind>>]) THEN <<<<mode, kind>>>> ELSE << >>

SinksOf(mode) ==
    SinkIfWanted(mode, KindOrder[1]) \o SinkIfWanted(mode, KindOrder[2])
        \o SinkIfWanted(mode, KindOrder[3]) \o SinkIfWanted(mode, KindOrder[4])

auditSinks == SinksOf("audit")

\* Plausible bug: one list for both modes.
admissionSinks_Shared == SinksOf("audit") \o SinksOf("admission")

admissionSinks == SinksOf("admission")

terraformSinks == SinksOf("tfAdmission")

\* Plausible bug: the mutating validator writes to the sinks of its mode.
resultsSinks_Mutating(path) ==
    CASE path = "audit"                      -> auditSinks
      [] path \in {"/admission", "/mutation"} -> admissionSinks
      [] path = "/terraform/admission"       -> terraformSinks

\* The result sinks of the validator behind a path; the mutating one has none.
resultsSinks(path) ==
    CASE path = "audit"                -> auditSinks
      [] path = "/admission"           -> admissionSinks
      [] path = "/mutation"            -> << >>
      [] path = "/terraform/admission" -> terraformSinks
-----------------------------------------------------------------------------
Callers == Requests \cup {"auditor"}

Idle == [state |-> "idle", path |-> "audit", at |-> 1, times |-> 0, status |-> FALSE]

Init ==
    /\ case \in Cases
    /\ config = [key \in Keys |-> Zero(key)]
    /\ main = "before"
    /\ todo = {}
    /\ made = {}
    /\ defers = << >>
    /\ validators = << >>
    /\ ctxDone = FALSE
    /\ started = FALSE
    /\ ret = "nil"
    /\ panicking = FALSE
    /\ exit = "no"
    /\ sent = [s \in AllSinks |-> << >>]
    /\ taken = [s \in AllSinks |-> 0]
    /\ handled = [s \in AllSinks |-> 0]
    /\ worker = [s \in AllSinks |-> "new"]
    /\ stopped = << >>
    /\ call = [c \in Callers |-> Idle]

\* logger.Fatal and os.Exit end the process without the deferred calls.
Exits(how) == main' = "exited" /\ exit' = how

\* A return of app.Action, which runs the deferred calls.
Returns(err) == main' = "returning" /\ ret' = err

\* app.Before, and the beginning of app.Action.
Before ==
    /\ main = "before"
    /\ checkRequiredFields(case.file, case.env)
    /\ config' = GetAgentConfiguration(case.file, case.env)
    /\ Acceptable(config')
    /\ main' = "init"
    /\ todo' = {i \in DOMAIN Steps : Wanted(config', Steps[i])}
    /\ UNCHANGED <<case, made, defers, validators, runVars, endVars, exit, sinkVars, call>>

\* The file cannot be read, or Before refuses what it says.
BeforeFails ==
    /\ main = "before"
    /\ Exits("fatal")
    /\ UNCHANGED <<confVars, initVars, runVars, endVars, sinkVars, call>>

\* The part that is next, and those after it.
Part == Steps[Min(todo)]

Later == todo \ {Min(todo)}

NextStep(do) == main = "init" /\ Part.do = do

\* The API server and the discovery client answer.
InitCluster ==
    /\ NextStep("cluster")
    /\ todo' = Later
    /\ UNCHANGED <<confVars, main, made, defers, validators, runVars, endVars, exit, sinkVars, call>>

\* An Elasticsearch sink knows two insertion modes.
Refused(sink) ==
    sink[2] = "elastic" /\ config[<<sink[1], "insertionMode">>] \notin {"insert", "upsert"}

HasStop(sink) == sink[2] # "elastic"

\* init*Sink, and the defer that follows.
InitSink ==
    /\ NextStep("sink")
    /\ ~Refused(Part.sink)
    /\ todo' = Later
    /\ made' = made \cup {Part.sink}
    /\ defers' = IF HasStop(Part.sink) THEN Append(defers, Part.sink) ELSE defers
    /\ UNCHANGED <<confVars, main, validators, runVars, endVars, exit, sinkVars, call>>

\* The validator of a mode and its handler, or the audit controller.
InitValidator ==
    /\ NextStep("serve")
    /\ LET path == Part.path IN
       /\ path = "audit" => config[<<"audit", "interval">>] >= 1
       /\ validators' = [p \in DOMAIN validators \cup {path} |->
                             IF p = path THEN resultsSinks(p) ELSE validators[p]]
    /\ todo' = Later
    /\ UNCHANGED <<confVars, main, made, defers, runVars, endVars, exit, sinkVars, call>>

\* An error of what the current part calls, or an insertion mode refused.
InitFails ==
    /\ \E do \in {"cluster", "sink", "serve"} : NextStep(do)
    /\ Returns("error")
    /\ UNCHANGED <<confVars, initVars, runVars, panicking, stopped, exit, sinkVars, call>>

\* The interval of the audit is checked after the sinks are made.
IntervalRefused ==
    /\ NextStep("serve") /\ Part.path = "audit"
    /\ config[<<"audit", "interval">>] < 1
    /\ Exits("fatal")
    /\ UNCHANGED <<confVars, initVars, runVars, endVars, sinkVars, call>>

\* PolicyConfigController.SetupWithManager, and the call of mgr.Start.
StartManager ==
    /\ NextStep("controller")
    /\ todo' = Later
    /\ main' = "running"
    /\ UNCHANGED <<confVars, made, defers, validators, runVars, endVars, exit, sinkVars, call>>

ControllerFails ==
    /\ NextStep("controller")
    /\ Exits("fatal")
    /\ UNCHANGED <<confVars, initVars, runVars, endVars, sinkVars, call>>

-----------------------------------------------------------------------------
(***************************************************************************)
(* The manager (controller-runtime 0.14, external).  Start serves the      *)
(* webhooks, waits for the caches, and starts the runnables, each in a     *)
(* goroutine.  At a signal, or an error, it cancels the context of the     *)
(* runnables, and gives them, and the requests in flight, 30 seconds.      *)
(***************************************************************************)
MainSteps == <<confVars, initVars, panicking, stopped, sinkVars, call>>

RunnablesStart ==
    /\ main = "running" /\ ~started
    /\ started' = TRUE
    /\ UNCHANGED <<MainSteps, main, ctxDone, ret, exit>>

CacheFails ==
    /\ main = "running" /\ ~started
    /\ main' = "draining" /\ ctxDone' = TRUE /\ ret' = "error"
    /\ UNCHANGED <<MainSteps, started, exit>>

\* SIGINT or SIGTERM (ctrl.SetupSignalHandler).
Shutdown ==
    /\ main = "running"
    /\ main' = "draining" /\ ctxDone' = TRUE
    /\ UNCHANGED <<MainSteps, started, ret, exit>>

\* The handler of a second signal calls os.Exit.
SecondSignal ==
    /\ main \in {"draining", "returning"} /\ ctxDone
    /\ Exits("killed")
    /\ UNCHANGED <<confVars, initVars, runVars, endVars, sinkVars, call>>

\* All runnables returned, and no request is in flight.
ManagerDone ==
    /\ main = "draining"
    /\ started => /\ \A s \in made : worker[s] = "ended"
                  /\ "audit" \in DOMAIN validators => call["auditor"].state = "ended"
    /\ \A r \in Requests : call[r].state \in {"idle", "done"}
    /\ Returns(ret)
    /\ UNCHANGED <<MainSteps, runVars, exit>>

\* Half a minute is enough for every goroutine to run at least once.
GraceExpired ==
    /\ main = "draining"
    /\ started => \A s \in made : worker[s] # "new"

\* Plausible bug: os.Exit, as for the controller.
GraceOver_Exit ==
    /\ GraceExpired
    /\ Exits("fatal")
    /\ UNCHANGED <<MainSteps, runVars, ret>>

GraceOver ==
    /\ GraceExpired
    /\ Returns("error")
    /\ UNCHANGED <<MainSteps, runVars, exit>>

\* Plausible bug: Stop waits for its worker.
RunDeferred_Waits ==
    /\ main = "returning" /\ defers # << >>
    /\ worker[Last(defers)] = "ended"
    /\ defers' = Front(defers)
    /\ stopped' = Append(stopped, Last(defers))
    /\ UNCHANGED <<confVars, main, todo, made, validators, runVars, ret, panicking, exit,
                   sinkVars, call>>

\* The deferred Stop, last first.  It cancels the context that Start made:
\* before Start it calls a nil function, and the other Stops still run.
RunDeferred ==
    /\ main = "returning" /\ defers # << >>
    /\ defers' = Front(defers)
    /\ stopped' = Append(stopped, Last(defers))
    /\ panicking' = (panicking \/ worker[Last(defers)] = "new")
    /\ UNCHANGED <<confVars, main, todo, made, validators, runVars, ret, exit, sinkVars, call>>

\* The Stop of the file system sink calls Sync and Close, which wait for the
\* file as its worker does; the other Stops call nobody.
StopHangs ==
    defers # << >> /\ Last(defers)[2] = "filesystem" /\ Last(defers) \in case.hangs

\* app.Run returns, and main too unless there is an error or a panic.
Exit ==
    /\ main = "returning" /\ defers = << >>
    /\ Exits(IF panicking THEN "panic" ELSE IF ret = "nil" THEN "ok" ELSE "error")
    /\ UNCHANGED <<confVars, initVars, runVars, endVars, sinkVars, call>>

-----------------------------------------------------------------------------
(***************************************************************************)
(* The callers of validators while the process lives: the audit entity by  *)
(* entity, and one goroutine per request.  Every call finds violations.    *)
(***************************************************************************)
Lives == main # "exited"

Moves(c, how) ==
    /\ call' = [call EXCEPT ![c] = how]
    /\ UNCHANGED <<confVars, main, initVars, runVars, endVars, exit>>

\* The webhooks are the last the manager stops.  A Terraform plan may have
\* a status, as any document.
Arrive(r) ==
    /\ main \in {"running", "draining"}
    /\ call[r].state = "idle"
    /\ \E path \in DOMAIN validators \ {"audit"}, status \in BOOLEAN :
          /\ status => path = "/terraform/admission"
          /\ Moves(r, [state |-> "writing", path |-> path, at |-> 1, times |-> 0,
                       status |-> status])
    /\ UNCHANGED sinkVars

\* auditController.Start and doAudit; Audit left the initial event.
AuditEntity ==
    /\ Lives /\ started /\ "audit" \in DOMAIN validators
    /\ call["auditor"].state = "idle" /\ call["auditor"].times < MaxAudits
    /\ Moves("auditor", [state |-> "writing", path |-> "audit", at |-> 1,
                         times |-> call["auditor"].times + 1, status |-> FALSE])
    /\ UNCHANGED sinkVars

AuditorEnds ==
    /\ Lives /\ started /\ ctxDone /\ "audit" \in DOMAIN validators
    /\ call["auditor"].state = "idle"
    /\ Moves("auditor", [call["auditor"] EXCEPT !.state = "ended"])
    /\ UNCHANGED sinkVars

Sinks(c) == validators[call[c].path]

HasRoom(s) == Len(sent[s]) - taken[s] < ChanSize

\* Plausible bug: the channel grows.
WriteNext_Unbounded(c) ==
    /\ Lives
    /\ call[c].state = "writing" /\ call[c].at <= Len(Sinks(c))
    /\ LET s == Sinks(c)[call[c].at] IN sent' = [sent EXCEPT ![s] = Append(@, c)]
    /\ Moves(c, [call[c] EXCEPT !.at = @ + 1])
    /\ UNCHANGED <<taken, handled, worker>>

\* writeToSinks: one sink after the other, whatever the context says.
WriteNext(c) ==
    /\ Lives
    /\ call[c].state = "writing" /\ call[c].at <= Len(Sinks(c))
    /\ LET s == Sinks(c)[call[c].at] IN
       /\ HasRoom(s)
       /\ sent' = [sent EXCEPT ![s] = Append(@, c)]
    /\ Moves(c, [call[c] EXCEPT !.at = @ + 1])
    /\ UNCHANGED <<taken, handled, worker>>

\* Plausible bug: every webhook clears the status of the document.
Rewrites_All(c) == c # "auditor"

\* TerraformHandler.ServeHTTP sets a status to nil before it answers.
Rewrites(c) == call[c].path = "/terraform/admission" /\ call[c].status

Respond(c) ==
    /\ Lives
    /\ call[c].state = "writing" /\ call[c].at > Len(Sinks(c))
    /\ Moves(c, [call[c] EXCEPT !.state = IF c = "auditor" THEN "idle"
                                          ELSE IF Rewrites(c) THEN "rewriting"
                                          ELSE "done"])
    /\ UNCHANGED sinkVars

Rewritten(c) ==
    /\ Lives
    /\ call[c].state = "rewriting"
    /\ Moves(c, [call[c] EXCEPT !.state = "done"])
    /\ UNCHANGED sinkVars

\* A worker is at the result of c.
BeingHandled(c, s) == \E i \in (handled[s] + 1)..taken[s] : sent[s][i] = c

\* The runtime may notice that a worker encodes the manifest meanwhile, and
\* then ends the process: concurrent map iteration and map write.
Race(c) ==
    /\ Lives
    /\ call[c].state = "rewriting"
    /\ \E s \in made : worker[s] = "working" /\ BeingHandled(c, s)
    /\ Exits("race")
    /\ UNCHANGED <<confVars, initVars, runVars, endVars, sinkVars, call>>

-----------------------------------------------------------------------------
(***************************************************************************)
(* The workers of the sinks (their Start), as far as the agent can tell.   *)
(***************************************************************************)
WorkerMoves ==
    /\ Lives
    /\ UNCHANGED <<confVars, main, initVars, runVars, endVars, exit, sent, call>>

StartWorker(s) ==
    /\ started /\ s \in made /\ worker[s] = "new"
    /\ worker' = [worker EXCEPT ![s] = "working"]
    /\ WorkerMoves /\ UNCHANGED <<taken, handled>>

Take(s) ==
    /\ worker[s] = "working" /\ taken[s] < Len(sent[s])
    /\ taken[s] - handled[s] < (IF s[2] = "elastic" THEN BatchSize ELSE 1)
    /\ taken' = [taken EXCEPT ![s] = @ + 1]
    /\ WorkerMoves /\ UNCHANGED <<handled, worker>>

\* Written, sent or given up; a full batch, or one whose time is over.
Handle(s) ==
    /\ worker[s] = "working" /\ handled[s] < taken[s]
    /\ handled' = [handled EXCEPT ![s] = taken[s]]
    /\ WorkerMoves /\ UNCHANGED <<taken, worker>>

\* The worker of the file system sink ignores its context.
EndWorker(s) ==
    /\ worker[s] = "working" /\ ctxDone /\ s[2] # "filesystem"
    /\ handled[s] = taken[s]
    /\ worker' = [worker EXCEPT ![s] = "ended"]
    /\ WorkerMoves /\ UNCHANGED <<taken, handled>>

-----------------------------------------------------------------------------
Starting ==
    \/ Before \/ BeforeFails \/ InitCluster \/ InitSink \/ InitValidator \/ InitFails
    \/ IntervalRefused \/ StartManager \/ ControllerFails

Next ==
    \/ Starting
    \/ RunnablesStart \/ CacheFails \/ Shutdown \/ SecondSignal \/ ManagerDone \/ GraceOver
    \/ RunDeferred \/ Exit
    \/ \E r \in Requests : Arrive(r)
    \/ AuditEntity \/ AuditorEnds
    \/ \E c \in Callers : WriteNext(c) \/ Respond(c) \/ Rewritten(c) \/ Race(c)
    \/ \E s \in AllSinks : StartWorker(s) \/ Take(s) \/ Handle(s) \/ EndWorker(s)

(***************************************************************************)
(* Goroutines run, the caches fill or fail, the grace period ends, and the *)
(* receivers answer that do not hang; a file that hangs need not let go of *)
(* the Stop of its sink, either.                                           *)
(***************************************************************************)
Fairness ==
    /\ WF_vars(RunnablesStart \/ CacheFails)
    /\ WF_vars(ManagerDone \/ GraceOver)
    /\ WF_vars(~StopHangs /\ RunDeferred) /\ WF_vars(Exit)
    /\ WF_vars(AuditorEnds)
    /\ \A c \in Callers : /\ WF_vars(WriteNext(c)) /\ WF_vars(Respond(c))
                          /\ WF_vars(Rewritten(c))
    /\ \A s \in AllSinks : /\ WF_vars(StartWorker(s)) /\ WF_vars(Take(s))
                            /\ WF_vars(EndWorker(s))
                            /\ WF_vars(s \notin case.hangs /\ Handle(s))

Spec == Init /\ [][Next]_vars /\ Fairness
-----------------------------------------------------------------------------
(***************************************************************************)
(* Properties                                                              *)
(***************************************************************************)
\* Every variable has a value of its type, and no channel (make(chan ...)
\* in New*Sink) or batch holds more than fits.
TypeOK ==
    /\ case \in Cases
    /\ DOMAIN config = Keys
    /\ main \in {"before", "init", "running", "draining", "returning", "exited"}
    /\ todo \subseteq DOMAIN Steps
    /\ made \subseteq AllSinks /\ defers \in Seq(made)
    /\ DOMAIN validators \subseteq {"audit", "/admission", "/mutation", "/terraform/admission"}
    /\ \A path \in DOMAIN validators : validators[path] \in Seq(made)
    /\ ctxDone \in BOOLEAN /\ started \in BOOLEAN /\ panicking \in BOOLEAN
    /\ ret \in {"nil", "error"}
    /\ exit \in {"no", "ok", "error", "fatal", "panic", "race", "killed"}
    /\ \A s \in AllSinks :
        /\ sent[s] \in Seq(Callers) /\ Len(sent[s]) - taken[s] \in 0..ChanSize
        /\ taken[s] - handled[s] \in 0..BatchSize
        /\ worker[s] \in {"new", "working", "ended"}
    /\ stopped \in Seq(made)
    /\ \A c \in Callers :
        call[c].state \in {"idle", "writing", "rewriting", "done", "ended"}

\* However the agent ends, short of a crash or an impatient user, the sinks whose worker was
\* started were stopped: os.Exit and logger.Fatal in app.Action, which skip
\* the deferred Stops, come before the manager starts them.
NoSinkLeftOpen ==
    main = "exited" /\ exit \notin {"race", "killed"} =>
        \A s \in made : HasStop(s) /\ worker[s] # "new" => s \in Range(stopped)

\* The deferred Stop calls a nil function only in an agent that ends before
\* the manager starts its runnables.
PanicOnlyEarly == panicking => ~started

\* Exit status 0 (mgr.Start returned nil) means that nothing is under way:
\* every worker that was started is through with what it took, every
\* request got its answer, and no file system sink was running.
OkMeansQuiet ==
    exit = "ok" =>
        /\ started => \A s \in made : worker[s] = "ended" /\ handled[s] = taken[s]
        /\ \A r \in Requests : call[r].state \in {"idle", "done"}
        /\ started => \A s \in made : s[2] # "filesystem"

\* Results go to the sinks of the mode that found them (auditSinks,
\* admissionSinks, terraformSinks in main.go), and those of the mutating
\* validator, whose violations are about a document that changes, nowhere.
OwnSinks ==
    \A s \in AllSinks : \A i \in DOMAIN sent[s] :
        LET path == call[sent[s][i]].path
        IN s \in made /\ s[1] = ModeOf(path) /\ path # "/mutation"

\* The runtime ends the process for a data race on a manifest
\* (terraform.go:67) only after a Terraform plan with a status was
\* submitted, and with a sink for Terraform results.
CrashOnlyTerraform ==
    exit = "race" =>
        /\ \E r \in Requests : call[r].path = "/terraform/admission" /\ call[r].status
        /\ \E s \in made : s[1] = "tfAdmission"

\* The way the process ended tells what happened: all went well, it ended
\* too early for its sinks, or a Terraform plan met a sink's worker.
ExitTells == OkMeansQuiet /\ PanicOnlyEarly /\ CrashOnlyTerraform

\* The Elasticsearch sink of audits and of admission gets the address and
\* credentials of the environment, if it has them, or else those of the
\* file, unless YAML takes them for numbers (config.go, getField).
ElasticAddressed ==
    \A mode \in {"audit", "admission"} :
        LET key == <<mode, "address">>
            given == IF key \in DOMAIN case.env THEN case.env[key]
                     ELSE IF key \in DOMAIN case.file THEN case.file[key]
                     ELSE String("")
        IN <<mode, "elastic">> \in made /\ given[1] = "string" => config[key] = given

\* An agent that gets past app.Before knows its account and cluster, which
\* all results carry, unless only the environment tells, or the file gives
\* an empty text (config.go, checkRequiredFields and Unmarshal).
IdentityKnown ==
    main \notin {"before", "exited"} =>
        \A text \in {"accountId", "clusterId"} :
            LET key == <<"agent", text>>
            IN \/ config[key] # ""
               \/ key \in DOMAIN case.env \ DOMAIN case.file
               \/ key \in DOMAIN case.file /\ case.file[key] = ""

\* What runs is what file and environment say, as far as the code reads it.
AsConfigured == ElasticAddressed /\ IdentityKnown

Sink(s) ==
    INSTANCE SinkSpec WITH sent <- Len(sent[s]), taken <- taken[s],
                           handled <- handled[s], worker <- worker[s]

\* What the agent does to a sink, and expects of it, is what SinkSpec
\* promises, which the sinks of internal/sink implement; and validators
\* write to their own.
SinksUsed ==
    /\ \A s \in AllSinks : Sink(s)!Init
    /\ [][\A s \in AllSinks : Sink(s)!Next \/ UNCHANGED Sink(s)!sinkVars]_sinkVars
    /\ [][OwnSinks']_sinkVars

Hanging(path) == \E s \in case.hangs : s[1] = ModeOf(path)

\* A request whose mode has no sink that hangs gets its answer, or the
\* agent stops, whatever the sinks of the other modes do (writeToSinks).
ModesIsolated ==
    \A r \in Requests :
        (call[r].state = "writing" /\ ~Hanging(call[r].path))
            ~> (call[r].state = "done" \/ main # "running")

\* Once the manager's context is cancelled the process ends, whatever
\* receivers, callers and workers hang, unless main itself is held up: in
\* the deferred Stop of a file system sink whose file hangs (filesystem.go,
\* Stop, which no grace period ends).
ExitsAfterShutdown == ctxDone ~> (main = "exited" \/ (main = "returning" /\ StopHangs))
=============================================================================
