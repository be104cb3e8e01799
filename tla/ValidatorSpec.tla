---------------------------- MODULE ValidatorSpec ----------------------------
(***************************************************************************)
(* What OpaValidator.Validate promises its callers, without goroutines,    *)
(* channels or wait groups.  A call reads the policies and the             *)
(* configuration, decides in one step what every policy says, hands the    *)
(* decision to each sink once, and returns it.  A call that fails hands    *)
(* nothing to any sink.                                                    *)
(***************************************************************************)
EXTENDS PolicyEval

CONSTANTS
    Pool,             \* the policies GetAll may return
    Configs,          \* the configurations GetPolicyConfig may return
    Entities,         \* the entities to validate
    MaxPolicies,      \* bound on the number of policies
    Sinks,            \* how many result sinks the validator has
    WriteCompliance   \* OpaValidator.writeCompliance

VARIABLES
    mutate,           \* OpaValidator.mutate
    entity,           \* the argument of the call
    policies,         \* what GetAll returned
    config,           \* what GetPolicyConfig returned
    status,           \* "pending", "decided", "ok" or "error"
    violating,        \* the policies (by index) the summary reports violated
    compliant,        \* the policies the summary reports complied with
    delivered         \* what each sink was handed

specVars == <<mutate, entity, policies, config, status, violating, compliant, delivered>>

With(verdict) == {i \in DOMAIN policies : Verdict(policies[i], entity, config) = verdict}

(***************************************************************************)
(* The violations the summary keeps.  The mutating validator keeps those   *)
(* of mutating policies that it could not repair completely.               *)
(***************************************************************************)
Unrepaired(i) ==
    /\ policies[i].mutate
    /\ UnmutatedOccurrences(Occurrences(policies[i], config)) # {}

Reported == IF mutate THEN {i \in With("violation") : Unrepaired(i)}
                          ELSE With("violation")

SpecInit ==
    /\ mutate \in BOOLEAN
    /\ entity \in Entities
    /\ policies = << >>
    /\ config = Nil
    /\ status = "pending"
    /\ violating = {}
    /\ compliant = {}
    /\ delivered = [s \in 1..Sinks |-> {}]

ReadPolicies ==
    /\ status = "pending"
    /\ policies' \in Seq(Pool)
    /\ UNCHANGED <<mutate, entity, config, status, violating, compliant, delivered>>

ReadConfig ==
    /\ status = "pending"
    /\ config' \in Configs
    /\ UNCHANGED <<mutate, entity, policies, status, violating, compliant, delivered>>

\* The sources, or the copy of the manifest made for mutation, may fail.
Fail ==
    /\ status = "pending"
    /\ status' = "error"
    /\ UNCHANGED <<mutate, entity, policies, config, violating, compliant, delivered>>

\* Success needs a verdict of every policy, and no error among them.
Decide ==
    /\ status = "pending"
    /\ With("error") = {}
    /\ status' = "decided"
    /\ violating' = Reported
    /\ compliant' = With("compliance")
    /\ UNCHANGED <<mutate, entity, policies, config, delivered>>

Deliver(s) ==
    /\ status = "decided"
    /\ delivered[s] = {}
    /\ delivered' = [delivered EXCEPT ![s] =
                        violating \cup (IF WriteCompliance THEN compliant ELSE {})]
    /\ UNCHANGED <<mutate, entity, policies, config, status, violating, compliant>>

Return ==
    /\ status = "decided"
    /\ \A s \in 1..Sinks :
          delivered[s] = violating \cup (IF WriteCompliance THEN compliant ELSE {})
    /\ status' = "ok"
    /\ UNCHANGED <<mutate, entity, policies, config, violating, compliant, delivered>>

SpecNext ==
    \/ ReadPolicies
    \/ ReadConfig
    \/ Fail
    \/ Decide
    \/ \E s \in 1..Sinks : Deliver(s)
    \/ Return

AbstractSpec == SpecInit /\ [][SpecNext]_specVars
=============================================================================
