------------------------------ MODULE AgentProofs ------------------------------
(***************************************************************************)
(* What holds of the agent as a process, for every configuration, every    *)
(* number of requests and every size of the sinks' channels and batches.   *)
(*                                                                         *)
(* The inductive invariant IInv says, besides the types, what is made at   *)
(* which point of main.go and from which configuration, that every sink    *)
(* with a Stop is among those still to be stopped or those that were, that *)
(* runnables are started only when everything is made, and that a call     *)
(* writes to the sinks of its own mode only.  A step is of main, which     *)
(* leaves sinks and calls alone (MainMoves), or of the others, which leave *)
(* main alone (OthersMove); the steps that make something are apart.       *)
(***************************************************************************)
EXTENDS Agent, FiniteSetTheorems, SequenceTheorems, WellFoundedInduction, TLAPS

-----------------------------------------------------------------------------
(***************************************************************************)
(* The parts of app.Action, and the operators of the model                 *)
(***************************************************************************)
\* The kinds of sinks.
Kinds == {"filesystem", "k8sEvents", "fluxNotification", "elastic"}

\* The modes and the kinds of sinks, in the order of main.go.
LEMMA OrderFacts ==
    /\ ModeOrder[1] = "audit" /\ ModeOrder[2] = "admission" /\ ModeOrder[3] = "tfAdmission"
    /\ KindOrder[1] = "filesystem" /\ KindOrder[2] = "k8sEvents"
    /\ KindOrder[3] = "fluxNotification" /\ KindOrder[4] = "elastic"
  BY DEF ModeOrder, KindOrder

\* A sink for every mode and kind.
LEMMA AllSinksFacts == AllSinks = Modes \X Kinds
<1>1. {ModeOrder[i] : i \in 1..3} = Modes
  BY OrderFacts DEF Modes
<1>2. {KindOrder[i] : i \in 1..4} = Kinds
  BY OrderFacts DEF Kinds
<1> QED
  BY <1>1, <1>2 DEF AllSinks

\* What a concatenation holds.
LEMMA Joined ==
    ASSUME NEW T, NEW x \in Seq(T), NEW y \in Seq(T)
    PROVE  /\ x \o y \in Seq(T) /\ Len(x \o y) = Len(x) + Len(y)
           /\ \A i \in 1..(Len(x) + Len(y)) :
                 (x \o y)[i] = IF i <= Len(x) THEN x[i] ELSE y[i - Len(x)]
  OBVIOUS

\* The parts of app.Action, one by one.
LEMMA StepsAre ==
    /\ DOMAIN Steps = 1..18
    /\ Steps[1] = [do |-> "cluster"]
    /\ \A i \in 2..13 : Steps[i] = SinkSteps[i - 1]
    /\ Steps[14] = Serve("audit") /\ Steps[15] = Serve("/admission")
    /\ Steps[16] = Serve("/mutation") /\ Steps[17] = Serve("/terraform/admission")
    /\ Steps[18] = [do |-> "controller"]
<1> DEFINE a == <<[do |-> "cluster"]>>
           b == SinkSteps
           c == <<Serve("audit"), Serve("/admission"), Serve("/mutation"),
                  Serve("/terraform/admission"), [do |-> "controller"]>>
           T == {a[1]} \cup {b[i] : i \in 1..12} \cup {c[i] : i \in 1..5}
<1>1. a \in Seq(T) /\ Len(a) = 1 
  OBVIOUS
<1>2. b \in [1..12 -> T]
  BY DEF SinkSteps
<1>3. b \in Seq(T) /\ Len(b) = 12
  <2> HIDE DEF T, b
  <2>1. b \in Seq(T)
    BY <1>2, SeqDef
  <2> QED
    BY <1>2, <2>1, LenProperties
<1>4. c \in Seq(T) /\ Len(c) = 5
  OBVIOUS
<1>5. Steps = a \o b \o c
  BY DEF Steps
<1> HIDE DEF a, b, c, T
<1> DEFINE ab == a \o b
<1>6. ab \in Seq(T) /\ Len(ab) = 13 /\ ab[1] = a[1] /\ \A i \in 2..13 : ab[i] = b[i - 1]
  <2>0. ab = a \o b
    OBVIOUS
  <2> HIDE DEF ab
  <2>1. /\ ab \in Seq(T) /\ Len(ab) = Len(a) + Len(b)
        /\ \A i \in 1..(Len(a) + Len(b)) : ab[i] = IF i <= Len(a) THEN a[i] ELSE b[i - Len(a)]
    <3>1. ab \in Seq(T)
      BY <1>1, <1>3, <2>0
    <3>2. Len(ab) = Len(a) + Len(b)
      BY <1>1, <1>3, <2>0, Joined, Zenon
    <3>3. \A i \in 1..(Len(a) + Len(b)) : ab[i] = IF i <= Len(a) THEN a[i] ELSE b[i - Len(a)]
      BY <1>1, <1>3, <2>0, Joined, Zenon
    <3> QED
      BY <3>1, <3>2, <3>3
  <2>2. \A i \in 1..13 : ab[i] = IF i <= 1 THEN a[i] ELSE b[i - 1]
    BY <1>1, <1>3, <2>1
  <2> QED
    BY <1>1, <1>3, <2>1, <2>2
<1> HIDE DEF ab
<1>7. /\ Steps \in Seq(T) /\ Len(Steps) = 18
      /\ \A i \in 1..18 : Steps[i] = IF i <= 13 THEN ab[i] ELSE c[i - 13]
  <2>1. Steps = ab \o c
    BY <1>5 DEF ab
  <2>2. /\ Steps \in Seq(T) /\ Len(Steps) = Len(ab) + Len(c)
        /\ \A i \in 1..(Len(ab) + Len(c)) :
              Steps[i] = IF i <= Len(ab) THEN ab[i] ELSE c[i - Len(ab)]
    <3>1. Steps \in Seq(T)
      BY <1>4, <1>6, <2>1
    <3>2. Len(Steps) = Len(ab) + Len(c)
      BY <1>4, <1>6, <2>1, Joined, Zenon
    <3>3. \A i \in 1..(Len(ab) + Len(c)) :
             Steps[i] = IF i <= Len(ab) THEN ab[i] ELSE c[i - Len(ab)]
      BY <1>4, <1>6, <2>1, Joined, Zenon
    <3> QED
      BY <3>1, <3>2, <3>3
  <2> QED
    BY <1>4, <1>6, <2>2
<1>8. a[1] = [do |-> "cluster"] /\ b = SinkSteps
  BY DEF a, b
<1>9. c[1] = Serve("audit") /\ c[2] = Serve("/admission") /\ c[3] = Serve("/mutation")
      /\ c[4] = Serve("/terraform/admission") /\ c[5] = [do |-> "controller"]
  BY DEF c
<1>10. DOMAIN Steps = 1..18
  BY <1>7, LenProperties
<1>11. Steps[1] = ab[1] /\ \A i \in 2..13 : Steps[i] = ab[i]
  BY <1>7
<1>12. /\ Steps[14] = c[1] /\ Steps[15] = c[2] /\ Steps[16] = c[3] /\ Steps[17] = c[4]
       /\ Steps[18] = c[5]
  BY <1>7
<1> QED
  BY <1>6, <1>8, <1>9, <1>10, <1>11, <1>12, Zenon

\* Twelve of them make a sink each.
LEMMA SinkStepsAre ==
    /\ \A i \in 2..13 : \E s \in AllSinks : Steps[i] = [do |-> "sink", sink |-> s]
    /\ \A s \in AllSinks : \E i \in 2..13 : Steps[i] = [do |-> "sink", sink |-> s]
<1>1. ASSUME NEW i \in 2..13 PROVE \E s \in AllSinks : Steps[i] = [do |-> "sink", sink |-> s]
  <2>1. ((i - 2) \div 4) + 1 \in 1..3 /\ ((i - 2) % 4) + 1 \in 1..4
    OBVIOUS
  <2>2. Steps[i] = [do |-> "sink", sink |-> <<ModeOrder[((i - 2) \div 4) + 1], KindOrder[((i - 2) % 4) + 1]>>]
    BY StepsAre DEF SinkSteps
  <2> QED
    BY <2>1, <2>2 DEF AllSinks
<1>2. ASSUME NEW s \in AllSinks PROVE \E i \in 2..13 : Steps[i] = [do |-> "sink", sink |-> s]
  <2>1. PICK m \in 1..3, k \in 1..4 : s = <<ModeOrder[m], KindOrder[k]>>
    BY DEF AllSinks
  <2> DEFINE i == 4 * (m - 1) + k + 1
  <2>2. i \in 2..13 /\ ((i - 2) \div 4) + 1 = m /\ ((i - 2) % 4) + 1 = k
    OBVIOUS
  <2>3. Steps[i] = [do |-> "sink", sink |-> <<ModeOrder[((i - 2) \div 4) + 1], KindOrder[((i - 2) % 4) + 1]>>]
    <3> HIDE DEF i
    <3>1. Steps[i] = SinkSteps[i - 1] /\ i - 1 \in 1..12 /\ (i - 1) - 1 = i - 2
      BY <2>2, StepsAre
    <3> QED
      BY <3>1 DEF SinkSteps
  <2> QED
    BY <2>1, <2>2, <2>3
<1> QED
  BY <1>1, <1>2

\* What is in a sequence that grows at its end.
LEMMA AppendRange ==
    \A T : \A seq \in Seq(T), e \in T :
        Append(seq, e) \in Seq(T) /\ Range(Append(seq, e)) = Range(seq) \cup {e}
<1> SUFFICES ASSUME NEW T, NEW seq \in Seq(T), NEW e \in T
             PROVE  Append(seq, e) \in Seq(T) /\ Range(Append(seq, e)) = Range(seq) \cup {e}
  OBVIOUS
<1> DEFINE longer == Append(seq, e)
<1>1. /\ longer \in Seq(T) /\ Len(longer) = Len(seq) + 1
      /\ \A i \in 1..Len(seq) : longer[i] = seq[i]
      /\ longer[Len(seq) + 1] = e
  OBVIOUS
<1> HIDE DEF longer
<1>2. DOMAIN longer = 1..(Len(seq) + 1) /\ DOMAIN seq = 1..Len(seq) /\ Len(seq) \in Nat
  BY <1>1, LenProperties
<1>3. {longer[i] : i \in DOMAIN longer} = {seq[i] : i \in DOMAIN seq} \cup {e}
  BY <1>1, <1>2
<1>4. Range(longer) = Range(seq) \cup {e}
  BY <1>3 DEF Range
<1> QED
  BY <1>1, <1>4 DEF longer

\* What is in a sequence that shrinks at its end.
LEMMA FrontRange ==
    \A T : \A seq \in Seq(T) :
        seq # << >> => /\ Front(seq) \in Seq(T) /\ Last(seq) \in T
                       /\ Range(seq) = Range(Front(seq)) \cup {Last(seq)}
<1> SUFFICES ASSUME NEW T, NEW seq \in Seq(T), seq # << >>
             PROVE  /\ Front(seq) \in Seq(T) /\ Last(seq) \in T
                    /\ Range(seq) = Range(Front(seq)) \cup {Last(seq)}
  OBVIOUS
<1>1. PICK n \in Nat : Len(seq) = n + 1
  <2>1. Len(seq) \in Nat \ {0}
    BY EmptySeq, LenProperties
  <2> QED
    BY <2>1
<1> DEFINE front == SubSeq(seq, 1, n)
<1>2. /\ front \in Seq(T) /\ Len(front) = n
      /\ \A i \in 1..n : front[i] = seq[i]
  <2>1. \A i \in 1..n : seq[i] \in T
    BY <1>1
  <2>2. /\ SubSeq(seq, 1, n) \in Seq(T)
        /\ Len(SubSeq(seq, 1, n)) = IF 1 <= n THEN n - 1 + 1 ELSE 0
        /\ \A i \in 1 .. n - 1 + 1 : SubSeq(seq, 1, n)[i] = seq[1 + i - 1]
    BY <2>1, SubSeqProperties
  <2> QED
    BY <2>2
<1>3. front = Front(seq) /\ Last(seq) = seq[n + 1]
  BY <1>1 DEF Front, Last
<1> HIDE DEF front
<1>4. DOMAIN seq = 1..(n + 1) /\ DOMAIN front = 1..n
  BY <1>1, <1>2, LenProperties
<1>5. {seq[i] : i \in DOMAIN seq} = {front[i] : i \in DOMAIN front} \cup {seq[n + 1]}
  BY <1>1, <1>2, <1>4
<1>6. Range(seq) = Range(front) \cup {seq[n + 1]}
  BY <1>5 DEF Range
<1>7. seq[n + 1] \in T
  BY <1>1
<1> QED
  BY <1>2, <1>3, <1>6, <1>7

\* A sequence of members of a set is one of a larger set.
LEMMA Wider == ASSUME NEW S, NEW T, S \subseteq T PROVE Seq(S) \subseteq Seq(T)
  OBVIOUS

\* The order of the natural numbers, as a relation.
Less == {pair \in Nat \X Nat : pair[1] < pair[2]}

\* There is no infinite descent.
LEMMA LessWellFounded == IsWellFoundedOn(Less, Nat)
  BY NatLessThanWellFounded, Zenon DEF Less, OpToRel

\* A smaller number is before a larger one.
LEMMA LessMember == \A x, y \in Nat : x < y => <<x, y>> \in Less
  BY DEF Less

\* A minimum is one, of a set of numbers that is not empty.
LEMMA MinFacts ==
    ASSUME NEW S \in SUBSET Nat, S # {}
    PROVE  Min(S) \in S /\ \A k \in S : Min(S) <= k
<1>1. PICK m \in S : \A k \in S : ~(<<k, m>> \in Less)
  BY LessWellFounded, WFMin
<1>2. ASSUME NEW k \in S PROVE m <= k
  <2>1. ~(k < m)
    BY <1>1, LessMember
  <2> QED
    BY <2>1
<1> QED
  BY <1>2 DEF Min
-----------------------------------------------------------------------------
(***************************************************************************)
(* The inductive invariant                                                 *)
(***************************************************************************)
Paths == {"audit", "/admission", "/mutation", "/terraform/admission"}

\* The part of app.Action that makes a sink.
Making(s) == [do |-> "sink", sink |-> s]

\* Where the results of a path's validator may go.
OwnOf(path) == {s \in made : s[1] = ModeOf(path) /\ path # "/mutation"}

\* Types of what main keeps.
MainTypes ==
    /\ case \in Cases /\ DOMAIN config = Keys
    /\ main \in {"before", "init", "running", "draining", "returning", "exited"}
    /\ todo \subseteq DOMAIN Steps
    /\ made \subseteq AllSinks /\ defers \in Seq(made) /\ stopped \in Seq(made)
    /\ DOMAIN validators \subseteq Paths
    /\ ctxDone \in BOOLEAN /\ started \in BOOLEAN /\ panicking \in BOOLEAN
    /\ ret \in {"nil", "error"}
    /\ exit \in {"no", "ok", "error", "fatal", "panic", "race", "killed"}

\* The channels and the batches of the sinks.
SinkTypes ==
    /\ sent \in [AllSinks -> Seq(Callers)]
    /\ taken \in [AllSinks -> Nat] /\ handled \in [AllSinks -> Nat]
    /\ worker \in [AllSinks -> {"new", "working", "ended"}]
    /\ \A s \in AllSinks :
          /\ taken[s] <= Len(sent[s]) /\ Len(sent[s]) <= taken[s] + ChanSize
          /\ handled[s] <= taken[s] /\ taken[s] <= handled[s] + BatchSize

\* What callers are doing.
CallType ==
    [state : {"idle", "writing", "rewriting", "done", "ended"},
     path : Paths, at : Nat \ {0}, times : Nat, status : BOOLEAN]

CallTypes == call \in [Callers -> CallType]

\* What a worker is through with when it has ended.
WorkerInv ==
    \A s \in AllSinks :
        worker[s] = "ended" => handled[s] = taken[s] /\ s[2] # "filesystem"

\* When the runnables are started, and how the process has ended by then.
PhaseInv ==
    /\ main \in {"before", "init"} => ~started /\ ~ctxDone
    /\ ~started => \A s \in AllSinks : worker[s] = "new"
    /\ exit = "no" <=> main # "exited"
    /\ exit = "fatal" => ~started
    /\ exit \in {"ok", "error", "panic"} => defers = << >>
    /\ main = "returning" /\ started => \A s \in made : worker[s] # "new"
    /\ main \notin {"returning", "exited"} => ~panicking
    /\ panicking => ~started

\* What is made when, and from which configuration.
PartsInv ==
    /\ main = "before" => made = {} /\ validators = << >>
    /\ made # {} \/ main \notin {"before", "exited"} =>
          config = GetAgentConfiguration(case.file, case.env)
    /\ main \notin {"before", "exited"} => checkRequiredFields(case.file, case.env)
    /\ main = "init" =>
          /\ 18 \in todo
          /\ \A i \in todo : Wanted(config, Steps[i])
          /\ \A s \in AllSinks : Wanted(config, Making(s)) /\ s \notin made =>
                \E i \in todo : i <= 13 /\ Steps[i] = Making(s)
    /\ \A s \in made : Wanted(config, Making(s))

\* Every sink with a Stop will be stopped, or was.
StopInv == \A s \in made : HasStop(s) => s \in Range(defers) \cup Range(stopped)

\* What a call may do, and where its results are.
CallInv ==
    /\ \A path \in DOMAIN validators : validators[path] \in Seq(OwnOf(path))
    /\ \A c \in Callers : call[c].state = "writing" => call[c].path \in DOMAIN validators
    /\ \A c \in Callers : call[c].state = "rewriting" =>
          c \in Requests /\ call[c].path = "/terraform/admission" /\ call[c].status
    /\ call["auditor"].path = "audit"
    /\ \A r \in Requests : call[r].state = "idle" =>
          \A s \in AllSinks : \A i \in DOMAIN sent[s] : sent[s][i] # r
    /\ OwnSinks

Quiet ==
    /\ started => \A s \in made : worker[s] = "ended"
    /\ \A r \in Requests : call[r].state \in {"idle", "done"}

\* What a return without an error, and a crash, tell.
EndInv ==
    /\ main = "returning" /\ ret = "nil" => Quiet
    /\ exit = "ok" => Quiet
    /\ CrashOnlyTerraform

IInv ==
    /\ MainTypes /\ SinkTypes /\ CallTypes
    /\ WorkerInv /\ PhaseInv /\ PartsInv /\ StopInv /\ CallInv /\ EndInv

-----------------------------------------------------------------------------
\* The part that is next, and what follows from it: it is the first of those left.
LEMMA PartFacts ==
    ASSUME MainTypes, PartsInv, main = "init"
    PROVE  /\ Min(todo) \in todo /\ Min(todo) \in 1..18 /\ Part = Steps[Min(todo)]
           /\ \A i \in todo : Min(todo) <= i
           /\ Part.do = "sink" => Part.sink \in AllSinks /\ Part = Making(Part.sink)
           /\ Part.do = "serve" => Part.path \in Paths /\ Min(todo) >= 14
           /\ Part.do # "controller" => Min(todo) # 18
<1>0. DOMAIN Steps = 1..18
  BY StepsAre
<1>1. todo \subseteq 1..18 /\ todo \in SUBSET Nat /\ todo # {}
  <2>1. todo \subseteq 1..18
    BY <1>0 DEF MainTypes
  <2>2. 18 \in todo
    BY DEF PartsInv
  <2> QED
    BY <2>1, <2>2
<1>2. Min(todo) \in todo /\ \A i \in todo : Min(todo) <= i
  BY <1>1, MinFacts
<1> DEFINE n == Min(todo)
<1>3. n \in 1..18 /\ Part = Steps[n]
  BY <1>1, <1>2 DEF Part
<1> HIDE DEF n
<1>4. CASE n \in 2..13
  <2>1. PICK s \in AllSinks : Part = [do |-> "sink", sink |-> s]
    BY <1>3, <1>4, SinkStepsAre
  <2> QED
    BY <1>2, <1>3, <1>4, <2>1 DEF Making, n
<1>5. CASE n \in 14..17
  <2>1. n = 14 \/ n = 15 \/ n = 16 \/ n = 17
    BY <1>5
  <2>2. PICK path \in Paths : Part = [do |-> "serve", path |-> path]
    BY <1>3, <2>1, StepsAre DEF Serve, Paths
  <2> QED
    BY <1>2, <1>3, <1>5, <2>2 DEF n
<1>6. CASE n = 1 \/ n = 18
  BY <1>2, <1>3, <1>6, StepsAre DEF n
<1> QED
  BY <1>3, <1>4, <1>5, <1>6

\* Main moves and the sinks, the calls, and what they write to, stay.
LEMMA MainMoves ==
    ASSUME IInv, UNCHANGED <<made, validators, sinkVars, call>>,
           MainTypes', PhaseInv', PartsInv', StopInv',
           main' = "returning" /\ ret' = "nil" => Quiet', exit' = "ok" => Quiet',
           exit' = "race" => CrashOnlyTerraform'
    PROVE  IInv'
<1>1. UNCHANGED <<sent, taken, handled, worker, call, made, validators>>
  BY DEF sinkVars
<1>2. SinkTypes' /\ CallTypes' /\ WorkerInv'
  BY <1>1 DEF IInv, SinkTypes, CallTypes, WorkerInv
<1>3. CallInv'
  BY <1>1 DEF IInv, CallInv, OwnOf, OwnSinks
<1>4. EndInv'
  BY DEF EndInv, CrashOnlyTerraform
<1> QED
  BY <1>2, <1>3, <1>4 DEF IInv

\* The calls and the workers move, and main stays.
LEMMA OthersMove ==
    ASSUME IInv,
           UNCHANGED <<case, config, main, todo, made, defers, validators, ctxDone, started,
                       ret, panicking, exit, stopped>>,
           SinkTypes', CallTypes', WorkerInv', CallInv', EndInv',
           ~started => UNCHANGED worker,
           \A s \in AllSinks : worker'[s] = "new" => worker[s] = "new"
    PROVE  IInv'
<1>1. MainTypes'
  BY DEF IInv, MainTypes
<1>2. PhaseInv'
  BY DEF IInv, PhaseInv, MainTypes
<1>3. PartsInv' /\ StopInv'
  BY DEF IInv, PartsInv, StopInv
<1> QED
  BY <1>1, <1>2, <1>3 DEF IInv
-----------------------------------------------------------------------------
\* The agent as it starts satisfies the invariant.
LEMMA InitInv == Init => IInv
<1> SUFFICES ASSUME Init PROVE IInv
  OBVIOUS
<1>1. MainTypes
  <2>1. case \in Cases /\ DOMAIN config = Keys /\ todo \subseteq DOMAIN Steps
    BY DEF Init
  <2>2. made \subseteq AllSinks /\ defers \in Seq(made) /\ stopped \in Seq(made)
    BY DEF Init
  <2>3. DOMAIN validators = {}
    BY DEF Init
  <2> QED
    BY <2>1, <2>2, <2>3 DEF Init, MainTypes
<1>2. SinkTypes /\ WorkerInv
  <2>1. ChanSize \in Nat /\ BatchSize \in Nat
    BY AgentAssumption
  <2>2. << >> \in Seq(Callers) /\ Len(<< >>) = 0
    OBVIOUS
  <2>3. sent \in [AllSinks -> Seq(Callers)]
    BY <2>2 DEF Init
  <2>4. /\ taken \in [AllSinks -> Nat] /\ handled \in [AllSinks -> Nat]
        /\ worker \in [AllSinks -> {"new", "working", "ended"}]
    BY DEF Init
  <2>5. \A s \in AllSinks : sent[s] = << >> /\ taken[s] = 0 /\ handled[s] = 0 /\ worker[s] = "new"
    BY DEF Init
  <2> QED
    BY <2>1, <2>2, <2>3, <2>4, <2>5 DEF SinkTypes, WorkerInv
<1>3. CallTypes
  BY DEF Init, CallTypes, CallType, Idle, Paths
<1>4. PhaseInv /\ PartsInv /\ StopInv
  BY DEF Init, PhaseInv, PartsInv, StopInv
<1>5. CallInv
  BY DEF Init, CallInv, Idle, Callers, OwnSinks
<1>6. EndInv
  BY DEF Init, EndInv, CrashOnlyTerraform
<1> QED
  BY <1>1, <1>2, <1>3, <1>4, <1>5, <1>6 DEF IInv

\* Before: the configuration is read, and what to do follows from it.
LEMMA BeforeStep == ASSUME IInv, Before PROVE IInv'
<1>1. /\ main = "before" /\ main' = "init" /\ made = {} /\ validators = << >>
      /\ checkRequiredFields(case.file, case.env)
      /\ config' = GetAgentConfiguration(case.file, case.env)
      /\ todo' = {i \in DOMAIN Steps : Wanted(config', Steps[i])}
      /\ UNCHANGED <<case, made, defers, validators, ctxDone, started, ret, panicking, stopped,
                     exit, sinkVars, call>>
  BY DEF Before, initVars, runVars, endVars, IInv, PartsInv
<1>2. MainTypes'
  <2>1. DOMAIN config' = Keys
    BY <1>1 DEF GetAgentConfiguration
  <2> QED
    BY <1>1, <2>1 DEF IInv, MainTypes
<1>3. PhaseInv'
  BY <1>1 DEF IInv, PhaseInv, sinkVars
<1>4. PartsInv'
  <2>1. 18 \in todo'
    BY <1>1, StepsAre DEF Wanted
  <2>2. ASSUME NEW s \in AllSinks, Wanted(config', Making(s))
        PROVE  \E i \in todo' : i <= 13 /\ Steps[i] = Making(s)
    <3>1. PICK i \in 2..13 : Steps[i] = Making(s)
      BY SinkStepsAre DEF Making
    <3>2. i \in DOMAIN Steps /\ i <= 13
      BY StepsAre
    <3>3. Wanted(config', Steps[i])
      BY <2>2, <3>1
    <3> QED
      BY <1>1, <3>1, <3>2, <3>3
  <2>3. \A i \in todo' : Wanted(config', Steps[i])
    BY <1>1
  <2> QED
    BY <1>1, <2>1, <2>2, <2>3 DEF PartsInv
<1>5. StopInv'
  BY <1>1 DEF StopInv
<1> QED
  BY <1>1, <1>2, <1>3, <1>4, <1>5, MainMoves DEF IInv, EndInv, PhaseInv, MainTypes

\* An exit before the parts are made, or between them, leaves all as it is.
LEMMA EarlyExit ==
    ASSUME IInv, main \in {"before", "init"}, Exits("fatal"),
           UNCHANGED <<confVars, initVars, runVars, endVars, sinkVars, call>>
    PROVE  IInv'
<1>1. /\ main' = "exited" /\ exit' = "fatal" /\ ~started
      /\ UNCHANGED <<case, config, todo, made, defers, validators, ctxDone, started, ret,
                     panicking, stopped, sinkVars, call>>
  BY DEF Exits, confVars, initVars, runVars, endVars, IInv, PhaseInv
<1>2. MainTypes'
  BY <1>1 DEF IInv, MainTypes
<1>3. PhaseInv'
  BY <1>1 DEF IInv, PhaseInv, sinkVars
<1>4. PartsInv' /\ StopInv'
  BY <1>1 DEF IInv, PartsInv, StopInv
<1> QED
  BY <1>1, <1>2, <1>3, <1>4, MainMoves

\* InitCluster: nothing is made yet.
LEMMA InitClusterStep == ASSUME IInv, InitCluster PROVE IInv'
<1>1. /\ main = "init" /\ Part.do = "cluster" /\ todo' = todo \ {Min(todo)}
      /\ UNCHANGED <<case, config, main, made, defers, validators, ctxDone, started, ret,
                     panicking, stopped, exit, sinkVars, call>>
  BY DEF InitCluster, NextStep, Later, confVars, runVars, endVars
<1>2. MainTypes'
  BY <1>1 DEF IInv, MainTypes
<1>3. PhaseInv' /\ StopInv'
  BY <1>1 DEF IInv, PhaseInv, StopInv, sinkVars
<1>4. PartsInv'
  <2>1. Min(todo) # 18 /\ Part = Steps[Min(todo)]
    BY <1>1, PartFacts DEF IInv
  <2>2. \A s : Steps[Min(todo)] # Making(s)
    BY <1>1, <2>1 DEF Making
  <2> QED
    BY <1>1, <2>1, <2>2 DEF IInv, PartsInv
<1> QED
  BY <1>1, <1>2, <1>3, <1>4, MainMoves DEF IInv, EndInv, PhaseInv, MainTypes

\* InitFails: app.Action returns an error.
LEMMA InitFailsStep == ASSUME IInv, InitFails PROVE IInv'
<1>1. /\ main = "init" /\ main' = "returning" /\ ret' = "error" /\ ~started
      /\ UNCHANGED <<case, config, todo, made, defers, validators, ctxDone, started,
                     panicking, stopped, exit, sinkVars, call>>
  BY DEF InitFails, NextStep, Returns, confVars, initVars, runVars, IInv, PhaseInv
<1>2. MainTypes'
  BY <1>1 DEF IInv, MainTypes
<1>3. PhaseInv' /\ StopInv'
  BY <1>1 DEF IInv, PhaseInv, StopInv, sinkVars
<1>4. PartsInv'
  BY <1>1 DEF IInv, PartsInv
<1> QED
  BY <1>1, <1>2, <1>3, <1>4, MainMoves DEF IInv, EndInv, PhaseInv

\* StartManager: everything is made.
LEMMA StartManagerStep == ASSUME IInv, StartManager PROVE IInv'
<1>1. /\ main = "init" /\ main' = "running" /\ todo' \subseteq todo
      /\ UNCHANGED <<case, config, made, defers, validators, ctxDone, started, ret,
                     panicking, stopped, exit, sinkVars, call>>
  BY DEF StartManager, NextStep, Later, confVars, runVars, endVars
<1>2. MainTypes'
  BY <1>1 DEF IInv, MainTypes
<1>3. PhaseInv' /\ StopInv'
  BY <1>1 DEF IInv, PhaseInv, StopInv, sinkVars
<1>4. PartsInv'
  BY <1>1 DEF IInv, PartsInv
<1> QED
  BY <1>1, <1>2, <1>3, <1>4, MainMoves DEF IInv, EndInv, PhaseInv

\* InitSink: one more sink, whose Stop is deferred if it has one.
LEMMA InitSinkStep == ASSUME IInv, InitSink PROVE IInv'
<1> DEFINE s == Part.sink
<1>1. /\ main = "init" /\ Part.do = "sink" /\ todo' = todo \ {Min(todo)}
      /\ made' = made \cup {s}
      /\ defers' = IF HasStop(s) THEN Append(defers, s) ELSE defers
      /\ UNCHANGED <<case, config, main, validators, ctxDone, started, ret,
                     panicking, stopped, exit, sent, taken, handled, worker, call>>
  BY DEF InitSink, NextStep, Later, confVars, runVars, endVars, sinkVars
<1>2. /\ Min(todo) \in todo /\ Min(todo) # 18 /\ Part = Steps[Min(todo)]
      /\ s \in AllSinks /\ Part = Making(s)
  BY <1>1, PartFacts DEF IInv
<1> HIDE DEF s
<1>3. made \subseteq made' /\ s \in made'
  BY <1>1
<1>4. defers \in Seq(made') /\ stopped \in Seq(made')
  BY <1>3, Wider DEF IInv, MainTypes
<1>5. /\ defers' \in Seq(made')
      /\ Range(defers) \subseteq Range(defers')
      /\ HasStop(s) => s \in Range(defers')
  <2>0. /\ Append(defers, s) \in Seq(made')
        /\ Range(Append(defers, s)) = Range(defers) \cup {s}
    <3>1. \A T : defers \in Seq(T) /\ s \in T =>
              /\ Append(defers, s) \in Seq(T)
              /\ Range(Append(defers, s)) = Range(defers) \cup {s}
      BY AppendRange
    <3> QED
      BY <1>3, <1>4, <3>1
  <2>1. CASE HasStop(s)
    <3>1. defers' = Append(defers, s)
      BY <1>1, <2>1
    <3>2. Range(defers') = Range(defers) \cup {s}
      BY <2>0, <3>1, Zenon
    <3> QED
      BY <2>0, <3>1, <3>2
  <2>2. CASE ~HasStop(s)
    BY <1>1, <1>4, <2>2
  <2> QED
    BY <2>1, <2>2
<1>6. MainTypes'
  BY <1>1, <1>2, <1>4, <1>5 DEF IInv, MainTypes
<1>7. SinkTypes' /\ CallTypes' /\ WorkerInv'
  BY <1>1 DEF IInv, SinkTypes, CallTypes, WorkerInv
<1>8. PhaseInv'
  BY <1>1 DEF IInv, PhaseInv
<1>9. PartsInv'
  <2>1. Wanted(config, Making(s))
    BY <1>1, <1>2 DEF IInv, PartsInv
  <2>2. \A r : Making(r) = Making(s) => r = s
    BY DEF Making
  <2>3. ASSUME NEW r \in AllSinks, Wanted(config, Making(r)), r \notin made'
        PROVE  \E i \in todo' : i <= 13 /\ Steps[i] = Making(r)
    <3>1. PICK i \in todo : i <= 13 /\ Steps[i] = Making(r)
      BY <1>1, <2>3 DEF IInv, PartsInv
    <3>2. i # Min(todo)
      BY <1>1, <1>2, <2>2, <2>3, <3>1
    <3> QED
      BY <1>1, <3>1, <3>2
  <2> QED
    BY <1>1, <1>2, <2>1, <2>3 DEF IInv, PartsInv
<1>10. StopInv'
  BY <1>1, <1>5 DEF IInv, StopInv, HasStop
<1>11. CallInv'
  <2>1. \A path : OwnOf(path) \subseteq OwnOf(path)'
    BY <1>3 DEF OwnOf
  <2>2. \A path \in DOMAIN validators : validators[path] \in Seq(OwnOf(path)')
    BY <2>1, Wider DEF IInv, CallInv
  <2>3. OwnSinks'
    BY <1>1, <1>3 DEF IInv, CallInv, OwnSinks
  <2> QED
    BY <1>1, <2>2, <2>3 DEF IInv, CallInv
<1>12. EndInv'
  BY <1>1 DEF IInv, EndInv, PhaseInv, CrashOnlyTerraform
<1> QED
  BY <1>6, <1>7, <1>8, <1>9, <1>10, <1>11, <1>12 DEF IInv

\* SinksOf: the sinks of a mode, when all that are wanted are made.
LEMMA SinksOfMode ==
    ASSUME NEW mode \in Modes, \A s \in AllSinks : Wanted(config, Making(s)) => s \in made
    PROVE  SinksOf(mode) \in Seq({s \in made : s[1] = mode})
<1> DEFINE T == {s \in made : s[1] = mode}
<1>1. ASSUME NEW kind \in Kinds PROVE SinkIfWanted(mode, kind) \in Seq(T)
  <2>1. <<mode, kind>> \in AllSinks
    BY AllSinksFacts
  <2>2. CASE Wanted(config, Making(<<mode, kind>>))
    <3>1. <<mode, kind>> \in T
      BY <2>1, <2>2
    <3>2. SinkIfWanted(mode, kind) = << <<mode, kind>> >>
      BY <2>2 DEF SinkIfWanted, Making
    <3> HIDE DEF T
    <3> QED
      BY <3>1, <3>2
  <2>3. CASE ~Wanted(config, Making(<<mode, kind>>))
    <3>1. SinkIfWanted(mode, kind) = << >>
      BY <2>3 DEF SinkIfWanted, Making
    <3> QED
      BY <3>1
  <2> QED
    BY <2>2, <2>3
<1>2. \A i \in 1..4 : SinkIfWanted(mode, KindOrder[i]) \in Seq(T)
  BY <1>1, OrderFacts DEF Kinds
<1> HIDE DEF T
<1> DEFINE p == SinkIfWanted(mode, KindOrder[1])
           q == SinkIfWanted(mode, KindOrder[2])
           r == SinkIfWanted(mode, KindOrder[3])
           t == SinkIfWanted(mode, KindOrder[4])
<1>3. p \in Seq(T) /\ q \in Seq(T) /\ r \in Seq(T) /\ t \in Seq(T)
  BY <1>2
<1>4. SinksOf(mode) = p \o q \o r \o t
  BY DEF SinksOf
<1> HIDE DEF p, q, r, t
<1>5. p \o q \o r \o t \in Seq(T)
  BY <1>3
<1> QED
  BY <1>4, <1>5 DEF T

\* resultsSinks: a validator gets sinks of its own mode.
LEMMA ResultsSinksOwn ==
    ASSUME NEW path \in Paths, \A s \in AllSinks : Wanted(config, Making(s)) => s \in made
    PROVE  resultsSinks(path) \in Seq(OwnOf(path))
<1>1. \A mode \in Modes : SinksOf(mode) \in Seq({s \in made : s[1] = mode})
  BY SinksOfMode
<1>2. CASE path = "audit"
  <2>1. resultsSinks(path) = SinksOf("audit")
    BY <1>2 DEF resultsSinks, auditSinks
  <2>2. OwnOf(path) = {s \in made : s[1] = "audit"}
    BY <1>2 DEF OwnOf, ModeOf
  <2> QED
    BY <1>1, <2>1, <2>2 DEF Modes
<1>3. CASE path = "/admission"
  <2>1. resultsSinks(path) = SinksOf("admission")
    BY <1>3 DEF resultsSinks, admissionSinks
  <2>2. OwnOf(path) = {s \in made : s[1] = "admission"}
    BY <1>3 DEF OwnOf, ModeOf
  <2> QED
    BY <1>1, <2>1, <2>2 DEF Modes
<1>4. CASE path = "/mutation"
  BY <1>4 DEF resultsSinks
<1>5. CASE path = "/terraform/admission"
  <2>1. resultsSinks(path) = SinksOf("tfAdmission")
    BY <1>5 DEF resultsSinks, terraformSinks
  <2>2. OwnOf(path) = {s \in made : s[1] = "tfAdmission"}
    BY <1>5 DEF OwnOf, ModeOf
  <2> QED
    BY <1>1, <2>1, <2>2 DEF Modes
<1> QED
  BY <1>2, <1>3, <1>4, <1>5 DEF Paths

\* InitValidator: one more entry point, after all sinks are made.
LEMMA InitValidatorStep == ASSUME IInv, InitValidator PROVE IInv'
<1> DEFINE path == Part.path
<1>1. /\ main = "init" /\ Part.do = "serve" /\ todo' = todo \ {Min(todo)}
      /\ validators' = [p \in DOMAIN validators \cup {path} |->
                            IF p = path THEN resultsSinks(p) ELSE validators[p]]
      /\ UNCHANGED <<case, config, main, made, defers, ctxDone, started, ret,
                     panicking, stopped, exit, sent, taken, handled, worker, call>>
  BY DEF InitValidator, NextStep, Later, confVars, runVars, endVars, sinkVars
<1>2. /\ path \in Paths /\ Min(todo) >= 14 /\ Min(todo) # 18 /\ Min(todo) \in 1..18
      /\ \A i \in todo : Min(todo) <= i
  BY <1>1, PartFacts DEF IInv
<1> HIDE DEF path
<1>3. /\ DOMAIN validators' = DOMAIN validators \cup {path}
      /\ validators'[path] = resultsSinks(path)
      /\ \A p \in DOMAIN validators \ {path} : validators'[p] = validators[p]
  BY <1>1
<1>4. \A s \in AllSinks : Wanted(config, Making(s)) => s \in made
  <2>1. ASSUME NEW i \in todo, i <= 13 PROVE FALSE
    <3>1. i \in 1..18
      BY StepsAre DEF IInv, MainTypes
    <3> QED
      BY <1>2, <2>1, <3>1
  <2> QED
    BY <1>1, <2>1 DEF IInv, PartsInv
<1>5. MainTypes'
  BY <1>1, <1>2, <1>3 DEF IInv, MainTypes
<1>6. SinkTypes' /\ CallTypes' /\ WorkerInv'
  BY <1>1 DEF IInv, SinkTypes, CallTypes, WorkerInv
<1>7. PhaseInv' /\ StopInv'
  BY <1>1 DEF IInv, PhaseInv, StopInv
<1>8. PartsInv'
  BY <1>1, <1>2, <1>4 DEF IInv, PartsInv
<1>9. CallInv'
  <2>1. resultsSinks(path) \in Seq(OwnOf(path))
    BY <1>2, <1>4, ResultsSinksOwn
  <2>2. \A p : OwnOf(p)' = OwnOf(p)
    BY <1>1 DEF OwnOf
  <2>3. \A p \in DOMAIN validators' : validators'[p] \in Seq(OwnOf(p)')
    BY <1>3, <2>1, <2>2 DEF IInv, CallInv
  <2>4. OwnSinks'
    BY <1>1 DEF IInv, CallInv, OwnSinks
  <2> QED
    BY <1>1, <1>3, <2>3, <2>4 DEF IInv, CallInv
<1>10. EndInv'
  BY <1>1 DEF IInv, EndInv, PhaseInv, CrashOnlyTerraform
<1> QED
  BY <1>5, <1>6, <1>7, <1>8, <1>9, <1>10 DEF IInv

\* BeforeFails, IntervalRefused, ControllerFails: logger.Fatal before mgr.Start.
LEMMA FatalSteps ==
    ASSUME IInv, BeforeFails \/ IntervalRefused \/ ControllerFails PROVE IInv'
<1>1. CASE BeforeFails
  BY <1>1, EarlyExit DEF BeforeFails
<1>2. CASE IntervalRefused
  BY <1>2, EarlyExit DEF IntervalRefused, NextStep
<1>3. CASE ControllerFails
  BY <1>3, EarlyExit DEF ControllerFails, NextStep
<1> QED
  BY <1>1, <1>2, <1>3

\* RunnablesStart, CacheFails, Shutdown: main is in mgr.Start, and may leave.
LEMMA ManagerSteps ==
    ASSUME IInv, RunnablesStart \/ CacheFails \/ Shutdown PROVE IInv'
<1>1. /\ main = "running" /\ main' \in {"running", "draining"}
      /\ started' = started \/ started' = TRUE
      /\ ctxDone' = ctxDone \/ ctxDone' = TRUE
      /\ ret' = ret \/ ret' = "error"
      /\ started => started'
      /\ UNCHANGED <<case, config, todo, made, defers, validators, panicking, stopped, exit,
                     sinkVars, call>>
  BY DEF RunnablesStart, CacheFails, Shutdown, MainSteps, confVars, initVars
<1>2. MainTypes'
  BY <1>1 DEF IInv, MainTypes
<1>3. PhaseInv' /\ StopInv'
  BY <1>1 DEF IInv, PhaseInv, StopInv, sinkVars
<1>4. PartsInv'
  BY <1>1 DEF IInv, PartsInv
<1> QED
  BY <1>1, <1>2, <1>3, <1>4, MainMoves DEF IInv, EndInv, PhaseInv

\* SecondSignal: the process is gone.
LEMMA SecondSignalStep == ASSUME IInv, SecondSignal PROVE IInv'
<1>1. /\ main \in {"draining", "returning"} /\ main' = "exited" /\ exit' = "killed"
      /\ UNCHANGED <<case, config, todo, made, defers, validators, ctxDone, started, ret,
                     panicking, stopped, sinkVars, call>>
  BY DEF SecondSignal, Exits, confVars, initVars, runVars, endVars
<1>2. MainTypes'
  BY <1>1 DEF IInv, MainTypes
<1>3. PhaseInv' /\ StopInv'
  BY <1>1 DEF IInv, PhaseInv, StopInv, sinkVars
<1>4. PartsInv'
  BY <1>1 DEF IInv, PartsInv
<1> QED
  BY <1>1, <1>2, <1>3, <1>4, MainMoves

\* ManagerDone, GraceOver: mgr.Start returns.
LEMMA ReturnSteps == ASSUME IInv, ManagerDone \/ GraceOver PROVE IInv'
<1>1. /\ main = "draining" /\ main' = "returning"
      /\ ret' = ret \/ ret' = "error"
      /\ started => \A s \in made : worker[s] # "new"
      /\ ret' = "nil" => Quiet
      /\ UNCHANGED <<case, config, todo, made, defers, validators, ctxDone, started,
                     panicking, stopped, exit, sinkVars, call>>
  BY DEF ManagerDone, GraceOver, GraceExpired, Returns, MainSteps, confVars, initVars, runVars,
         Quiet
<1>2. MainTypes'
  BY <1>1 DEF IInv, MainTypes
<1>3. PhaseInv' /\ StopInv'
  BY <1>1 DEF IInv, PhaseInv, StopInv, sinkVars
<1>4. PartsInv'
  BY <1>1 DEF IInv, PartsInv
<1>5. ret' = "nil" => Quiet'
  BY <1>1 DEF Quiet, sinkVars
<1> QED
  BY <1>1, <1>2, <1>3, <1>4, <1>5, MainMoves DEF IInv, EndInv, PhaseInv

\* RunDeferred: a Stop, whose sink has a worker if the runnables started.
LEMMA RunDeferredStep == ASSUME IInv, RunDeferred PROVE IInv'
<1>1. /\ main = "returning" /\ defers # << >>
      /\ defers' = Front(defers) /\ stopped' = Append(stopped, Last(defers))
      /\ panicking' = (panicking \/ worker[Last(defers)] = "new")
      /\ UNCHANGED <<case, config, main, todo, made, validators, ctxDone, started, ret, exit,
                     sinkVars, call>>
  BY DEF RunDeferred, confVars, runVars
<1>2. defers \in Seq(made) /\ stopped \in Seq(made)
  BY DEF IInv, MainTypes
<1>3. /\ Front(defers) \in Seq(made) /\ Last(defers) \in made
      /\ Range(defers) = Range(Front(defers)) \cup {Last(defers)}
  BY <1>1, <1>2, FrontRange
<1>4. /\ Append(stopped, Last(defers)) \in Seq(made)
      /\ Range(Append(stopped, Last(defers))) = Range(stopped) \cup {Last(defers)}
  BY <1>2, <1>3, AppendRange
<1>5. MainTypes'
  BY <1>1, <1>3, <1>4 DEF IInv, MainTypes
<1>6. PhaseInv'
  BY <1>1, <1>3 DEF IInv, PhaseInv, sinkVars
<1>7. StopInv'
  <2>1. Range(defers') \cup Range(stopped') = Range(defers) \cup Range(stopped)
    BY <1>1, <1>3, <1>4
  <2> QED
    BY <1>1, <2>1 DEF IInv, StopInv
<1>8. PartsInv'
  BY <1>1 DEF IInv, PartsInv
<1>9. main' = "returning" /\ ret' = "nil" => Quiet'
  BY <1>1 DEF IInv, EndInv, Quiet, sinkVars
<1> QED
  BY <1>1, <1>5, <1>6, <1>7, <1>8, <1>9, MainMoves DEF IInv, PhaseInv

\* Exit: no Stop is left.
LEMMA ExitStep == ASSUME IInv, Exit PROVE IInv'
<1>1. /\ main = "returning" /\ defers = << >> /\ main' = "exited"
      /\ exit' \in {"panic", "ok", "error"} /\ (exit' = "ok" => ret = "nil")
      /\ UNCHANGED <<case, config, todo, made, defers, validators, ctxDone, started, ret,
                     panicking, stopped, sinkVars, call>>
  BY DEF Exit, Exits, confVars, initVars, runVars, endVars
<1>2. MainTypes'
  BY <1>1 DEF IInv, MainTypes
<1>3. PhaseInv' /\ StopInv'
  BY <1>1 DEF IInv, PhaseInv, StopInv, sinkVars
<1>4. PartsInv'
  BY <1>1 DEF IInv, PartsInv
<1>5. exit' = "ok" => Quiet'
  BY <1>1 DEF IInv, EndInv, Quiet, sinkVars
<1> QED
  BY <1>1, <1>2, <1>3, <1>4, <1>5, MainMoves

\* Race: the request that rewrites its document is at a sink for Terraform results.
LEMMA RaceStep == ASSUME IInv, NEW c \in Callers, Race(c) PROVE IInv'
<1>1. /\ main # "exited" /\ main' = "exited" /\ exit' = "race"
      /\ call[c].state = "rewriting"
      /\ \E s \in made : worker[s] = "working" /\ BeingHandled(c, s)
      /\ UNCHANGED <<case, config, todo, made, defers, validators, ctxDone, started, ret,
                     panicking, stopped, sinkVars, call>>
  BY DEF Race, Lives, Exits, confVars, initVars, runVars, endVars
<1>2. MainTypes'
  BY <1>1 DEF IInv, MainTypes
<1>3. PhaseInv' /\ StopInv'
  BY <1>1 DEF IInv, PhaseInv, StopInv, sinkVars
<1>4. PartsInv'
  BY <1>1 DEF IInv, PartsInv
<1>5. c \in Requests /\ call[c].path = "/terraform/admission" /\ call[c].status
  BY <1>1 DEF IInv, CallInv
<1>6. \E s \in made : s[1] = "tfAdmission"
  <2>1. PICK s \in made : \E i \in (handled[s] + 1)..taken[s] : sent[s][i] = c
    BY <1>1 DEF BeingHandled
  <2>2. PICK i \in (handled[s] + 1)..taken[s] : sent[s][i] = c
    BY <2>1
  <2>3. s \in AllSinks
    BY DEF IInv, MainTypes
  <2>4. i \in DOMAIN sent[s]
    <3>1. /\ sent[s] \in Seq(Callers) /\ taken[s] \in Nat /\ handled[s] \in Nat
          /\ taken[s] <= Len(sent[s])
      BY <2>3 DEF IInv, SinkTypes
    <3>2. DOMAIN sent[s] = 1..Len(sent[s]) /\ Len(sent[s]) \in Nat
      BY <3>1, LenProperties
    <3> QED
      BY <2>2, <3>1, <3>2
  <2>5. s[1] = ModeOf("/terraform/admission")
    BY <1>5, <2>2, <2>3, <2>4 DEF IInv, CallInv, OwnSinks
  <2> QED
    BY <2>5 DEF ModeOf
<1>7. CrashOnlyTerraform'
  BY <1>1, <1>5, <1>6 DEF CrashOnlyTerraform
<1> QED
  BY <1>1, <1>2, <1>3, <1>4, <1>7, MainMoves
-----------------------------------------------------------------------------
\* A caller moves, and the sinks stay.
LEMMA CallerMoves ==
    ASSUME IInv, NEW c \in Callers, NEW how \in CallType, main # "exited",
           Moves(c, how), UNCHANGED sinkVars,
           how.path = call[c].path \/ (c \in Requests /\ call[c].state = "idle"),
           how.state = "writing" => how.path \in DOMAIN validators,
           how.state = "rewriting" =>
              c \in Requests /\ how.path = "/terraform/admission" /\ how.status,
           c = "auditor" => how.path = "audit",
           c \in Requests => how.state # "idle",
           \/ c = "auditor" \/ main \in {"running", "draining"}
           \/ call[c].state \in {"writing", "rewriting"}
    PROVE  IInv'
<1>1. /\ call' = [call EXCEPT ![c] = how]
      /\ UNCHANGED <<case, config, main, todo, made, defers, validators, ctxDone, started,
                     ret, panicking, exit, stopped, sent, taken, handled, worker>>
  BY DEF Moves, confVars, initVars, runVars, endVars, sinkVars
<1>2. /\ call \in [Callers -> CallType] /\ call' \in [Callers -> CallType]
      /\ call'[c] = how /\ \A d \in Callers \ {c} : call'[d] = call[d]
  BY <1>1 DEF IInv, CallTypes
<1>3. SinkTypes' /\ CallTypes' /\ WorkerInv'
  BY <1>1, <1>2 DEF IInv, SinkTypes, CallTypes, WorkerInv
<1>4. "auditor" \notin Requests /\ Requests \subseteq Callers /\ "auditor" \in Callers
  BY AgentAssumption DEF Callers
<1>5. CallInv'
  <2>1. \A path : OwnOf(path)' = OwnOf(path)
    BY <1>1 DEF OwnOf
  <2>2. \A path \in DOMAIN validators' : validators'[path] \in Seq(OwnOf(path)')
    BY <1>1, <2>1 DEF IInv, CallInv
  <2>3. \A d \in Callers : call'[d].state = "writing" => call'[d].path \in DOMAIN validators'
    BY <1>1, <1>2 DEF IInv, CallInv
  <2>4. \A d \in Callers : call'[d].state = "rewriting" =>
            d \in Requests /\ call'[d].path = "/terraform/admission" /\ call'[d].status
    BY <1>2 DEF IInv, CallInv
  <2>5. call'["auditor"].path = "audit"
    BY <1>2, <1>4 DEF IInv, CallInv
  <2>6. ASSUME NEW r \in Requests, call'[r].state = "idle"
        PROVE  \A s \in AllSinks : \A i \in DOMAIN sent'[s] : sent'[s][i] # r
    BY <1>1, <1>2, <1>4, <2>6 DEF IInv, CallInv
  <2>7. OwnSinks'
    <3>1. ASSUME NEW s \in AllSinks, NEW i \in DOMAIN sent[s]
          PROVE  sent[s][i] \in Callers /\ call'[sent[s][i]].path = call[sent[s][i]].path
      <4>1. sent[s][i] \in Callers
        BY DEF IInv, SinkTypes
      <4>2. CASE sent[s][i] # c
        BY <1>2, <4>1, <4>2
      <4>3. CASE sent[s][i] = c
        BY <1>2, <4>3 DEF IInv, CallInv
      <4> QED
        BY <4>1, <4>2, <4>3
    <3> QED
      BY <1>1, <3>1 DEF IInv, CallInv, OwnSinks
  <2> QED
    BY <2>2, <2>3, <2>4, <2>5, <2>6, <2>7 DEF CallInv
<1>6. EndInv'
  <2>1. exit = "no"
    BY DEF IInv, PhaseInv
  <2>2. ASSUME main = "returning", ret = "nil" PROVE Quiet'
    <3>1. Quiet
      BY <2>2 DEF IInv, EndInv
    <3>2. c \notin Requests
      BY <1>4, <2>2, <3>1 DEF Quiet
    <3> QED
      BY <1>1, <1>2, <1>4, <3>1, <3>2 DEF Quiet
  <2> QED
    BY <1>1, <2>1, <2>2 DEF EndInv, CrashOnlyTerraform
<1> QED
  BY <1>1, <1>3, <1>5, <1>6, OthersMove

\* Arrive: a request reaches a webhook for the first time.
LEMMA ArriveStep == ASSUME IInv, NEW r \in Requests, Arrive(r) PROVE IInv'
<1>1. PICK path \in DOMAIN validators \ {"audit"}, status \in BOOLEAN :
         Moves(r, [state |-> "writing", path |-> path, at |-> 1, times |-> 0, status |-> status])
  BY DEF Arrive
<1> DEFINE how == [state |-> "writing", path |-> path, at |-> 1, times |-> 0, status |-> status]
<1>2. path \in Paths
  BY DEF IInv, MainTypes
<1>3. how \in CallType /\ how.state = "writing" /\ how.path = path
  BY <1>2 DEF CallType
<1>4. Moves(r, how)
  BY <1>1
<1> HIDE DEF how
<1>5. /\ main \in {"running", "draining"} /\ call[r].state = "idle" /\ UNCHANGED sinkVars
      /\ r \in Callers /\ r # "auditor"
  BY AgentAssumption DEF Arrive, Callers
<1> QED
  BY <1>3, <1>4, <1>5, CallerMoves

\* AuditEntity, AuditorEnds: the audit validates an entity, or ends.
LEMMA AuditorSteps == ASSUME IInv, AuditEntity \/ AuditorEnds PROVE IInv'
<1> DEFINE old == call["auditor"]
<1>1. /\ "auditor" \in Callers /\ "auditor" \notin Requests
      /\ old \in CallType /\ old.path = "audit"
  BY AgentAssumption DEF Callers, IInv, CallTypes, CallInv
<1>2. main # "exited" /\ UNCHANGED sinkVars /\ "audit" \in DOMAIN validators
  BY DEF AuditEntity, AuditorEnds, Lives
<1>3. CASE AuditEntity
  <2> DEFINE how == [state |-> "writing", path |-> "audit", at |-> 1, times |-> old.times + 1,
                     status |-> FALSE]
  <2>1. how \in CallType /\ how.path = "audit" /\ how.state = "writing"
    BY <1>1 DEF CallType, Paths
  <2>2. Moves("auditor", how)
    BY <1>3 DEF AuditEntity
  <2> HIDE DEF how
  <2> QED
    BY <1>1, <1>2, <2>1, <2>2, CallerMoves
<1>4. CASE AuditorEnds
  <2> DEFINE how == [old EXCEPT !.state = "ended"]
  <2>1. how \in CallType /\ how.path = "audit" /\ how.state = "ended"
    BY <1>1 DEF CallType
  <2>2. Moves("auditor", how)
    BY <1>4 DEF AuditorEnds
  <2> HIDE DEF how
  <2> QED
    BY <1>1, <1>2, <2>1, <2>2, CallerMoves
<1> QED
  BY <1>3, <1>4

\* Respond, Rewritten: a call goes on after its last sink, or ends.
LEMMA RespondSteps ==
    ASSUME IInv, NEW c \in Callers, Respond(c) \/ Rewritten(c) PROVE IInv'
<1> DEFINE old == call[c]
<1>1. /\ old \in CallType /\ (c = "auditor" => old.path = "audit")
      /\ c # "auditor" => c \in Requests
      /\ "auditor" \notin Requests
  BY AgentAssumption DEF IInv, CallTypes, CallInv, Callers
<1>2. /\ main # "exited" /\ UNCHANGED sinkVars
      /\ call[c].state \in {"writing", "rewriting"}
  BY DEF Respond, Rewritten, Lives
<1>3. PICK next \in {"idle", "rewriting", "done"} :
         /\ Moves(c, [old EXCEPT !.state = next])
         /\ next = "rewriting" => c # "auditor" /\ Rewrites(c)
         /\ next = "idle" => c = "auditor"
  <2>1. CASE Respond(c)
    <3> DEFINE next == IF c = "auditor" THEN "idle" ELSE IF Rewrites(c) THEN "rewriting" ELSE "done"
    <3>1. Moves(c, [old EXCEPT !.state = next])
      BY <2>1 DEF Respond
    <3> QED
      BY <3>1
  <2>2. CASE Rewritten(c)
    BY <2>2 DEF Rewritten
  <2> QED
    BY <2>1, <2>2
<1> DEFINE how == [old EXCEPT !.state = next]
<1>4. how \in CallType /\ how.path = old.path /\ how.state = next /\ how.status = old.status
  BY <1>1 DEF CallType
<1>5. Moves(c, how)
  BY <1>3
<1> HIDE DEF how
<1>6. next = "rewriting" => how.path = "/terraform/admission" /\ how.status
  BY <1>3, <1>4 DEF Rewrites
<1> QED
  BY <1>1, <1>2, <1>3, <1>4, <1>5, <1>6, CallerMoves

\* WriteNext: a result goes to the next sink of its validator, if there is room.
LEMMA WriteNextStep == ASSUME IInv, NEW c \in Callers, WriteNext(c) PROVE IInv'
<1> DEFINE path == call[c].path
           at == call[c].at
           s == validators[path][at]
           how == [call[c] EXCEPT !.at = at + 1]
<1>1. /\ main # "exited" /\ call[c].state = "writing" /\ at <= Len(validators[path])
      /\ Len(sent[s]) - taken[s] < ChanSize
      /\ sent' = [sent EXCEPT ![s] = Append(sent[s], c)]
      /\ call' = [call EXCEPT ![c] = how]
      /\ UNCHANGED <<case, config, main, todo, made, defers, validators, ctxDone, started,
                     ret, panicking, exit, stopped, taken, handled, worker>>
  BY DEF WriteNext, Sinks, HasRoom, Lives, Moves, confVars, initVars, runVars, endVars
<1>2. call[c] \in CallType
  BY DEF IInv, CallTypes
<1>3. at \in Nat \ {0} /\ path \in Paths
  BY <1>2 DEF CallType
<1>4. path \in DOMAIN validators /\ validators[path] \in Seq(OwnOf(path))
  BY <1>1 DEF IInv, CallInv
<1>5. s \in OwnOf(path)
  <2>1. at \in 1..Len(validators[path])
    BY <1>1, <1>3, <1>4, LenProperties
  <2> QED
    BY <1>4, <2>1
<1>6. how \in CallType /\ how.path = path /\ how.state = "writing" /\ how.status = call[c].status
  <2>1. ASSUME NEW r \in CallType, NEW n \in Nat \ {0}
        PROVE  LET new == [r EXCEPT !.at = n]
               IN /\ new \in CallType /\ new.path = r.path /\ new.state = r.state
                  /\ new.status = r.status
    BY DEF CallType
  <2>2. at + 1 \in Nat \ {0}
    BY <1>3
  <2> QED
    BY <1>1, <1>2, <2>1, <2>2
<1> HIDE DEF how, s, at, path
<1>7. s \in made /\ s \in AllSinks /\ s[1] = ModeOf(path) /\ path # "/mutation"
  BY <1>5 DEF OwnOf, IInv, MainTypes
<1>8. /\ call'[c] = how /\ \A d \in Callers \ {c} : call'[d] = call[d]
      /\ call' \in [Callers -> CallType]
  BY <1>1, <1>6 DEF IInv, CallTypes
<1>9. \A d \in Callers : call'[d].path = call[d].path /\ call'[d].state = call[d].state
                          /\ call'[d].status = call[d].status
  BY <1>1, <1>6, <1>8 DEF path
<1>10. /\ sent \in [AllSinks -> Seq(Callers)] /\ taken \in [AllSinks -> Nat]
       /\ sent[s] \in Seq(Callers) /\ Append(sent[s], c) \in Seq(Callers)
       /\ Len(Append(sent[s], c)) = Len(sent[s]) + 1
       /\ Len(sent[s]) \in Nat /\ taken[s] \in Nat
  BY <1>7, LenProperties DEF IInv, SinkTypes
<1>11. /\ sent' \in [AllSinks -> Seq(Callers)]
       /\ sent'[s] = Append(sent[s], c) /\ Len(sent'[s]) = Len(sent[s]) + 1
       /\ \A t \in AllSinks \ {s} : sent'[t] = sent[t]
  BY <1>1, <1>7, <1>10
<1>12. SinkTypes'
  <2>1. ChanSize \in Nat
    BY AgentAssumption
  <2>2. ASSUME NEW t \in AllSinks
        PROVE  /\ taken[t] <= Len(sent'[t]) /\ Len(sent'[t]) <= taken[t] + ChanSize
               /\ handled[t] <= taken[t] /\ taken[t] <= handled[t] + BatchSize
    <3>1. CASE t = s
      <4>1. taken[s] <= Len(sent[s]) /\ Len(sent[s]) < taken[s] + ChanSize
        BY <1>1, <1>7, <1>10, <2>1 DEF IInv, SinkTypes
      <4>2. taken[s] <= Len(sent'[s]) /\ Len(sent'[s]) <= taken[s] + ChanSize
        BY <1>10, <1>11, <2>1, <4>1
      <4> QED
        BY <3>1, <4>2 DEF IInv, SinkTypes
    <3>2. CASE t # s
      BY <1>11, <3>2 DEF IInv, SinkTypes
    <3> QED
      BY <3>1, <3>2
  <2> QED
    BY <1>1, <1>11, <2>2 DEF IInv, SinkTypes
<1>13. ASSUME NEW t \in AllSinks, NEW i \in DOMAIN sent'[t]
       PROVE  \/ i \in DOMAIN sent[t] /\ sent'[t][i] = sent[t][i] /\ sent[t][i] \in Callers
              \/ t = s /\ sent'[t][i] = c
  <2>1. sent[t] \in Seq(Callers)
    BY <1>10
  <2>2. CASE t = s
    <3>1. DOMAIN sent'[t] = 1..(Len(sent[s]) + 1) /\ DOMAIN sent[t] = 1..Len(sent[s])
      BY <1>10, <1>11, <2>2, LenProperties
    <3>2. CASE i = Len(sent[s]) + 1
      BY <1>10, <1>11, <2>2, <3>2
    <3>3. CASE i # Len(sent[s]) + 1
      <4>1. i \in 1..Len(sent[s])
        BY <1>10, <3>1, <3>3
      <4> QED
        BY <1>10, <1>11, <2>1, <2>2, <3>1, <4>1
    <3> QED
      BY <3>2, <3>3
  <2>3. CASE t # s
    BY <1>11, <2>1, <2>3
  <2> QED
    BY <2>2, <2>3
<1>14. CallTypes' /\ WorkerInv'
  BY <1>1, <1>8 DEF IInv, CallTypes, WorkerInv
<1>15. CallInv'
  <2>1. \A p : OwnOf(p)' = OwnOf(p)
    BY <1>1 DEF OwnOf
  <2>2. \A p \in DOMAIN validators' : validators'[p] \in Seq(OwnOf(p)')
    BY <1>1, <2>1 DEF IInv, CallInv
  <2>3. /\ \A d \in Callers : call'[d].state = "writing" => call'[d].path \in DOMAIN validators'
        /\ \A d \in Callers : call'[d].state = "rewriting" =>
              d \in Requests /\ call'[d].path = "/terraform/admission" /\ call'[d].status
        /\ call'["auditor"].path = "audit"
    BY <1>1, <1>9 DEF IInv, CallInv, Callers
  <2>4. ASSUME NEW r \in Requests, call'[r].state = "idle",
               NEW t \in AllSinks, NEW i \in DOMAIN sent'[t]
        PROVE  sent'[t][i] # r
    <3>1. r \in Callers /\ call[r].state = "idle" /\ r # c
      BY <1>1, <1>9, <2>4 DEF Callers
    <3> QED
      BY <1>13, <3>1 DEF IInv, CallInv
  <2>5. ASSUME NEW t \in AllSinks, NEW i \in DOMAIN sent'[t]
        PROVE  /\ t \in made /\ t[1] = ModeOf(call'[sent'[t][i]].path)
               /\ call'[sent'[t][i]].path # "/mutation"
    <3>1. CASE t = s /\ sent'[t][i] = c
      <4>1. call'[sent'[t][i]].path = path
        BY <1>9, <3>1 DEF path
      <4> QED
        BY <1>7, <3>1, <4>1
    <3>2. CASE i \in DOMAIN sent[t] /\ sent'[t][i] = sent[t][i] /\ sent[t][i] \in Callers
      <4>1. call'[sent'[t][i]].path = call[sent[t][i]].path
        BY <1>9, <3>2
      <4> QED
        BY <3>2, <4>1 DEF IInv, CallInv, OwnSinks
    <3> QED
      BY <1>13, <3>1, <3>2
  <2>6. OwnSinks'
    BY <1>1, <2>5 DEF OwnSinks
  <2> QED
    BY <2>2, <2>3, <2>4, <2>6 DEF CallInv
<1>16. EndInv'
  <2>1. exit = "no"
    BY <1>1 DEF IInv, PhaseInv
  <2>2. Quiet => Quiet'
    BY <1>1, <1>9 DEF Quiet, Callers
  <2> QED
    BY <1>1, <2>1, <2>2 DEF IInv, EndInv, CrashOnlyTerraform
<1> QED
  BY <1>1, <1>12, <1>14, <1>15, <1>16, OthersMove

\* StartWorker, Take, Handle, EndWorker: a sink's worker goes on.
LEMMA WorkerSteps ==
    ASSUME IInv, NEW s \in AllSinks, StartWorker(s) \/ Take(s) \/ Handle(s) \/ EndWorker(s)
    PROVE  IInv'
<1>1. /\ main # "exited"
      /\ UNCHANGED <<case, config, main, todo, made, defers, validators, ctxDone, started,
                     ret, panicking, exit, stopped, sent, call>>
  BY DEF StartWorker, Take, Handle, EndWorker, WorkerMoves, Lives, confVars, initVars, runVars,
         endVars
<1>2. ChanSize \in Nat \ {0} /\ BatchSize \in Nat \ {0}
  BY AgentAssumption
<1>3. /\ taken \in [AllSinks -> Nat] /\ handled \in [AllSinks -> Nat]
      /\ worker \in [AllSinks -> {"new", "working", "ended"}]
      /\ \A t \in AllSinks : Len(sent[t]) \in Nat
  BY LenProperties DEF IInv, SinkTypes
<1>4. SinkTypes'
  <2>1. CASE StartWorker(s)
    BY <1>1, <1>3, <2>1 DEF IInv, SinkTypes, StartWorker
  <2>2. CASE EndWorker(s)
    BY <1>1, <1>3, <2>2 DEF IInv, SinkTypes, EndWorker
  <2>3. CASE Take(s)
    <3>1. /\ taken' = [taken EXCEPT ![s] = taken[s] + 1] /\ UNCHANGED <<handled, worker>>
          /\ taken[s] < Len(sent[s]) /\ taken[s] - handled[s] < BatchSize
      BY <1>2, <1>3, <2>3 DEF Take, IInv, SinkTypes
    <3> QED
      BY <1>1, <1>2, <1>3, <3>1 DEF IInv, SinkTypes
  <2>4. CASE Handle(s)
    <3>1. /\ handled' = [handled EXCEPT ![s] = taken[s]] /\ UNCHANGED <<taken, worker>>
      BY <2>4 DEF Handle
    <3> QED
      BY <1>1, <1>2, <1>3, <3>1 DEF IInv, SinkTypes
  <2> QED
    BY <2>1, <2>2, <2>3, <2>4
<1>5. WorkerInv'
  BY <1>3 DEF IInv, WorkerInv, StartWorker, Take, Handle, EndWorker
<1>6. CallTypes' /\ CallInv'
  BY <1>1 DEF IInv, CallTypes, CallInv, OwnOf, OwnSinks
<1>7. EndInv'
  <2>1. exit = "no"
    BY <1>1 DEF IInv, PhaseInv
  <2>2. ASSUME Quiet PROVE Quiet'
    <3>1. ASSUME NEW t \in made, worker[t] = "ended", started PROVE worker'[t] = "ended"
      BY <1>3, <2>2, <3>1 DEF StartWorker, Take, Handle, EndWorker, Quiet, IInv, MainTypes
    <3> QED
      BY <1>1, <2>2, <3>1 DEF Quiet
  <2> QED
    BY <1>1, <2>1, <2>2 DEF IInv, EndInv, CrashOnlyTerraform
<1>8. ~started => UNCHANGED worker
  BY <1>3 DEF IInv, PhaseInv, StartWorker, Take, Handle, EndWorker
<1>9. \A t \in AllSinks : worker'[t] = "new" => worker[t] = "new"
  BY <1>3 DEF StartWorker, Take, Handle, EndWorker
<1> QED
  BY <1>1, <1>4, <1>5, <1>6, <1>7, <1>8, <1>9, OthersMove

\* A step without a change keeps the invariant.
LEMMA StutterStep == ASSUME IInv, UNCHANGED vars PROVE IInv'
<1>1. UNCHANGED <<case, config, main, todo, made, defers, validators, ctxDone, started, ret,
                  panicking, stopped, exit, sinkVars, call>>
  BY DEF vars, confVars, initVars, runVars, endVars
<1>2. MainTypes'
  BY <1>1 DEF IInv, MainTypes
<1>3. PhaseInv' /\ PartsInv' /\ StopInv'
  BY <1>1 DEF IInv, PhaseInv, PartsInv, StopInv, sinkVars
<1>4. /\ main' = "returning" /\ ret' = "nil" => Quiet'
      /\ exit' = "ok" => Quiet'
      /\ exit' = "race" => CrashOnlyTerraform'
  BY <1>1 DEF IInv, EndInv, Quiet, CrashOnlyTerraform, sinkVars
<1> QED
  BY <1>1, <1>2, <1>3, <1>4, MainMoves

\* Every step keeps the invariant.
LEMMA NextInv == IInv /\ [Next]_vars => IInv'
<1> SUFFICES ASSUME IInv, [Next]_vars PROVE IInv'
  OBVIOUS
<1>1. CASE Starting
  BY <1>1, BeforeStep, FatalSteps, InitClusterStep, InitSinkStep, InitValidatorStep,
     InitFailsStep, StartManagerStep DEF Starting
<1>2. CASE RunnablesStart \/ CacheFails \/ Shutdown
  BY <1>2, ManagerSteps
<1>3. CASE SecondSignal \/ ManagerDone \/ GraceOver \/ RunDeferred \/ Exit
  BY <1>3, SecondSignalStep, ReturnSteps, RunDeferredStep, ExitStep
<1>4. CASE \E r \in Requests : Arrive(r)
  BY <1>4, ArriveStep
<1>5. CASE AuditEntity \/ AuditorEnds
  BY <1>5, AuditorSteps
<1>6. CASE \E c \in Callers : WriteNext(c) \/ Respond(c) \/ Rewritten(c) \/ Race(c)
  BY <1>6, WriteNextStep, RespondSteps, RaceStep
<1>7. CASE \E s \in AllSinks : StartWorker(s) \/ Take(s) \/ Handle(s) \/ EndWorker(s)
  BY <1>7, WorkerSteps
<1>8. CASE UNCHANGED vars
  BY <1>8, StutterStep
<1> QED
  BY <1>1, <1>2, <1>3, <1>4, <1>5, <1>6, <1>7, <1>8 DEF Next

\* The invariant holds in every state the agent reaches: what main.go has made,
\* started and still has to stop, and where results are.
THEOREM AgentInvariance == Spec => []IInv
  BY InitInv, NextInv, PTL DEF Spec

-----------------------------------------------------------------------------
(***************************************************************************)
(* What the invariant shows                                                *)
(***************************************************************************)
\* Every variable has a value of its type, and no channel or batch of a
\* sink (NewK8sEventSink, NewElasticSearchSink, ...) holds more than fits.
THEOREM AgentTypeCorrect == Spec => []TypeOK
<1>1. IInv => TypeOK
  <2> SUFFICES ASSUME IInv PROVE TypeOK
    OBVIOUS
  <2>1. \A path \in DOMAIN validators : validators[path] \in Seq(made)
    <3>1. \A path : OwnOf(path) \subseteq made
      BY DEF OwnOf
    <3> QED
      BY <3>1, Wider DEF IInv, CallInv
  <2>2. \A s \in AllSinks :
           /\ sent[s] \in Seq(Callers) /\ Len(sent[s]) - taken[s] \in 0..ChanSize
           /\ taken[s] - handled[s] \in 0..BatchSize
           /\ worker[s] \in {"new", "working", "ended"}
    <3>1. ChanSize \in Nat /\ BatchSize \in Nat
      BY AgentAssumption
    <3>2. ASSUME NEW s \in AllSinks
          PROVE  /\ sent[s] \in Seq(Callers) /\ taken[s] \in Nat /\ handled[s] \in Nat
                 /\ worker[s] \in {"new", "working", "ended"}
                 /\ taken[s] <= Len(sent[s]) /\ Len(sent[s]) <= taken[s] + ChanSize
                 /\ handled[s] <= taken[s] /\ taken[s] <= handled[s] + BatchSize
                 /\ Len(sent[s]) \in Nat
      BY LenProperties DEF IInv, SinkTypes
    <3>3. ASSUME NEW s \in AllSinks
          PROVE  Len(sent[s]) - taken[s] \in 0..ChanSize /\ taken[s] - handled[s] \in 0..BatchSize
      BY <3>1, <3>2
    <3> QED
      BY <3>2, <3>3
  <2>3. \A c \in Callers : call[c].state \in {"idle", "writing", "rewriting", "done", "ended"}
    BY DEF IInv, CallTypes, CallType
  <2> QED
    BY <2>1, <2>2, <2>3 DEF IInv, MainTypes, Paths, TypeOK
<1> QED
  BY <1>1, AgentInvariance, PTL

\* The deferred Stops of main.go reach every sink whose worker was started,
\* unless the process crashes or is told twice to end: no os.Exit or
\* logger.Fatal of app.Action comes after mgr.Start has started one.
THEOREM NoSinkIsLeftOpen == Spec => []NoSinkLeftOpen
<1>1. IInv => NoSinkLeftOpen
  <2> SUFFICES ASSUME IInv, main = "exited", exit \notin {"race", "killed"},
                      NEW s \in made, HasStop(s), worker[s] # "new"
               PROVE  s \in Range(stopped)
    BY DEF NoSinkLeftOpen
  <2>1. s \in AllSinks /\ started
    BY DEF IInv, MainTypes, PhaseInv
  <2>2. exit \in {"ok", "error", "panic"}
    BY <2>1 DEF IInv, MainTypes, PhaseInv
  <2>3. defers = << >>
    BY <2>2 DEF IInv, PhaseInv
  <2>4. Range(defers) = {}
    BY <2>3 DEF Range
  <2> QED
    BY <2>4 DEF IInv, StopInv
<1> QED
  BY <1>1, AgentInvariance, PTL

\* The exit of main.go tells what happened: status 0 that nothing is under
\* way, a panic in a Stop that no worker was started, a data race
\* (terraform.go) that a Terraform plan met a sink for Terraform results.
THEOREM ExitIsTrue == Spec => []ExitTells
<1>1. IInv => ExitTells
  <2> SUFFICES ASSUME IInv PROVE ExitTells
    OBVIOUS
  <2>1. OkMeansQuiet
    BY DEF OkMeansQuiet, IInv, EndInv, Quiet, WorkerInv, MainTypes
  <2>2. PanicOnlyEarly
    BY DEF PanicOnlyEarly, IInv, PhaseInv
  <2> QED
    BY <2>1, <2>2 DEF ExitTells, IInv, EndInv
<1> QED
  BY <1>1, AgentInvariance, PTL

\* GetAgentConfiguration: getField reads the address where it is used.
LEMMA ElasticAddress == ASSUME IInv PROVE ElasticAddressed
<1> SUFFICES ASSUME NEW mode \in {"audit", "admission"}, <<mode, "elastic">> \in made,
                    NEW given,
                    given = IF <<mode, "address">> \in DOMAIN case.env
                              THEN case.env[<<mode, "address">>]
                            ELSE IF <<mode, "address">> \in DOMAIN case.file
                              THEN case.file[<<mode, "address">>]
                            ELSE String(""),
                    given[1] = "string"
             PROVE  config[<<mode, "address">>] = given
  BY DEF ElasticAddressed
<1> DEFINE key == <<mode, "address">>
<1>1. config = GetAgentConfiguration(case.file, case.env)
  BY DEF IInv, PartsInv
<1>2. config[<<mode, "enabled">>] /\ "elastic" \in config[<<mode, "sinks">>]
  <2>1. Wanted(config, Making(<<mode, "elastic">>))
    BY DEF IInv, PartsInv
  <2> QED
    BY <2>1 DEF Wanted, Making, Enabled
<1>3. /\ key \in Keys /\ <<mode, "enabled">> \in Keys /\ <<mode, "sinks">> \in Keys
  BY DEF Keys, Modes
<1>4. /\ config[<<mode, "enabled">>] = Unmarshalled(case.file, case.env, <<mode, "enabled">>)
      /\ config[<<mode, "sinks">>] = Unmarshalled(case.file, case.env, <<mode, "sinks">>)
  BY <1>1, <1>3 DEF GetAgentConfiguration
<1>5. mode \in ReadAgain(case.file, case.env)
  BY <1>2, <1>4 DEF ReadAgain
<1>6. config[key] = getField(case.file, case.env, key)
  BY <1>1, <1>3, <1>5 DEF GetAgentConfiguration
<1>7. Lookup(case.file, case.env, key) = given
  BY DEF Lookup, Defaults, Zero
<1> QED
  BY <1>6, <1>7 DEF getField

\* checkRequiredFields: the identity is given, if only as an empty text.
LEMMA IdentityFacts == ASSUME IInv PROVE IdentityKnown
<1> SUFFICES ASSUME main \notin {"before", "exited"}, NEW text \in {"accountId", "clusterId"},
                    <<"agent", text>> \notin DOMAIN case.env \ DOMAIN case.file,
                    <<"agent", text>> \in DOMAIN case.file => case.file[<<"agent", text>>] # ""
             PROVE  config[<<"agent", text>>] # ""
  BY DEF IdentityKnown
<1> DEFINE key == <<"agent", text>>
<1>1. /\ config = GetAgentConfiguration(case.file, case.env)
      /\ checkRequiredFields(case.file, case.env) /\ case \in Cases
  BY DEF IInv, PartsInv, MainTypes
<1>2. key \in Keys /\ text \in Texts /\ key \notin DOMAIN Defaults /\ key[2] # "address"
  BY DEF Keys, Texts, Defaults
<1>3. key \in DOMAIN case.file
  BY <1>1, <1>2 DEF checkRequiredFields, IsSet
<1>4. config[key] = Unmarshalled(case.file, case.env, key)
  BY <1>1, <1>2 DEF GetAgentConfiguration
<1>5. config[key] = IF key \in DOMAIN case.env THEN case.env[key] ELSE case.file[key]
  BY <1>2, <1>3, <1>4 DEF Unmarshalled, Lookup
<1> QED
  BY <1>1, <1>2, <1>3, <1>5, AgentAssumption

\* What runs is what file and environment say (config.go): the Elasticsearch
\* sinks have their address, and results their account and cluster, up to
\* the exceptions that AsConfigured names.
THEOREM RunsAsConfigured == Spec => []AsConfigured
  BY ElasticAddress, IdentityFacts, AgentInvariance, PTL DEF AsConfigured

\* WriteNext is an Accept of the sink that is next.
LEMMA WriteIsAccept ==
    ASSUME IInv, NEW c \in Callers, WriteNext(c)
    PROVE  \A s \in AllSinks : Sink(s)!Next \/ UNCHANGED Sink(s)!sinkVars
<1> DEFINE at == call[c].at
           t == Sinks(c)[at]
<1>1. /\ Len(sent[t]) - taken[t] < ChanSize
      /\ sent' = [sent EXCEPT ![t] = Append(sent[t], c)]
      /\ UNCHANGED <<taken, handled, worker>>
  BY DEF WriteNext, HasRoom
<1> HIDE DEF t
<1> TAKE s \in AllSinks
<1>2. sent \in [AllSinks -> Seq(Callers)] /\ sent[s] \in Seq(Callers)
  BY DEF IInv, SinkTypes
<1>3. CASE s = t
  <2>1. sent'[s] = Append(sent[s], c)
    BY <1>1, <1>2, <1>3
  <2>2. Len(sent'[s]) = Len(sent[s]) + 1
    BY <1>2, <2>1
  <2>3. Sink(s)!Accept
    BY <1>1, <1>3, <2>2 DEF Sink!Accept
  <2> QED
    BY <2>3 DEF Sink!Next
<1>4. CASE s # t
  <2>1. sent'[s] = sent[s]
    BY <1>1, <1>2, <1>4
  <2> QED
    BY <1>1, <2>1 DEF Sink!sinkVars
<1> QED
  BY <1>3, <1>4

\* The steps of a worker are those of its sink.
LEMMA WorkerIsSinks ==
    ASSUME IInv, NEW t \in AllSinks, StartWorker(t) \/ Take(t) \/ Handle(t) \/ EndWorker(t)
    PROVE  \A s \in AllSinks : Sink(s)!Next \/ UNCHANGED Sink(s)!sinkVars
<1> TAKE s \in AllSinks
<1>1. /\ taken \in [AllSinks -> Nat] /\ handled \in [AllSinks -> Nat]
      /\ worker \in [AllSinks -> {"new", "working", "ended"}]
      /\ taken[t] \in Nat /\ handled[t] \in Nat
  BY DEF IInv, SinkTypes
<1>2. UNCHANGED sent
  BY DEF StartWorker, Take, Handle, EndWorker, WorkerMoves
<1>3. CASE s # t
  BY <1>1, <1>2, <1>3 DEF StartWorker, Take, Handle, EndWorker, Sink!sinkVars
<1>4. CASE s = t
  <2>1. CASE StartWorker(t)
    <3>1. Sink(s)!Start
      BY <1>1, <1>2, <1>4, <2>1 DEF StartWorker, Sink!Start
    <3> QED
      BY <3>1 DEF Sink!Next
  <2>2. CASE Take(t)
    <3>1. Sink(s)!Take
      BY <1>1, <1>2, <1>4, <2>2 DEF Take, Sink!Take
    <3> QED
      BY <3>1 DEF Sink!Next
  <2>3. CASE Handle(t)
    <3>1. Sink(s)!Handle
      BY <1>1, <1>2, <1>4, <2>3 DEF Handle, Sink!Handle
    <3> QED
      BY <3>1 DEF Sink!Next
  <2>4. CASE EndWorker(t)
    <3>1. Sink(s)!End
      BY <1>1, <1>2, <1>4, <2>4 DEF EndWorker, Sink!End
    <3> QED
      BY <3>1 DEF Sink!Next
  <2> QED
    BY <2>1, <2>2, <2>3, <2>4
<1> QED
  BY <1>3, <1>4

\* What validators (writeToSinks) and main.go do to sinks: every step is one that
\* SinkSpec allows each of them, and results are in sinks of their own mode.
THEOREM SinksUsedAsPromised == Spec => SinksUsed
<1>1. Init => \A s \in AllSinks : Sink(s)!Init
  BY DEF Init, Sink!Init
<1>2. IInv /\ [Next]_vars => [\A s \in AllSinks : Sink(s)!Next \/ UNCHANGED Sink(s)!sinkVars]_sinkVars
  <2> SUFFICES ASSUME IInv, [Next]_vars, ~UNCHANGED sinkVars
               PROVE  \A s \in AllSinks : Sink(s)!Next \/ UNCHANGED Sink(s)!sinkVars
    OBVIOUS
  <2>1. ~Starting
    BY DEF Starting, Before, BeforeFails, InitCluster, InitSink, InitValidator, InitFails,
           IntervalRefused, StartManager, ControllerFails
  <2>2. ~(RunnablesStart \/ CacheFails \/ Shutdown \/ SecondSignal \/ ManagerDone \/ GraceOver
            \/ RunDeferred \/ Exit)
    BY DEF RunnablesStart, CacheFails, Shutdown, SecondSignal, ManagerDone, GraceOver, RunDeferred,
           Exit, MainSteps
  <2>3. ~(\E r \in Requests : Arrive(r)) /\ ~AuditEntity /\ ~AuditorEnds
    BY DEF Arrive, AuditEntity, AuditorEnds
  <2>4. ~(\E c \in Callers : Respond(c) \/ Rewritten(c) \/ Race(c))
    BY DEF Respond, Rewritten, Race
  <2>5. ~UNCHANGED vars
    BY DEF vars
  <2>6. \/ \E c \in Callers : WriteNext(c)
        \/ \E s \in AllSinks : StartWorker(s) \/ Take(s) \/ Handle(s) \/ EndWorker(s)
    BY <2>1, <2>2, <2>3, <2>4, <2>5 DEF Next
  <2> QED
    BY <2>6, WriteIsAccept, WorkerIsSinks
<1>3. IInv' => [OwnSinks']_sinkVars
  BY DEF IInv, CallInv
<1> QED
  BY <1>1, <1>2, <1>3, AgentInvariance, PTL DEF Spec, SinksUsed
=============================================================================
