---------------------------- MODULE OperationsProofs ----------------------------
(***************************************************************************)
(* Proofs about the mode runner, the harness and the container they share, *)
(* for any number of runners, runs, containers, polls and signals.         *)
(*                                                                         *)
(* The invariant has a part for each component.  A step of one component   *)
(* changes one process's variables and perhaps the container; what it does *)
(* to the others is only that `made` grows.                                *)
(***************************************************************************)
EXTENDS Operations, TLAPS

--------------------------------------------------------------------------------
(* The container.                                                          *)

ServiceInv == ServiceType /\ (status = "running" => current # 0)

\* The service starts without a container, with a healthy one or with one that exited.
LEMMA InitService == ServiceInit => ServiceInv
BY ContainersAssumption DEF ServiceInit, ServiceInv, ServiceType

\* A recreated container has a new id.
LEMMA ReplacedService ==
  ASSUME ServiceInv, NEW c \in Configs, NEW running \in BOOLEAN, Replaced(c, running)
  PROVE  ServiceInv' /\ made' = made + 1 /\ made' \in 1 .. MaxContainers
BY ContainersAssumption DEF ServiceInv, ServiceType, Replaced

\* What docker does by itself keeps the service's part.
LEMMA DockerService ==
  ASSUME ServiceInv, ServiceNext \/ RecordRecreates
  PROVE  ServiceInv' /\ made' >= made
<1>1. CASE ServiceNext
  BY <1>1, ContainersAssumption
  DEF ServiceNext, HealthCheck, ContainerExits, Down, ServiceInv, ServiceType
<1>2. CASE RecordRecreates
  <2>1. PICK c \in Configs : Replaced(c, TRUE)
    BY <1>2 DEF RecordRecreates
  <2>2. made \in Nat
    BY ContainersAssumption DEF ServiceInv, ServiceType
  <2>3. ServiceInv' /\ made' = made + 1
    BY <2>1, ReplacedService, Zenon
  <2> QED
    BY <2>2, <2>3
<1> QED
  BY <1>1, <1>2

\* What ps lists is the newest container or nothing.
LEMMA ListedIsNewest ==
  ASSUME ServiceInv
  PROVE  Listed \in {0, made} /\ Listed \in 0 .. MaxContainers
BY ContainersAssumption DEF ServiceInv, ServiceType, Listed

--------------------------------------------------------------------------------
(* The mode runner.                                                        *)

\* The variables s of a runner when n containers were made.
RunnerOK(s, n) ==
    /\ s.own <= n
    /\ s.pc \in {"start", "up", "poll", "state", "health"} => s.on = 0 /\ s.exit = -1 /\ ~s.simulated
    /\ s.pc \in {"poll", "state", "health"} => s.own # 0
    /\ s.pc \in {"state", "health"} => s.id >= s.own
    /\ s.pc = "simulate" => s.on # 0
    /\ s.on # 0 => s.own # 0 /\ s.on >= s.own
    /\ s.mode = "scenario" /\ (s.simulated \/ s.exit = 0) => s.on # 0

RunnerInv == RunnerType /\ \A r \in Runners : RunnerOK(runner[r], made)

\* A mode runner starts knowing nothing.
LEMMA InitRunner == ServiceInv /\ RunnerInit => RunnerInv
BY ContainersAssumption, PollsAssumption DEF RunnerInit, RunnerInv, RunnerType, Shell, RunnerOK, ServiceInv, ServiceType

\* An update of one runner is judged by that runner.
LEMMA SetRunner ==
  ASSUME ServiceInv, RunnerInv, NEW r \in Runners, NEW new \in Shell, Set(r, new),
         made' \in Nat, made' >= made, RunnerOK(new, made')
  PROVE  RunnerInv'
<1>1. RunnerType'
  BY DEF Set, RunnerInv, RunnerType
<1>2. ASSUME NEW q \in Runners PROVE RunnerOK(runner'[q], made')
  <2>1. CASE q = r
    BY <2>1 DEF Set, RunnerInv, RunnerType
  <2>2. CASE q # r
    <3>1. runner'[q] = runner[q] /\ runner[q] \in Shell /\ RunnerOK(runner[q], made)
      BY <2>2 DEF Set, RunnerInv, RunnerType
    <3>2. made \in Nat /\ runner[q].own \in Nat
      BY <3>1, ContainersAssumption DEF Shell, ServiceInv, ServiceType
    <3>3. runner[q].own <= made'
      BY <3>1, <3>2 DEF RunnerOK
    <3> QED
      BY <3>1, <3>3 DEF RunnerOK
  <2> QED
    BY <2>1, <2>2
<1> QED
  BY <1>1, <1>2 DEF RunnerInv

\* Nobody but a runner changes its variables.
LEMMA OthersRunner ==
  ASSUME ServiceInv, RunnerInv, UNCHANGED runner, made' \in Nat, made' >= made
  PROVE  RunnerInv'
<1>1. ASSUME NEW q \in Runners PROVE RunnerOK(runner[q], made')
  <2>1. runner[q] \in Shell /\ RunnerOK(runner[q], made)
    BY DEF RunnerInv, RunnerType
  <2>2. made \in Nat /\ runner[q].own \in Nat
    BY <2>1, ContainersAssumption DEF Shell, ServiceInv, ServiceType
  <2>3. runner[q].own <= made'
    BY <2>1, <2>2 DEF RunnerOK
  <2> QED
    BY <2>1, <2>3 DEF RunnerOK
<1> QED
  BY <1>1 DEF RunnerInv, RunnerType

\* Every step of a runner keeps the runners' part.
LEMMA RunnerStepInv ==
  ASSUME ServiceInv, RunnerInv, NEW r \in Runners, RunnerStep(r)
  PROVE  ServiceInv' /\ RunnerInv' /\ made' >= made
<1> DEFINE s == runner[r]
<1>1. /\ made \in 0 .. MaxContainers /\ s \in Shell /\ RunnerOK(s, made)
      /\ MaxContainers \in Nat /\ made \in Nat /\ MaxPolls \in Nat
      /\ s.own \in Nat /\ s.id \in Nat /\ s.on \in Nat
  BY ContainersAssumption, PollsAssumption DEF ServiceInv, ServiceType, RunnerInv, RunnerType, Shell
<1>2. ASSUME NEW new \in Shell, Set(r, new), RunnerOK(new, made), UNCHANGED service
      PROVE  ServiceInv' /\ RunnerInv' /\ made' >= made
  <2>1. ServiceInv' /\ made' = made
    BY <1>2 DEF service, ServiceInv, ServiceType
  <2> QED
    BY <1>1, <1>2, <2>1, SetRunner
<1>3. CASE Requirements(r)
  <2>1. UNCHANGED service
    BY <1>3 DEF Requirements
  <2>2. CASE Exit(r, 78)
    <3> DEFINE new == [s EXCEPT !.pc = "ended", !.exit = 78, !.id = 0, !.state = "none"]
    <3>1. new \in Shell /\ RunnerOK(new, made)
      <4>1. new \in Shell
        BY <1>1, <1>3 DEF Shell, RunnerOK, Requirements, At
      <4>2. RunnerOK(new, made)
        BY <1>1, <1>3 DEF Shell, RunnerOK, Requirements, At
      <4> QED
        BY <4>1, <4>2
    <3>2. Set(r, new)
      BY <2>2 DEF Exit
    <3> QED
      BY <1>2, <2>1, <3>1, <3>2
  <2>3. ASSUME NEW mode \in {"planning", "scenario-up", "scenario"},
               Set(r, [s EXCEPT !.pc = "up", !.mode = mode])
        PROVE  ServiceInv' /\ RunnerInv' /\ made' >= made
    <3> DEFINE new == [s EXCEPT !.pc = "up", !.mode = mode]
    <3>1. new \in Shell /\ RunnerOK(new, made)
      <4>1. new \in Shell
        BY <1>1, <1>3 DEF Shell, RunnerOK, Requirements, At
      <4>2. RunnerOK(new, made)
        BY <1>1, <1>3 DEF Shell, RunnerOK, Requirements, At
      <4> QED
        BY <4>1, <4>2
    <3> QED
      BY <1>2, <2>1, <2>3, <3>1
  <2> QED
    BY <1>3, <2>2, <2>3 DEF Requirements
<1>4. CASE Up(r)
  <2>1. s.pc = "up" /\ ModeConfig(r) \in Configs
    BY <1>4, PollsAssumption DEF Up, At, ModeConfig
  <2>2. ASSUME NEW code \in {0, 1}, Exit(r, code), s.mode = "scenario-up" \/ code = 1,
               made' \in Nat, made' >= made
        PROVE  RunnerInv'
    <3> DEFINE new == [s EXCEPT !.pc = "ended", !.exit = code, !.id = 0, !.state = "none"]
    <3>1. new \in Shell /\ RunnerOK(new, made')
      <4>1. new \in Shell
        BY <1>1, <2>1, <2>2 DEF Shell, RunnerOK
      <4>2. RunnerOK(new, made')
        BY <1>1, <2>1, <2>2 DEF Shell, RunnerOK
      <4> QED
        BY <4>1, <4>2
    <3>2. Set(r, new)
      BY <2>2 DEF Exit
    <3> QED
      BY <2>2, <3>1, <3>2, SetRunner
  <2>3. CASE Replaced(ModeConfig(r), TRUE) /\ s.mode = "scenario-up" /\ \E code \in {0, 1} : Exit(r, code)
    <3>1. ServiceInv' /\ made' = made + 1
      BY <2>1, <2>3, ReplacedService, Zenon
    <3> QED
      BY <1>1, <2>2, <2>3, <3>1
  <2>4. CASE Replaced(ModeConfig(r), TRUE) /\ Set(r, [s EXCEPT !.pc = "poll", !.own = made + 1])
    <3> DEFINE new == [s EXCEPT !.pc = "poll", !.own = made + 1]
    <3>1. ServiceInv' /\ made' = made + 1 /\ made' \in 1 .. MaxContainers
      BY <2>1, <2>4, ReplacedService, Zenon
    <3>0. made + 1 \in 0 .. MaxContainers /\ made + 1 # 0
      BY <1>1, <3>1
    <3>2. new \in Shell /\ RunnerOK(new, made')
      <4>1. new \in Shell
        BY <1>1, <2>1, <3>0, <3>1 DEF Shell, RunnerOK
      <4>2. RunnerOK(new, made')
        BY <1>1, <2>1, <3>0, <3>1 DEF Shell, RunnerOK
      <4> QED
        BY <4>1, <4>2
    <3>3. RunnerInv'
      BY <1>1, <2>4, <3>1, <3>2, SetRunner
    <3> QED
      BY <1>1, <3>1, <3>3
  <2>5. CASE Replaced(ModeConfig(r), FALSE) /\ Exit(r, 1)
    <3>1. ServiceInv' /\ made' = made + 1
      BY <2>1, <2>5, ReplacedService, Zenon
    <3> QED
      BY <1>1, <2>2, <2>5, <3>1
  <2>6. CASE UNCHANGED service /\ Exit(r, 1)
    <3>1. ServiceInv' /\ made' = made
      BY <2>6 DEF service, ServiceInv, ServiceType
    <3> QED
      BY <1>1, <2>2, <2>6, <3>1
  <2> QED
    BY <1>4, <2>3, <2>4, <2>5, <2>6 DEF Up
<1>5. ASSUME UNCHANGED service, Exit(r, 1), s.pc \in {"poll", "state", "health"}
      PROVE  ServiceInv' /\ RunnerInv' /\ made' >= made
  <2> DEFINE new == [s EXCEPT !.pc = "ended", !.exit = 1, !.id = 0, !.state = "none"]
  <2>1. new \in Shell /\ RunnerOK(new, made)
    <3>1. new \in Shell
      BY <1>1, <1>5 DEF Shell, RunnerOK
    <3>2. RunnerOK(new, made)
      BY <1>1, <1>5 DEF Shell, RunnerOK
    <3> QED
      BY <3>1, <3>2
  <2>2. Set(r, new)
    BY <1>5 DEF Exit
  <2> QED
    BY <1>2, <1>5, <2>1, <2>2
<1>6. CASE Poll(r)
  <2>1. UNCHANGED service /\ s.pc = "poll"
    BY <1>6 DEF Poll, At
  <2>2. ASSUME s.left > 0, NEW id \in {Listed, 0},
               Set(r, [s EXCEPT !.left = @ - 1, !.id = id, !.pc = IF id = 0 THEN "poll" ELSE "state"])
        PROVE  ServiceInv' /\ RunnerInv' /\ made' >= made
    <3> DEFINE new == [s EXCEPT !.left = @ - 1, !.id = id, !.pc = IF id = 0 THEN "poll" ELSE "state"]
    <3>1. id \in {0, made} /\ id \in 0 .. MaxContainers
      BY ListedIsNewest, <1>1
    <3>2. s.left - 1 \in 0 .. MaxPolls
      BY <1>1, <2>2 DEF Shell
    <3>3. new \in Shell /\ RunnerOK(new, made)
      <4>1. new \in Shell
        BY <1>1, <2>1, <3>1, <3>2 DEF Shell, RunnerOK
      <4>2. RunnerOK(new, made)
        BY <1>1, <2>1, <3>1, <3>2 DEF Shell, RunnerOK
      <4> QED
        BY <4>1, <4>2
    <3> QED
      BY <1>2, <2>1, <2>2, <3>3
  <2> QED
    BY <1>5, <1>6, <2>1, <2>2 DEF Poll
<1>7. CASE ReadState(r)
  <2>1. UNCHANGED service /\ s.pc = "state"
    BY <1>7 DEF ReadState, At
  <2>2. CASE Exists(s.id) /\ Set(r, [s EXCEPT !.state = status, !.pc = "health"])
    <3> DEFINE new == [s EXCEPT !.state = status, !.pc = "health"]
    <3>1. new \in Shell /\ RunnerOK(new, made)
      <4>1. new \in Shell
        BY <1>1, <2>1 DEF Shell, RunnerOK, ServiceInv, ServiceType
      <4>2. RunnerOK(new, made)
        BY <1>1, <2>1 DEF Shell, RunnerOK, ServiceInv, ServiceType
      <4> QED
        BY <4>1, <4>2
    <3> QED
      BY <1>2, <2>1, <2>2, <3>1
  <2> QED
    BY <1>5, <1>7, <2>1, <2>2 DEF ReadState
<1>8. CASE ReadHealth(r)
  <2>1. UNCHANGED service /\ s.pc = "health"
    BY <1>8 DEF ReadHealth, At
  <2>2. CASE Exists(s.id) /\ Healthy(r)
    <3> DEFINE new == IF s.mode = "planning"
                      THEN [s EXCEPT !.pc = "ended", !.exit = 0, !.on = s.id, !.state = "none"]
                      ELSE [s EXCEPT !.pc = "simulate", !.on = s.id, !.state = "none"]
    <3>1. new \in Shell /\ RunnerOK(new, made)
      <4>1. new \in Shell
        BY <1>1, <2>1, <2>2 DEF Shell, RunnerOK, Exists
      <4>2. RunnerOK(new, made)
        BY <1>1, <2>1, <2>2 DEF Shell, RunnerOK, Exists
      <4> QED
        BY <4>1, <4>2
    <3>2. Set(r, new)
      BY <2>2 DEF Healthy
    <3> QED
      BY <1>2, <2>1, <3>1, <3>2
  <2>3. CASE Again(r)
    <3> DEFINE new == [s EXCEPT !.pc = "poll", !.id = 0, !.state = "none"]
    <3>1. new \in Shell /\ RunnerOK(new, made)
      <4>1. new \in Shell
        BY <1>1, <2>1 DEF Shell, RunnerOK
      <4>2. RunnerOK(new, made)
        BY <1>1, <2>1 DEF Shell, RunnerOK
      <4> QED
        BY <4>1, <4>2
    <3>2. Set(r, new)
      BY <2>3 DEF Again
    <3> QED
      BY <1>2, <2>1, <3>1, <3>2
  <2> QED
    BY <1>5, <1>8, <2>1, <2>2, <2>3 DEF ReadHealth
<1>9. CASE Simulate(r)
  <2>1. UNCHANGED service /\ s.pc = "simulate"
    BY <1>9 DEF Simulate, At
  <2>2. PICK code \in {0, 1} : Set(r, [s EXCEPT !.pc = "ended", !.exit = code, !.simulated = TRUE])
    BY <1>9 DEF Simulate
  <2> DEFINE new == [s EXCEPT !.pc = "ended", !.exit = code, !.simulated = TRUE]
  <2>3. new \in Shell /\ RunnerOK(new, made)
    <3>1. new \in Shell
      BY <1>1, <2>1 DEF Shell, RunnerOK
    <3>2. RunnerOK(new, made)
      BY <1>1, <2>1 DEF Shell, RunnerOK
    <3> QED
      BY <3>1, <3>2
  <2> QED
    BY <1>2, <2>1, <2>2, <2>3
<1> QED
  BY <1>3, <1>4, <1>6, <1>7, <1>8, <1>9 DEF RunnerStep, WaitStep

--------------------------------------------------------------------------------
(* The harness.                                                            *)

\* A verdict whose status says what its code says.
Honest(v) == v.status \in {"PASS", "OBSERVED"} <=> v.code = 0

\* The variables l of a run whose decision.md holds d.
RunOK(l, d) ==
    /\ l.pc = "idle" => l.test = "none" /\ l.step = 1 /\ l.kept = {}
    /\ l.pc \in {"idle", "step"} => l.by = "nobody" /\ l.exit = -1
    /\ l.finished <=> l.by = "finish"
    /\ l.pc \in {"open", "fill", "leave"} => l.by # "nobody" /\ Honest(l.verdict) /\ l.exit = -1
    /\ l.by \in {"subshell", "trap"} => l.verdict.code # 0
    /\ l.pc = "leave" => l.by # "subshell" /\ d = l.verdict.status
    /\ l.pc = "ended" /\ l.test # "none" =>
         /\ l.exit = 0 => d \in {"PASS", "OBSERVED"}
         /\ ~l.cut => d \in Statuses /\ (d \in {"PASS", "OBSERVED"} <=> l.exit = 0)

\* How far a runtime test has come says what it has read, always of one container.
RuntimeOK(l) ==
    l.test = "runtime" =>
        /\ l.step > 4 => l.id # 0
        /\ l.step <= 5 => l.kept = {}
        /\ l.step > 5 => l.kept = {l.id}
        /\ l.step > 9 => l.on = l.id
        /\ l.step > 11 => l.status = "running"
        /\ l.step > 12 => l.health = "healthy"
        /\ l.by = "finish" /\ l.verdict.code = 0 => l.step > 12
        /\ l.exit = 0 => l.step > 12

HarnessInv ==
    /\ HarnessType
    /\ \A h \in Runs : RunOK(harness[h], decision[h]) /\ RuntimeOK(harness[h])

\* A harness run starts with no decision.
LEMMA InitHarness == HarnessInit => HarnessInv
<1> SUFFICES ASSUME HarnessInit PROVE HarnessInv
  OBVIOUS
<1>1. HarnessType
  BY ContainersAssumption, SignalsAssumption DEF HarnessInit, HarnessType, Locals, Places, Writers, Verdicts, Ids, States, Healths, Exits, Statuses, Fail
<1>2. ASSUME NEW h \in Runs PROVE RunOK(harness[h], decision[h]) /\ RuntimeOK(harness[h])
  BY DEF HarnessInit, RunOK, RuntimeOK
<1> QED
  BY <1>1, <1>2 DEF HarnessInv

\* No table has more than twelve steps.
LEMMA StepsBounded == \A test : Len(Steps(test)) \in 0 .. 12
BY DEF Steps, HostSteps, GpuSteps, NavsimSteps, NetworkSteps, ClockSteps, RuntimeSteps, RosSteps,
       LearningSteps, ComposeSteps

\* Where the runtime test reads and compares what.
LEMMA RuntimeTable ==
  /\ Len(Steps("runtime")) = 12
  /\ \A k \in 1 .. 12 :
       /\ Steps("runtime")[k] = "ps"      <=> k = 3
       /\ Steps("runtime")[k] = "listed"  <=> k = 4
       /\ Steps("runtime")[k] \in Kept    <=> k \in 5 .. 7
       /\ Steps("runtime")[k] = "status"  <=> k = 8
       /\ Steps("runtime")[k] = "health"  <=> k = 9
       /\ Steps("runtime")[k] = "running" <=> k = 11
       /\ Steps("runtime")[k] = "healthy" <=> k = 12
       /\ Steps("runtime")[k] \in {"need", "demand", "plain"} => k \in {1, 10}
       /\ Steps("runtime")[k] \in {"dgx", "role", "arch"} => k = 2
<1>1. Steps("runtime") = RuntimeSteps
  BY DEF Steps
<1>2. ASSUME NEW k \in 1 .. 12
      PROVE  \/ k = 1 \/ k = 2 \/ k = 3 \/ k = 4 \/ k = 5 \/ k = 6
             \/ k = 7 \/ k = 8 \/ k = 9 \/ k = 10 \/ k = 11 \/ k = 12
  OBVIOUS
<1> QED
  BY <1>1, <1>2 DEF RuntimeSteps, Kept

\* An update of one run is judged by that run.
LEMMA PutRun ==
  ASSUME HarnessInv, NEW h \in Runs, NEW new \in Locals, Put(h, new),
         NEW d \in Statuses \cup {"none", "torn"}, decision' = [decision EXCEPT ![h] = d],
         RunOK(new, d), RuntimeOK(new), signals' \in 0 .. MaxSignals
  PROVE  HarnessInv'
<1>1. HarnessType'
  BY DEF Put, HarnessInv, HarnessType
<1>2. ASSUME NEW g \in Runs PROVE RunOK(harness'[g], decision'[g]) /\ RuntimeOK(harness'[g])
  <2>1. CASE g = h
    BY <2>1 DEF Put, HarnessInv, HarnessType
  <2>2. CASE g # h
    <3>1. harness'[g] = harness[g] /\ decision'[g] = decision[g]
      BY <2>2 DEF Put, HarnessInv, HarnessType
    <3> QED
      BY <3>1 DEF HarnessInv
  <2> QED
    BY <2>1, <2>2
<1>3. ASSUME NEW g \in Runs PROVE RunOK(harness[g], decision[g])' /\ RuntimeOK(harness[g])'
  BY <1>2 DEF RunOK, RuntimeOK, Honest
<1> QED
  BY <1>1, <1>3 DEF HarnessInv

\* The usual step: decision.md is left alone.
LEMMA KeepDecision ==
  ASSUME HarnessInv, NEW h \in Runs, NEW new \in Locals, Put(h, new), UNCHANGED decision,
         RunOK(new, decision[h]), RuntimeOK(new), signals' \in 0 .. MaxSignals
  PROVE  HarnessInv'
<1>1. decision[h] \in Statuses \cup {"none", "torn"} /\ decision' = [decision EXCEPT ![h] = decision[h]]
  BY DEF HarnessInv, HarnessType
<1> QED
  BY <1>1, PutRun

\* finish, from any step of a test.
LEMMA FinishStep ==
  ASSUME HarnessInv, NEW h \in Runs, NEW local \in Locals, NEW v \in Verdicts, Finish(h, local, v),
         local.exit = -1, RuntimeOK(local), Honest(v), v.code = 0 /\ local.test = "runtime" => local.step > 12,
         UNCHANGED <<decision, signals>>
  PROVE  HarnessInv'
<1> DEFINE new == [local EXCEPT !.pc = "open", !.finished = TRUE, !.by = "finish", !.verdict = v]
<1>1. new \in Locals
  BY DEF Locals, Places, Writers
<1>2. RunOK(new, decision[h])
  BY DEF Locals, RunOK
<1>3. RuntimeOK(new)
  BY DEF Locals, RuntimeOK
<1>4. Put(h, new) /\ signals' \in 0 .. MaxSignals
  BY DEF Finish, HarnessInv, HarnessType
<1> QED
  BY <1>1, <1>2, <1>3, <1>4, KeepDecision

\* What errexit or a signal leaves to the trap, before finish was called.
Trapped(local, code) == [local EXCEPT !.pc = "open", !.by = "trap", !.verdict = Fail(code)]

\* What the trap decides agrees with the code it exits with.
LEMMA TrappedOK ==
  ASSUME NEW local \in Locals, NEW code \in {1, 2, 143},
         local.exit = -1, ~local.finished, RuntimeOK(local)
  PROVE  /\ Trapped(local, code) \in Locals
         /\ \A d : RunOK(Trapped(local, code), d)
         /\ RuntimeOK(Trapped(local, code))
<1>0. Fail(code) \in Verdicts /\ Fail(code).code # 0 /\ Honest(Fail(code))
  BY DEF Fail, Verdicts, Statuses, Honest
<1>1. Trapped(local, code) \in Locals
  BY <1>0 DEF Locals, Places, Writers, Trapped
<1>2. ASSUME NEW d PROVE RunOK(Trapped(local, code), d)
  BY <1>0 DEF Locals, RunOK, Trapped
<1>3. RuntimeOK(Trapped(local, code))
  BY DEF Locals, RuntimeOK, Trapped
<1> QED
  BY <1>1, <1>2, <1>3

\* So does what a failing command leads to.
LEMMA ErrExitStep ==
  ASSUME HarnessInv, NEW h \in Runs, NEW local \in Locals, NEW code \in {1, 2, 143}, ErrExit(h, local, code),
         UNCHANGED decision, local.exit = -1, ~local.finished, RuntimeOK(local), signals' \in 0 .. MaxSignals
  PROVE  HarnessInv'
<1>1. Put(h, Trapped(local, code))
  BY DEF ErrExit, Trapped
<1> QED
  BY <1>1, TrappedOK, KeepDecision

\* A run cut off while its decision was written, or after.
LEMMA CutOffStep ==
  ASSUME HarnessInv, NEW h \in Runs, NEW code \in {1, 143}, CutOff(h, code),
         harness[h].pc # "idle", UNCHANGED decision, signals' \in 0 .. MaxSignals
  PROVE  HarnessInv'
<1> DEFINE l == harness[h]
           new == [l EXCEPT !.pc = "ended", !.cut = TRUE, !.exit = code]
<1>1. l \in Locals /\ RunOK(l, decision[h]) /\ RuntimeOK(l)
  BY DEF HarnessInv, HarnessType
<1>2. new \in Locals
  BY <1>1 DEF Locals, Places, Exits
<1>3. /\ new.pc = "ended" /\ new.exit = code /\ new.cut
      /\ \A f \in {"test", "step", "finished", "by", "verdict", "id", "kept", "status", "health", "on"} :
           new[f] = l[f]
  BY <1>1 DEF Locals
<1>4. RunOK(new, decision[h])
  BY <1>1, <1>3 DEF RunOK
<1>5. RuntimeOK(new)
  BY <1>1, <1>3 DEF RuntimeOK
<1>6. Put(h, new)
  BY DEF CutOff
<1> QED
  BY <1>2, <1>4, <1>5, <1>6, KeepDecision

\* A step that is not the last has a successor.
LEMMA NextIndex == ASSUME NEW k \in 1 .. 13, NEW n \in 0 .. 12, k <= n PROVE k + 1 \in 1 .. 13 /\ k \in 1 .. 12
OBVIOUS

\* Where a run that has a step to do is in its table.
LEMMA StepOfTable ==
  ASSUME HarnessInv, NEW h \in Runs, More(h)
  PROVE  harness[h].step + 1 \in 1 .. 13 /\ harness[h].step \in 1 .. 12
<1> DEFINE n == Len(Steps(harness[h].test))
<1>1. n \in 0 .. 12
  BY StepsBounded
<1>2. harness[h].step \in 1 .. 13
  BY DEF HarnessInv, HarnessType, Locals, Places, Writers, Exits
<1>3. harness[h].step <= n
  BY DEF More
<1> HIDE DEF n
<1> QED
  BY <1>1, <1>2, <1>3, NextIndex

\* A step that succeeds.
LEMMA PassStep ==
  ASSUME HarnessInv, NEW h \in Runs, More(h), NEW local \in Locals, Pass(h, local),
         local.pc = "step", local.by = "nobody", local.exit = -1, ~local.finished,
         local.test = harness[h].test, local.step = harness[h].step,
         RuntimeOK([local EXCEPT !.step = @ + 1]), UNCHANGED <<decision, signals>>
  PROVE  HarnessInv'
<1> DEFINE new == [local EXCEPT !.step = @ + 1]
<1>1. local.step + 1 \in 1 .. 13
  BY StepOfTable
<1>2. new \in Locals
  BY <1>1 DEF Locals, Places, Writers, Exits
<1>3. RunOK(new, decision[h])
  BY DEF Locals, RunOK
<1>4. Put(h, new) /\ signals' \in 0 .. MaxSignals
  BY DEF Pass, HarnessInv, HarnessType
<1> QED
  BY <1>2, <1>3, <1>4, KeepDecision

\* Every step of a harness run keeps the runs' part.
LEMMA HarnessStepInv ==
  ASSUME ServiceInv, HarnessInv, NEW h \in Runs, HarnessStep(h)
  PROVE  HarnessInv'
<1> DEFINE l == harness[h]
<1>1. l \in Locals /\ RunOK(l, decision[h]) /\ RuntimeOK(l) /\ signals \in 0 .. MaxSignals
  BY DEF HarnessInv, HarnessType
<1>2. ASSUME l.pc \in {"idle", "step"} PROVE l.by = "nobody" /\ l.exit = -1 /\ ~l.finished
  BY <1>1, <1>2 DEF RunOK
<1>3. /\ Blocked \in Verdicts /\ Honest(Blocked) /\ Blocked.code # 0
      /\ \A code \in {1, 2, 143} : Fail(code) \in Verdicts /\ Honest(Fail(code)) /\ Fail(code).code # 0
  BY DEF Blocked, Fail, Verdicts, Statuses, Honest
<1>4. ASSUME More(h), l.test = "runtime"
      PROVE  l.step \in 1 .. 12 /\ Now(h) = Steps("runtime")[l.step]
  <2>1. l.step \in 1 .. 12
    BY <1>4, StepOfTable
  <2> QED
    BY <2>1, <1>4 DEF Now
<1>5. CASE Begin(h)
  <2>1. PICK test \in Tests : Put(h, [l EXCEPT !.pc = "step", !.test = test])
    BY <1>5 DEF Begin
  <2> DEFINE new == [l EXCEPT !.pc = "step", !.test = test]
  <2>2. l.pc = "idle" /\ UNCHANGED <<decision, signals>>
    BY <1>5 DEF Begin, In
  <2>3. new \in Locals
    BY <1>1 DEF Locals, Places, Writers, Exits
  <2>4. RunOK(new, decision[h])
    BY <1>1, <2>2 DEF Locals, RunOK
  <2>5. new.step = 1 /\ new.by = "nobody" /\ new.exit = -1 /\ new.kept = {}
    BY <1>1, <2>2 DEF Locals, RunOK
  <2>6. RuntimeOK(new)
    BY <2>5 DEF RuntimeOK
  <2> QED
    BY <1>1, <2>1, <2>2, <2>3, <2>4, <2>6, KeepDecision
<1>6. CASE NoEnvironment(h)
  <2> DEFINE new == [l EXCEPT !.pc = "ended", !.exit = 2]
  <2>1. Put(h, new) /\ l.pc = "idle" /\ UNCHANGED <<decision, signals>>
    BY <1>6 DEF NoEnvironment, In
  <2>2. new \in Locals
    BY <1>1 DEF Locals, Places, Writers, Exits
  <2>3. RunOK(new, decision[h]) /\ RuntimeOK(new)
    BY <1>1, <2>1 DEF Locals, RunOK, RuntimeOK
  <2> QED
    BY <1>1, <2>1, <2>2, <2>3, KeepDecision
<1>7. ASSUME NEW v \in Verdicts, Finish(h, l, v), l.pc = "step", Honest(v), UNCHANGED <<decision, signals>>,
             v.code = 0 /\ l.test = "runtime" => l.step > 12
      PROVE  HarnessInv'
  BY <1>1, <1>2, <1>7, FinishStep
<1>8. ASSUME NEW code \in {1, 2, 143}, ErrExit(h, l, code), l.pc = "step", UNCHANGED <<decision, signals>>
      PROVE  HarnessInv'
  BY <1>1, <1>2, <1>8, ErrExitStep
<1>9. CASE Command(h)
  <2>1. More(h) /\ l.pc = "step" /\ UNCHANGED <<decision, signals>> /\ Now(h) \in {"need", "demand", "plain"}
    BY <1>9 DEF Command, More, In
  <2>2. CASE Pass(h, l)
    <3> DEFINE new == [l EXCEPT !.step = @ + 1]
    <3>1. l.test = "runtime" => l.step \in {1, 10}
      BY <1>4, <2>1, RuntimeTable
    <3>2. RuntimeOK(new)
      BY <1>1, <1>2, <2>1, <3>1 DEF Locals, RuntimeOK
    <3> QED
      BY <1>1, <1>2, <2>1, <2>2, <3>2, PassStep
  <2>3. CASE Finish(h, l, Blocked)
    BY <1>3, <1>7, <2>1, <2>3
  <2>4. CASE Finish(h, l, Fail(1))
    BY <1>3, <1>7, <2>1, <2>4
  <2>5. CASE ErrExit(h, l, 1)
    BY <1>8, <2>1, <2>5
  <2> QED
    BY <1>9, <2>2, <2>3, <2>4, <2>5 DEF Command
<1>10. CASE RoleTest(h)
  <2>1. /\ More(h) /\ l.pc = "step" /\ UNCHANGED <<decision, signals>>
        /\ Now(h) \in {"dgx", "role", "arch"}
    BY <1>10 DEF RoleTest, More, In
  <2>2. CASE Pass(h, l)
    <3> DEFINE new == [l EXCEPT !.step = @ + 1]
    <3>1. l.test = "runtime" => l.step = 2
      BY <1>4, <2>1, RuntimeTable
    <3>2. RuntimeOK(new)
      BY <1>1, <1>2, <2>1, <3>1 DEF Locals, RuntimeOK
    <3> QED
      BY <1>1, <1>2, <2>1, <2>2, <3>2, PassStep
  <2>3. CASE SubFinish(h, l)
    <3> DEFINE new == [l EXCEPT !.pc = "open", !.by = "subshell", !.verdict = Blocked, !.refused = TRUE]
    <3>1. new \in Locals
      BY <1>1, <1>3 DEF Locals, Places, Writers
    <3>2. RunOK(new, decision[h])
      BY <1>1, <1>2, <1>3, <2>1 DEF Locals, RunOK
    <3>3. RuntimeOK(new)
      BY <1>1, <1>2, <2>1 DEF Locals, RuntimeOK
    <3> QED
      BY <1>1, <2>1, <2>3, <3>1, <3>2, <3>3, KeepDecision DEF SubFinish
  <2>4. CASE Finish(h, [l EXCEPT !.refused = TRUE], Blocked)
    <3> DEFINE new == [l EXCEPT !.refused = TRUE]
    <3>1. new \in Locals /\ new.exit = -1
      BY <1>1, <1>2, <2>1 DEF Locals, Places, Writers, Exits
    <3>2. RuntimeOK(new)
      BY <1>1 DEF Locals, RuntimeOK
    <3> QED
      BY <1>3, <2>1, <2>4, <3>1, <3>2, FinishStep
  <2> QED
    BY <1>10, <2>2, <2>3, <2>4 DEF RoleTest
<1>11. CASE Ps(h)
  <2>1. More(h) /\ l.pc = "step" /\ UNCHANGED <<decision, signals>> /\ Now(h) = "ps"
    BY <1>11 DEF Ps, More, In
  <2>2. CASE Pass(h, [l EXCEPT !.id = Listed])
    <3> DEFINE local == [l EXCEPT !.id = Listed]
    <3>1. local \in Locals
      BY <1>1, ListedIsNewest DEF Locals, Ids
    <3>2. /\ local.pc = "step" /\ local.by = "nobody" /\ local.exit = -1 /\ ~local.finished
          /\ local.test = l.test /\ local.step = l.step
      BY <1>1, <1>2, <2>1 DEF Locals, Places, Writers, Exits
    <3>3. l.test = "runtime" => l.step = 3
      BY <1>4, <2>1, RuntimeTable
    <3>4. RuntimeOK([local EXCEPT !.step = @ + 1])
      BY <1>1, <3>1, <3>2, <3>3 DEF Locals, RuntimeOK
    <3> QED
      BY <2>1, <2>2, <3>1, <3>2, <3>4, PassStep
  <2> QED
    BY <1>8, <1>11, <2>1, <2>2 DEF Ps
<1>12. CASE Inspect(h)
  <2>1. /\ More(h) /\ l.pc = "step" /\ UNCHANGED <<decision, signals>>
        /\ Now(h) \in Kept \cup {"status", "health"}
    BY <1>12 DEF Inspect, More, In
  <2>2. CASE ErrExit(h, l, 1)
    BY <1>8, <2>1, <2>2
  <2>3. CASE Exists(l.id) /\ Pass(h, Inspected(h))
    <3> DEFINE local == Inspected(h)
    <3>1. l \in Locals /\ l.pc = "step" /\ l.by = "nobody" /\ l.exit = -1 /\ ~l.finished
      BY <1>1, <1>2, <2>1
    <3>2. /\ current = l.id /\ current \in 0 .. MaxContainers
          /\ status \in {"none", "created", "running", "exited"}
          /\ health \in {"none", "missing", "starting", "healthy", "unhealthy"}
      BY <2>3, ContainersAssumption DEF Exists, ServiceInv, ServiceType
    <3>3. ASSUME Now(h) \in Kept
          PROVE  local = [l EXCEPT !.kept = @ \cup {current}]
      BY <3>3 DEF Inspected, Kept
    <3>4. ASSUME Now(h) = "status"
          PROVE  local = [l EXCEPT !.status = status]
      BY <3>4 DEF Inspected, Kept
    <3>5. ASSUME Now(h) = "health"
          PROVE  local = [l EXCEPT !.health = health, !.on = current]
      BY <3>5 DEF Inspected, Kept
    <3>6. /\ local \in Locals
          /\ local.pc = "step" /\ local.by = "nobody" /\ local.exit = -1 /\ ~local.finished
          /\ local.test = l.test /\ local.step = l.step
      <4>1. CASE Now(h) \in Kept
        BY <3>1, <3>2, <3>3, <4>1 DEF Locals, Ids
      <4>2. CASE Now(h) = "status"
        BY <3>1, <3>2, <3>4, <4>2 DEF Locals, States
      <4>3. CASE Now(h) = "health"
        BY <3>1, <3>2, <3>5, <4>3 DEF Locals, Ids, Healths
      <4> QED
        BY <2>1, <4>1, <4>2, <4>3
    <3>7. RuntimeOK([local EXCEPT !.step = @ + 1])
      <4>1. ASSUME l.test = "runtime", Now(h) \in Kept
            PROVE  l.step \in 5 .. 7
        BY <1>4, <2>1, <4>1, RuntimeTable
      <4>2. ASSUME l.test = "runtime", Now(h) = "status"
            PROVE  l.step = 8
        BY <1>4, <2>1, <4>2, RuntimeTable
      <4>3. ASSUME l.test = "runtime", Now(h) = "health"
            PROVE  l.step = 9
        BY <1>4, <2>1, <4>3, RuntimeTable
      <4>4. CASE Now(h) \in Kept
        <5>1. l.test = "runtime" => l.kept \cup {current} = {l.id}
          BY <1>1, <3>2, <4>1, <4>4 DEF RuntimeOK
        <5>2. PICK kept : kept = l.kept \cup {current}
          OBVIOUS
        <5>3. local = [l EXCEPT !.kept = kept]
          BY <3>3, <4>4, <5>2
        <5>4. l.test = "runtime" => kept = {l.id}
          BY <5>1, <5>2
        <5> QED
          BY <1>1, <3>1, <4>1, <4>4, <5>3, <5>4 DEF Locals, RuntimeOK
      <4>5. CASE Now(h) = "status"
        BY <1>1, <3>1, <3>2, <3>4, <4>2, <4>5 DEF Locals, RuntimeOK
      <4>6. CASE Now(h) = "health"
        <5>1. PICK seen : seen = health
          OBVIOUS
        <5>2. local = [l EXCEPT !.health = seen, !.on = l.id]
          BY <3>2, <3>5, <4>6, <5>1
        <5> QED
          BY <1>1, <3>1, <4>3, <4>6, <5>2 DEF Locals, RuntimeOK
      <4> QED
        BY <2>1, <4>4, <4>5, <4>6
    <3> HIDE DEF local
    <3> QED
      BY <2>1, <2>3, <3>6, <3>7, PassStep DEF local
  <2> QED
    BY <1>12, <2>2, <2>3 DEF Inspect
<1>13. CASE Compare(h)
  <2>1. /\ More(h) /\ l.pc = "step" /\ UNCHANGED <<decision, signals>>
        /\ Now(h) \in {"listed", "wanted", "running", "healthy"}
    BY <1>13 DEF Compare, More, In
  <2>2. CASE Test(h) /\ Pass(h, l)
    <3>1. /\ Now(h) \in {"listed", "wanted"} => l.id # 0
          /\ Now(h) = "running" => l.status = "running"
          /\ Now(h) = "healthy" => l.health = "healthy"
      BY <2>2 DEF Test
    <3>2. l.test = "runtime" =>
            \/ l.step = 4 /\ l.id # 0
            \/ l.step = 11 /\ l.status = "running"
            \/ l.step = 12 /\ l.health = "healthy"
      <4> HAVE l.test = "runtime"
      <4>1. l.step \in 1 .. 12 /\ Now(h) = Steps("runtime")[l.step]
        BY <1>4, <2>1
      <4>2. Now(h) # "wanted"
        BY <4>1 DEF Steps, RuntimeSteps
      <4> QED
        BY <2>1, <3>1, <4>1, <4>2, RuntimeTable
    <3>3. RuntimeOK([l EXCEPT !.step = @ + 1])
      BY <1>1, <1>2, <2>1, <3>2 DEF Locals, RuntimeOK
    <3> QED
      BY <1>1, <1>2, <2>1, <2>2, <3>3, PassStep
  <2>3. CASE Finish(h, l, Blocked)
    BY <1>3, <1>7, <2>1, <2>3
  <2>4. CASE Finish(h, l, Fail(1))
    BY <1>3, <1>7, <2>1, <2>4
  <2> QED
    BY <1>13, <2>2, <2>3, <2>4 DEF Compare
<1>14. CASE LastStep(h)
  <2>1. l.pc = "step" /\ ~More(h) /\ UNCHANGED <<decision, signals>> /\ Finish(h, l, Verdict(l.test))
    BY <1>14 DEF LastStep, In
  <2>2. Verdict(l.test) \in Verdicts /\ Honest(Verdict(l.test))
    BY DEF Verdict, Verdicts, Statuses, Honest
  <2>3. l.test = "runtime" => l.step > 12
    <3>1. l.step \in 1 .. 13 /\ ~(l.step <= Len(Steps(l.test)))
      BY <1>1, <2>1 DEF More, In, Locals, Places, Writers, Exits
    <3> HAVE l.test = "runtime"
    <3>2. Len(Steps(l.test)) = 12
      BY RuntimeTable
    <3>3. l.step \in 1 .. 13 /\ ~(l.step <= 12)
      BY <3>1, <3>2, Zenon
    <3> QED
      BY <3>3
  <2> QED
    BY <1>7, <2>1, <2>2, <2>3
<1>15. CASE Truncate(h)
  <2> DEFINE new == [l EXCEPT !.pc = "fill"]
  <2>1. l.pc = "open" /\ Put(h, new) /\ decision' = [decision EXCEPT ![h] = "torn"] /\ UNCHANGED signals
    BY <1>15 DEF Truncate, In
  <2>2. new \in Locals
    BY <1>1 DEF Locals, Places, Writers, Exits
  <2>3. RunOK(new, "torn") /\ RuntimeOK(new)
    BY <1>1, <2>1 DEF Locals, RunOK, RuntimeOK
  <2> QED
    BY <1>1, <2>1, <2>2, <2>3, PutRun
<1>16. CASE Fill(h)
  <2>1. /\ l.pc = "fill" /\ UNCHANGED signals /\ l.exit = -1
        /\ decision' = [decision EXCEPT ![h] = l.verdict.status] /\ l.verdict.status \in Statuses
    BY <1>1, <1>16 DEF Fill, In, RunOK, Locals, Verdicts
  <2>2. CASE l.by = "subshell" /\ ErrExit(h, l, 2)
    <3>1. Put(h, Trapped(l, 2)) /\ ~l.finished
      BY <1>1, <2>2 DEF ErrExit, Trapped, RunOK
    <3> QED
      BY <1>1, <2>1, <3>1, TrappedOK, PutRun
  <2>3. CASE l.by # "subshell" /\ Put(h, [l EXCEPT !.pc = "leave"])
    <3> DEFINE new == [l EXCEPT !.pc = "leave"]
    <3>1. new \in Locals
      BY <1>1 DEF Locals, Places, Writers, Exits
    <3>2. RunOK(new, l.verdict.status) /\ RuntimeOK(new)
      BY <1>1, <2>1, <2>3 DEF Locals, RunOK, RuntimeOK
    <3> QED
      BY <1>1, <2>1, <2>3, <3>1, <3>2, PutRun
  <2> QED
    BY <1>16, <2>2, <2>3 DEF Fill
<1>17. CASE Leave(h)
  <2> DEFINE new == [l EXCEPT !.pc = "ended", !.exit = l.verdict.code]
  <2>1. l.pc = "leave" /\ Put(h, new) /\ UNCHANGED <<decision, signals>>
    BY <1>17 DEF Leave, In
  <2>2. new \in Locals /\ l.verdict.status \in Statuses
    <3>1. l \in Locals /\ l.verdict.status \in Statuses /\ l.verdict.code \in {0, 1, 2, 143}
      BY <1>1 DEF Locals, Verdicts
    <3>2. l.verdict.code \in {-1, 0, 1, 2, 143}
      BY <3>1
    <3> QED
      BY <3>1, <3>2 DEF Locals, Places, Exits
  <2>3. /\ new.pc = "ended" /\ new.exit = l.verdict.code
        /\ \A f \in {"test", "step", "finished", "by", "verdict", "id", "kept", "status", "health", "on", "cut"} :
             new[f] = l[f]
    BY <1>1 DEF Locals
  <2>4. RunOK(new, decision[h])
    BY <1>1, <2>1, <2>2, <2>3 DEF RunOK, Honest
  <2>5. RuntimeOK(new)
    <3>1. l.by \in {"finish", "subshell", "trap"}
      BY <1>1, <2>1 DEF RunOK, Locals, Writers
    <3>2. l.exit = -1 /\ (l.verdict.code = 0 => l.by = "finish")
      BY <1>1, <2>1, <3>1 DEF RunOK
    <3> QED
      BY <1>1, <2>1, <2>3, <3>2 DEF RuntimeOK
  <2> QED
    BY <1>1, <2>1, <2>2, <2>4, <2>5, KeepDecision
<1>19. CASE WriteFails(h)
  <2>1. l.pc \in {"open", "fill"} /\ UNCHANGED <<decision, signals>> /\ l.exit = -1
    BY <1>1, <1>19 DEF WriteFails, RunOK
  <2>2. CASE l.by = "subshell" /\ ErrExit(h, l, 2)
    <3>1. ~l.finished
      BY <1>1, <2>2 DEF RunOK
    <3> QED
      BY <1>1, <2>1, <2>2, <3>1, ErrExitStep
  <2>3. CASE l.by # "subshell" /\ CutOff(h, IF l.verdict.code = 143 THEN 143 ELSE 1)
    <3>1. PICK code \in {1, 143} : CutOff(h, code)
      BY <2>3
    <3> QED
      BY <1>1, <2>1, <3>1, CutOffStep
  <2> QED
    BY <1>19, <2>2, <2>3 DEF WriteFails
<1>20. CASE PrintFails(h)
  BY <1>1, <1>20, CutOffStep DEF PrintFails, In
<1>18. CASE Signal(h)
  <2>1. /\ l.pc \in {"step", "open", "fill", "leave"} /\ l.by # "trap" /\ UNCHANGED decision
        /\ signals < MaxSignals /\ signals' = signals + 1 /\ OnSignal(h)
    BY <1>18 DEF Signal
  <2>2. signals' \in 0 .. MaxSignals
    BY <1>1, <2>1, SignalsAssumption
  <2>3. CASE l.finished
    BY <2>1, <2>2, <2>3, CutOffStep DEF OnSignal
  <2>4. CASE ~l.finished
    <3>1. l.exit = -1
      BY <1>1, <2>1 DEF RunOK
    <3> QED
      BY <1>1, <2>1, <2>2, <2>4, <3>1, ErrExitStep DEF OnSignal
  <2> QED
    BY <2>3, <2>4
<1> QED
  BY <1>5, <1>6, <1>9, <1>10, <1>11, <1>12, <1>13, <1>14, <1>15, <1>16, <1>17, <1>18, <1>19, <1>20 DEF HarnessStep

--------------------------------------------------------------------------------
(* The whole.                                                              *)

Inv == ServiceInv /\ RunnerInv /\ HarnessInv

\* The parts hold at the start.
LEMMA InitInv == Init => Inv
BY InitService, InitRunner, InitHarness DEF Init, Inv

\* Every step keeps all parts.
LEMMA StepInv == Inv /\ [Next]_vars => Inv'
<1> SUFFICES ASSUME Inv, [Next]_vars PROVE Inv'
  OBVIOUS
<1>1. ServiceInv /\ RunnerInv /\ HarnessInv /\ made \in Nat
  BY ContainersAssumption DEF Inv, ServiceInv, ServiceType
<1>2. ASSUME UNCHANGED harnessVars PROVE HarnessInv'
  BY <1>1, <1>2 DEF harnessVars, HarnessInv, HarnessType, RunOK, RuntimeOK, Honest
<1>3. CASE (ServiceNext \/ RecordRecreates) /\ UNCHANGED <<runner, harnessVars>>
  <2>1. ServiceInv' /\ made' >= made
    BY <1>1, <1>3, DockerService
  <2>2. made' \in Nat
    BY <2>1, ContainersAssumption DEF ServiceInv, ServiceType
  <2> QED
    BY <1>1, <1>2, <1>3, <2>1, <2>2, OthersRunner DEF Inv
<1>4. CASE (\E r \in Runners : RunnerStep(r)) /\ UNCHANGED harnessVars
  BY <1>1, <1>2, <1>4, RunnerStepInv DEF Inv
<1>5. CASE (\E h \in Runs : HarnessStep(h)) /\ UNCHANGED <<service, runner>>
  <2>1. ServiceInv' /\ made' = made
    BY <1>1, <1>5 DEF service, ServiceInv, ServiceType
  <2> QED
    BY <1>1, <1>5, <2>1, OthersRunner, HarnessStepInv DEF Inv
<1>6. CASE UNCHANGED vars
  <2>1. ServiceInv' /\ made' = made
    BY <1>1, <1>6 DEF vars, service, ServiceInv, ServiceType
  <2> QED
    BY <1>1, <1>2, <1>6, <2>1, OthersRunner DEF vars, Inv
<1> QED
  BY <1>3, <1>4, <1>5, <1>6 DEF Next

\* All parts hold at all times.
LEMMA SpecInv == Spec => []Inv
BY InitInv, StepInv, PTL DEF Spec

\* The variables of the container, of every mode runner and of every harness run
\* keep their types, whatever docker, the operators and the signals do.
THEOREM OperationsTypeOK == Spec => []TypeOK
<1>1. Inv => TypeOK
  BY DEF Inv, TypeOK, ServiceInv, RunnerInv, HarnessInv
<1> QED
  BY <1>1, SpecInv, PTL

\* For any number of runners, harness runs, containers and polls: run-dgx-mode.sh
\* never accepts the health of a container older than the one its own `up` made.
THEOREM OperationsNothingOlderPasses == Spec => []NothingOlderPasses
<1>1. Inv => NothingOlderPasses
  BY DEF Inv, RunnerInv, RunnerOK, NothingOlderPasses
<1> QED
  BY <1>1, SpecInv, PTL

\* However a harness run ends, by finish, by errexit, from a subshell,
\* a failed write or a signal, it exits with 0 only over a decision.md that says so;
\* and a run that was not cut off says in decision.md what its exit code says.
THEOREM OperationsDecisionMatchesExit == Spec => []DecisionMatchesExit
<1>1. Inv => DecisionMatchesExit
  BY DEF Inv, HarnessInv, RunOK, DecisionMatchesExit, In
<1> QED
  BY <1>1, SpecInv, PTL

\* Whatever recreates the container between the steps of a runtime test, a PASS
\* was put together from one container.
THEOREM OperationsEvidenceOfOneContainer == Spec => []EvidenceOfOneContainer
<1>1. Inv => EvidenceOfOneContainer
  <2> SUFFICES ASSUME Inv, NEW h \in Runs, In(h, "ended"), harness[h].test = "runtime", harness[h].exit = 0
               PROVE  /\ harness[h].id # 0 /\ harness[h].kept = {harness[h].id}
                      /\ harness[h].on = harness[h].id
                      /\ harness[h].status = "running" /\ harness[h].health = "healthy"
    BY DEF EvidenceOfOneContainer
  <2>1. RuntimeOK(harness[h]) /\ harness[h].step \in 1 .. 13
    BY DEF Inv, HarnessInv, HarnessType, Locals
  <2>2. harness[h].step > 12
    BY <2>1 DEF RuntimeOK
  <2>3. harness[h].step > 4 /\ harness[h].step > 5 /\ harness[h].step > 9 /\ harness[h].step > 11
    BY <2>1, <2>2
  <2> QED
    BY <2>1, <2>2, <2>3 DEF RuntimeOK
<1> QED
  BY <1>1, SpecInv, PTL
================================================================================
