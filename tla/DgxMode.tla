-------------------------------- MODULE DgxMode --------------------------------
(***************************************************************************)
(* scripts/ops/run-dgx-mode.sh: `make up-dgx`, `make scenario-up` and      *)
(* `make scenario`.  A runner recreates the autoware container with the    *)
(* command of its mode and polls it until it is healthy; several operators *)
(* may run it at once on the one container.                                *)
(***************************************************************************)
EXTENDS ComposeService

CONSTANTS Runners,
          MaxPolls     \* bound: turns of the loop before SECONDS reaches the deadline (180 s / 2 s)

ASSUME PollsAssumption == MaxPolls \in Nat \ {0} /\ {"planning", "scenario"} \subseteq Configs

VARIABLE runner    \* [Runners -> the shell variables of one run]

At(r, pc) == runner[r].pc = pc
Set(r, new) == runner' = [runner EXCEPT ![r] = new]

\* A run that is over, or polls anew, no longer needs what it has read.
Exit(r, code) == Set(r, [runner[r] EXCEPT !.pc = "ended", !.exit = code, !.id = 0, !.state = "none"])
Again(r) == Set(r, [runner[r] EXCEPT !.pc = "poll", !.id = 0, !.state = "none"])

RunnerInit ==
    runner = [r \in Runners |-> [pc |-> "start", mode |-> "none", own |-> 0, left |-> MaxPolls, id |-> 0,
                                 state |-> "none", on |-> 0, simulated |-> FALSE, exit |-> -1]]

\* HOST_ROLE, docker, the settings, the map and scenario files of the mode.
Requirements(r) ==
    /\ At(r, "start")
    /\ \/ \E mode \in {"planning", "scenario-up", "scenario"} :
             Set(r, [runner[r] EXCEPT !.pc = "up", !.mode = mode])
       \/ Exit(r, 78)
    /\ UNCHANGED service

ModeConfig(r) == IF runner[r].mode = "planning" THEN "planning" ELSE "scenario"

\* Mutant of Up: no --force-recreate: a running container is left as it is.
UpReuses(r) ==
    /\ At(r, "up")
    /\ IF status = "running" /\ runner[r].mode # "scenario-up"
       THEN Set(r, [runner[r] EXCEPT !.pc = "poll", !.own = made + 1]) /\ UNCHANGED service
       ELSE \/ Replaced(ModeConfig(r), TRUE) /\ Set(r, [runner[r] EXCEPT !.pc = "poll", !.own = made + 1])
            \/ UNCHANGED service /\ Exit(r, 1)

\* compose up -d --force-recreate: done, or failed with nothing replaced or
\* with a new container that does not start.  scenario-up names the simulator
\* too, waits for neither, and fails when either does.
Up(r) ==
    /\ At(r, "up")
    /\ \/ /\ Replaced(ModeConfig(r), TRUE)
          /\ IF runner[r].mode = "scenario-up"
             THEN \E code \in {0, 1} : Exit(r, code)
             ELSE Set(r, [runner[r] EXCEPT !.pc = "poll", !.own = made + 1])
       \/ Replaced(ModeConfig(r), FALSE) /\ Exit(r, 1)
       \/ UNCHANGED service /\ Exit(r, 1)

\* Mutant of Poll: SECONDS is not compared with the deadline.
PollPastDeadline(r) ==
    /\ At(r, "poll")
    /\ \E id \in {Listed, 0} :
          Set(r, [runner[r] EXCEPT !.left = @ - 1, !.id = id, !.pc = IF id = 0 THEN "poll" ELSE "state"])
    /\ UNCHANGED service

\* Mutant of Poll: the deadline is computed inside the loop.
PollNewDeadline(r) ==
    /\ At(r, "poll")
    /\ \E id \in {Listed, 0} :
          Set(r, [runner[r] EXCEPT !.left = MaxPolls, !.id = id, !.pc = IF id = 0 THEN "poll" ELSE "state"])
    /\ UNCHANGED service

\* The head of wait_for_healthy's loop and `ps -q ... || true`.
Poll(r) ==
    /\ At(r, "poll")
    /\ \/ Exit(r, 1)
       \/ /\ runner[r].left > 0
          /\ \E id \in {Listed, 0} :
               Set(r, [runner[r] EXCEPT !.left = @ - 1, !.id = id, !.pc = IF id = 0 THEN "poll" ELSE "state"])
    /\ UNCHANGED service

\* Each inspect is a call of its own; under errexit a removed id ends the run.
ReadState(r) ==
    /\ At(r, "state")
    /\ IF Exists(runner[r].id)
       THEN Set(r, [runner[r] EXCEPT !.state = status, !.pc = "health"])
       ELSE Exit(r, 1)
    /\ UNCHANGED service

Healthy(r) ==
    Set(r, IF runner[r].mode = "planning"
           THEN [runner[r] EXCEPT !.pc = "ended", !.exit = 0, !.on = runner[r].id, !.state = "none"]    \* echo "PASS ..."
           ELSE [runner[r] EXCEPT !.pc = "simulate", !.on = runner[r].id, !.state = "none"])

ReadHealth(r) ==
    /\ At(r, "health")
    /\ IF ~Exists(runner[r].id) THEN Exit(r, 1)
       ELSE IF health = "healthy" THEN Healthy(r)
       ELSE IF runner[r].state \in {"exited", "dead"} \/ health = "unhealthy" THEN Exit(r, 1)
       ELSE Again(r)
    /\ UNCHANGED service

\* compose up --no-deps --exit-code-from scenario-simulator.
Simulate(r) ==
    /\ At(r, "simulate")
    /\ \E code \in {0, 1} : Set(r, [runner[r] EXCEPT !.pc = "ended", !.exit = code, !.simulated = TRUE])
    /\ UNCHANGED service

WaitStep(r) == Poll(r) \/ ReadState(r) \/ ReadHealth(r)

RunnerStep(r) == Requirements(r) \/ Up(r) \/ WaitStep(r) \/ Simulate(r)

Shell == [pc : {"start", "up", "poll", "state", "health", "simulate", "ended"},
          mode : {"none", "planning", "scenario-up", "scenario"}, own : 0 .. MaxContainers,
          left : 0 .. MaxPolls, id : 0 .. MaxContainers,
          state : {"none", "created", "running", "exited"}, on : 0 .. MaxContainers,
          simulated : BOOLEAN, exit : {-1, 0, 1, 78}]

RunnerType == runner \in [Runners -> Shell]

\* "PASS DGX mode=planning autoware is healthy", and the start of a scenario,
\* are about a container at least as new as the run's own: what ran before the
\* `up`, healthy or not, is never taken for it, whoever else recreates it.
NothingOlderPasses ==
    \A r \in Runners :
        /\ runner[r].on # 0 => runner[r].own # 0 /\ runner[r].on >= runner[r].own
        /\ runner[r].mode = "scenario" /\ (runner[r].simulated \/ runner[r].exit = 0) => runner[r].on # 0

\* Every wait comes to an end, healthy or not, while docker answers.
WaitEnds == \A r \in Runners : At(r, "poll") ~> runner[r].pc \in {"simulate", "ended"}
================================================================================
