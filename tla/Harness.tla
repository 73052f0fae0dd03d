-------------------------------- MODULE Harness --------------------------------
(***************************************************************************)
(* scripts/harness/run.sh: one atomic check per run, with the last word in *)
(* decision.md of the run's artifact directory.  Every test is a table of  *)
(* steps; a step that fails is answered by its `|| finish` handler, or by  *)
(* errexit and the EXIT trap when it has none.                             *)
(***************************************************************************)
EXTENDS ComposeService, Sequences

CONSTANTS Runs,          \* the runs of the harness
          Tests,         \* the test ids given to them
          Roles,         \* values of HOST_ROLE
          MaxSignals     \* bound: Ctrl-C or SIGTERM, over all runs

ASSUME SignalsAssumption == MaxSignals \in Nat

VARIABLES decision,    \* [Runs -> decision.md in the run's directory: none, torn, or its status]
          harness,     \* [Runs -> the shell variables of one run]
          signals

harnessVars == <<decision, harness, signals>>

(***************************************************************************)
(* The tests.  Kind of a step, and what answers its failure:               *)
(*   need    || finish BLOCKED 2         demand  || finish FAIL 1          *)
(*   plain   nothing                     arch    required_arch=$(expected_arch) *)
(*   dgx, role   the [[ role ]] tests    ps      container_id=$(... ps -q) *)
(*   listed, wanted   [[ -n container_id ]] || finish FAIL 1, BLOCKED 2    *)
(*   file, image, log       docker inspect and docker logs by id, kept     *)
(*   status, health         docker inspect by id                           *)
(*   running, healthy       the final comparisons                          *)
(***************************************************************************)
HostSteps     == <<"need", "plain", "arch", "demand">>
GpuSteps      == <<"need", "plain", "arch", "plain">>
NavsimSteps   == <<"need", "dgx", "need", "plain", "demand", "need", "demand">>
NetworkSteps  == <<"need", "role", "need", "plain", "need", "plain">>
ClockSteps    == <<"need", "demand">>
RuntimeSteps  == <<"need", "role", "ps", "listed", "file", "image", "log",
                   "status", "health", "plain", "running", "healthy">>
RosSteps      == <<"need", "dgx", "plain">>
LearningSteps == <<"need", "dgx", "need", "ps", "wanted", "demand">>
ComposeSteps  == <<"plain">>

Steps(test) ==
    CASE test = "host"     -> HostSteps
      [] test = "gpu"      -> GpuSteps
      [] test = "navsim"   -> NavsimSteps
      [] test = "network"  -> NetworkSteps
      [] test = "clock"    -> ClockSteps
      [] test = "runtime"  -> RuntimeSteps
      [] test = "ros"      -> RosSteps
      [] test = "learning" -> LearningSteps
      [] test = "compose"  -> ComposeSteps
      [] OTHER             -> <<>>

Verdict(test) == CASE test = "learning" -> [status |-> "OBSERVED", code |-> 0]
                   [] test = "other"    -> [status |-> "BLOCKED", code |-> 2]
                   [] OTHER             -> [status |-> "PASS", code |-> 0]

Blocked == [status |-> "BLOCKED", code |-> 2]
Fail(code) == [status |-> "FAIL", code |-> code]

Put(h, new) == harness' = [harness EXCEPT ![h] = new]

In(h, pc) == harness[h].pc = pc

HarnessInit ==
    /\ signals = 0
    /\ decision = [h \in Runs |-> "none"]
    /\ harness = [h \in Runs |->
          [pc |-> "idle", test |-> "none", step |-> 1,
           finished |-> FALSE, by |-> "nobody", verdict |-> Fail(0), refused |-> FALSE,
           id |-> 0, kept |-> {}, status |-> "none", health |-> "none", on |-> 0,
           cut |-> FALSE, exit |-> -1]]

\* load_env_file, or exit 2 before there is a directory; mkdir -p, finished=0 and
\* the trap.  (Two runs of a test in one second would share a directory; here
\* each run has its own.)
Begin(h) ==
    /\ In(h, "idle")
    /\ \E test \in Tests : Put(h, [harness[h] EXCEPT !.pc = "step", !.test = test])
    /\ UNCHANGED <<decision, signals>>

NoEnvironment(h) ==
    /\ In(h, "idle")
    /\ Put(h, [harness[h] EXCEPT !.pc = "ended", !.exit = 2])
    /\ UNCHANGED <<decision, signals>>

\* finish: the flag first, then decision.md.
Finish(h, local, verdict) ==
    Put(h, [local EXCEPT !.pc = "open", !.finished = TRUE, !.by = "finish", !.verdict = verdict])

\* errexit: on_exit writes a FAIL over whatever is there.
ErrExit(h, local, code) ==
    Put(h, [local EXCEPT !.pc = "open", !.by = "trap", !.verdict = Fail(code)])

\* finish in the subshell of $(expected_arch): its flag and its exit are its own.
SubFinish(h, local) ==
    Put(h, [local EXCEPT !.pc = "open", !.by = "subshell", !.verdict = Blocked, !.refused = TRUE])

\* The end of a run inside finish, with finished=1 so that the trap does nothing,
\* or inside the trap itself.
CutOff(h, code) == Put(h, [harness[h] EXCEPT !.pc = "ended", !.cut = TRUE, !.exit = code])

Now(h) == Steps(harness[h].test)[harness[h].step]

More(h) == In(h, "step") /\ harness[h].step <= Len(Steps(harness[h].test))

Pass(h, local) == Put(h, [local EXCEPT !.step = @ + 1])

\* Steps whose outcome is the world's.
Command(h) ==
    /\ More(h) /\ Now(h) \in {"need", "demand", "plain"}
    /\ \/ Pass(h, harness[h])
       \/ Now(h) = "need" /\ Finish(h, harness[h], Blocked)
       \/ Now(h) = "demand" /\ Finish(h, harness[h], Fail(1))
       \/ Now(h) = "plain" /\ ErrExit(h, harness[h], 1)
    /\ UNCHANGED <<decision, signals>>

RoleOK(h, role) == role = "dgx" \/ (role = "sim-x86" /\ Now(h) # "dgx")

\* A test asks for the role once at most, so it is chosen here.
RoleTest(h) ==
    /\ More(h) /\ Now(h) \in {"dgx", "role", "arch"}
    /\ \E role \in Roles :
         IF RoleOK(h, role) THEN Pass(h, harness[h])
         ELSE IF Now(h) = "arch" THEN SubFinish(h, harness[h])
         ELSE Finish(h, [harness[h] EXCEPT !.refused = TRUE], Blocked)
    /\ UNCHANGED <<decision, signals>>

Ps(h) ==
    /\ More(h) /\ Now(h) = "ps"
    /\ \/ Pass(h, [harness[h] EXCEPT !.id = Listed])
       \/ ErrExit(h, harness[h], 1)
    /\ UNCHANGED <<decision, signals>>

Kept == {"file", "image", "log"}

\* What one docker inspect or docker logs by the id that ps gave leaves in the run:
\* evidence of a container, or what it read and of which.
Inspected(h) ==
    CASE Now(h) \in Kept     -> [harness[h] EXCEPT !.kept = @ \cup {current}]
      [] Now(h) = "status"   -> [harness[h] EXCEPT !.status = status]
      [] OTHER               -> [harness[h] EXCEPT !.health = health, !.on = current]

\* Mutant of Inspect: the container is inspected by its name.
InspectByName(h) ==
    /\ More(h) /\ Now(h) \in Kept \cup {"status", "health"}
    /\ \/ current # 0 /\ Pass(h, Inspected(h))
       \/ ErrExit(h, harness[h], 1)
    /\ UNCHANGED <<decision, signals>>

\* Five calls, five steps.  The id may be gone, and the evidence may not be written.
Inspect(h) ==
    /\ More(h) /\ Now(h) \in Kept \cup {"status", "health"}
    /\ \/ Exists(harness[h].id) /\ Pass(h, Inspected(h))
       \/ ErrExit(h, harness[h], 1)
    /\ UNCHANGED <<decision, signals>>

Test(h) == CASE Now(h) \in {"listed", "wanted"} -> harness[h].id # 0
             [] Now(h) = "running"              -> harness[h].status = "running"
             [] OTHER                           -> harness[h].health = "healthy"

Compare(h) ==
    /\ More(h) /\ Now(h) \in {"listed", "wanted", "running", "healthy"}
    /\ IF Test(h) THEN Pass(h, harness[h])
       ELSE Finish(h, harness[h], IF Now(h) = "wanted" THEN Blocked ELSE Fail(1))
    /\ UNCHANGED <<decision, signals>>

LastStep(h) ==
    /\ In(h, "step") /\ ~More(h)
    /\ Finish(h, harness[h], Verdict(harness[h].test))
    /\ UNCHANGED <<decision, signals>>

\* cat > decision.md empties the file, then fills it.
Truncate(h) ==
    /\ In(h, "open")
    /\ decision' = [decision EXCEPT ![h] = "torn"]
    /\ Put(h, [harness[h] EXCEPT !.pc = "fill"])
    /\ UNCHANGED signals

Fill(h) ==
    /\ In(h, "fill")
    /\ decision' = [decision EXCEPT ![h] = harness[h].verdict.status]
    /\ IF harness[h].by = "subshell"
       THEN ErrExit(h, harness[h], 2)
       ELSE Put(h, [harness[h] EXCEPT !.pc = "leave"])
    /\ UNCHANGED signals

\* The file cannot be opened or filled.  finish and the trap end there by errexit
\* (a script ended by a signal keeps its code); $(...) has no errexit and goes on.
WriteFails(h) ==
    /\ harness[h].pc \in {"open", "fill"}
    /\ IF harness[h].by = "subshell"
       THEN ErrExit(h, harness[h], 2)
       ELSE CutOff(h, IF harness[h].verdict.code = 143 THEN 143 ELSE 1)
    /\ UNCHANGED <<decision, signals>>

\* Mutant of Leave: exit without the code.
LeaveZero(h) ==
    /\ In(h, "leave")
    /\ Put(h, [harness[h] EXCEPT !.pc = "ended", !.exit = 0])
    /\ UNCHANGED <<decision, signals>>

\* printf, trap - EXIT, exit.
Leave(h) ==
    /\ In(h, "leave")
    /\ Put(h, [harness[h] EXCEPT !.pc = "ended", !.exit = harness[h].verdict.code])
    /\ UNCHANGED <<decision, signals>>

\* finish cannot write its line to stdout.  (By SIGPIPE the code would be 141.)
PrintFails(h) ==
    /\ In(h, "leave") /\ harness[h].by = "finish"
    /\ CutOff(h, 1)
    /\ UNCHANGED <<decision, signals>>

\* Ctrl-C or SIGTERM: the EXIT trap runs, and writes unless finish has begun.
\* (While the trap itself runs no second signal comes.)
OnSignal(h) ==
    IF harness[h].finished
    THEN CutOff(h, 143)
    ELSE ErrExit(h, harness[h], 143)

Signal(h) ==
    /\ signals < MaxSignals /\ signals' = signals + 1
    /\ harness[h].pc \in {"step", "open", "fill", "leave"} /\ harness[h].by # "trap"
    /\ OnSignal(h)
    /\ UNCHANGED decision

HarnessStep(h) ==
    \/ Begin(h) \/ NoEnvironment(h) \/ Command(h) \/ RoleTest(h) \/ Ps(h) \/ Inspect(h) \/ Compare(h)
    \/ LastStep(h) \/ Truncate(h) \/ Fill(h) \/ WriteFails(h) \/ Leave(h) \/ PrintFails(h) \/ Signal(h)

Statuses == {"PASS", "FAIL", "BLOCKED", "OBSERVED"}

Places   == {"idle", "step", "open", "fill", "leave", "ended"}
Writers  == {"nobody", "finish", "subshell", "trap"}
Verdicts == [status : Statuses, code : {0, 1, 2, 143}]
Ids      == 0 .. MaxContainers
States   == {"none", "created", "running", "exited"}
Healths  == {"none", "missing", "starting", "healthy", "unhealthy"}
Exits    == {-1, 0, 1, 2, 143}

Locals == [pc : Places, test : Tests \cup {"none"}, step : 1 .. 13,
           finished : BOOLEAN, by : Writers, verdict : Verdicts, refused : BOOLEAN,
           id : Ids, kept : SUBSET Ids, status : States, health : Healths, on : Ids,
           cut : BOOLEAN, exit : Exits]

HarnessType ==
    /\ signals \in 0 .. MaxSignals
    /\ decision \in [Runs -> Statuses \cup {"none", "torn"}]
    /\ harness \in [Runs -> Locals]

\* A run exits with 0 only over a decision.md that says PASS or OBSERVED, whatever
\* fails or is interrupted.  A run that was not cut off, by a signal or a failed
\* write inside finish or inside the trap, tells in decision.md what its code tells.
DecisionMatchesExit ==
    \A h \in Runs :
        In(h, "ended") /\ harness[h].test # "none" =>
            /\ harness[h].exit = 0 => decision[h] \in {"PASS", "OBSERVED"}
            /\ ~harness[h].cut =>
                 /\ decision[h] \in Statuses
                 /\ (decision[h] \in {"PASS", "OBSERVED"}) <=> (harness[h].exit = 0)

\* The evidence of a passing runtime test is about one container: the one whose
\* state, image and log it kept, read running and, later, healthy.
EvidenceOfOneContainer ==
    \A h \in Runs :
        In(h, "ended") /\ harness[h].test = "runtime" /\ harness[h].exit = 0 =>
            /\ harness[h].id # 0
            /\ harness[h].kept = {harness[h].id} /\ harness[h].on = harness[h].id
            /\ harness[h].status = "running" /\ harness[h].health = "healthy"

\* run.sh:90: a HOST_ROLE that is neither host is BLOCKED.
UnknownRoleIsBlocked ==
    \A h \in Runs :
        In(h, "ended") /\ harness[h].refused /\ harness[h].exit = 2 => decision[h] = "BLOCKED"
================================================================================
