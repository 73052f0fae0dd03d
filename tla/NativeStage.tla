------------------------------ MODULE NativeStage ------------------------------
(***************************************************************************)
(* The native dependency stages that end in a stage report: CPython        *)
(* (usd/python_stage.py), Boost on a pinned CPython (usd/boost_stage.py)   *)
(* and OpenUSD on a map of reports (usd/openusd_stage.py).  Every run has  *)
(* a directory of its own; runs of all three go on at once, and meanwhile  *)
(* files that they depend on change.                                       *)
(*                                                                         *)
(* CPython and Boost stand for all seven prerequisites of OpenUSD: one     *)
(* leaf and one that was itself built on a leaf (as Alembic on Imath).     *)
(***************************************************************************)
EXTENDS Naturals

CONSTANTS PythonRuns, BoostRuns, UsdRuns,   \* run directories of each stage
          MaxEdits                          \* bound: files that change under the runs

Builders == PythonRuns \cup BoostRuns \cup UsdRuns

ASSUME BuildersAssumption ==
    /\ MaxEdits \in Nat /\ "none" \notin Builders
    /\ PythonRuns \cap BoostRuns = {} /\ PythonRuns \cap UsdRuns = {} /\ BoostRuns \cap UsdRuns = {}

VARIABLES build,     \* [Builders -> the local state of the stage's process]
          report,    \* [Builders -> stage-report.json of the run, or its absence]
          intact,    \* [Builders -> the files that the report binds are as it found them]
          map,       \* the dependency map that OpenUSD is given: a run of each stage, or none
          tool,      \* the version of the toolchain and the recipes
          edits

stageVars == <<build, report, intact, map, tool, edits>>

NoReport == [status |-> "none", on |-> {}]

\* What a stage remembers: the prerequisites it read, the tools it hashed and those it
\* used, and whether the prefixes it was fed were still those of their reports.
StartedBuild == [pc |-> "start", python |-> "none", boost |-> "none", tool |-> 0, used |-> 0, fed |-> TRUE]

StageInit ==
    /\ build = [b \in Builders |-> StartedBuild]
    /\ report = [b \in Builders |-> NoReport]
    /\ intact = [b \in Builders |-> TRUE]
    /\ map = [python |-> "none", boost |-> "none"]
    /\ tool = 0 /\ edits = 0

(***************************************************************************)
(* validate_report, as far as the stages call it: a PASS of the stage that *)
(* was asked for, every file as bound, and the same of its prerequisites.  *)
(* (StageReport has the whole of it.)                                      *)
(***************************************************************************)
SoundLeaf(b) == b \in PythonRuns /\ report[b].status = "PASS" /\ intact[b]

SoundBoost(b) ==
    /\ b \in BoostRuns /\ report[b].status = "PASS" /\ intact[b]
    /\ \A p \in report[b].on : SoundLeaf(p)

SoundUsd(u) ==
    /\ u \in UsdRuns /\ report[u].status = "PASS" /\ intact[u]
    /\ \A d \in report[u].on : SoundLeaf(d) \/ SoundBoost(d)

--------------------------------------------------------------------------------
Step(b, new) ==
    /\ build' = [build EXCEPT ![b] = new]
    /\ UNCHANGED <<report, intact, map, tool, edits>>

On(b, pc) == build[b].pc = pc

Go(b, pc) == Step(b, [build[b] EXCEPT !.pc = pc])

\* A failed step, a time limit or a signal that the worker's parent survives:
\* what is left is to write the report, as a FAIL.  (A stage that is killed outright, or
\* by the Ctrl-C that openusd_stage.main does not catch, is one that takes no more steps.)
Fails(b) == Step(b, [build[b] EXCEPT !.pc = "fail", !.tool = 0, !.used = 0, !.fed = TRUE])

\* write_report: the prerequisites are validated once more, and a PASS is one only
\* if nothing of it is wrong by now.
Publish(b, passed, on) ==
    /\ report' = [report EXCEPT ![b] = [status |-> IF passed THEN "PASS" ELSE "FAIL", on |-> on]]
    /\ build' = [build EXCEPT ![b].pc = "done"]
    /\ UNCHANGED <<intact, map, tool, edits>>

\* The commands of the compiler take the tools as they are now.
Compile(b, fed) == Step(b, [build[b] EXCEPT !.pc = "check", !.used = tool, !.fed = fed])

--------------------------------------------------------------------------------
(* CPython.                                                                *)

\* prepare: the version of the header, the source's origin, the pristine and the
\* patched copy with their hashes.
PythonPrepare(b) ==
    /\ b \in PythonRuns /\ On(b, "start")
    /\ Go(b, "build") \/ Fails(b)

PythonBuild(b) ==
    /\ b \in PythonRuns /\ On(b, "build")
    /\ Go(b, "check") \/ Fails(b)

\* check_elf and runtime_smoke.
PythonCheck(b) ==
    /\ b \in PythonRuns /\ On(b, "check")
    /\ Go(b, "retention") \/ Fails(b)

\* check_retention: both trees against their manifests.  The build may have left
\* something in them.
PythonRetention(b) ==
    /\ b \in PythonRuns /\ On(b, "retention")
    /\ Go(b, "pass") \/ Fails(b)

PythonFinalize(b) ==
    /\ b \in PythonRuns /\ build[b].pc \in {"pass", "fail"}
    /\ Publish(b, On(b, "pass"), {})

--------------------------------------------------------------------------------
(* Boost.                                                                  *)

\* python_gate before: the report that CARLA_PYTHON_REPORT names has the pinned hash
\* and is sound; its files are bound by it.
BoostPythonBefore(b) ==
    /\ b \in BoostRuns /\ On(b, "start")
    /\ \/ \E p \in PythonRuns :
            /\ SoundLeaf(p)
            /\ Step(b, [build[b] EXCEPT !.pc = "preflight", !.python = p])
       \/ Fails(b)

\* toolchain: the contract of the engine's rules, the compiler wrapper, and the
\* hashes of the tools.
BoostToolchain(b) ==
    /\ b \in BoostRuns /\ On(b, "preflight")
    /\ Step(b, [build[b] EXCEPT !.pc = "source", !.tool = tool]) \/ Fails(b)

\* prepare and extract: the archive's hash, its members, the pristine copy.
BoostPrepare(b) ==
    /\ b \in BoostRuns /\ On(b, "source")
    /\ Go(b, "build") \/ Fails(b)

\* bootstrap, configure and b2, against the headers of the pinned prefix.
BoostBuild(b) ==
    /\ b \in BoostRuns /\ On(b, "build")
    /\ Compile(b, intact[build[b].python]) \/ Fails(b)

\* check_libraries, the smoke programs and runtime.
BoostCheck(b) ==
    /\ b \in BoostRuns /\ On(b, "check")
    /\ Go(b, "python-after") \/ Fails(b)

BoostPythonAfter(b) ==
    /\ b \in BoostRuns /\ On(b, "python-after")
    /\ IF SoundLeaf(build[b].python) THEN Go(b, "retention") ELSE Fails(b)

BoostRetention(b) ==
    /\ b \in BoostRuns /\ On(b, "retention")
    /\ (build[b].tool = tool /\ Go(b, "pass")) \/ Fails(b)

\* finalize: without a pin there is no prerequisite to name.
BoostFinalize(b) ==
    /\ b \in BoostRuns /\ build[b].pc \in {"pass", "fail"}
    /\ LET python == build[b].python IN
       Publish(b, On(b, "pass") /\ SoundLeaf(python), {python} \ {"none"})

--------------------------------------------------------------------------------
(* OpenUSD.                                                                *)

\* The commit of the engine, and an upstream checkout that is pinned and clean.
UsdPreflight(b) ==
    /\ b \in UsdRuns /\ On(b, "start")
    /\ Go(b, "dependencies") \/ Fails(b)

\* Mutant of Dependencies: each report is sound, but a child may have been built on another parent.
DependenciesOneByOne(m) == SoundLeaf(m.python) /\ SoundBoost(m.boost)

\* read_dependencies: every report of the map is sound, binds the files that are
\* used, and a child was built on the very parent that the map names.
Dependencies(m) ==
    /\ SoundLeaf(m.python) /\ SoundBoost(m.boost)
    /\ m.python \in report[m.boost].on

\* A dependency map is given, or there is nothing to start.
UsdDependencies(b) ==
    /\ b \in UsdRuns /\ On(b, "dependencies")
    /\ IF Dependencies(map)
       THEN Step(b, [build[b] EXCEPT !.pc = "source", !.python = map.python, !.boost = map.boost])
       ELSE Fails(b)

\* The clone, the inputs with their hashes, the patches, the hashes of the source.
UsdSource(b) ==
    /\ b \in UsdRuns /\ On(b, "source")
    /\ Step(b, [build[b] EXCEPT !.pc = "configure", !.tool = tool]) \/ Fails(b)

\* cmake: every feature is on, and every library is the one that was given.
UsdConfigure(b) ==
    /\ b \in UsdRuns /\ On(b, "configure")
    /\ Go(b, "build") \/ Fails(b)

\* build and install, with the prefixes of the prerequisites.
UsdBuild(b) ==
    /\ b \in UsdRuns /\ On(b, "build")
    /\ Compile(b, intact[build[b].python] /\ intact[build[b].boost]) \/ Fails(b)

\* architecture and smoke.
UsdCheck(b) ==
    /\ b \in UsdRuns /\ On(b, "check")
    /\ Go(b, "retention") \/ Fails(b)

\* Mutant of UsdRetention: the inputs and tools are not compared again.
UsdRetentionWithoutTools(b) ==
    /\ b \in UsdRuns /\ On(b, "retention")
    /\ \/ /\ map = [python |-> build[b].python, boost |-> build[b].boost]
          /\ Dependencies(map)
          /\ Go(b, "pass")
       \/ Fails(b)

\* Source, inputs and map are what they were, and so are the prerequisites.
UsdRetention(b) ==
    /\ b \in UsdRuns /\ On(b, "retention")
    /\ \/ /\ build[b].tool = tool
          /\ map = [python |-> build[b].python, boost |-> build[b].boost]
          /\ Dependencies(map)
          /\ Go(b, "pass")
       \/ Fails(b)

UsdFinish(b) ==
    /\ b \in UsdRuns /\ build[b].pc \in {"pass", "fail"}
    /\ LET on == {build[b].python, build[b].boost} \ {"none"} IN
       Publish(b, On(b, "pass") /\ \A d \in on : SoundLeaf(d) \/ SoundBoost(d), on)

--------------------------------------------------------------------------------
BuilderStep(b) ==
    \/ PythonPrepare(b) \/ PythonBuild(b) \/ PythonCheck(b) \/ PythonRetention(b) \/ PythonFinalize(b)
    \/ BoostPythonBefore(b) \/ BoostToolchain(b) \/ BoostPrepare(b) \/ BoostBuild(b) \/ BoostCheck(b)
    \/ BoostPythonAfter(b) \/ BoostRetention(b) \/ BoostFinalize(b)
    \/ UsdPreflight(b) \/ UsdDependencies(b) \/ UsdSource(b) \/ UsdConfigure(b) \/ UsdBuild(b)
    \/ UsdCheck(b) \/ UsdRetention(b) \/ UsdFinish(b)

\* Another map is written, of reports that exist.
EditMap ==
    /\ \E p \in PythonRuns, b \in BoostRuns :
          /\ report[p] # NoReport /\ report[b] # NoReport
          /\ map' = [python |-> p, boost |-> b]
    /\ UNCHANGED <<build, report, intact, tool, edits>>

\* A tool or a recipe is replaced; a file below a published directory is changed.
\* (A change that is taken back between two looks is not seen by anybody.)
Replace ==
    /\ edits < MaxEdits /\ edits' = edits + 1
    /\ \/ tool' = tool + 1 /\ UNCHANGED intact
       \/ /\ \E b \in Builders :
               report[b].status = "PASS" /\ intact[b] /\ intact' = [intact EXCEPT ![b] = FALSE]
          /\ UNCHANGED tool
    /\ UNCHANGED <<build, report, map>>

StageNext == (\E b \in Builders : BuilderStep(b)) \/ EditMap \/ Replace

StageType ==
    /\ build \in [Builders -> [pc : {"start", "dependencies", "preflight", "source", "configure", "build",
                                     "check", "python-after", "retention", "pass", "fail", "done"},
                               python : PythonRuns \cup {"none"}, boost : BoostRuns \cup {"none"},
                               tool : 0 .. MaxEdits, used : 0 .. MaxEdits, fed : BOOLEAN]]
    /\ report \in [Builders -> [status : {"none", "PASS", "FAIL"}, on : SUBSET Builders]]
    /\ intact \in [Builders -> BOOLEAN]
    /\ map \in [python : PythonRuns \cup {"none"}, boost : BoostRuns \cup {"none"}]
    /\ tool \in 0 .. MaxEdits /\ edits \in 0 .. MaxEdits

--------------------------------------------------------------------------------
\* What a passing Boost or OpenUSD was compiled with is what its report binds: the
\* tools that were hashed before, and prefixes nobody had touched.
PassUsedWhatItBinds ==
    \A b \in BoostRuns \cup UsdRuns :
        report[b].status = "PASS" => build[b].used = build[b].tool /\ build[b].fed

\* No OpenUSD passes on two different CPythons, its own and the one below its Boost.
OnePythonBelow ==
    \A u \in UsdRuns : report[u].status = "PASS" =>
        \A b \in report[u].on \cap BoostRuns : report[b].on = report[u].on \cap PythonRuns
================================================================================
