# Verification project for `my-ad`

The repository brings up an autonomous-driving test bench on a DGX Spark: a CARLA server built
natively for ARM64, an Autoware stack in containers, and a large set of gates, probes and builders
whose product is *evidence*, reports that say PASS or FAIL about something that ran. The programs are
scripts, but what has to be right about them is what has to be right about a protocol: they borrow a
world that others may use, read files that others may edit, race with callback threads, timeouts and
signals, and must never say PASS over something that did not happen.

This directory holds TLA+ models of the parts where the order of steps matters, TLC configurations
that check them, and proofs checked by TLAPS.

## 1. Inventory

| Component | State | Operations | Interacts with | Hard because | Correct when |
|---|---|---|---|---|---|
| Sensor streams: `AlignedQueue` in `scripts/carla/check_carla_runtime.py` | one bounded queue, three flags per sensor | `__call__` on the client's pool threads, `check_failure`, `frame` | world ticks, packets, the tick loop | pooled threads, reordered and lost packets, full queues, deadlines, a second owner | a PASS holds one packet of each sensor for every measured frame |
| Runtime gate: `run_gate`, same file | checks, handles, settings, owned actors, Traffic Manager mode | three modes, undo in `finally`, report | CARLA RPC, the streams, stage reports | every RPC fails with or without its effect; SIGINT | the world is given back, a FAIL stays a FAIL, nothing happens without permission |
| Invocation wrapper and entry report: `probe-arm64-runtime.sh`, `runtime_entry_report.py` | run directory: pinned digests, logs, child report, result, `stage-report.json`, `decision.md` | capture, verify, install, run, finalise, decide | the gate's process, other finalisers, whoever edits files | each file is read at a moment of its own; SIGTERM; two finalisers | a published PASS is about what was pinned and ran; one verdict |
| Stage reports: `stage_report.py` | reports with digests of evidence and prerequisites | `write_report`, `validate_report` | all builders and gates | stale prerequisites, cycles, depth | accepted exactly when everything below is sound |
| DGX mode runner: `scripts/ops/run-dgx-mode.sh` | shell variables; the autoware container | planning, scenario-up, scenario | docker, other operators | the container is replaced while it is polled | what passes is what was started |
| Harness: `scripts/harness/run.sh` | artifact directory, `decision.md`, `finished` | ten atomic tests, `finish`, EXIT trap | docker, the same container | subshells, signals, stale ids | the decision agrees with the exit code |
| World wait and probe wrappers: `probe-town10-gb10-runtime.sh`, `run-carla-lavapipe-sensors.sh`, `wait_carla_world.py` | server process group, log, ports | start, wait, capture, kill | CARLA server | child outlives its wrapper, readiness too early | nothing is left running, no PASS from another server |
| Shutdown-crash probe: `gdb_ue_shutdown_capture.py`, `analyze_ue_shutdown_capture.py`, their wrapper | four lists of events, counters, the journal | hooks on checks, map, sockets and exit; finish; analysis | gdb, engine threads | lists that fill up, unreadable frames, a kill in between | "clean" means no failed check, the order stated is the order that occurred |
| Vulkan pipeline capture: `gdb_vulkan_pipeline_capture.py`, `vulkan_pipeline_snapshot.py`, `vulkan_device_snapshot.py` | what every handle stands for, calls in flight, budgets | entry and return hooks, crash, three modes; acceptance | gdb, driver, engine threads | threads interleave, handles are given out again, destruction is not hooked | an accepted capture is the call in question, with the inputs it had |
| Vulkan fault capture: `gdb_vulkan_fault_capture.py`, `vulkan_fault_snapshot.py` | a ring of binds and parameters, the first stop | check hook, trace hooks, timer; acceptance, search in the ring | gdb, engine threads | checks, signals and the timer race; the ring forgets | what is reported is the first fault, and the bind named was in force |
| Build manifest: `capture_build_manifest.py` | digests of three checkouts, archived patches and files | capture, verify | git, whoever edits | five git calls per checkout while the trees change | what verifies can be made again from the archive |
| Fork records: `freeze_fork_delta.py`, `report_fork_provenance.py` | frozen patches, identity of each fork | freeze, derive, check | git, the manifest | the patches lie in the project that the manifest records | all records of one moment are of one tree |
| Native dependency stages: `usd/*_stage.py`, `usd/build-arm64-*.sh` | build and stage directories, reports | hash, build, test, hash again, report | stage reports | prerequisites rebuilt, tools replaced, maps that mix two CPythons | a stage stands on the prerequisites it names |
| Native USD SDK: `prepare_native_usd_sdk.py` | links, patched engine files, receipt | prepare, verify | the stages, engine sources, other prepares | each file is compared, emptied and written in steps of their own | an SDK that verifies is one piece |
| Interchange parser and worker (C++) | loaded scene, payload files | load, fetch, stop | engine processes | commands after a failed load | results belong to the last load |
| FBX readers, mesh bridges, Vulkan replay, analysers, evaluators, converter, loader | files | conversions | – | numerics, formats | outputs match inputs |

`PROJECT.json` lists all of them with their sources, and under `hazards` the lines where they can go
wrong.

## 2. Modules

    AlignedEvidence <--refines-- AlignedQueue --- MCAlignedQueue
                                      \---------- AlignedQueueProofs
    RuntimeGate --- RuntimeGateProofs      (what AlignedQueue decides is the choice MeasureSensors)
    EntryReport --- EntryReportProofs      (the gate is its child process; write_report with its re-reads)
    StageReport  --- MCStageReport
             \------ StageReportProofs
    ComposeService <-- DgxMode  --\
                  \<-- Harness  ---- Operations --- OperationsProofs
    NativeStage <-- SdkBinding <-- NativeSdk --- MCNativeSdk
                                        \------- NativeSdkProofs
    ForkRecords <-- BuildManifest --- MCBuildManifest
                            \------- BuildManifestProofs
    GdbSession <-- ShutdownCapture, PipelineCapture, FaultCapture <-- GdbProbes --- MCGdbProbes
                                                                          \------- GdbProbesProofs

**AlignedEvidence** is the promise of the sensors mode without queues, threads or clocks: samples are
only appended, each one frame after the last with one packet of that frame from every sensor, and the
verdict is final.

**AlignedQueue** is `AlignedQueue.__call__` in six steps (enter, overflow test, closed test,
`put_nowait`, set `overflow`, set `failure`), for any number of pool threads on any stream, against
the loop of `run_gate` that ticks, validates the snapshot, and drains one queue after the other
(`check_failure`, `frame` with its deadline, `_packet_frame`). The wire is a set of packets: they are
delivered in any order, or not. `ForeignTick` is a second owner of the world. `faults` is a history
variable that names what went wrong outside, so that a false alarm can be told from a justified one.

**RuntimeGate** is `run_gate` from its first check to its report: 25 actions for the phases, the copy of
the client module, the set-up scripts of the two modes, the tick loop, the judgement, the independent
undos of `finally`, the second hashing of both watched files and `write_report`, which may raise (a NaN that an
actor reported, a full disk): `main` then exits with 1 and there is no report. Every RPC may fail having
had its effect or not. `Rewrite` replaces the provenance file or the client module behind the gate's
back. `Interrupt` is SIGINT: caught in `try`, by nobody afterwards.

**EntryReport** is the wrapper with its EXIT trap, the gate as a process, and `finalize` file access by
file access, including `write_report`'s two snapshots, the late comparison, the rewrite and `os.link`.
A file is its version; a digest reads one file in one step. `validated` is a history variable, the child report as it
was when `finalize` validated it: the report has to attest that one and no other.

**StageReport** is `write_report` / `validate_report` over a directory of reports. `ValidFile` is the
recursion of the code (`Check`, a file and then its prerequisites), and `Sound` says what it should mean without any order of recursion.
Evidence takes contents from a small set and may take one again, as the same log written twice does; a report has a
time in it, so no two are alike, but a copy of an earlier one may be put back (`Build`). `StageId` gives the id of
a stage, which several scopes may share.

**ComposeService** is docker's side of one container (external). **DgxMode** is the mode runner:
`up --force-recreate`, then `ps`, state and health as calls of their own. **Harness** gives every test
as a table of steps, one per docker call, and the handler that answers each failure, with `finish`, the trap, the
subshell of `expected_arch` and the two moments of writing `decision.md`. Evidence, `decision.md` and
the line on stdout may fail to be written; a signal inside `finish` or such a failure cuts a run off (`cut`). **Operations** composes them over
one container and adds `make record`, which recreates a dependency whose command changed.

**NativeStage** is the life of CPython, Boost and OpenUSD runs, each with a process that hashes its tools
and prerequisites, compiles, tests, hashes again and reports. CPython stands for the leaves among
OpenUSD's seven prerequisites, Boost for those that are built on another (as Alembic on Imath). Any
number of runs of each go on at once, while the toolchain, the prefixes of finished stages and the
dependency map change. **SdkBinding** is `prepare` (read the reports, read the engine files, then compare, empty
and write one after the other, link, leave the receipt) and `verify` as an expression over what stands there now.
A file that one prepare is writing is `torn` for the others; links are turned and maps rewritten by `EditSdk`.
**NativeSdk** composes the two.

**ForkRecords** has the three checkouts (HEAD, index, working tree, an untracked file), `freeze`, which may
be refused, cut off or leave a torn patch after any fork, and the derivation of provenance; **BuildManifest** adds `capture` and `verify`, one action per git
command, and the archive, which can be tampered with.

**GdbSession** is what the probes share: one script in gdb, one stop at a time, `finish`, a watchdog that
kills. **ShutdownCapture** is the engine's delegate map and checks with the four lists of the script and
the analyser's verdict, where a check's text may be unreadable, a hook may raise and the journal may fail to be written;
**PipelineCapture** the driver's handles with `CaptureState`, its budgets, the
creations and compute calls whose frame goes away without a return, and the acceptance of a capture; **FaultCapture** the first-stop probe with its ring, which
parameters of a stage the trace is not after do not enter. **GdbProbes** runs one
of the three under the watchdog. Each module keeps what *really* happened in the engine (`ue`, `gpu`,
`scene`) apart from what the script *saw*; the properties compare the two.

## 3. Runs

| Run | Instance | What it shows |
|---|---|---|
| `aligned_contended` | 2 sensors, 1 thread, 1 foreign tick | alignment of a PASS, only warm-up packets are dropped as stale, refinement of `AlignedEvidence` |
| `aligned_pool` | 1 sensor, 2 threads, 2 foreign ticks, queue one longer than the warm-up | no overflow and no false alarm without an outside cause, flag before failure, the gate returns |
| `runtime_gate` | 3 modes, 2 ticks, 1 foreign tick, 1 SIGINT, 1 rewritten file | what a PASS, a passed cleanup and a refused permission mean; a PASS is about untampered files; FAIL is final; the gate ends, with a report, with exit 1 and none, or by a SIGINT nobody catches |
| `runtime_gate_sigint` | violation | see findings |
| `runtime_gate_tm` | violation | see findings |
| `entry_report` | 2 finalisers, any 2 of 2 edits, 1 SIGTERM, aborts, a hand-started finaliser | PASS means pinned; report, result and decision agree; one verdict |
| `stage_report` | 3 paths, 2 stages, depth limit 2, 2 contents, 4 changes | the recursive check of writer and reader accepts exactly the sound reports; a PASS is the newest; only old bytes put back revive a refused report |
| `operations` | 1 runner, 1 harness run of any of 10 tests, 3 roles, 3 containers, 1 signal | passes are about the runner's own container or a newer one; evidence of one container; decision and exit code agree, failed writes included; waits end |
| `operations_role` | violation | see findings |
| `native_sdk` | 2 CPythons, 2 Boosts, 1 OpenUSD, 2 SDKs on one engine of 2 files, 1 edit of anything | a passing stage used what it binds, on one CPython; a verifying SDK is whole; an undisturbed one whose readings met no writing verifies |
| `build_manifest` | project and 1 fork, any 2 edits between any 2 reads | what verifies can be reproduced; a quiet capture verifies; manifest, provenance and patches of one moment are of one tree |
| `gdb_captures` | 2 threads, 2 handles, 2 contexts, 4 engine events, 1 failed reading or write, lists of 2, ring of 3 | a failed check that is lost shows in the journal, the order is the order, the accepted call is the call, the reported fault is the first |

Every property of a passing run has a mutant: the model with one definition changed the way a bug of
the code would change it, in which TLC finds the property violated. They stand before the definition
they mutate and are listed in `PROJECT.json`.

### Bounds, and why they are enough

* `QueueSize` is 32 and `WARMUP_TICKS` 10 in the code. What matters is that the queue is longer than the
  warm-up, because only the warm-up is left unread; the runs use the tightest such sizes (2 and 1), and
  two measured ticks, so that there is a tick after a recorded sample. The proofs hold for every size.
* `MaxForeign` lets a second owner tick once per place where it can matter (between baseline and snapshot,
  during a wait) and twice where it has to fill a queue.
* `MaxFaults` in `entry_report` is a budget of two for all that goes wrong outside: each hazard of the
  finaliser needs one or two (an edit between two readings; a second finaliser and an edit).
* The depth limit of `stage_report.py` (32) is 2 in the instance, with three paths, so chains exceed it.
  A failed stage names no prerequisites there, and only the last report written names two. `MaxChanges` is 4, all reports
  written and files built, removed or put back: two reports, a change below one, and the way back.
* `MaxPolls` (90 turns of two seconds in the code) is 2: a turn after a fruitless one. `MaxContainers` is
  3: one from before, the runner's own and one that replaces it.
* `MaxEdits` is 1 in `native_sdk` and 2 in `build_manifest`: one edit can fall between any two steps of any of
  the five builders and two prepares; a record needs a second edit to be stale and disguised. Two of each
  stage are needed for a map that mixes them. The proofs about `native_sdk` hold for any number of each.
  `build_manifest` has one fork; two with one edit also pass, in more time, and the proofs hold for any number.
* In `gdb_captures` the lists of 64 and 8 events are lists of 2, which four events overfill, one failure (`MaxFailures`) falls on any
  reading, hook or write; the budgets of
  512 creations and 128 calls are 3 and 2, the ring of 256 is 3 with 5 traced events, so that it turns
  around; four objects on two handles make every handle change hands. Threads, handles and contexts
  are interchangeable (symmetry; the run checks invariants only).

### Fairness

Weak fairness only, and only for what something schedules or bounds in time: the gate's thread (each
RPC and each `queue.get` has a timeout) and the client's callback threads; the wrapper, its child
(under `timeout --kill-after`) and the trap's finaliser; the polling steps of the mode runner. None for
the server, other clients, editors, signals, a hand-started finaliser, containers, or the commands a
harness test runs (a `docker run` there has no timeout, so no liveness is claimed for the harness).
`NativeSdk`, `BuildManifest` and `GdbProbes` state no fairness and claim safety only: compilers, git and
the engine end when they end.

## 4. Proofs

`AlignedQueueProofs` proves, for every number of sensors, threads, ticks and foreign ticks:

* `TypeCorrect`: `Spec => []TypeOK`
* `FailuresAreFlagged`: `Spec => []FailureImpliesOverflow`
* `PassIsAligned`: `Spec => []PassMeansAligned`
* `QueuesImplementEvidence`: `Spec => Evidence!Spec`
* `StaleIsWarmup`: `Spec => []OnlyWarmupIsStale`
* `ExclusiveRoom`: `Spec => []ExclusiveNeverOverflows`
* `FaultsAlone`: `Spec => []NoFalseAlarm`

The first four rest on `Inv == TypeOK /\ TickLoopInv /\ OverflowInv`. `PassMeansAligned` speaks of the end; it is
not inductive, because nothing in it ties a recorded frame to the loop. `TickLoopInv` does: at each
place of the loop, `previous` is the baseline plus the turns made, the samples are those of the measured
turns so far, and each is aligned. `FailureImpliesOverflow` is strengthened by where each callback stands:
a thread about to record a failure has raised its stream's flag already. The step lemma has one case
per action; the refinement maps every step to a tick, an appended sample, a verdict or a stutter.

The assumptions are those of the modules: at least one tick, at least one slot, sensors numbered from one.

The last three are about where the packets are. Three invariants, each on the one before. `FlowInv`: a packet is in one place at a time, on the wire, in
one callback or at one index of the queue. `TakenInv`: while the gate runs, what is on its way is of the warm-up
or newer than the last frame that was taken from that sensor (`Taken` moves sensor by sensor through the
loop). `AloneInv`: without a foreign tick the gate ticks only when the rest is warm-up, so what is on its way is
of the warm-up or of the current frame. These are at most `WarmupTicks + 1` distinct frames, one of which the
callback holds that is about to put; a queue longer than the warm-up (`CapacityAssumption`, 10 and 32 in the
code) has room for it, by the pigeonhole principle. No failure, no newer packet and no misaligned packet is
then left for the gate to raise an exception about.

`RuntimeGateProofs` proves every safety property of `runtime_gate`, for every number of ticks, warm-up ticks,
foreign ticks and interrupts:

* `GateTypeOK`: `Spec => []TypeOK`
* `FailedStaysFailed`: `Spec => FailIsFinal`
* `Permitted`: `Spec => []NothingWithoutPermission`
* `Untampered`: `Spec => []PassMeansUntampered`
* `Exclusive`: `Spec => []PassMeansExclusive`
* `Returned`: `Spec => []PassMeansReturned`
* `Independent`: `Spec => []UndosAreIndependent`

The common part is `Inv`: types, where the set-up script stands (`ScriptInv`), and that no check fails while the
try block runs (`CheckInv`), which with the finally block's single verdict makes a failure final. Each property has
an invariant of its own above it. `PermissionInv`: without the flag the script does not get past the permission, so
the undos find nothing. `TamperInv`: what was pinned is what was there, so a replaced file differs from its pin.
`ExclusiveInv`: a foreign tick puts the frame ahead of `previous`, or of the ticked frame, until the next
snapshot tells. `AliveInv`, `SettingsInv`, `TrafficInv`: what is on loan is either held by a variable the cleanup
reads, or its call failed and a required check with it (`Failed`); past its undo it is back, or that undo's error is
recorded. `ReportInv` carries all this to the report. Assumptions: at least one tick, the three modes.

`EntryReportProofs` proves, for every number of finalisers, edits, signals and aborted finalisers:

* `EntryTypeOK`: `Spec => []TypeOK`
* `Attested`: `Spec => []PassMeansPinned`
* `Consistent`: `Spec => []ReportMatchesResult`
* `Unique`: `Spec => []OneVerdict`
* `Decided`: `Spec => []DecisionMatchesReport`
* `Undisturbed`: `Spec => []NoFalseFail`

A finaliser reads one file after the other while others edit them, so what it knows of a file is what it was at some
earlier moment. The argument rests on `Drift`: versions are never written twice, so an input that differed once from
what was pinned differs for good. A digest taken last that equals the pinned one therefore speaks for the moments when pip,
python and the gate's report read the file before it (`FlowInv`, `Sound`). `ReadInv` says this of every digest a finaliser
holds, `WriteInv` how far its report is and that a result file with exit 0 is of the first round with all checks passed,
which is what lets `FinLink` conclude that nothing was late. `OutputInv` carries it from the link to the end, since
nobody replaces what is there. The assumption `MissingAssumption` says that an absent file is no content. That versions
are not reused is a limit of the model (section 6), and the theorem needs it.

`NoFalseFail` is the other direction, for the runs in which nothing was edited or killed (`Quiet`, which once false
stays false). `QuietFlow` says that then every file is what it was when it was pinned, and what a gate that passed
left behind; `TrapInv` that the trap's finaliser has found every check passed so far and every digest twice the same,
whatever other finalisers do at the same time. So its report is a PASS, in the rewriting as in the first round.

`StageReportProofs` proves, for every directory, depth limit and number of prerequisites, reports and builds:

* `StageTypeOK`: `Spec => []TypeOK`
* `AcceptedIsSound`: `Spec => []AcceptsTheSound`
* `AcceptedIsNewest`: `Spec => []PassIsNewest`
* `OldBytesOnly`: `Spec => OnlyOldBytesRevive`

The check is a recursive function, and the provers cannot do an induction over what it computes. Two lemmas
stand for it. `CheckIs`: the function satisfies its defining equation, because the union of all sets of visits
that pass as a whole does. `ClosedCheck`: every set of visits, each of which passes if the next ones are in the
set, passes; ancestors only grow and are fewer than the limit, so a visit with the most ancestors would be a counterexample to
itself (least numbers exist by well-founded induction). Each property then names its set. For `Sound` it is what descends from the
report along chains of older and older reports; for a report put in place as its writer left it, the visits that have its path among their ancestors,
which a replacement cannot touch; for a report that was refused, the visits accepted after a step that gave no file below
an earlier content: where it changed something there, it put in place a report that nothing could name yet.
The invariant says that a report, or a copy of one, is newer than what it names (`AgeInv`), that nobody names a report that is
not yet in place (`FreshInv`), and what a writer knew of a PASS while nothing else has changed (`SettledInv`). Assumptions: the
directory is finite, the limit is not zero, and no report is the mark for a missing one (`DirectoryAssumption`). With a limit of zero the
writer would pass reports that no reader accepts.

`NativeSdkProofs` proves all four properties of `native_sdk`, for every number of stages, SDKs, files and edits:

* `UsedIsBound`: `Spec => []PassUsedWhatItBinds`
* `OnePython`: `Spec => []OnePythonBelow`
* `VerifiedSdk`: `Spec => []VerifiedSdkIsWhole`
* `QuietBinding`: `Spec => []QuietBindingVerifies`

`StageInv` says what each process knows at each place of its script (`LocalOK`), what a published report
guarantees (`ReportOK`), and that tools only get newer and touched prefixes stay touched; the second
hashing of a stage turns "what I read before" into "what held all the time". `SdkInv` says what a
prepare that has read its inputs goes on: the passing OpenUSD it was given, which names the very Boost and
CPython that it links. `QuietInv` says that without an edit every file is original, patched or torn, that a
prepare which has not read a torn file makes the one patched text, and that a file which a prepare has been through is never
the original again. Assumption: there is at least one file to patch (`FilesAssumption`).

`OperationsProofs` proves, for every number of runners, harness runs, containers, polls and signals:

* `OperationsTypeOK`: `Spec => []TypeOK`
* `OperationsNothingOlderPasses`: `Spec => []NothingOlderPasses`
* `OperationsDecisionMatchesExit`: `Spec => []DecisionMatchesExit`
* `OperationsEvidenceOfOneContainer`: `Spec => []EvidenceOfOneContainer`

The invariant has one part per component, because the scripts share only docker: what a step of one does
to the others is that more containers were made (`ServiceInv`, `RunnerInv`, `HarnessInv`). `RunnerOK`
adds to `NothingOlderPasses` what a runner in the middle of its loop knows: an id it was given is not
older than its own, since `ps` lists the newest container or none. `RuntimeOK` ties how far a runtime test
has come to what it has read: past the first inspection, everything kept is of the listed container; past the last,
so is the health. `RunOK` follows a verdict from its writer (finish, a subshell, the trap) through the
two writes of `decision.md` to the exit; that an honest verdict has status PASS or OBSERVED exactly with
code 0 is what makes the two agree; a run that was cut off has never exit code 0. The assumptions: at least one container and one poll, and
the configurations of the two modes among those of the service.

`BuildManifestProofs` proves all three properties of `build_manifest`, for every number of forks, edits and verifies:

* `VerifiedReproducesTrees`: `Spec => []VerifiedReproduces`
* `QuietCaptureIsAccepted`: `Spec => []QuietCaptureVerifies`
* `RecordsAgree`: `Spec => []OneTreeInAllRecords`

Both tools read checkout after checkout. What each has read is compared with what is there *now* as long as `changes`,
the count of everything that changes under them, is what it was when the tool began: `ReadsHold` for capture,
`ChecksHold` for verify, one clause per file and place in the loop. A change makes them vacuous, and so only the steps of
the tool itself have to be looked at. `PublishInv`, `CopiesInv` and `QuietManifest` carry the result past the
publication. Assumption: the forks come in some order (`ForkOrder`).

`GdbProbesProofs` proves the four properties of `gdb_captures`, for every number of threads, handles, contexts and calls
and any size of the lists and the ring:

* `RecordedLoss`: `Spec => []LossIsRecorded`
* `ReportedOrder`: `Spec => []OrderIsTheOrder`
* `AcceptedCall`: `Spec => []AcceptedIsTheCall`
* `FirstFault`: `Spec => []FaultIsFirst`

Each script's invariant relates what it wrote down to what the engine did. For the shutdown probe, `OrderInv`: the order
numbers in the four lists are ordered as the engine's clock was at the events, dropped events or not, and `TargetInv`: a
failed check is listed, as itself or as one that could not be read, unless the list is full and says so or an error of its
hook is noted. `JournalInv`: what the journal has is the beginning of the script's lists, and all of them after the last write.
For pipeline creation, `ModulesInv`: on every
handle that both have, the script's table and the driver's agree, and `OpenInv`: the open calls are those
that the threads are in, or left without a return. For the fault probe, the ring holds the last events of each context, so a bind that is still
in it, with no other of its context behind it, is the one in force; the analyser's first and last positions exist by well-founded
induction on numbers. Assumptions: `ContextsAssumption` and `LimitsAssumption` of `FaultCapture`.

Checked only by TLC: the liveness properties (`GateReturns`, `GateEnds`, `DecisionIsMade`,
`WaitEnds`), which need ENABLED. Every other property of a passing run is proved. The type
invariants of these modules stand beside their variables as documentation; runs spend their time on
the other properties.

## 5. Findings

* **SIGINT during the cleanup** (`runtime_gate_sigint`). The module says settings and actors are
  restored in `finally`. The handlers there catch `Exception` only: a SIGINT there, which the wrapper's
  timeout sends, skips the remaining undos and the report.
* **Traffic Manager** (`runtime_gate_tm`). `docs/carla-dgx-audit.md` puts leaving its synchronous mode
  first in the cleanup. If `_spawn_actors` raises after it has entered that mode, the gate has no handle, does
  not leave it, and the cleanup check passes. The report is a FAIL all the same.
* **HOST_ROLE** (`operations_role`). `finish BLOCKED` in `$(expected_arch)` runs in a subshell; the
  parent's trap overwrites the decision with a FAIL.

## 6. What the models do not say

* A foreign tick after the gate's last snapshot is not seen by the gate, and no property claims it.
* A file changed and changed back between two digests is not noticed; `EntryReport` leaves such edits out.
* A runtime gate whose result cannot be written (`allow_nan=False` meets a NaN, a full disk) leaves no report, and `main`
  exits with 1: there is no verdict then, and `GateEnds` claims none.
* An edit of the gate's report before `finalize` reads it, which leaves it valid, is attested like the gate's own
  writing: nothing ties the child's bytes to the process that wrote them.
* Evidence that is built again with the same bytes, or a report put back from a copy, makes a refused report acceptable
  again: `stage_report.py` compares contents (64-71, 169-172). `OnlyOldBytesRevive` says that nothing else does.
* A write that fails or a signal inside `finish` of the harness may leave PASS in `decision.md` under a failing exit code.
* A SIGTERM may start the trap while the gate still writes its log; the report then hashes a log that
  grows, and is refused later. A second signal inside the trap leaves no decision.
* Two callback threads may each record a failure; the comment calls the first one sticky, the code keeps
  the last. Only the text differs.
* Two harness runs of a test in the same second share their directory (`run_stamp` has seconds).
* A runner that finds a container newer than its own, started by somebody else, passes on it.
* A client module that is replaced between its import and its copy is copied and hashed in place of the
  imported one, and no digest tells (the model begins at the copy).
* `prepare` compares an engine file and writes it in two steps (`prepare_native_usd_sdk.py:195-196`): an edit in
  between is overwritten. `VerifiedSdkIsWhole` holds nevertheless; that no edit is lost is not claimed. A file that
  is cut short behind the patch's text counts as patched for `prepare` and `verify` alike, and another prepare may take its
  digest into a receipt. `VerifiedSdkIsWhole` says patched, and not complete; `QuietBindingVerifies` excepts such readings. Prepare's
  reading of the five files, the digests of its receipt and the reading of `verify` are one step each.
* `capture_build_manifest.py` is modelled with its artifact root ignored by git, as the default one is; the
  architecture is constant, and a branch name goes with its head.
* The analyser of the shutdown probe looks at none of `capture_complete`, `truncated` and `capture_errors`
  (`analyze_ue_shutdown_capture.py:361-374`), although its head says that a broken measurement is refused: it may report
  that no check failed where one did. `LossIsRecorded` says that the journal shows it then: a reader who looks
  at those fields, and at checks listed without a text, is not misled. A map that is filled again between the clearing and
  the check still counts as cleared before it.
* In observe mode the pipeline probe may intervene in two calls when two threads are inside a target call;
  interventions are not modelled. A compute call that vanished without a return stays pending, and a later crash
  outside any call is attributed to it. A kill in the middle of `write_text` leaves a torn file, which is
  rejected. SIGILL and SIGFPE end an observation in the fault probe without being the fault. A check whose frame
  cannot be read stops gdb with nothing captured.
* Assumed of gdb and the engine: one stop at a time, no resumption after a stop; hooks of one kind resolve
  together; no other thread changes the map
  during a hook; a thread in the compute call has `CreateComputePipelineFromShader` on its stack; the set-up of
  formats runs while no other API call is in flight. One shader and one list stand for all objects of a context.
* Payloads (images, point clouds, motion) are a choice of good or bad; texts and file formats are left
  out; CARLA, docker, git and the file system are external, reduced to what the scripts read of them.

## 7. Not modelled, and plan

Not modelled because there is no order of steps to get wrong, or nothing of it that the models could tell
apart: the parsers and converters (FBX readers, mesh bridges, dependency inventories, dataset converter), the
comparers and evaluators (pure functions of files, whose correctness is in formats and numerics), the vendored
patches, images and documents, the start scripts of the services. The other native builders share the
life of CPython and Boost (section 2). Of the gdb probes, the interventions and the shell wrappers' file
handling are left out.

Worth doing next:

1. `ProbeWrapper`: process group, traps, ports and readiness of the town10 probes and `wait_carla_world.py`.
2. `StaticWorker`: load, fetch and stop of the Interchange parser's worker.
3. The joints between models: that what `RuntimeGate` chooses in `MeasureSensors` is what `AlignedQueue` decides, and that the
   snapshots of `EntryReport` are those of `StageReport`'s `Write`, as refinements with their proofs.
