------------------------------- MODULE RuntimeGate -------------------------------
(***************************************************************************)
(* run_gate of scripts/carla/check_carla_runtime.py from the first check   *)
(* to the report: it borrows a running world, changes its settings, spawns *)
(* actors, ticks, judges, and gives everything back in `finally`.          *)
(* Every RPC may fail, with or without its effect on the server; another   *)
(* client may tick; SIGINT may arrive anywhere.  What AlignedQueue decides *)
(* about the sensor streams is a choice here (MeasureSensors).             *)
(***************************************************************************)
EXTENDS Naturals, Sequences, FiniteSets

CONSTANTS
    Modes,          \* of {"rpc", "sensors", "actors"}, those examined
    Ticks,          \* measured ticks requested
    SensorWarmup,   \* WARMUP_TICKS
    ActorWarmup,    \* ACTOR_WARMUP_TICKS
    MaxForeign,     \* bound: ticks by another owner
    MaxInterrupts   \* bound: SIGINTs delivered

ASSUME ModesAssumption == Modes \subseteq {"rpc", "sensors", "actors"}
ASSUME TickAssumption ==
    Ticks \in Nat \ {0} /\ SensorWarmup \in Nat /\ ActorWarmup \in Nat
ASSUME BoundAssumption == MaxForeign \in Nat /\ MaxInterrupts \in Nat

VARIABLES
    \* the server and its neighbours
    settings,       \* "original", "gate", or "partial" when half applied
    alive,          \* actors of this gate that exist on the server
    tmSync,         \* the Traffic Manager is in synchronous mode
    frame,          \* the world's frame
    foreign,        \* ticks made by another client
    source,         \* the versions of the files that the gate reads
    \* run_gate
    mode, allow,    \* --mode, --allow-world-mutation
    pc,             \* where run_gate is
    active,         \* `active`: the check an exception is charged to
    checks,         \* `checks`
    step,           \* next entry of the set-up script / cleanup of `owned`
    owned,          \* `owned`
    handles,        \* vehicle and traffic_manager are not None
    controllers,    \* `controllers` is not empty
    attempted,      \* settings_attempted
    pinned,         \* provenance_sha256, and that of the client: the versions hashed, if any
    index,          \* the tick loop's index
    previous,       \* frame of the last validated snapshot
    ticked,         \* frame world.tick() returned
    undoErrors,     \* what cleanup_errors names
    report,         \* status of the written stage report
    \* history
    interrupts,     \* SIGINTs delivered so far
    intrusions,     \* foreign ticks between baseline and last snapshot
    tampered        \* a file changed between its reading and the second hashing

server  == <<settings, alive, tmSync, frame>>
others  == <<foreign, source, intrusions, tampered>>
request == <<mode, allow>>
loop    == <<index, previous, ticked>>
held    == <<owned, handles, controllers, attempted, pinned>>
history == <<interrupts, intrusions, tampered>>
vars    == <<server, foreign, source, request, pc, active, checks, step, held, loop,
             undoErrors, report, history>>

Common == {"environment", "provenance", "permission", "handshake", "world",
           "sync-settings", "ticks", "cleanup"}

\* The checks a mode requires.
Required(m) == Common \cup
    CASE m = "rpc"     -> {}
      [] m = "sensors" -> {"sensor-setup", "alignment", "camera", "lidar"}
      [] m = "actors"  -> {"actor-setup", "vehicle-motion", "walker-motion"}

CheckNames == UNION {Required(m) : m \in {"rpc", "sensors", "actors"}}

\* The provenance file and the extension module of the client.
Files == {"provenance", "client"}

\* The calls of _spawn_sensors and _spawn_actors that matter, in their order.
SensorScript == <<"camera", "listen", "lidar", "listen">>
ActorScript == <<"vehicle", "tm-sync", "autopilot", "walker", "controller", "attach-tick", "start">>

Script(m) == CASE m = "rpc" -> << >> [] m = "sensors" -> SensorScript [] m = "actors" -> ActorScript

Actors == {"camera", "lidar", "vehicle", "walker", "controller"}

Warmup(m) == CASE m = "rpc" -> 0 [] m = "sensors" -> SensorWarmup [] m = "actors" -> ActorWarmup

TryPC     == {"environment", "provenance", "permission", "handshake", "connect", "world", "read-settings",
              "apply-settings", "read-back", "setup", "baseline", "head", "tick", "snapshot",
              "measure", "judge"}
CleanupPC == {"controllers", "tm", "autopilot", "actors", "settings"}
TailPC    == {"rehash", "write"}

\* run_gate returned its report, raised before it had one (main prints FAIL and exits with
\* 1), or was ended by a SIGINT that nobody caught.
Ends      == {"done", "raised", "crashed"}

TypeOK ==
    /\ settings \in {"original", "gate", "partial"}
    /\ alive \subseteq Actors
    /\ tmSync \in BOOLEAN
    /\ frame \in Nat /\ foreign \in Nat /\ source \in [Files -> 0 .. 1]
    /\ mode \in Modes /\ allow \in BOOLEAN
    /\ pc \in TryPC \cup CleanupPC \cup TailPC \cup Ends
    /\ active \in CheckNames
    /\ checks \in [CheckNames -> {"MISSING", "PASS", "FAIL"}]
    /\ step \in Nat
    /\ owned \in Seq(Actors)
    /\ handles \in BOOLEAN /\ controllers \in BOOLEAN
    /\ attempted \in BOOLEAN /\ pinned \in [Files -> SUBSET (0 .. 1)]
    /\ index \in Nat /\ previous \in Nat /\ ticked \in Nat
    /\ undoErrors \subseteq Actors \cup {"stop", "tm", "autopilot", "settings"}
    /\ report \in {"none", "PASS", "FAIL"}
    /\ interrupts \in Nat /\ intrusions \in Nat /\ tampered \in BOOLEAN

Init ==
    /\ settings = "original" /\ alive = {} /\ tmSync = FALSE
    /\ frame = 0 /\ foreign = 0 /\ source = [f \in Files |-> 0]
    /\ mode \in Modes /\ allow \in BOOLEAN
    /\ pc = "environment" /\ active = "environment"
    /\ checks = [c \in CheckNames |-> "MISSING"]
    /\ step = 1
    /\ owned = <<>> /\ handles = FALSE /\ controllers = FALSE
    /\ attempted = FALSE /\ pinned = [f \in Files |-> {}]
    /\ index = 0 /\ previous = 0 /\ ticked = 0
    /\ undoErrors = {} /\ report = "none"
    /\ interrupts = 0 /\ intrusions = 0 /\ tampered = FALSE

--------------------------------------------------------------------------------
(* The neighbours.                                                         *)

Loops == Warmup(mode) + Ticks

\* From the baseline to the last snapshot of the loop nobody else may tick.
Watched ==
    \/ pc \in {"head", "tick", "snapshot"}
    \/ pc = "measure" /\ index + 1 < Loops

ForeignTick ==
    /\ foreign < MaxForeign
    /\ pc \notin Ends
    /\ foreign' = foreign + 1
    /\ frame' = frame + 1
    /\ intrusions' = IF Watched THEN intrusions + 1 ELSE intrusions
    /\ UNCHANGED <<settings, alive, tmSync, source, request, pc, active, checks, step, held,
                   loop, undoErrors, report, interrupts, tampered>>

\* Somebody rewrites one of the two files.
Rewrite ==
    /\ pc \notin Ends \cup {"write"}
    /\ \E f \in Files :
          /\ \A g \in Files : source[g] = 0
          /\ source' = [source EXCEPT ![f] = 1]
          /\ tampered' = (pinned[f] # {})
    /\ UNCHANGED <<server, foreign, request, pc, active, checks, step, held, loop,
                   undoErrors, report, interrupts, intrusions>>

--------------------------------------------------------------------------------
(* The try block.                                                          *)

\* Nothing reads these after the try block: they are reset, so that states coincide.
Forget ==
    /\ active' = "cleanup" /\ step' = 1
    /\ index' = 0 /\ previous' = 0 /\ ticked' = 0

\* except: the check it happened in fails and `finally` begins.
Charged(check) ==
    /\ checks' = [checks EXCEPT ![check] = "FAIL"]
    /\ pc' = "controllers"
    /\ Forget
    /\ UNCHANGED <<request, undoErrors, report>>

Raises == Charged(active)

Except == Raises /\ UNCHANGED held

Passed(next, check) ==
    /\ checks' = [checks EXCEPT ![active] = "PASS"]
    /\ pc' = next /\ active' = check
    /\ UNCHANGED <<request, step, loop, undoErrors, report>>

Environment ==
    /\ pc = "environment"
    /\ \/ Passed("provenance", "provenance") /\ UNCHANGED held
       \/ Except
    /\ UNCHANGED <<server, others, interrupts>>

\* The second hashing will compare a file with this version of it.
Pins(f) ==
    /\ pinned' = [pinned EXCEPT ![f] = {source[f]}]
    /\ UNCHANGED <<owned, handles, controllers, attempted>>

\* read_provenance parses the copy: both sources are in it, or it raises.
ReadProvenance == Passed("permission", "permission") \/ Raises

\* The bytes are read, copied and hashed before they are parsed.
Provenance ==
    /\ pc = "provenance"
    /\ \/ Except
       \/ Pins("provenance") /\ ReadProvenance
    /\ UNCHANGED <<server, others, interrupts>>

\* Mutant of Permission: the flag is not tested.
PermissionIgnored ==
    /\ pc = "permission"
    /\ Passed("handshake", "handshake") /\ UNCHANGED held
    /\ UNCHANGED <<server, others, interrupts>>

Permission ==
    /\ pc = "permission"
    /\ \/ allow /\ Passed("handshake", "handshake") /\ UNCHANGED held
       \/ ~allow /\ Except
    /\ UNCHANGED <<server, others, interrupts>>

\* snapshot_client_binary: the extension module is found, copied and hashed; a copy that
\* differs from the module raises.
SnapshotClient ==
    /\ pc = "handshake"
    /\ \/ /\ Pins("client") /\ pc' = "connect"
          /\ UNCHANGED <<request, active, checks, step, loop, undoErrors, report>>
       \/ Except
    /\ UNCHANGED <<server, others, interrupts>>

\* validate_versions: exactly the client's version.
ValidateVersions(answer) == answer = "client's"

\* The server answers with a version, or not.
Handshake ==
    /\ pc = "connect"
    /\ \E answer \in {"client's", "another", "none"} :
          IF ValidateVersions(answer) THEN Passed("world", "world") /\ UNCHANGED held ELSE Except
    /\ UNCHANGED <<server, others, interrupts>>

World ==
    /\ pc = "world"
    /\ \/ Passed("read-settings", "sync-settings") /\ UNCHANGED held
       \/ Except
    /\ UNCHANGED <<server, others, interrupts>>

ReadSettings ==
    /\ pc = "read-settings"
    /\ \/ /\ pc' = "apply-settings"
          /\ UNCHANGED <<request, active, checks, step, held, loop, undoErrors, report>>
       \/ Except
    /\ UNCHANGED <<server, others, interrupts>>

\* settings_attempted is raised before the call; the server may apply all,
\* some or none of them, and the call may fail whatever it did.
ApplySettings ==
    /\ pc = "apply-settings"
    /\ attempted' = TRUE
    /\ settings' \in {"original", "partial", "gate"}
    /\ \/ pc' = "read-back" /\ UNCHANGED <<request, active, checks, step, loop, undoErrors, report>>
       \/ Raises
    /\ UNCHANGED <<alive, tmSync, frame, others, interrupts, owned, handles, controllers, pinned>>

SetupCheck(m) ==
    CASE m = "sensors" -> "sensor-setup" [] m = "actors" -> "actor-setup" [] m = "rpc" -> "sync-settings"

ReadBack ==
    /\ pc = "read-back"
    /\ \/ /\ settings = "gate"
          /\ Passed(IF mode = "rpc" THEN "baseline" ELSE "setup", SetupCheck(mode))
          /\ UNCHANGED held
       \/ Except
    /\ UNCHANGED <<server, others, interrupts>>

\* The script's last call returned: the handles are bound in run_gate.
Continue ==
    IF step < Len(Script(mode))
    THEN /\ step' = step + 1
         /\ UNCHANGED <<pc, checks, handles, controllers>>
    ELSE /\ step' = step
         /\ pc' = "baseline"
         /\ checks' = [checks EXCEPT ![active] = "PASS"]
         /\ handles' = (mode = "actors") /\ controllers' = (mode = "actors")

Doing(what) == pc = "setup" /\ Script(mode)[step] = what

\* spawn_actor: an answer that is lost leaves an actor the gate does not own.
Spawn(a) ==
    /\ Doing(a)
    /\ \/ /\ alive' = alive \cup {a}
          /\ owned' = Append(owned, a)
          /\ Continue
          /\ UNCHANGED <<request, active, attempted, pinned, loop, undoErrors, report>>
       \/ alive' \in {alive, alive \cup {a}} /\ Except
    /\ UNCHANGED <<settings, tmSync, frame, others, interrupts>>

TrafficManagerSync ==
    /\ Doing("tm-sync")
    /\ \/ /\ tmSync' = TRUE
          /\ Continue
          /\ UNCHANGED <<request, active, owned, attempted, pinned, loop, undoErrors, report>>
       \/ tmSync' \in {tmSync, TRUE} /\ Except
    /\ UNCHANGED <<settings, alive, frame, others, interrupts>>

\* world.tick(10.0), so that the controller's attachment is registered.
AttachTick ==
    /\ Doing("attach-tick")
    /\ \/ /\ frame' = frame + 1
          /\ Continue
          /\ UNCHANGED <<request, active, owned, attempted, pinned, loop, undoErrors, report>>
       \/ frame' \in {frame, frame + 1} /\ Except
    /\ UNCHANGED <<settings, alive, tmSync, others, interrupts>>

\* listen, set_autopilot, the navigation queries, controller.start and its orders.
SetupCall ==
    /\ \E what \in {"listen", "autopilot", "start"} : Doing(what)
    /\ \/ /\ Continue
          /\ UNCHANGED <<request, active, owned, attempted, pinned, loop, undoErrors, report>>
       \/ Except
    /\ UNCHANGED <<server, others, interrupts>>

Baseline ==
    /\ pc = "baseline"
    /\ \/ /\ previous' = frame
          /\ pc' = "head"
          /\ UNCHANGED <<request, active, checks, step, held, index, ticked, undoErrors, report>>
       \/ Except
    /\ UNCHANGED <<server, others, interrupts>>

\* The for statement, and check_failure of the streams.
LoopHead ==
    /\ pc = "head"
    /\ \/ pc' = "tick" /\ active' = "ticks" /\ UNCHANGED <<request, checks, step, loop, undoErrors, report>>
       \/ mode = "sensors" /\ Charged("ticks")
    /\ UNCHANGED <<server, others, interrupts, held>>

WorldTick ==
    /\ pc = "tick"
    /\ \/ /\ frame' = frame + 1
          /\ ticked' = frame + 1
          /\ pc' = "snapshot"
          /\ UNCHANGED <<request, active, checks, step, held, index, previous, undoErrors, report>>
       \/ frame' \in {frame, frame + 1} /\ Except
    /\ UNCHANGED <<settings, alive, tmSync, others, interrupts>>

\* Where the loop goes after tick `i` is done with.
AfterTick(i) ==
    /\ index' = i
    /\ pc' = IF i < Loops THEN "head" ELSE "judge"

\* Mutant of SnapshotOK: the previous snapshot is not looked at.
SnapshotOfThisTick == frame = ticked

\* validate_snapshot
SnapshotOK == frame = ticked /\ frame = previous + 1

ValidateSnapshot ==
    /\ pc = "snapshot"
    /\ \/ /\ SnapshotOK
          /\ previous' = frame
          /\ IF index < Warmup(mode) \/ mode = "rpc"
             THEN AfterTick(index + 1)
             ELSE pc' = "measure" /\ UNCHANGED index
          /\ UNCHANGED <<request, active, checks, step, held, ticked, undoErrors, report>>
       \/ Except
    /\ UNCHANGED <<server, others, interrupts>>

MeasureActors ==
    /\ pc = "measure" /\ mode = "actors"
    /\ \/ /\ AfterTick(index + 1)
          /\ UNCHANGED <<request, active, checks, step, held, previous, ticked, undoErrors, report>>
       \/ Except
    /\ UNCHANGED <<server, others, interrupts>>

\* What a pair of packets must pass, in this order: frame() of both streams with
\* _packet_frame and _payload, validate_image, validate_lidar.
PacketChecks == <<"alignment", "camera", "lidar">>

MeasureSensors ==
    /\ pc = "measure" /\ mode = "sensors"
    /\ \/ /\ active' = PacketChecks[Len(PacketChecks)]
          /\ AfterTick(index + 1)
          /\ UNCHANGED <<request, checks, step, previous, ticked, undoErrors, report>>
       \/ \E i \in 1 .. Len(PacketChecks) : Charged(PacketChecks[i])
    /\ UNCHANGED <<server, others, interrupts, held>>

\* The verdicts of a mode in the order they are given: each passes what is
\* listed, or the exception is charged to the check named.
Verdicts(m) ==
    CASE m = "rpc"     -> << >>
      [] m = "sensors" -> <<[passes |-> {"alignment", "lidar"}, blames |-> "alignment"],
                            [passes |-> {"camera"}, blames |-> "camera"]>>
      [] m = "actors"  -> <<[passes |-> {"vehicle-motion"}, blames |-> "vehicle-motion"],
                            [passes |-> {"walker-motion"}, blames |-> "walker-motion"]>>

PassAll(cs) == [c \in CheckNames |-> IF c \in cs THEN "PASS" ELSE checks[c]]

\* After the loop: `k` verdicts hold and the next one, if any, does not.
Judge ==
    /\ pc = "judge"
    /\ pc' = "controllers"
    /\ \E k \in 0 .. Len(Verdicts(mode)) :
          LET given == {"ticks"} \cup UNION {Verdicts(mode)[i].passes : i \in 1 .. k} IN
          checks' = IF k = Len(Verdicts(mode)) THEN PassAll(given)
                    ELSE [PassAll(given) EXCEPT ![Verdicts(mode)[k + 1].blames] = "FAIL"]
    /\ Forget
    /\ UNCHANGED <<server, others, interrupts, request, held, undoErrors, report>>

--------------------------------------------------------------------------------
(* The finally block: each undo has its own handler, so one that fails does *)
(* not keep the next from being tried.                                      *)

Undo(what, ok) == undoErrors' = IF ok THEN undoErrors ELSE undoErrors \cup {what}

StopControllers ==
    /\ pc = "controllers"
    /\ pc' = "tm"
    /\ \E ok \in BOOLEAN : (~ok => controllers) /\ Undo("stop", ok)
    /\ UNCHANGED <<server, others, interrupts, request, active, checks, step, held, loop, report>>

LeaveTrafficManagerSync ==
    /\ pc = "tm"
    /\ pc' = "autopilot"
    /\ IF handles
       THEN \E ok \in BOOLEAN :
               /\ tmSync' \in IF ok THEN {FALSE} ELSE {tmSync, FALSE}
               /\ Undo("tm", ok)
       ELSE UNCHANGED <<tmSync, undoErrors>>
    /\ UNCHANGED <<settings, alive, frame, others, interrupts, request, active, checks, step, held,
                   loop, report>>

\* Autopilot off; the streams are closed and the actors' turn comes.
DisableAutopilot ==
    /\ pc = "autopilot"
    /\ pc' = "actors"
    /\ step' = Len(owned)
    /\ \E ok \in BOOLEAN : (~ok => handles) /\ Undo("autopilot", ok)
    /\ UNCHANGED <<server, others, interrupts, request, active, checks, held, loop, report>>

\* Mutant of DestroyActor: destroy()'s answer is ignored.
DestroyActorUnchecked ==
    /\ pc = "actors" /\ step > 0
    /\ step' = step - 1
    /\ alive' \in {alive, alive \ {owned[step]}}
    /\ UNCHANGED <<settings, tmSync, frame, others, interrupts, request, pc, active, checks, held,
                   loop, undoErrors, report>>

\* reversed(owned): stop, then destroy, which must be acknowledged.
DestroyActor ==
    /\ pc = "actors" /\ step > 0
    /\ step' = step - 1
    /\ \E ok \in BOOLEAN :
          /\ alive' \in IF ok THEN {alive \ {owned[step]}} ELSE {alive, alive \ {owned[step]}}
          /\ Undo(owned[step], ok)
    /\ UNCHANGED <<settings, tmSync, frame, others, interrupts, request, pc, active, checks, held,
                   loop, report>>

\* Mutant of ActorsDone: the destroy calls are repeated until every actor is gone.
ActorsDoneWhenGone ==
    /\ pc = "actors" /\ step = 0
    /\ IF \E i \in 1 .. Len(owned) : owned[i] \in alive
       THEN step' = Len(owned) /\ UNCHANGED pc
       ELSE pc' = "settings" /\ UNCHANGED step
    /\ UNCHANGED <<server, others, interrupts, request, active, checks, held, loop, undoErrors, report>>

ActorsDone ==
    /\ pc = "actors" /\ step = 0
    /\ pc' = "settings"
    /\ UNCHANGED <<server, others, interrupts, request, active, checks, step, held, loop,
                   undoErrors, report>>

\* Mutant of RestoreSettings: an earlier undo error ends the cleanup.
RestoreSettingsIfClean ==
    /\ pc = "settings"
    /\ pc' = "rehash"
    /\ IF attempted /\ undoErrors = {}
       THEN \E ok \in BOOLEAN :
               /\ settings' \in IF ok THEN {"original"} ELSE {settings, "partial", "original"}
               /\ Undo("settings", ok)
       ELSE UNCHANGED <<settings, undoErrors>>
    /\ checks' = [checks EXCEPT !["cleanup"] = IF undoErrors' = {} THEN "PASS" ELSE "FAIL"]
    /\ UNCHANGED <<alive, tmSync, frame, others, interrupts, request, active, step, held, loop, report>>

\* apply the original settings and read them back; then the cleanup verdict.
RestoreSettings ==
    /\ pc = "settings"
    /\ pc' = "rehash"
    /\ IF attempted
       THEN \E ok \in BOOLEAN :
               /\ settings' \in IF ok THEN {"original"} ELSE {settings, "partial", "original"}
               /\ Undo("settings", ok)
       ELSE UNCHANGED <<settings, undoErrors>>
    /\ checks' = [checks EXCEPT !["cleanup"] = IF undoErrors' = {} THEN "PASS" ELSE "FAIL"]
    /\ UNCHANGED <<alive, tmSync, frame, others, interrupts, request, active, step, held, loop, report>>

--------------------------------------------------------------------------------
(* After the try statement.                                                *)

\* The check that answers for a file.
CheckOf(f) == CASE f = "provenance" -> "provenance" [] f = "client" -> "handshake"

\* Mutant of Rehash: the provenance file is not hashed again.
RehashClientOnly ==
    /\ pc = "rehash"
    /\ pc' = "write"
    /\ checks' = [checks EXCEPT !["handshake"] =
                     IF \E v \in pinned["client"] : v # source["client"] THEN "FAIL" ELSE @]
    /\ UNCHANGED <<server, others, interrupts, request, active, step, held, loop, undoErrors, report>>

\* Mutant of Rehash: the second hashing overwrites the first verdict.
RehashDecidesAnew ==
    /\ pc = "rehash"
    /\ pc' = "write"
    /\ checks' = [checks EXCEPT !["provenance"] =
                     IF \E v \in pinned["provenance"] : v # source["provenance"] THEN "FAIL" ELSE "PASS"]
    /\ UNCHANGED <<server, others, interrupts, request, active, step, held, loop, undoErrors, report>>

\* Both files are hashed again, if they were hashed; a copy or a file may be unreadable.
Rehash ==
    /\ pc = "rehash"
    /\ pc' = "write"
    /\ \E lost \in SUBSET {f \in Files : pinned[f] # {}} :
          LET changed == lost \cup {f \in Files : \E v \in pinned[f] : v # source[f]} IN
          checks' = [c \in CheckNames |-> IF \E f \in changed : c = CheckOf(f) THEN "FAIL" ELSE checks[c]]
    /\ UNCHANGED <<server, others, interrupts, request, active, step, held, loop, undoErrors, report>>

\* exit_code is 0 only if every required check passed; write_report may still
\* refuse a PASS (missing or changed evidence).  Result and report may also not come to be:
\* a location or a speed that is no number has no JSON, and a file may not be writable.
WriteReport ==
    /\ pc = "write"
    /\ \/ /\ pc' = "done"
          /\ report' \in {"FAIL"} \cup
                (IF \A c \in Required(mode) : checks[c] = "PASS" THEN {"PASS"} ELSE {})
       \/ pc' = "raised" /\ UNCHANGED report
    /\ UNCHANGED <<server, others, interrupts, request, active, checks, step, held, loop, undoErrors>>

--------------------------------------------------------------------------------
(* SIGINT: caught in the try block, by nobody in `finally` and after it.   *)

Interrupt ==
    /\ interrupts < MaxInterrupts
    /\ interrupts' = interrupts + 1
    /\ \/ pc \in TryPC /\ Except
       \/ /\ pc \in CleanupPC \cup TailPC
          /\ pc' = "crashed"
          /\ UNCHANGED <<request, active, checks, step, held, loop, undoErrors, report>>
    /\ UNCHANGED <<server, others>>

Setup == \/ \E a \in Actors : Spawn(a)
         \/ TrafficManagerSync \/ AttachTick \/ SetupCall

GateStep ==
    \/ Environment \/ Provenance \/ Permission \/ SnapshotClient \/ Handshake \/ World
    \/ ReadSettings \/ ApplySettings \/ ReadBack \/ Setup \/ Baseline
    \/ LoopHead \/ WorldTick \/ ValidateSnapshot \/ MeasureActors \/ MeasureSensors \/ Judge
    \/ StopControllers \/ LeaveTrafficManagerSync \/ DisableAutopilot \/ DestroyActor
    \/ ActorsDone \/ RestoreSettings \/ Rehash \/ WriteReport

Finished == pc \in Ends /\ UNCHANGED vars

Next == GateStep \/ Interrupt \/ ForeignTick \/ Rewrite \/ Finished

\* Every RPC is bounded by its timeout, so the gate's own steps always come.
Spec == Init /\ [][Next]_vars /\ WF_vars(GateStep)

--------------------------------------------------------------------------------
(* Properties.                                                             *)

\* A PASS report says that nobody else ticked the world from the baseline to
\* the last snapshot: "Concurrent ticking is a gate failure."
PassMeansExclusive == report = "PASS" => intrusions = 0

\* A PASS report says that the borrowed world was given back whole: settings,
\* actors and Traffic Manager mode, whatever mode ran and however RPCs behaved.
PassMeansReturned ==
    report = "PASS" => settings = "original" /\ alive = {} /\ ~tmSync

\* One failed undo does not stop the next: when run_gate returns or raises, an owned actor
\* that is still alive, or settings that are not the original ones, are due to
\* that very undo's own failure, and the cleanup check reports exactly those.
UndosAreIndependent ==
    pc \in {"done", "raised"} =>
        /\ \A i \in 1 .. Len(owned) : owned[i] \in alive => owned[i] \in undoErrors
        /\ settings # "original" => "settings" \in undoErrors
        /\ checks["cleanup"] = IF undoErrors = {} THEN "PASS" ELSE "FAIL"

\* Without --allow-world-mutation the gate leaves no trace in the world, on any
\* path: no settings, no actors, no Traffic Manager mode, no ticks of its own.
NothingWithoutPermission ==
    ~allow => /\ settings = "original" /\ alive = {} /\ ~tmSync
              /\ frame = foreign

\* A provenance file or a client module that was replaced after the gate read it never
\* stands behind a PASS.
PassMeansUntampered == report = "PASS" => ~tampered

\* A failed check stays failed: nothing after the exception, neither a later
\* verdict, nor the cleanup, nor the second hashing, turns it around.
FailIsFinal ==
    [][\A c \in CheckNames : checks[c] = "FAIL" => checks'[c] = "FAIL"]_vars

\* However the RPCs fail, and with a SIGINT in the try block, the gate ends: with a report,
\* with main's exit 1 and no report when result or report cannot be written, or with a
\* SIGINT that reaches it in `finally` or later.
GateEnds == <>(report # "none" \/ pc \in {"raised", "crashed"})

\* "settings and owned actors are restored/removed in finally": once run_gate is
\* over, what is not given back is due to an undo that failed.
RestoredInFinally ==
    pc \in Ends /\ undoErrors = {} =>
        /\ settings = "original"
        /\ \A i \in 1 .. Len(owned) : owned[i] \notin alive

\* The cleanup includes leaving the Traffic Manager's synchronous mode: a cleanup
\* that passes has left it.
CleanupLeavesTrafficManagerSync == checks["cleanup"] = "PASS" => ~tmSync
================================================================================
