----------------------------- MODULE RuntimeGateProofs -----------------------------
(***************************************************************************)
(* What holds of run_gate for any number of ticks, foreign ticks and       *)
(* interrupts.  The invariant has a part for each thing the gate has to    *)
(* get right; all but the types rest on where the gate is in its script.   *)
(***************************************************************************)
EXTENDS RuntimeGate, TLAPS

PCs == TryPC \cup CleanupPC \cup TailPC \cup Ends

\* The phases before the world is ticked for measurement.
PhasePC == {"environment", "provenance", "permission", "handshake", "connect", "world",
            "read-settings", "apply-settings", "read-back", "setup"}
LoopPC  == {"baseline", "head", "tick", "snapshot", "measure", "judge"}

\* Where the set-up script stands, and which check answers for it.
ScriptInv ==
    /\ pc \in PhasePC => active \notin {"ticks", "cleanup"} /\ active \in Required(mode)
    /\ pc \in PhasePC \ {"setup"} => step = 1
    /\ pc = "setup" => mode # "rpc" /\ step \in 1 .. Len(Script(mode))
    /\ pc \in TryPC => active # "cleanup"
    /\ pc = "actors" => step <= Len(owned)

\* No check fails while the gate tries, and nobody but the cleanup judges the cleanup.
CheckInv ==
    /\ pc \in TryPC => \A c \in CheckNames : checks[c] # "FAIL"
    /\ pc \in TryPC \cup CleanupPC => checks["cleanup"] = "MISSING"

Inv == TypeOK /\ ScriptInv /\ CheckInv

--------------------------------------------------------------------------------
(* The tables.                                                             *)

\* The names of all checks.
LEMMA Names ==
  /\ CheckNames = Common \cup {"sensor-setup", "alignment", "camera", "lidar",
                               "actor-setup", "vehicle-motion", "walker-motion"}
  /\ \A m \in Modes : Required(m) \subseteq CheckNames /\ Common \subseteq Required(m)
BY ModesAssumption DEF CheckNames, Required, Common

\* The check of a set-up is one that the mode requires.
LEMMA SetupNames ==
  ASSUME NEW m \in Modes
  PROVE  SetupCheck(m) \in Required(m) \ {"ticks", "cleanup"}
BY ModesAssumption DEF SetupCheck, Required, Common

\* A mode with a script has at least one call in it.
LEMMA Scripts ==
  ASSUME NEW m \in Modes
  PROVE  /\ Len(Script(m)) \in Nat
         /\ m # "rpc" => 1 \in 1 .. Len(Script(m))
         /\ \A i \in 1 .. Len(Script(m)) : Script(m)[i] = "tm-sync" => m = "actors"
BY ModesAssumption DEF Script, SensorScript, ActorScript

\* The verdicts after the loop leave the cleanup to be judged.
LEMMA JudgeChecks ==
  ASSUME TypeOK, Judge
  PROVE  /\ checks' \in [CheckNames -> {"MISSING", "PASS", "FAIL"}]
         /\ checks'["cleanup"] = checks["cleanup"]
<1>1. checks \in [CheckNames -> {"MISSING", "PASS", "FAIL"}] /\ mode \in Modes
  BY DEF TypeOK
<1> DEFINE given(k) == {"ticks"} \cup UNION {Verdicts(mode)[i].passes : i \in 1 .. k}
<1>2. PICK k \in 0 .. Len(Verdicts(mode)) :
          checks' = IF k = Len(Verdicts(mode)) THEN PassAll(given(k))
                    ELSE [PassAll(given(k)) EXCEPT ![Verdicts(mode)[k + 1].blames] = "FAIL"]
  BY DEF Judge
<1>3. \A i \in 1 .. Len(Verdicts(mode)) : "cleanup" \notin Verdicts(mode)[i].passes /\ Verdicts(mode)[i].blames # "cleanup"
  BY <1>1, ModesAssumption DEF Verdicts
<1>4. Len(Verdicts(mode)) \in Nat
  BY <1>1, ModesAssumption DEF Verdicts
<1>5. "cleanup" \notin given(k)
  BY <1>3, <1>4
<1>6. k # Len(Verdicts(mode)) => Verdicts(mode)[k + 1].blames # "cleanup"
  BY <1>3, <1>4
<1>7. "cleanup" \in CheckNames
  BY Names DEF Common
<1>8. ASSUME NEW cs, "cleanup" \notin cs
      PROVE  /\ PassAll(cs) \in [CheckNames -> {"MISSING", "PASS", "FAIL"}]
             /\ PassAll(cs)["cleanup"] = checks["cleanup"]
  BY <1>1, <1>7, <1>8 DEF PassAll
<1> HIDE DEF given
<1> QED
  BY <1>2, <1>5, <1>6, <1>7, <1>8

--------------------------------------------------------------------------------
(* Types, the script and the checks.                                       *)

\* Before the first phase no check has been made.
LEMMA InitInv == Init => Inv
<1>1. Init => TypeOK
  <2> SUFFICES ASSUME Init PROVE TypeOK
    OBVIOUS
  <2>1. source \in [Files -> 0 .. 1] /\ pinned \in [Files -> SUBSET (0 .. 1)] /\ owned \in Seq(Actors)
    BY DEF Init
  <2>2. pc \in TryPC /\ active \in CheckNames /\ checks \in [CheckNames -> {"MISSING", "PASS", "FAIL"}]
    BY Names DEF Init, Common, TryPC
  <2> QED
    BY <2>1, <2>2 DEF Init, TypeOK
<1>2. Init => ScriptInv /\ CheckInv
  BY Names DEF Init, ScriptInv, CheckInv, PhasePC, TryPC, CleanupPC, Common
<1> QED
  BY <1>1, <1>2 DEF Inv

\* An exception is charged to a check that is neither passed nor the cleanup's.
LEMMA ExceptInv ==
  ASSUME Inv, pc \in TryPC, NEW check \in CheckNames \ {"cleanup"}, Charged(check),
         UNCHANGED <<mode, allow>>
  PROVE  /\ checks' = [checks EXCEPT ![check] = "FAIL"] /\ pc' = "controllers"
         /\ ScriptInv' /\ CheckInv' /\ active' \in CheckNames /\ step' \in Nat
         /\ index' \in Nat /\ previous' \in Nat /\ ticked' \in Nat
BY Names DEF Charged, Forget, Inv, TypeOK, ScriptInv, CheckInv, PhasePC, TryPC, CleanupPC, Common

\* A passed check hands over to the next one.
LEMMA PassedInv ==
  ASSUME Inv, pc \in PhasePC \ {"setup"}, NEW next \in PhasePC \cup LoopPC, NEW check \in Required(mode) \ {"ticks", "cleanup"},
         Passed(next, check), next = "setup" => mode # "rpc"
  PROVE  /\ ScriptInv' /\ CheckInv' /\ pc' = next /\ active' \in CheckNames /\ step' \in Nat
         /\ checks' \in [CheckNames -> {"MISSING", "PASS", "FAIL"}]
         /\ index' \in Nat /\ previous' \in Nat /\ ticked' \in Nat
<1>1. check \in CheckNames /\ active \in CheckNames /\ mode \in Modes
  BY Names DEF Inv, TypeOK
<1>2. next = "setup" => 1 \in 1 .. Len(Script(mode))
  BY <1>1, Scripts
<1>3. checks' = [checks EXCEPT ![active] = "PASS"] /\ pc' = next /\ active' = check
      /\ UNCHANGED <<mode, allow, step, index, previous, ticked, undoErrors, report>>
  BY DEF Passed, request, loop
<1>4. ScriptInv'
  BY <1>2, <1>3 DEF Inv, ScriptInv, PhasePC, LoopPC, TryPC
<1>5. CheckInv'
  BY <1>1, <1>3 DEF Inv, ScriptInv, CheckInv, PhasePC, LoopPC, TryPC, CleanupPC, TypeOK
<1> QED
  BY <1>1, <1>3, <1>4, <1>5 DEF Inv, TypeOK

\* From the environment to the settings that are read back.
LEMMA PhaseStep ==
  ASSUME Inv,
         \/ Environment \/ Provenance \/ Permission \/ SnapshotClient \/ Handshake \/ World
         \/ ReadSettings \/ ApplySettings \/ ReadBack
  PROVE  Inv'
<1>1. mode \in Modes /\ pc \in PhasePC \ {"setup"} /\ PhasePC \subseteq TryPC
  BY DEF Environment, Provenance, Permission, SnapshotClient, Handshake, World, ReadSettings, ApplySettings, ReadBack,
         PhasePC, TryPC, Inv, TypeOK
<1>2. {"provenance", "permission", "handshake", "world", "sync-settings"} \subseteq Required(mode) \ {"ticks", "cleanup"}
      /\ SetupCheck(mode) \in Required(mode) \ {"ticks", "cleanup"}
  BY <1>1, Names, SetupNames DEF Common
<1>3. UNCHANGED <<mode, allow, alive, tmSync, frame, foreign, source, intrusions, tampered, interrupts, owned, handles,
                  controllers, undoErrors, report>>
      /\ settings' \in {"original", "gate", "partial"} /\ attempted' \in BOOLEAN
  BY DEF Environment, Provenance, Permission, SnapshotClient, Handshake, World, ReadSettings, ApplySettings, ReadBack,
         Passed, Except, Raises, Charged, Pins, ReadProvenance, server, others, held, loop, request, Inv, TypeOK
<1>4. pinned' \in [Files -> SUBSET (0 .. 1)]
  <2>1. \A f \in Files : {source[f]} \in SUBSET (0 .. 1)
    BY DEF Inv, TypeOK
  <2>2. pinned' = pinned \/ \E f \in Files : pinned' = [pinned EXCEPT ![f] = {source[f]}]
    BY DEF Environment, Provenance, Permission, SnapshotClient, Handshake, World, ReadSettings, ApplySettings, ReadBack,
           Except, Pins, held, Files
  <2> QED
    BY <2>1, <2>2 DEF Inv, TypeOK
<1>5. ASSUME NEW next \in PhasePC \cup LoopPC, NEW check \in Required(mode) \ {"ticks", "cleanup"},
             Passed(next, check), next = "setup" => mode # "rpc"
      PROVE  Inv'
  <2>1. pc' \in TryPC
    BY <1>5 DEF Passed, PhasePC, LoopPC, TryPC
  <2> QED
    BY <1>1, <1>3, <1>4, <1>5, <2>1, PassedInv DEF Inv, TypeOK
<1>6. ASSUME Raises PROVE Inv'
  <2>1. active \in CheckNames \ {"cleanup"}
    BY <1>1 DEF Inv, TypeOK, ScriptInv
  <2>2. /\ checks' = [checks EXCEPT ![active] = "FAIL"] /\ pc' = "controllers"
        /\ ScriptInv' /\ CheckInv' /\ active' \in CheckNames /\ step' \in Nat
        /\ index' \in Nat /\ previous' \in Nat /\ ticked' \in Nat
    BY <1>1, <1>3, <1>6, <2>1, ExceptInv DEF Raises
  <2>3. pc' \in CleanupPC
    BY <2>2 DEF CleanupPC
  <2> QED
    BY <1>3, <1>4, <2>1, <2>2, <2>3 DEF Inv, TypeOK
<1>7. ASSUME NEW next \in PhasePC \ {"setup"}, pc' = next, UNCHANGED <<active, checks, step, loop>> PROVE Inv'
  <2>1. ScriptInv'
    BY <1>1, <1>3, <1>7 DEF Inv, ScriptInv, PhasePC, TryPC
  <2>2. CheckInv'
    BY <1>1, <1>7 DEF Inv, CheckInv, PhasePC, TryPC
  <2>3. pc' \in TryPC
    BY <1>1, <1>7
  <2> QED
    BY <1>3, <1>4, <1>7, <2>1, <2>2, <2>3 DEF Inv, TypeOK, loop
<1>8. CASE Environment \/ Provenance \/ Permission \/ Handshake \/ World
  BY <1>2, <1>5, <1>6, <1>8
  DEF Environment, Provenance, Permission, Handshake, World, ReadProvenance, Except, PhasePC
<1>9. CASE SnapshotClient \/ ReadSettings \/ ApplySettings
  BY <1>6, <1>7, <1>9 DEF SnapshotClient, ReadSettings, ApplySettings, Except, PhasePC
<1>10. CASE ReadBack
  <2>1. "setup" \in PhasePC /\ "baseline" \in LoopPC
    BY DEF LoopPC, PhasePC
  <2> QED
    BY <1>2, <1>5, <1>6, <1>10, <2>1 DEF ReadBack, Except
<1> QED
  BY <1>8, <1>9, <1>10

\* The set-up script, call by call.
LEMMA SetupStep ==
  ASSUME Inv, Setup
  PROVE  Inv'
<1>1. /\ pc = "setup" /\ mode \in Modes /\ mode # "rpc" /\ step \in 1 .. Len(Script(mode)) /\ Len(Script(mode)) \in Nat
      /\ active \in CheckNames \ {"ticks", "cleanup"} /\ active \in Required(mode)
  BY Scripts DEF Setup, Spawn, TrafficManagerSync, AttachTick, SetupCall, Doing, Inv, TypeOK, ScriptInv, PhasePC
<1>2. /\ UNCHANGED <<mode, allow, settings, source, foreign, intrusions, tampered, interrupts, attempted, pinned,
                     undoErrors, report>>
      /\ alive' \subseteq Actors /\ tmSync' \in BOOLEAN /\ frame' \in Nat /\ owned' \in Seq(Actors)
      /\ handles' \in BOOLEAN /\ controllers' \in BOOLEAN
  <2> USE DEF Except, Raises, Charged, others, held, request, server, Inv, TypeOK
  <2>1. Continue => handles' \in BOOLEAN /\ controllers' \in BOOLEAN
    BY DEF Continue
  <2>2. ASSUME NEW a \in Actors, Spawn(a) 
        PROVE  /\ UNCHANGED <<mode, allow, settings, source, foreign, intrusions, tampered, interrupts, attempted,
                              pinned, undoErrors, report>>
               /\ alive' \subseteq Actors /\ tmSync' \in BOOLEAN /\ frame' \in Nat /\ owned' \in Seq(Actors)
               /\ handles' \in BOOLEAN /\ controllers' \in BOOLEAN
    BY <2>1, <2>2 DEF Spawn
  <2>3. CASE TrafficManagerSync
    BY <2>1, <2>3 DEF TrafficManagerSync
  <2>4. CASE AttachTick
    BY <2>1, <2>4 DEF AttachTick
  <2>5. CASE SetupCall
    BY <2>1, <2>5 DEF SetupCall
  <2> QED
    BY <2>2, <2>3, <2>4, <2>5 DEF Setup
<1>3. ASSUME Raises PROVE Inv'
  <2>1. active \in CheckNames \ {"cleanup"} /\ pc \in TryPC
    BY <1>1 DEF TryPC
  <2>2. /\ checks' = [checks EXCEPT ![active] = "FAIL"] /\ pc' = "controllers"
        /\ ScriptInv' /\ CheckInv' /\ active' \in CheckNames /\ step' \in Nat
        /\ index' \in Nat /\ previous' \in Nat /\ ticked' \in Nat
    BY <1>2, <1>3, <2>1, ExceptInv DEF Raises
  <2>3. pc' \in CleanupPC
    BY <2>2 DEF CleanupPC
  <2> QED
    BY <1>2, <2>1, <2>2, <2>3 DEF Inv, TypeOK
<1>4. ASSUME Continue, UNCHANGED <<active, loop>> PROVE Inv'
  <2>1. pc' \in {"setup", "baseline"} /\ step' \in Nat /\ (pc' = "setup" => step' \in 1 .. Len(Script(mode)))
    BY <1>1, <1>4 DEF Continue
  <2>2. checks' = checks \/ checks' = [checks EXCEPT ![active] = "PASS"]
    BY <1>4 DEF Continue
  <2>3. CheckInv'
    <3>1. pc \in TryPC /\ checks \in [CheckNames -> {"MISSING", "PASS", "FAIL"}] /\ "cleanup" \in CheckNames
      BY <1>1, Names DEF Inv, TypeOK, TryPC, Common
    <3>2. \A c \in CheckNames : checks[c] # "FAIL" /\ checks["cleanup"] = "MISSING"
      BY <3>1 DEF Inv, CheckInv
    <3> QED
      BY <1>1, <2>2, <3>1, <3>2 DEF CheckInv
  <2>4. ScriptInv'
    BY <1>1, <1>2, <1>4, <2>1 DEF Inv, ScriptInv, TypeOK, TryPC, PhasePC
  <2> QED
    BY <1>1, <1>2, <1>4, <2>1, <2>2, <2>3, <2>4 DEF Inv, TypeOK, TryPC, loop
<1> QED
  BY <1>3, <1>4 DEF Setup, Spawn, TrafficManagerSync, AttachTick, SetupCall, Except

\* The tick loop and the verdicts after it.
LEMMA LoopStep ==
  ASSUME Inv,
         Baseline \/ LoopHead \/ WorldTick \/ ValidateSnapshot \/ MeasureActors \/ MeasureSensors \/ Judge
  PROVE  Inv'
<1>1. pc \in LoopPC /\ active \in CheckNames \ {"cleanup"} /\ pc \in TryPC
  BY DEF Baseline, LoopHead, WorldTick, ValidateSnapshot, MeasureActors, MeasureSensors, Judge, LoopPC, TryPC, Inv,
         TypeOK, ScriptInv
<1>2. /\ UNCHANGED <<mode, allow, settings, alive, tmSync, source, foreign, intrusions, tampered, interrupts, held,
                     undoErrors, report>>
      /\ frame' \in Nat
  BY DEF Baseline, LoopHead, WorldTick, ValidateSnapshot, MeasureActors, MeasureSensors, Judge, Except, Raises, Charged,
         server, others, request, Inv, TypeOK
<1>3. {"ticks", "alignment", "camera", "lidar"} \subseteq CheckNames \ {"cleanup"}
  BY Names DEF Common
<1>4. ASSUME NEW check \in CheckNames \ {"cleanup"}, Charged(check) PROVE Inv'
  <2>1. /\ checks' = [checks EXCEPT ![check] = "FAIL"] /\ pc' = "controllers"
        /\ ScriptInv' /\ CheckInv' /\ active' \in CheckNames /\ step' \in Nat
        /\ index' \in Nat /\ previous' \in Nat /\ ticked' \in Nat
    BY <1>1, <1>2, <1>4, ExceptInv
  <2>2. pc' \in CleanupPC
    BY <2>1 DEF CleanupPC
  <2> QED
    BY <1>2, <2>1, <2>2 DEF Inv, TypeOK, held
<1>5. ASSUME pc' \in LoopPC, active' \in CheckNames \ {"cleanup"}, UNCHANGED <<checks, step>>,
             index' \in Nat, previous' \in Nat, ticked' \in Nat
      PROVE  Inv'
  <2>1. ScriptInv' /\ pc' \in TryPC
    BY <1>5 DEF ScriptInv, PhasePC, LoopPC, TryPC
  <2>2. CheckInv'
    BY <1>1, <1>5, <2>1 DEF CheckInv, Inv
  <2> QED
    BY <1>2, <1>5, <2>1, <2>2 DEF Inv, TypeOK, held
<1>6. index + 1 \in Nat /\ index \in Nat /\ previous \in Nat /\ ticked \in Nat /\ frame \in Nat
  BY DEF Inv, TypeOK
<1>7. \A i : AfterTick(i) => index' = i /\ pc' \in LoopPC
  BY DEF AfterTick, LoopPC
<1>8. CASE Baseline \/ WorldTick
  BY <1>1, <1>4, <1>5, <1>6, <1>8 DEF Baseline, WorldTick, Except, Raises, LoopPC
<1>9. CASE LoopHead
  BY <1>1, <1>3, <1>4, <1>5, <1>6, <1>9 DEF LoopHead, LoopPC, loop
<1>10. CASE ValidateSnapshot
  BY <1>1, <1>4, <1>5, <1>6, <1>7, <1>10 DEF ValidateSnapshot, Except, Raises, LoopPC
<1>11. CASE MeasureActors
  BY <1>1, <1>4, <1>5, <1>6, <1>7, <1>11 DEF MeasureActors, Except, Raises
<1>12. CASE MeasureSensors
  BY <1>3, <1>4, <1>5, <1>6, <1>7, <1>12 DEF MeasureSensors, PacketChecks
<1>13. CASE Judge
  <2>1. /\ pc' = "controllers" /\ active' = "cleanup" /\ "cleanup" \in CheckNames
        /\ step' = 1 /\ index' = 0 /\ previous' = 0 /\ ticked' = 0
    BY <1>13, Names DEF Judge, Forget, Common
  <2>2. checks' \in [CheckNames -> {"MISSING", "PASS", "FAIL"}] /\ checks'["cleanup"] = checks["cleanup"]
    BY <1>13, JudgeChecks DEF Inv
  <2>3. ScriptInv' /\ CheckInv' /\ pc' \in CleanupPC
    BY <1>1, <2>1, <2>2 DEF Inv, ScriptInv, CheckInv, PhasePC, TryPC, CleanupPC
  <2> QED
    BY <1>2, <2>1, <2>2, <2>3 DEF Inv, TypeOK, held
<1> QED
  BY <1>8, <1>9, <1>10, <1>11, <1>12, <1>13

\* The undos, the second hashing and the report.
LEMMA CleanupStep ==
  ASSUME Inv,
         \/ StopControllers \/ LeaveTrafficManagerSync \/ DisableAutopilot \/ DestroyActor
         \/ ActorsDone \/ RestoreSettings \/ Rehash \/ WriteReport
  PROVE  Inv'
<1>1. /\ UNCHANGED <<mode, allow, frame, source, foreign, intrusions, tampered, interrupts, held, active, loop>>
      /\ pc' \in {"tm", "autopilot", "actors", "settings", "rehash", "write", "done", "raised"}
      /\ settings' \in {"original", "gate", "partial"} /\ alive' \subseteq Actors /\ tmSync' \in BOOLEAN
      /\ report' \in {"none", "PASS", "FAIL"}
  <2> USE DEF server, others, request, Inv, TypeOK
  <2>1. CASE StopControllers \/ DisableAutopilot \/ ActorsDone \/ Rehash \/ WriteReport
    BY <2>1 DEF StopControllers, DisableAutopilot, ActorsDone, Rehash, WriteReport
  <2>2. CASE LeaveTrafficManagerSync \/ DestroyActor
    BY <2>2 DEF LeaveTrafficManagerSync, DestroyActor
  <2>3. CASE RestoreSettings
    BY <2>3 DEF RestoreSettings
  <2> QED
    BY <2>1, <2>2, <2>3
<1>2. step' \in Nat /\ Len(owned) \in Nat /\ (pc' = "actors" => step' <= Len(owned))
  <2>1. step \in Nat /\ owned \in Seq(Actors) /\ Len(owned) \in Nat /\ (pc = "actors" => step <= Len(owned))
    BY DEF Inv, TypeOK, ScriptInv
  <2>2. CASE DestroyActor
    BY <2>1, <2>2 DEF DestroyActor
  <2>3. CASE DisableAutopilot
    BY <2>1, <2>3 DEF DisableAutopilot
  <2>4. CASE StopControllers \/ LeaveTrafficManagerSync \/ ActorsDone \/ RestoreSettings \/ Rehash \/ WriteReport
    BY <2>1, <2>4 DEF StopControllers, LeaveTrafficManagerSync, ActorsDone, RestoreSettings, Rehash, WriteReport
  <2> QED
    BY <2>2, <2>3, <2>4
<1>3. undoErrors' \subseteq Actors \cup {"stop", "tm", "autopilot", "settings"}
  <2>1. DestroyActor => owned[step] \in Actors
    BY DEF DestroyActor, Inv, TypeOK, ScriptInv
  <2> QED
    BY <2>1 DEF StopControllers, LeaveTrafficManagerSync, DisableAutopilot, DestroyActor, ActorsDone, RestoreSettings,
                Rehash, WriteReport, Undo, Inv, TypeOK
<1>4. checks' \in [CheckNames -> {"MISSING", "PASS", "FAIL"}]
  BY DEF StopControllers, LeaveTrafficManagerSync, DisableAutopilot, DestroyActor, ActorsDone, RestoreSettings,
         Rehash, WriteReport, Inv, TypeOK
<1>5. pc' \notin TryPC /\ pc' \notin PhasePC /\ pc' \in CleanupPC \cup TailPC \cup Ends
  BY <1>1 DEF TryPC, PhasePC, CleanupPC, TailPC, Ends
<1>6. CheckInv'
  <2>1. pc' \in CleanupPC => pc \in CleanupPC /\ checks' = checks
    BY DEF StopControllers, LeaveTrafficManagerSync, DisableAutopilot, DestroyActor, ActorsDone, RestoreSettings,
           Rehash, WriteReport, CleanupPC
  <2> QED
    BY <1>5, <2>1 DEF Inv, CheckInv
<1>7. ScriptInv'
  BY <1>1, <1>2, <1>5 DEF ScriptInv, held, PhasePC
<1> QED
  BY <1>1, <1>2, <1>3, <1>4, <1>5, <1>6, <1>7 DEF Inv, TypeOK, held, loop

\* Another client, somebody with an editor, and a SIGINT.
LEMMA OthersStep ==
  ASSUME Inv, ForeignTick \/ Rewrite \/ Interrupt \/ UNCHANGED vars
  PROVE  Inv'
<1>1. CASE UNCHANGED vars
  BY <1>1 DEF vars, server, request, held, loop, history, Inv, TypeOK, ScriptInv, CheckInv
<1>2. CASE ForeignTick
  BY <1>2 DEF ForeignTick, request, held, loop, Inv, TypeOK, ScriptInv, CheckInv
<1>3. CASE Rewrite
  <2>1. source' \in [Files -> 0 .. 1] /\ tampered' \in BOOLEAN
    BY <1>3 DEF Rewrite, Inv, TypeOK
  <2> QED
    BY <1>3, <2>1 DEF Rewrite, server, request, held, loop, Inv, TypeOK, ScriptInv, CheckInv
<1>4. CASE Interrupt /\ pc \in TryPC /\ Except
  <2>1. active \in CheckNames \ {"cleanup"}
    BY <1>4 DEF Inv, TypeOK, ScriptInv
  <2>2. UNCHANGED <<mode, allow, server, others, held, undoErrors, report>> /\ interrupts' \in Nat
    BY <1>4 DEF Interrupt, Except, Raises, Charged, request, Inv, TypeOK
  <2>3. /\ checks' = [checks EXCEPT ![active] = "FAIL"] /\ pc' = "controllers"
        /\ ScriptInv' /\ CheckInv' /\ active' \in CheckNames /\ step' \in Nat
        /\ index' \in Nat /\ previous' \in Nat /\ ticked' \in Nat
    BY <1>4, <2>1, <2>2, ExceptInv DEF Except, Raises
  <2>4. pc' \in CleanupPC
    BY <2>3 DEF CleanupPC
  <2> QED
    BY <2>1, <2>2, <2>3, <2>4 DEF Inv, TypeOK, server, others, held
<1>5. CASE Interrupt /\ pc' = "crashed"
  <2>1. pc' \notin TryPC \cup CleanupPC \cup PhasePC /\ pc' \in Ends
    BY <1>5 DEF TryPC, CleanupPC, PhasePC, Ends
  <2>2. UNCHANGED <<request, active, checks, step, held, loop, undoErrors, report, server, others>> /\ interrupts' \in Nat
    BY <1>5, <2>1 DEF Interrupt, Except, Raises, Charged, Inv, TypeOK
  <2> QED
    BY <1>5, <2>1, <2>2 DEF Inv, TypeOK, ScriptInv, CheckInv, server, others, held, loop, request, PhasePC
<1> QED
  BY <1>1, <1>2, <1>3, <1>4, <1>5 DEF Interrupt

\* Every step keeps what the other parts rest on.
LEMMA StepInv == Inv /\ [Next]_vars => Inv'
BY PhaseStep, SetupStep, LoopStep, CleanupStep, OthersStep DEF Next, GateStep, Finished

\* What the other parts rest on, at all times.
LEMMA SpecInv == Spec => []Inv
BY InitInv, StepInv, PTL DEF Spec

\* Every variable of the gate and of the world it borrows keeps its type.
THEOREM GateTypeOK == Spec => []TypeOK
<1>1. Inv => TypeOK
  BY DEF Inv
<1> QED
  BY <1>1, SpecInv, PTL

--------------------------------------------------------------------------------
(* A failed check stays failed.                                            *)

\* While the gate tries there is no failed check; afterwards the cleanup gets its first
\* verdict and the second hashing only fails.
LEMMA StepFinal ==
  Inv /\ [Next]_vars => mode' = mode /\ \A c \in CheckNames : checks[c] = "FAIL" => checks'[c] = "FAIL"
<1> SUFFICES ASSUME Inv, [Next]_vars
             PROVE  mode' = mode /\ \A c \in CheckNames : checks[c] = "FAIL" => checks'[c] = "FAIL"
  OBVIOUS
<1>1. mode' = mode
  BY DEF Next, GateStep, Setup, Interrupt, ForeignTick, Rewrite, Finished, Environment, Provenance, Permission, SnapshotClient,
         Handshake, World, ReadSettings, ApplySettings, ReadBack, Spawn, TrafficManagerSync, AttachTick, SetupCall,
         Baseline, LoopHead, WorldTick, ValidateSnapshot, MeasureActors, MeasureSensors, Judge, StopControllers,
         LeaveTrafficManagerSync, DisableAutopilot, DestroyActor, ActorsDone, RestoreSettings, Rehash, WriteReport,
         Passed, ReadProvenance, Except, Raises, Charged, request, vars
<1>2. pc \in TryPC => \A c \in CheckNames : checks[c] # "FAIL"
  BY DEF Inv, CheckInv
<1>3. CASE StopControllers \/ LeaveTrafficManagerSync \/ DisableAutopilot \/ DestroyActor \/ ActorsDone \/ WriteReport
  BY <1>1, <1>3 DEF StopControllers, LeaveTrafficManagerSync, DisableAutopilot, DestroyActor, ActorsDone, WriteReport
<1>4. CASE RestoreSettings
  BY <1>1, <1>4 DEF RestoreSettings, Inv, TypeOK, CheckInv, CleanupPC
<1>5. CASE Rehash
  BY <1>1, <1>5 DEF Rehash
<1>6. CASE ForeignTick \/ Rewrite \/ UNCHANGED vars
  BY <1>1, <1>6 DEF ForeignTick, Rewrite, vars
<1>7. CASE Interrupt /\ pc \notin TryPC
  BY <1>1, <1>7 DEF Interrupt
<1>8. CASE pc \in TryPC
  BY <1>1, <1>2, <1>8
<1>9. GateStep => \/ pc \in TryPC
                  \/ StopControllers \/ LeaveTrafficManagerSync \/ DisableAutopilot \/ DestroyActor
                  \/ ActorsDone \/ RestoreSettings \/ Rehash \/ WriteReport
  BY DEF GateStep, Setup, Environment, Provenance, Permission, SnapshotClient,
         Handshake, World, ReadSettings, ApplySettings, ReadBack, Spawn, TrafficManagerSync, AttachTick, SetupCall, Doing,
         Baseline, LoopHead, WorldTick, ValidateSnapshot, MeasureActors, MeasureSensors, Judge, TryPC
<1> QED
  BY <1>3, <1>4, <1>5, <1>6, <1>7, <1>8, <1>9 DEF Next, Finished

\* A check that has failed fails the report: neither a later verdict nor the cleanup nor the
\* second hashing of run_gate turns it around, whenever RPCs fail or a SIGINT comes.
THEOREM FailedStaysFailed == Spec => FailIsFinal
<1>1. Inv /\ [Next]_vars => [\A c \in CheckNames : checks[c] = "FAIL" => checks'[c] = "FAIL"]_vars
  BY StepFinal
<1> QED
  BY <1>1, SpecInv, PTL DEF Spec, FailIsFinal

--------------------------------------------------------------------------------
(* Nothing without permission.                                             *)

\* Without the flag the gate gets to the permission and from there to its cleanup, which
\* then has nothing to undo.
PermissionInv == ~allow =>
    /\ pc \notin (PhasePC \cup LoopPC) \ {"environment", "provenance", "permission"}
    /\ settings = "original" /\ alive = {} /\ ~tmSync /\ frame = foreign
    /\ ~attempted /\ ~handles

\* The test of --allow-world-mutation comes before the first RPC.
LEMMA StepPermission == Inv /\ PermissionInv /\ [Next]_vars => PermissionInv'
<1> SUFFICES ASSUME Inv, PermissionInv, [Next]_vars PROVE PermissionInv'
  OBVIOUS
<1> USE DEF PermissionInv, server, others, held, request
<1>1. CASE Environment \/ Provenance \/ Permission
  BY <1>1 DEF Environment, Provenance, Permission, Passed, ReadProvenance, Pins, Except, Raises, Charged, PhasePC, LoopPC
<1>2. ASSUME pc \in (PhasePC \cup LoopPC) \ {"environment", "provenance", "permission"}, allow' = allow PROVE PermissionInv'
  BY <1>2
<1>3. CASE StopControllers \/ LeaveTrafficManagerSync \/ DisableAutopilot \/ DestroyActor
  BY <1>3 DEF StopControllers, LeaveTrafficManagerSync, DisableAutopilot, DestroyActor, PhasePC, LoopPC
<1>4. CASE ActorsDone \/ RestoreSettings \/ Rehash \/ WriteReport
  BY <1>4 DEF ActorsDone, RestoreSettings, Rehash, WriteReport, PhasePC, LoopPC
<1>5. CASE ForeignTick \/ Rewrite \/ UNCHANGED vars
  BY <1>5 DEF ForeignTick, Rewrite, vars, Inv, TypeOK
<1>6. CASE Interrupt
  BY <1>6 DEF Interrupt, Except, Raises, Charged, PhasePC, LoopPC
<1>7. allow' = allow
  BY DEF Next, GateStep, Setup, Interrupt, ForeignTick, Rewrite, Finished, Environment, Provenance, Permission, SnapshotClient,
         Handshake, World, ReadSettings, ApplySettings, ReadBack, Spawn, TrafficManagerSync, AttachTick, SetupCall,
         Baseline, LoopHead, WorldTick, ValidateSnapshot, MeasureActors, MeasureSensors, Judge, StopControllers,
         LeaveTrafficManagerSync, DisableAutopilot, DestroyActor, ActorsDone, RestoreSettings, Rehash, WriteReport,
         Passed, ReadProvenance, Except, Raises, Charged, vars
<1>8. GateStep => \/ pc \in (PhasePC \cup LoopPC) \ {"environment", "provenance", "permission"}
                  \/ Environment \/ Provenance \/ Permission
                  \/ StopControllers \/ LeaveTrafficManagerSync \/ DisableAutopilot \/ DestroyActor
                  \/ ActorsDone \/ RestoreSettings \/ Rehash \/ WriteReport
  BY DEF GateStep, Setup, SnapshotClient, Handshake, World, ReadSettings, ApplySettings, ReadBack, Spawn,
         TrafficManagerSync, AttachTick, SetupCall, Doing, Baseline, LoopHead, WorldTick, ValidateSnapshot, MeasureActors,
         MeasureSensors, Judge, PhasePC, LoopPC
<1> QED
  BY <1>1, <1>2, <1>3, <1>4, <1>5, <1>6, <1>7, <1>8 DEF Next, Finished

\* Without --allow-world-mutation the gate leaves the world as it is on every path, the
\* cleanup included.
THEOREM Permitted == Spec => []NothingWithoutPermission
<1>1. Init => PermissionInv
  BY DEF Init, PermissionInv, PhasePC, LoopPC
<1>2. PermissionInv => NothingWithoutPermission
  BY DEF PermissionInv, NothingWithoutPermission
<1> QED
  BY <1>1, <1>2, SpecInv, StepPermission, PTL DEF Spec

--------------------------------------------------------------------------------
(* What a report is.                                                       *)

\* The report is the last thing, and a PASS has every required check.
ReportInv ==
    /\ report # "none" => pc = "done"
    /\ report = "PASS" => \A c \in Required(mode) : checks[c] = "PASS"

\* Nothing is reported at the start.
LEMMA InitReport == Init => ReportInv
BY DEF Init, ReportInv

\* Only write_report makes one, after everything else.
LEMMA StepReport == Inv /\ ReportInv /\ [Next]_vars => ReportInv'
<1> SUFFICES ASSUME Inv, ReportInv, [Next]_vars PROVE ReportInv'
  OBVIOUS
<1>1. mode' = mode
  BY StepFinal
<1>2. CASE WriteReport
  BY <1>1, <1>2 DEF WriteReport, ReportInv
<1>3. CASE UNCHANGED vars
  BY <1>1, <1>3 DEF vars, ReportInv
<1>4. CASE pc # "done" /\ report' = report
  BY <1>4 DEF ReportInv
<1>5. CASE ForeignTick \/ Rewrite
  BY <1>1, <1>5 DEF ForeignTick, Rewrite, ReportInv
<1>6. CASE Interrupt
  BY <1>4, <1>6 DEF Interrupt, Except, Raises, Charged, TryPC, CleanupPC, TailPC
<1>7. GateStep /\ ~WriteReport => pc # "done" /\ report' = report
  BY DEF GateStep, Setup, Environment, Provenance, Permission, SnapshotClient,
         Handshake, World, ReadSettings, ApplySettings, ReadBack, Spawn, TrafficManagerSync, AttachTick, SetupCall, Doing,
         Baseline, LoopHead, WorldTick, ValidateSnapshot, MeasureActors, MeasureSensors, Judge, StopControllers,
         LeaveTrafficManagerSync, DisableAutopilot, DestroyActor, ActorsDone, RestoreSettings, Rehash,
         Passed, ReadProvenance, Except, Raises, Charged
<1> QED
  BY <1>2, <1>3, <1>4, <1>5, <1>6, <1>7 DEF Next, Finished

--------------------------------------------------------------------------------
(* Files that are replaced.                                                *)

\* What was pinned is what was there; a replaced file differs from its pin, and fails its
\* check once both have been hashed again.
TamperInv ==
    /\ pc \in {"environment", "provenance"} => pinned["provenance"] = {}
    /\ pc \in {"environment", "provenance", "permission", "handshake"} => pinned["client"] = {}
    /\ (\A g \in Files : source[g] = 0) => ~tampered /\ \A f \in Files : pinned[f] \subseteq {0}
    /\ tampered => \E f \in Files : source[f] = 1 /\ pinned[f] = {0}
    /\ pc \in {"write", "done", "raised"} /\ tampered => \E c \in Common : checks[c] = "FAIL"

\* At the start no file has been read.
LEMMA InitTamper == Init => TamperInv
BY DEF Init, TamperInv, Files

\* A file is pinned once, and replaced before it is hashed again or never seen.
LEMMA StepTamper == Inv /\ TamperInv /\ [Next]_vars => TamperInv'
<1> SUFFICES ASSUME Inv, TamperInv, [Next]_vars PROVE TamperInv'
  OBVIOUS
<1>1. /\ source \in [Files -> 0 .. 1] /\ pinned \in [Files -> SUBSET (0 .. 1)] /\ Files = {"provenance", "client"}
      /\ \A c \in CheckNames : checks[c] = "FAIL" => checks'[c] = "FAIL"
      /\ checks \in [CheckNames -> {"MISSING", "PASS", "FAIL"}] /\ Common \subseteq CheckNames
  BY StepFinal, Names DEF Inv, TypeOK, Files
<1>2. ASSUME UNCHANGED <<source, tampered, pinned>>, pc' \notin {"environment", "provenance", "handshake"},
             pc' = "permission" => pc = "permission",
             pc' \in {"write", "done", "raised"} => pc \in {"write", "done", "raised"}
      PROVE  TamperInv'
  BY <1>1, <1>2 DEF TamperInv
<1>3. ASSUME UNCHANGED <<source, tampered>>, NEW f \in Files, pinned[f] = {}, pinned' = [pinned EXCEPT ![f] = {source[f]}],
             \/ f = "provenance" /\ pc' \notin {"environment", "provenance", "write", "done", "raised"} /\ pc \in {"environment", "provenance"}
             \/ f = "client" /\ pc' \notin {"environment", "provenance", "permission", "handshake", "write", "done", "raised"}
      PROVE  TamperInv'
  BY <1>1, <1>3 DEF TamperInv
<1>4. CASE Environment
  BY <1>1, <1>4 DEF Environment, Passed, Except, Raises, Charged, others, held, TamperInv
<1>5. CASE Provenance
  <2>1. pinned["provenance"] = {} /\ pc = "provenance" /\ UNCHANGED <<source, tampered>>
        /\ pc' \in {"permission", "controllers"}
    BY <1>5 DEF Provenance, ReadProvenance, Passed, Except, Raises, Charged, others, TamperInv
  <2>2. CASE Except
    BY <1>1, <2>1, <2>2 DEF Except, Raises, Charged, held, TamperInv
  <2>3. CASE Pins("provenance")
    BY <1>1, <1>3, <2>1, <2>3 DEF Pins
  <2> QED
    BY <1>5, <2>2, <2>3 DEF Provenance
<1>6. CASE Permission
  BY <1>1, <1>6 DEF Permission, Passed, Except, Raises, Charged, others, held, TamperInv
<1>7. CASE SnapshotClient
  <2>1. pinned["client"] = {} /\ UNCHANGED <<source, tampered>> /\ pc' \in {"connect", "controllers"}
    BY <1>7 DEF SnapshotClient, Except, Raises, Charged, others, TamperInv
  <2>2. CASE Except
    BY <1>1, <2>1, <2>2 DEF Except, Raises, Charged, held, TamperInv
  <2>3. CASE Pins("client")
    BY <1>1, <1>3, <2>1, <2>3 DEF Pins
  <2> QED
    BY <1>7, <2>2, <2>3 DEF SnapshotClient
<1>8. CASE Handshake \/ World \/ ReadSettings \/ ApplySettings \/ ReadBack
  BY <1>2, <1>8 DEF Handshake, World, ReadSettings, ApplySettings, ReadBack, Passed, Except, Raises, Charged, others, held
<1>9. CASE Setup
  BY <1>2, <1>9 DEF Setup, Spawn, TrafficManagerSync, AttachTick, SetupCall, Doing, Continue, Except, Raises, Charged, others,
                    held
<1>10. CASE Baseline \/ LoopHead \/ WorldTick \/ ValidateSnapshot \/ MeasureActors \/ MeasureSensors \/ Judge
  BY <1>2, <1>10 DEF Baseline, LoopHead, WorldTick, ValidateSnapshot, MeasureActors, MeasureSensors, Judge, AfterTick,
                     Except, Raises, Charged, others, held
<1>11. CASE StopControllers \/ LeaveTrafficManagerSync \/ DisableAutopilot \/ DestroyActor \/ ActorsDone \/ RestoreSettings
  BY <1>2, <1>11 DEF StopControllers, LeaveTrafficManagerSync, DisableAutopilot, DestroyActor, ActorsDone,
                     RestoreSettings, others, held
<1>12. CASE Rehash
  <2>1. pc' = "write" /\ UNCHANGED <<source, tampered, pinned>>
    BY <1>12 DEF Rehash, others, held
  <2>2. ASSUME tampered PROVE \E c \in Common : checks'[c] = "FAIL"
    <3>1. PICK f \in Files : source[f] = 1 /\ pinned[f] = {0}
      BY <2>2 DEF TamperInv
    <3>2. \E v \in pinned[f] : v # source[f]
      BY <3>1
    <3>3. CheckOf(f) \in Common /\ CheckOf(f) \in CheckNames
      BY <1>1, Names DEF CheckOf, Common
    <3>4. checks'[CheckOf(f)] = "FAIL"
      BY <1>12, <3>2, <3>3 DEF Rehash
    <3> QED
      BY <3>3, <3>4
  <2> QED
    BY <1>1, <2>1, <2>2 DEF TamperInv
<1>13. CASE WriteReport
  BY <1>2, <1>13 DEF WriteReport, others, held
<1>14. CASE ForeignTick
  BY <1>1, <1>14 DEF ForeignTick, held, TamperInv
<1>15. CASE Rewrite
  <2>1. PICK f \in Files : /\ \A g \in Files : source[g] = 0
                           /\ source' = [source EXCEPT ![f] = 1] /\ tampered' = (pinned[f] # {})
    BY <1>15 DEF Rewrite
  <2>2. UNCHANGED <<pc, pinned, checks>> /\ pc \notin {"write", "done", "raised"} /\ source'[f] = 1
    BY <1>1, <1>15, <2>1 DEF Rewrite, held, Ends
  <2>3. tampered' => pinned[f] = {0}
    BY <2>1 DEF TamperInv
  <2> QED
    BY <2>1, <2>2, <2>3 DEF TamperInv
<1>16. CASE Interrupt
  BY <1>2, <1>16 DEF Interrupt, Except, Raises, Charged, others, held, TailPC, CleanupPC
<1>17. CASE UNCHANGED vars
  BY <1>17 DEF vars, held, history, TamperInv
<1> QED
  BY <1>4, <1>5, <1>6, <1>7, <1>8, <1>9, <1>10, <1>11, <1>12, <1>13, <1>14, <1>15, <1>16, <1>17 DEF Next, GateStep, Finished

\* A provenance file or client module that is replaced after run_gate has read it keeps the
\* report from passing, at whatever moment before the second hashing it happens.
THEOREM Untampered == Spec => []PassMeansUntampered
<1>1. Inv /\ ReportInv /\ TamperInv => PassMeansUntampered
  BY Names DEF Inv, TypeOK, ReportInv, TamperInv, PassMeansUntampered
<1> QED
  BY <1>1, InitReport, InitTamper, SpecInv, StepReport, StepTamper, PTL DEF Spec

--------------------------------------------------------------------------------
(* Ticks of somebody else.                                                 *)

\* A foreign tick puts the frame ahead of where the gate expects it, until a snapshot tells.
ExclusiveInv ==
    /\ pc \in PhasePC \cup {"baseline", "judge"} => intrusions = 0
    /\ pc \in {"head", "tick", "measure"} => frame >= previous /\ (intrusions > 0 => frame > previous)
    /\ pc = "snapshot" => frame >= ticked /\ ticked >= previous + 1 /\ (intrusions > 0 => frame > previous + 1)
    /\ pc = "measure" => (intrusions > 0 => index + 1 < Loops)
    /\ checks["ticks"] = "PASS" => intrusions = 0 /\ pc \notin TryPC

\* At the start nobody has ticked.
LEMMA InitExclusive == Init => ExclusiveInv
BY Names DEF Init, ExclusiveInv, Common

\* Only a snapshot that follows the last one without a gap lets the loop go on.
LEMMA StepExclusive == Inv /\ ExclusiveInv /\ [Next]_vars => ExclusiveInv'
<1> SUFFICES ASSUME Inv, ExclusiveInv, [Next]_vars PROVE ExclusiveInv'
  OBVIOUS
<1>1. /\ frame \in Nat /\ previous \in Nat /\ ticked \in Nat /\ index \in Nat /\ intrusions \in Nat /\ mode' = mode
      /\ mode \in Modes /\ Loops \in Nat /\ checks \in [CheckNames -> {"MISSING", "PASS", "FAIL"}] /\ "ticks" \in CheckNames
  <2>1. Warmup(mode) \in Nat
    BY TickAssumption, ModesAssumption DEF Warmup, Inv, TypeOK
  <2> QED
    BY <2>1, StepFinal, TickAssumption, Names DEF Inv, TypeOK, Loops, Common
<1>2. Loops' = Loops
  BY <1>1 DEF Loops
<1>3. ASSUME NEW check \in CheckNames, Charged(check), UNCHANGED intrusions PROVE ExclusiveInv'
  BY <1>1, <1>3 DEF Charged, Forget, ExclusiveInv, PhasePC, TryPC
<1>4. pc \in PhasePC => active \in CheckNames /\ active # "ticks" /\ intrusions = 0
  BY DEF Inv, TypeOK, ScriptInv, ExclusiveInv
<1>5. ASSUME NEW next \in PhasePC \cup {"baseline"}, pc \in PhasePC, pc' = next, UNCHANGED intrusions,
             checks' = checks \/ checks' = [checks EXCEPT ![active] = "PASS"]
      PROVE  ExclusiveInv'
  <2>1. pc \in TryPC
    BY <1>5 DEF PhasePC, TryPC
  <2>2. checks'["ticks"] # "PASS"
    BY <1>1, <1>4, <1>5, <2>1 DEF ExclusiveInv
  <2> QED
    BY <1>4, <1>5, <2>2 DEF ExclusiveInv, PhasePC
<1>6. CASE Environment \/ Provenance \/ Permission \/ SnapshotClient \/ Handshake
  BY <1>3, <1>4, <1>5, <1>6 DEF Environment, Provenance, Permission, SnapshotClient, Handshake,
                                ReadProvenance, Passed, Except, Raises, others, PhasePC
<1>7. CASE World \/ ReadSettings \/ ApplySettings \/ ReadBack
  BY <1>3, <1>4, <1>5, <1>7 DEF World, ReadSettings, ApplySettings, ReadBack, Passed, Except, Raises, others, PhasePC
<1>8. CASE Setup
  <2>1. pc = "setup" /\ UNCHANGED intrusions
    BY <1>8 DEF Setup, Spawn, TrafficManagerSync, AttachTick, SetupCall, Doing, others
  <2>2. \/ Raises
        \/ pc' \in {"setup", "baseline"} /\ (checks' = checks \/ checks' = [checks EXCEPT ![active] = "PASS"])
    BY <1>8, <2>1 DEF Setup, Spawn, TrafficManagerSync, AttachTick, SetupCall, Continue, Except
  <2> QED
    BY <1>3, <1>4, <1>5, <2>1, <2>2 DEF Raises, PhasePC
<1>9. active \in CheckNames
  BY DEF Inv, TypeOK
<1>10. ASSUME Except, UNCHANGED intrusions PROVE ExclusiveInv'
  BY <1>3, <1>9, <1>10 DEF Except, Raises
<1>11. ASSUME pc \in TryPC, pc' \in LoopPC, checks' = checks PROVE checks'["ticks"] # "PASS"
  BY <1>11 DEF ExclusiveInv
<1>12. CASE Baseline
  BY <1>1, <1>10, <1>11, <1>12 DEF Baseline, server, others, ExclusiveInv, PhasePC, LoopPC, TryPC
<1>13. CASE LoopHead
  BY <1>1, <1>3, <1>11, <1>13 DEF LoopHead, server, others, loop, ExclusiveInv, PhasePC, LoopPC, TryPC
<1>14. CASE WorldTick
  <2>1. pc = "tick" /\ UNCHANGED intrusions
    BY <1>14 DEF WorldTick, others
  <2>2. CASE frame' = frame + 1 /\ ticked' = frame + 1 /\ pc' = "snapshot" /\ UNCHANGED <<previous, checks>>
    BY <1>1, <1>11, <2>1, <2>2 DEF ExclusiveInv, PhasePC, LoopPC, TryPC
  <2> QED
    BY <1>10, <1>14, <2>1, <2>2 DEF WorldTick
<1>15. CASE ValidateSnapshot
  <2>1. CASE SnapshotOK /\ previous' = frame /\ pc' \in {"head", "judge", "measure"} /\ UNCHANGED <<checks, intrusions, frame>>
    <3>1. intrusions' = 0 /\ frame' = previous' /\ previous' \in Nat
      BY <1>1, <1>15, <2>1 DEF ValidateSnapshot, SnapshotOK, ExclusiveInv
    <3>2. checks'["ticks"] # "PASS"
      BY <1>11, <1>15, <2>1 DEF ValidateSnapshot, LoopPC, TryPC
    <3> QED
      BY <2>1, <3>1, <3>2 DEF ExclusiveInv, PhasePC
  <2> QED
    BY <1>10, <1>15, <2>1 DEF ValidateSnapshot, AfterTick, others, server
<1>16. CASE MeasureActors \/ MeasureSensors
  <2>1. CASE AfterTick(index + 1) /\ UNCHANGED <<checks, intrusions, frame, previous>>
    <3>1. pc = "measure" /\ pc' = IF index + 1 < Loops THEN "head" ELSE "judge"
      BY <1>16, <2>1 DEF MeasureActors, MeasureSensors, AfterTick
    <3> QED
      BY <1>1, <1>11, <2>1, <3>1 DEF ExclusiveInv, PhasePC, LoopPC, TryPC
  <2> QED
    BY <1>3, <1>10, <1>16, <2>1, Names DEF MeasureActors, MeasureSensors, PacketChecks, others, server, Common
<1>17. CASE Judge
  BY <1>1, <1>17 DEF Judge, others, ExclusiveInv, PhasePC, TryPC
<1>18. CASE StopControllers \/ LeaveTrafficManagerSync \/ DisableAutopilot \/ DestroyActor \/ ActorsDone \/ WriteReport
  BY <1>18 DEF StopControllers, LeaveTrafficManagerSync, DisableAutopilot, DestroyActor, ActorsDone, WriteReport,
               others, ExclusiveInv, PhasePC, TryPC
<1>19. CASE RestoreSettings \/ Rehash
  BY <1>1, <1>19 DEF RestoreSettings, Rehash, others, ExclusiveInv, PhasePC, TryPC
<1>20. CASE ForeignTick
  <2>1. frame' = frame + 1 /\ UNCHANGED <<pc, checks, previous, ticked, index>>
        /\ intrusions' = IF Watched THEN intrusions + 1 ELSE intrusions
    BY <1>20 DEF ForeignTick, loop
  <2>2. Watched => pc \in TryPC
    BY DEF Watched, TryPC
  <2> QED
    BY <1>1, <1>2, <2>1, <2>2 DEF Watched, ExclusiveInv, PhasePC, TryPC
<1>21. CASE Rewrite \/ UNCHANGED vars
  BY <1>2, <1>21 DEF Rewrite, vars, server, loop, history, ExclusiveInv
<1>22. CASE Interrupt
  BY <1>10, <1>22 DEF Interrupt, others, ExclusiveInv, PhasePC, TryPC
<1> QED
  BY <1>6, <1>7, <1>8, <1>12, <1>13, <1>14, <1>15, <1>16, <1>17, <1>18, <1>19, <1>20, <1>21, <1>22 DEF Next, GateStep, Finished

\* "Concurrent ticking is a gate failure": nobody else ticks between the baseline and the last
\* snapshot of a gate that passes, for any number of ticks of any length of run.
THEOREM Exclusive == Spec => []PassMeansExclusive
<1>1. Inv /\ ReportInv /\ ExclusiveInv => PassMeansExclusive
  BY Names DEF Inv, TypeOK, ReportInv, ExclusiveInv, PassMeansExclusive, Common
<1> QED
  BY <1>1, InitReport, InitExclusive, SpecInv, StepReport, StepExclusive, PTL DEF Spec

--------------------------------------------------------------------------------
(* What is given back.  A resource whose undo is never reached, because    *)
(* its call failed half way, has a failed check to answer for it; any other *)
(* is undone or has its undo's error.                                      *)

Failed == \E c \in Required(mode) : checks[c] = "FAIL"

Owned == {owned[i] : i \in 1 .. Len(owned)}

\* A failure of a required check is there to stay.
LEMMA FailedStays == Inv /\ [Next]_vars /\ Failed => Failed'
<1> SUFFICES ASSUME Inv, [Next]_vars, Failed PROVE Failed'
  OBVIOUS
<1>1. mode \in Modes /\ mode' = mode /\ Required(mode)' = Required(mode)
  BY StepFinal DEF Inv, TypeOK, Required
<1> QED
  BY <1>1, StepFinal, Names DEF Failed

\* An exception during the set-up fails a required check.
LEMMA RaisesFails == Inv /\ [Next]_vars /\ pc \in PhasePC /\ Raises => Failed'
<1> SUFFICES ASSUME Inv, [Next]_vars, pc \in PhasePC, Raises PROVE Failed'
  OBVIOUS
<1>1. mode \in Modes /\ Required(mode)' = Required(mode) /\ active \in Required(mode) /\ active \in CheckNames
  BY StepFinal DEF Inv, TypeOK, ScriptInv, Required
<1>2. checks'[active] = "FAIL"
  BY <1>1 DEF Raises, Charged, Inv, TypeOK
<1> QED
  BY <1>1, <1>2 DEF Failed

\* An actor that exists is owned, or its spawn failed; once its turn in the cleanup has
\* come it is gone, or its destroy is among the errors.
AliveInv ==
    /\ Failed \/ alive \subseteq Owned
    /\ pc = "actors" => \A i \in 1 .. Len(owned) : i > step /\ owned[i] \in alive => owned[i] \in undoErrors
    /\ pc \in {"settings", "rehash", "write", "done", "raised"} =>
          \A i \in 1 .. Len(owned) : owned[i] \in alive => owned[i] \in undoErrors

\* The settings differ only after an attempt to change them, and in the end only if their
\* undo failed; the cleanup check reports the errors.
SettingsInv ==
    /\ pc \in TryPC \cup CleanupPC => settings = "original" \/ attempted
    /\ pc \in {"rehash", "write", "done", "raised"} =>
          /\ settings # "original" => "settings" \in undoErrors
          /\ checks["cleanup"] = IF undoErrors = {} THEN "PASS" ELSE "FAIL"

\* The Traffic Manager is synchronous only with a handle to undo it by, or a failed set-up.
TrafficInv ==
    /\ tmSync => mode = "actors"
    /\ pc \in PhasePC \ {"setup"} => ~tmSync
    /\ pc \in LoopPC /\ tmSync => handles
    /\ pc \in {"controllers", "tm"} /\ tmSync => handles \/ Failed
    /\ pc \in {"autopilot", "actors", "settings", "rehash", "write", "done", "raised"} /\ tmSync => "tm" \in undoErrors \/ Failed

\* At the start nothing has been borrowed.
LEMMA InitReturn == Init => AliveInv /\ SettingsInv /\ TrafficInv
BY DEF Init, AliveInv, SettingsInv, TrafficInv, Owned, TryPC, CleanupPC, LoopPC

\* Every step keeps the actors accounted for.
LEMMA StepAlive == Inv /\ AliveInv /\ [Next]_vars => AliveInv'
<1> SUFFICES ASSUME Inv, AliveInv, [Next]_vars PROVE AliveInv'
  OBVIOUS
<1>1. Failed => Failed'
  BY FailedStays
<1>2. owned \in Seq(Actors) /\ Len(owned) \in Nat /\ step \in Nat
  BY DEF Inv, TypeOK
<1>3. ASSUME UNCHANGED <<alive, owned>>, pc' \notin {"actors", "settings", "rehash", "write", "done", "raised"} PROVE AliveInv'
  BY <1>1, <1>3 DEF AliveInv, Owned
<1>4. CASE Environment \/ Provenance \/ Permission \/ SnapshotClient \/ Handshake
  BY <1>3, <1>4 DEF Environment, Provenance, Permission, SnapshotClient, Handshake, ReadProvenance, Pins, Passed,
                    Except, Raises, Charged, server, held
<1>5. CASE World \/ ReadSettings \/ ApplySettings \/ ReadBack
  BY <1>3, <1>5 DEF World, ReadSettings, ApplySettings, ReadBack, Passed, Except, Raises, Charged, server, held
<1>6. ASSUME NEW a \in Actors, Spawn(a) PROVE AliveInv'
  <2>1. pc = "setup" /\ pc' \notin {"actors", "settings", "rehash", "write", "done", "raised"}
    BY <1>6 DEF Spawn, Doing, Continue, Except, Raises, Charged
  <2>2. CASE alive' = alive \cup {a} /\ owned' = Append(owned, a)
    <3>1. Owned' = Owned \cup {a}
      <4>1. Len(owned') = Len(owned) + 1 /\ owned'[Len(owned) + 1] = a /\ \A i \in 1 .. Len(owned) : owned'[i] = owned[i]
        BY <1>2, <1>6, <2>2
      <4> QED
        BY <1>2, <4>1 DEF Owned
    <3> QED
      BY <1>1, <2>1, <2>2, <3>1 DEF AliveInv
  <2>3. CASE Except
    <3>1. Failed'
      BY <2>1, <2>3, RaisesFails DEF Except, PhasePC
    <3> QED
      BY <2>1, <3>1 DEF AliveInv
  <2> QED
    BY <1>6, <2>2, <2>3 DEF Spawn
<1>7. CASE TrafficManagerSync \/ AttachTick \/ SetupCall
  BY <1>3, <1>7 DEF TrafficManagerSync, AttachTick, SetupCall, Doing, Continue, Except, Raises, Charged, server, held
<1>8. CASE Baseline \/ LoopHead \/ WorldTick \/ ValidateSnapshot \/ MeasureActors \/ MeasureSensors \/ Judge
  BY <1>3, <1>8 DEF Baseline, LoopHead, WorldTick, ValidateSnapshot, MeasureActors, MeasureSensors, Judge, AfterTick,
                    Except, Raises, Charged, server, held
<1>9. CASE StopControllers \/ LeaveTrafficManagerSync
  BY <1>3, <1>9 DEF StopControllers, LeaveTrafficManagerSync, server, held
<1>10. CASE DisableAutopilot
  BY <1>1, <1>2, <1>10 DEF DisableAutopilot, server, held, AliveInv, Owned
<1>11. CASE DestroyActor
  <2>1. alive' \subseteq alive /\ undoErrors \subseteq undoErrors' /\ (owned[step] \in alive' => owned[step] \in undoErrors')
    BY <1>11 DEF DestroyActor, Undo
  <2>2. step' = step - 1 /\ pc = "actors" /\ pc' = "actors" /\ UNCHANGED owned
    BY <1>11 DEF DestroyActor, held
  <2>3. ASSUME NEW i \in 1 .. Len(owned), i > step', owned[i] \in alive' PROVE owned[i] \in undoErrors'
    <3>1. i = step \/ i > step
      BY <1>2, <2>2, <2>3
    <3> QED
      BY <2>1, <2>2, <2>3, <3>1 DEF AliveInv
  <2> QED
    BY <1>1, <2>1, <2>2, <2>3 DEF AliveInv, Owned
<1>12. CASE ActorsDone
  BY <1>1, <1>2, <1>12 DEF ActorsDone, server, held, AliveInv, Owned
<1>13. CASE RestoreSettings
  BY <1>1, <1>13 DEF RestoreSettings, Undo, held, AliveInv, Owned
<1>14. CASE Rehash \/ WriteReport
  BY <1>1, <1>14 DEF Rehash, WriteReport, server, held, AliveInv, Owned
<1>15. CASE ForeignTick \/ Rewrite
  BY <1>1, <1>15 DEF ForeignTick, Rewrite, server, held, AliveInv, Owned
<1>16. CASE Interrupt
  BY <1>3, <1>16 DEF Interrupt, Except, Raises, Charged, server, held
<1>17. CASE UNCHANGED vars
  BY <1>1, <1>17 DEF vars, server, held, AliveInv, Owned
<1> QED
  BY <1>4, <1>5, <1>6, <1>7, <1>8, <1>9, <1>10, <1>11, <1>12, <1>13, <1>14, <1>15, <1>16, <1>17
  DEF Next, GateStep, Setup, Finished

\* Every step keeps the settings and the cleanup's verdict accounted for.
LEMMA StepSettings == Inv /\ SettingsInv /\ [Next]_vars => SettingsInv'
<1> SUFFICES ASSUME Inv, SettingsInv, [Next]_vars PROVE SettingsInv'
  OBVIOUS
<1>1. ASSUME UNCHANGED <<settings, attempted>>, pc' \notin {"rehash", "write", "done", "raised"},
             pc' \in TryPC \cup CleanupPC => pc \in TryPC \cup CleanupPC
      PROVE  SettingsInv'
  BY <1>1 DEF SettingsInv
<1>2. CASE Environment \/ Provenance \/ Permission \/ SnapshotClient \/ Handshake
  BY <1>1, <1>2 DEF Environment, Provenance, Permission, SnapshotClient, Handshake, ReadProvenance, Pins, Passed,
                    Except, Raises, Charged, server, held, TryPC
<1>3. CASE World \/ ReadSettings \/ ReadBack
  BY <1>1, <1>3 DEF World, ReadSettings, ReadBack, Passed, Except, Raises, Charged, server, held, TryPC
<1>4. CASE ApplySettings
  BY <1>4 DEF ApplySettings, Raises, Charged, SettingsInv
<1>5. CASE Setup
  BY <1>1, <1>5 DEF Setup, Spawn, TrafficManagerSync, AttachTick, SetupCall, Doing, Continue, Except, Raises, Charged,
                    server, held, TryPC
<1>6. CASE Baseline \/ LoopHead \/ WorldTick \/ ValidateSnapshot \/ MeasureActors \/ MeasureSensors \/ Judge
  BY <1>1, <1>6 DEF Baseline, LoopHead, WorldTick, ValidateSnapshot, MeasureActors, MeasureSensors, Judge, AfterTick,
                    Except, Raises, Charged, server, held, TryPC
<1>7. CASE StopControllers \/ LeaveTrafficManagerSync \/ DisableAutopilot \/ DestroyActor \/ ActorsDone
  BY <1>1, <1>7 DEF StopControllers, LeaveTrafficManagerSync, DisableAutopilot, DestroyActor, ActorsDone, server, held, CleanupPC
<1>8. CASE RestoreSettings
  <2>1. pc = "settings" /\ pc' = "rehash" /\ UNCHANGED attempted /\ (settings = "original" \/ attempted)
    BY <1>8 DEF RestoreSettings, SettingsInv, CleanupPC, held
  <2>2. settings' # "original" => "settings" \in undoErrors'
    BY <1>8, <2>1 DEF RestoreSettings, Undo
  <2>3. checks'["cleanup"] = IF undoErrors' = {} THEN "PASS" ELSE "FAIL"
    BY <1>8, Names DEF RestoreSettings, Inv, TypeOK, Common
  <2> QED
    BY <2>1, <2>2, <2>3 DEF SettingsInv, TryPC, CleanupPC
<1>9. CASE Rehash
  <2>1. pc = "rehash" /\ pc' = "write" /\ UNCHANGED <<settings, undoErrors>> 
    BY <1>9 DEF Rehash, server
  <2>2. checks'["cleanup"] = checks["cleanup"]
    <3>1. \A f \in Files : CheckOf(f) # "cleanup"
      BY DEF Files, CheckOf
    <3>2. "cleanup" \in CheckNames
      BY Names DEF Common
    <3> QED
      BY <1>9, <3>1, <3>2 DEF Rehash
  <2> QED
    BY <2>1, <2>2 DEF SettingsInv, TryPC, CleanupPC
<1>10. CASE WriteReport
  BY <1>10 DEF WriteReport, server, SettingsInv, TryPC, CleanupPC
<1>11. CASE ForeignTick \/ Rewrite \/ UNCHANGED vars
  BY <1>11 DEF ForeignTick, Rewrite, vars, server, held, SettingsInv
<1>12. CASE Interrupt
  BY <1>1, <1>12 DEF Interrupt, Except, Raises, Charged, server, held, TryPC, CleanupPC
<1> QED
  BY <1>2, <1>3, <1>4, <1>5, <1>6, <1>7, <1>8, <1>9, <1>10, <1>11, <1>12 DEF Next, GateStep, Finished

\* Every step keeps the Traffic Manager's mode accounted for.
LEMMA StepTraffic == Inv /\ TrafficInv /\ [Next]_vars => TrafficInv'
<1> SUFFICES ASSUME Inv, TrafficInv, [Next]_vars PROVE TrafficInv'
  OBVIOUS
<1>1. (Failed => Failed') /\ mode' = mode /\ (pc \in PhasePC /\ Raises => Failed')
  BY FailedStays, RaisesFails, StepFinal
<1>2. ASSUME UNCHANGED <<tmSync, handles>>, pc \in PhasePC \ {"setup"} PROVE TrafficInv'
  BY <1>1, <1>2 DEF TrafficInv
<1>3. CASE Environment \/ Provenance \/ Permission \/ SnapshotClient \/ Handshake
  BY <1>2, <1>3 DEF Environment, Provenance, Permission, SnapshotClient, Handshake, Pins, Except, server, held, PhasePC
<1>4. CASE World \/ ReadSettings \/ ApplySettings \/ ReadBack
  BY <1>2, <1>4 DEF World, ReadSettings, ApplySettings, ReadBack, Except, server, held, PhasePC
<1>5. CASE Setup
  <2>1. pc = "setup" /\ mode \in Modes /\ step \in 1 .. Len(Script(mode))
    BY <1>5 DEF Setup, Spawn, TrafficManagerSync, AttachTick, SetupCall, Doing, Inv, TypeOK, ScriptInv
  <2>2. tmSync' => mode = "actors"
    BY <1>5, <2>1, Scripts
    DEF Setup, Spawn, TrafficManagerSync, AttachTick, SetupCall, Doing, server, TrafficInv
  <2>3. CASE Continue
    <3>1. pc' = "setup" \/ (pc' = "baseline" /\ handles' = (mode = "actors"))
      BY <2>1, <2>3 DEF Continue
    <3> QED
      BY <1>1, <2>2, <3>1 DEF TrafficInv, PhasePC, LoopPC
  <2>4. CASE Except
    <3>1. Failed' /\ pc' = "controllers"
      BY <1>1, <2>1, <2>4 DEF Except, Raises, Charged, PhasePC
    <3> QED
      BY <1>1, <2>2, <3>1 DEF TrafficInv, PhasePC, LoopPC
  <2> QED
    BY <1>5, <2>3, <2>4 DEF Setup, Spawn, TrafficManagerSync, AttachTick, SetupCall
<1>6. ASSUME pc \in LoopPC, UNCHANGED <<tmSync, handles>>, pc' \in LoopPC \cup {"controllers"} PROVE TrafficInv'
  BY <1>1, <1>6 DEF TrafficInv, LoopPC, PhasePC
<1>7. CASE Baseline \/ LoopHead \/ WorldTick \/ ValidateSnapshot \/ MeasureActors \/ MeasureSensors \/ Judge
  BY <1>6, <1>7 DEF Baseline, LoopHead, WorldTick, ValidateSnapshot, MeasureActors, MeasureSensors, Judge, AfterTick,
                    Except, Raises, Charged, server, held, LoopPC
<1>8. CASE StopControllers
  BY <1>1, <1>8 DEF StopControllers, server, held, TrafficInv, PhasePC, LoopPC
<1>9. CASE LeaveTrafficManagerSync
  BY <1>1, <1>9 DEF LeaveTrafficManagerSync, Undo, TrafficInv, PhasePC, LoopPC
<1>10. CASE DisableAutopilot \/ DestroyActor \/ ActorsDone \/ RestoreSettings \/ Rehash \/ WriteReport
  <2>1. /\ UNCHANGED tmSync /\ undoErrors \subseteq undoErrors'
        /\ pc \in {"autopilot", "actors", "settings", "rehash", "write"}
        /\ pc' \in {"actors", "settings", "rehash", "write", "done", "raised"}
    BY <1>10 DEF DisableAutopilot, DestroyActor, ActorsDone, RestoreSettings, Rehash, WriteReport, Undo, server
  <2> QED
    BY <1>1, <2>1 DEF TrafficInv, PhasePC, LoopPC
<1>11. CASE ForeignTick \/ Rewrite \/ UNCHANGED vars
  BY <1>1, <1>11 DEF ForeignTick, Rewrite, vars, server, held, TrafficInv
<1>12. CASE Interrupt
  <2>1. UNCHANGED <<tmSync, handles>>
    BY <1>12 DEF Interrupt, Except, server, held
  <2>2. CASE pc' = "crashed"
    BY <1>1, <2>1, <2>2 DEF TrafficInv, PhasePC, LoopPC
  <2>3. CASE pc \in PhasePC /\ Raises
    BY <1>1, <2>1, <2>3 DEF Raises, Charged, TrafficInv, PhasePC, LoopPC
  <2>4. CASE pc \in LoopPC /\ Raises
    BY <1>6, <2>1, <2>4 DEF Raises, Charged
  <2> QED
    BY <1>12, <2>2, <2>3, <2>4 DEF Interrupt, Except, TryPC, PhasePC, LoopPC
<1> QED
  BY <1>3, <1>4, <1>5, <1>7, <1>8, <1>9, <1>10, <1>11, <1>12 DEF Next, GateStep, Finished

\* "settings and owned actors are restored/removed in finally": a gate that passes has given
\* back its settings, every actor it made and the Traffic Manager's mode.
THEOREM Returned == Spec => []PassMeansReturned
<1>1. Inv /\ ReportInv /\ AliveInv /\ SettingsInv /\ TrafficInv => PassMeansReturned
  <2> SUFFICES ASSUME Inv, ReportInv, AliveInv, SettingsInv, TrafficInv, report = "PASS"
               PROVE  settings = "original" /\ alive = {} /\ ~tmSync
    BY DEF PassMeansReturned
  <2>1. pc = "done" /\ ~Failed
    BY DEF ReportInv, Failed
  <2>2. checks["cleanup"] = "PASS"
    BY Names DEF Inv, TypeOK, ReportInv, Common
  <2>3. undoErrors = {}
    BY <2>1, <2>2 DEF SettingsInv
  <2> QED
    BY <2>1, <2>3 DEF AliveInv, SettingsInv, TrafficInv, Owned
<1> QED
  BY <1>1, InitReport, InitReturn, SpecInv, StepReport, StepAlive, StepSettings, StepTraffic, PTL DEF Spec

\* Each undo of the finally block is made whatever became of the one before it.
THEOREM Independent == Spec => []UndosAreIndependent
<1>1. AliveInv /\ SettingsInv => UndosAreIndependent
  BY DEF AliveInv, SettingsInv, UndosAreIndependent
<1> QED
  BY <1>1, InitReturn, SpecInv, StepAlive, StepSettings, PTL DEF Spec
================================================================================
