----------------------------- MODULE PipelineCapture -----------------------------
(***************************************************************************)
(* The probe of Vulkan pipeline creation (gdb_vulkan_pipeline_capture.py): *)
(* hooks at the entry and the return of API calls follow what every handle *)
(* stands for, until the compute call in question is there with its        *)
(* inputs.  vulkan_pipeline_snapshot.py then accepts the capture or not.   *)
(*                                                                         *)
(* Threads create and destroy objects at the same time, and the driver     *)
(* gives a handle out again once its object is destroyed; destruction is   *)
(* not hooked.  Shader modules stand for all objects that a compute call   *)
(* refers to, and a module's content is the number of its creation.        *)
(***************************************************************************)
EXTENDS GdbSession

CONSTANTS Handles,        \* the handles that the driver has to give
          MaxObjects,     \* the budget of hooked creations, 512 in the code
          MaxCalls,       \* the budget of compute calls, 128 in the code
          MaxMade         \* bound: objects that are created

VARIABLES mode,       \* stop at the target's entry, after it, or at a crash
          gpu,        \* the engine's threads and the driver
          state,      \* CaptureState
          files       \* pipeline-capture.json and device-create.json

pipelineVars == <<mode, gpu, state, files>>

Unknown == 0
InUe == [at |-> "ue", of |-> 0]

Modes == {"entry", "observe", "crash"}

NoFile == [whole |-> FALSE]

PipelineInit ==
    /\ mode \in Modes
    /\ gpu = [step |-> "instance", thread |-> [t \in Threads |-> InUe], live |-> [h \in Handles |-> Unknown],
              made |-> 0, crashed |-> Unknown, left |-> {}]
    /\ state = [modules |-> [h \in Handles |-> Unknown], objects |-> 0, calls |-> << >>, target |-> 0,
                errors |-> FALSE, instance |-> FALSE, timer |-> TRUE]
    /\ files = [pipeline |-> NoFile, device |-> "none"]

PipelineCaptures == Running("pipeline")

\* write(): straight into the file.
Saves(new) ==
    /\ state' = new
    /\ files' = [files EXCEPT !.pipeline =
                   [whole |-> TRUE, capture_complete |-> new.target # 0 /\ ~new.errors,
                    calls |-> new.calls, target_call |-> new.target]]

\* A hook that finds anything it does not know stops the run, with the error noted.
Refuses ==
    /\ Saves([state EXCEPT !.errors = TRUE])
    /\ Stops(TRUE) /\ UNCHANGED <<mode, gpu, probe>>

Goes(t, at, of) == [gpu EXCEPT !.thread[t] = [at |-> at, of |-> of]]

In(t, at) == gpu.thread[t].at = at

--------------------------------------------------------------------------------
(* The device, and the hooks that wait for it.                             *)

Setup(step, next) ==
    /\ PipelineCaptures /\ gpu.step = step
    /\ \A t \in Threads : In(t, "ue")
    /\ gpu' = [gpu EXCEPT !.step = next]
    /\ UNCHANGED <<mode, gdbVars>>

\* instance_state, once its parts could be read.
InstanceRead == state' = [state EXCEPT !.instance = TRUE] /\ UNCHANGED files

InstanceEntry ==
    \/ Setup("instance", "device") /\ InstanceRead
    \/ PipelineCaptures /\ gpu.step = "instance" /\ Refuses

\* vulkan_device_snapshot.validate: the instance is needed; the engine decides on the rest.
Validates(supported) == state.instance /\ supported

\* device_state and save: complete if it validates, with the instance in it.
DeviceSaved ==
    /\ \E supported \in BOOLEAN :
          files' = [files EXCEPT !.device = IF Validates(supported) THEN "good" ELSE "bad"]
    /\ UNCHANGED state

DeviceEntry ==
    \/ Setup("device", "formats") /\ DeviceSaved
    \/ PipelineCaptures /\ gpu.step = "device" /\ Refuses

\* FVulkanDevice::SetupFormats: the API's pointers are known, and are hooked.  It is part
\* of the device's initialisation, so no other call is under way.
SetupEntry ==
    \/ Setup("formats", "hooked") /\ Saves(state)
    \/ PipelineCaptures /\ gpu.step = "formats" /\ Refuses

Hooked == gpu.step = "hooked"

--------------------------------------------------------------------------------
(* Creation and destruction.                                               *)

\* ApiEntry.stop of a create call: the content of the info is kept until it returns.
CreateEntry(t) ==
    /\ PipelineCaptures /\ gpu.step \in {"formats", "hooked"}
    /\ In(t, "ue") /\ gpu.made < MaxMade
    /\ LET made == gpu.made + 1 IN
       \/ /\ ~Hooked \/ state.objects < MaxObjects
          /\ gpu' = [Goes(t, "create", made) EXCEPT !.made = made]
          /\ state' = IF Hooked THEN [state EXCEPT !.objects = @ + 1] ELSE state
          /\ UNCHANGED <<mode, files, gdbVars>>
       \/ Hooked /\ Refuses

\* Created.stop: the driver has given a handle.
Created(t) ==
    /\ PipelineCaptures /\ In(t, "create")
    /\ \E h \in Handles :
        /\ gpu.live[h] = Unknown
        /\ LET content == gpu.thread[t].of IN
            /\ gpu' = [Goes(t, "ue", 0) EXCEPT !.live[h] = content]
            /\ IF Hooked THEN Saves([state EXCEPT !.modules[h] = content]) ELSE UNCHANGED <<state, files>>
    /\ UNCHANGED <<mode, gdbVars>>

\* The call fails, or its frame is gone without a return.
CreateFails(t) ==
    /\ PipelineCaptures /\ In(t, "create")
    /\ gpu' = Goes(t, "ue", 0)
    /\ IF Hooked
       THEN /\ Saves([state EXCEPT !.errors = TRUE])
            /\ \E returned \in BOOLEAN : Stops(returned)
       ELSE UNCHANGED <<state, files, session>>
    /\ UNCHANGED <<mode, probe>>

Destroy(h) ==
    /\ PipelineCaptures /\ gpu.live[h] # Unknown
    /\ \A t \in Threads : In(t, "compute") => state.calls[gpu.thread[t].of].handle # h
    /\ gpu' = [gpu EXCEPT !.live[h] = Unknown]
    /\ UNCHANGED <<mode, state, files, gdbVars>>

--------------------------------------------------------------------------------
(* Compute calls.                                                          *)

Record(t, h, target) ==
    [thread |-> t, handle |-> h, module |-> state.modules[h], real |-> gpu.live[h], returned |-> FALSE,
     target |-> target]

\* ApiEntry.compute.  (A stack is the target's, or it is not.)
ComputeEntry(t, h) ==
    /\ PipelineCaptures /\ Hooked /\ In(t, "ue") /\ gpu.live[h] # Unknown
    /\ \/ /\ state.modules[h] # Unknown /\ Len(state.calls) < MaxCalls
          /\ \E target \in BOOLEAN :
              LET k == Len(state.calls) + 1
                  selected == target /\ mode # "crash"
                  last == selected /\ mode = "entry"
              IN  /\ Saves([state EXCEPT !.calls = Append(@, Record(t, h, target)),
                                         !.target = IF selected THEN k ELSE @,
                                         !.timer = @ /\ ~last])
                  /\ gpu' = Goes(t, "compute", k)
                  /\ Stops(last)
          /\ UNCHANGED <<mode, probe>>
       \/ Refuses

\* ComputeReturned.stop, which ends the run after the target.
ComputeReturned(t) ==
    /\ PipelineCaptures /\ In(t, "compute")
    /\ LET k == gpu.thread[t].of
           last == state.calls[k].target /\ mode = "observe"
       IN  /\ Saves([state EXCEPT !.calls[k].returned = TRUE, !.timer = @ /\ ~last])
           /\ Stops(last)
    /\ gpu' = Goes(t, "ue", 0)
    /\ UNCHANGED <<mode, probe>>

\* The frame of a compute call is gone without a return, which ComputeReturned does not look
\* at: the call stays pending.
ComputeVanishes(t) ==
    /\ PipelineCaptures /\ In(t, "compute")
    /\ gpu' = [Goes(t, "ue", 0) EXCEPT !.left = @ \cup {gpu.thread[t].of}]
    /\ UNCHANGED <<mode, state, files, gdbVars>>

--------------------------------------------------------------------------------
(* The end of the run.                                                     *)

\* Mutant of Pending: the calls of all threads are pending
PendingAnywhere(t) == {k \in 1 .. Len(state.calls) : ~state.calls[k].returned}

\* The calls of the thread that have not come back.
Pending(t) == {k \in 1 .. Len(state.calls) : state.calls[k].thread = t /\ ~state.calls[k].returned}

\* A fatal signal in a thread; signal_stop takes its pending call, in the mode for it.
Crash(t) ==
    /\ PipelineCaptures
    /\ gpu' = [gpu EXCEPT !.crashed = IF In(t, "compute") THEN gpu.thread[t].of ELSE Unknown, !.step = "crashed"]
    /\ Saves(IF mode = "crash" /\ Pending(t) # {}
             THEN [state EXCEPT !.target = CHOOSE k \in Pending(t) : \A other \in Pending(t) : other <= k]
             ELSE state)
    /\ Stops(TRUE) /\ UNCHANGED <<mode, probe>>

\* The timer's SIGINT, unless it was cancelled; or the engine is gone.
PipelineTimeout == PipelineCaptures /\ state.timer /\ Saves(state) /\ Stops(TRUE) /\ UNCHANGED <<mode, gpu, probe>>

UeExits == PipelineCaptures /\ Stops(TRUE) /\ UNCHANGED <<mode, gpu, state, files, probe>>

FinishPipeline ==
    /\ Finishing("pipeline")
    /\ Saves([state EXCEPT !.timer = FALSE])
    /\ session' = "done" /\ UNCHANGED <<mode, gpu, probe>>

PipelineNext ==
    \/ InstanceEntry \/ DeviceEntry \/ SetupEntry
    \/ \E t \in Threads : CreateEntry(t) \/ Created(t) \/ CreateFails(t)
    \/ \E t \in Threads : ComputeReturned(t) \/ ComputeVanishes(t) \/ Crash(t)
    \/ \E t \in Threads, h \in Handles : ComputeEntry(t, h)
    \/ \E h \in Handles : Destroy(h)
    \/ PipelineTimeout \/ UeExits \/ FinishPipeline

\* A kill while the file is being written leaves a part of it.
PipelineKilled ==
    /\ files' \in {files, [files EXCEPT !.pipeline = NoFile]}
    /\ UNCHANGED <<mode, gpu, state>>

--------------------------------------------------------------------------------
\* vulkan_pipeline_snapshot.validate: a complete capture without errors, a target that is
\* one of its calls and has the target in its stack, and a complete device.
Accepts ==
    /\ files.pipeline.whole /\ files.pipeline.capture_complete
    /\ files.device = "good"

--------------------------------------------------------------------------------
\* An accepted capture is of the call in question, with the content that its handle had
\* then: the call in whose driver code the thread crashed, or one of the target.  Where the
\* thread crashed in none, it is a call that had vanished, and so was still pending.
AcceptedIsTheCall ==
    probe = "pipeline" /\ Ended /\ Accepts =>
        LET call == files.pipeline.calls[files.pipeline.target_call] IN
        /\ call.module = call.real
        /\ IF mode # "crash" THEN call.target
           ELSE IF gpu.crashed # Unknown THEN files.pipeline.target_call = gpu.crashed
           ELSE files.pipeline.target_call \in gpu.left
================================================================================
