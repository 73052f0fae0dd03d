------------------------------ MODULE FaultCapture ------------------------------
(***************************************************************************)
(* The probe of the first fault (gdb_vulkan_fault_capture.py): it runs the *)
(* engine with one hook on failed checks, stops at the first one of the    *)
(* Vulkan RHI or at a fatal signal, and takes that thread's stack and the  *)
(* stacks of some others.  With tracing on, two more hooks keep the last   *)
(* pipeline binds and shader parameters in a ring.  Afterwards             *)
(* vulkan_fault_snapshot.py accepts the report or not, and looks in the    *)
(* ring for what led to the fault.                                         *)
(*                                                                         *)
(* gdb reports one stop at a time: what other threads run into while it    *)
(* suspends them stays unreported, and gdb never goes on after a stop.     *)
(***************************************************************************)
EXTENDS GdbSession, FiniteSetsExt

CONSTANTS Contexts,      \* the contexts of commands, each with its list and its shader
          MaxKept,       \* the ring, 256 in the code
          MaxTraced      \* the budget of traced events, 1000000 in the code

ASSUME LimitsAssumption == MaxKept \in Nat \ {0} /\ MaxTraced \in Nat

VARIABLES tracing,   \* CARLA_UE_FAULT_TRACE_GFX
          scene,     \* the engine: the last bind of each context, its first fault, its stop
          fault      \* CaptureState with fault-capture.json

faultVars == <<tracing, scene, fault>>

NoFault == [reason |-> "none"]

\* What a thread is doing when it faults, as far as its stack tells: it binds a uniform
\* buffer in a context, it is in the driver's compiler for a compute pipeline, or neither.
NoWork == "other"
Compiles == "compute"
\* A context is an address.
ASSUME ContextsAssumption == NoWork \notin Contexts /\ Compiles \notin Contexts

Work == Contexts \cup {Compiles, NoWork}

FaultInit ==
    /\ tracing \in BOOLEAN
    /\ scene = [bound |-> [c \in Contexts |-> 0], first |-> NoFault, stop |-> NoFault]
    /\ fault = [pending |-> NoFault, timer |-> TRUE, taken |-> NoFault, sampled |-> "nothing",
              shows |-> NoWork, errors |-> FALSE, traced |-> 0, kept |-> << >>, dropped |-> 0]

FaultWatches == Running("fault") /\ scene.stop = NoFault

\* A Vulkan check or a fatal signal, ever since.
IsFirst(event) == IF scene.first = NoFault THEN event ELSE scene.first

--------------------------------------------------------------------------------
(* The hooks.                                                              *)

\* FirstVulkanCheck.stop, at a check of the Vulkan RHI or of another file.
Notes(event, vulkan) ==
    /\ vulkan
    /\ fault' = [fault EXCEPT !.pending = event, !.timer = FALSE]
    /\ scene' = [scene EXCEPT !.stop = event, !.first = IsFirst(event)]

\* Not a Vulkan file: the engine goes on.
Passes(vulkan) == ~vulkan /\ UNCHANGED <<scene, fault>>

\* The arguments cannot be read, or the timer's SIGINT breaks in: gdb stops all the same.
Unread(event, vulkan) ==
    /\ fault' = [fault EXCEPT !.errors = TRUE]
    /\ scene' = [scene EXCEPT !.stop = [reason |-> "unread"], !.first = IF vulkan THEN IsFirst(event) ELSE @]

CheckFails(t, work, vulkan) ==
    /\ FaultWatches
    /\ LET event == [reason |-> "vulkan-check", thread |-> t, work |-> work] IN
       Notes(event, vulkan) \/ Passes(vulkan) \/ Unread(event, vulkan)
    /\ UNCHANGED <<tracing, gdbVars>>

\* GraphicsTrace.stop: the ring forgets the oldest.
Kept(event) == Append(IF Len(fault.kept) = MaxKept THEN Tail(fault.kept) ELSE fault.kept, event)

\* trace_bind_record and trace_parameters_record: of what they read, the kind and the
\* context's address are what trace_analysis joins the events by; stop() adds the number and
\* the thread.  "after", the bind in force, is the engine's and no field of the record.
TraceRecord(t, kind, context) ==
    [sequence |-> fault.traced + 1, thread |-> t, kind |-> kind, context |-> context, after |-> scene.bound[context]]

Traced(t, kind, context) ==
    /\ fault.traced < MaxTraced
    /\ fault' = [fault EXCEPT !.traced = @ + 1, !.kept = Kept(TraceRecord(t, kind, context)),
                              !.dropped = IF Len(fault.kept) = MaxKept THEN @ + 1 ELSE @]
    /\ scene' = IF kind = "bind" THEN [scene EXCEPT !.bound[context] = fault.traced + 1] ELSE scene

\* Parameters of another stage, or of a pipeline that has its pixel shader: no record.
Ignored(kind) == kind = "parameters" /\ UNCHANGED <<scene, fault>>

\* Over the budget, or unreadable: the observation ends.
Untraced ==
    /\ fault' = [fault EXCEPT !.errors = TRUE]
    /\ scene' = [scene EXCEPT !.stop = [reason |-> "unread"]]

GraphicsEvent(t, kind, context) ==
    /\ FaultWatches /\ tracing
    /\ Traced(t, kind, context) \/ Ignored(kind) \/ Untraced
    /\ UNCHANGED <<tracing, gdbVars>>

\* gdb keeps a signal of a thread; SIGSEGV, SIGABRT and SIGBUS are fatal.
Signalled(t, work, reason) ==
    /\ FaultWatches
    /\ LET event == [reason |-> reason, thread |-> t, work |-> work] IN
       scene' = [scene EXCEPT !.stop = event, !.first = IF reason = "fatal-signal" THEN IsFirst(event) ELSE @]
    /\ UNCHANGED <<tracing, fault, gdbVars>>

\* The timer's SIGINT.  One that was sent just before a check cancelled the timer stops gdb
\* while that check is pending, and stopped() goes by the check.
FaultTimeout ==
    /\ FaultWatches /\ fault.timer
    /\ fault' = [fault EXCEPT !.timer = FALSE]
    /\ \E t \in Threads, work \in Work :
          scene' = [scene EXCEPT !.stop = [reason |-> "observation-ended", thread |-> t, work |-> work]]
    /\ UNCHANGED <<tracing, gdbVars>>

--------------------------------------------------------------------------------
(* The capture.                                                            *)

\* graphics_record and compute_record, of the frames of the work on the stack: a record, or
\* an error where memory cannot be read.
Shown(work) == {work, NoWork}

\* CaptureState.capture, once: the stack of the thread gdb has selected comes first; then the samples of up to eight threads; that thread's
\* is one of them if it can be read.
Capture(reason, selected, work) ==
    LET taken == [reason |-> reason, thread |-> selected, work |-> work] IN
    IF fault.taken # NoFault THEN UNCHANGED fault
    ELSE \E sampled \in {"nothing", "others", "fault_thread"}, shows \in Shown(work) :
            fault' = [fault EXCEPT !.taken = taken, !.timer = FALSE, !.sampled = sampled, !.shows = shows,
                                   !.errors = @ \/ sampled # "fault_thread"]

\* stopped, the event that comes when all threads are suspended; then run returns.
Stopped ==
    /\ Running("fault") /\ scene.stop # NoFault
    /\ IF fault.pending # NoFault THEN Capture("vulkan-check", scene.stop.thread, scene.stop.work)
       ELSE IF scene.stop.reason \in {"fatal-signal", "observation-ended"}
            THEN Capture(scene.stop.reason, scene.stop.thread, scene.stop.work)
       ELSE UNCHANGED fault
    /\ Stops(TRUE) /\ UNCHANGED <<tracing, scene, probe>>

\* The engine ends by itself.
FaultUeExits == FaultWatches /\ Stops(TRUE) /\ UNCHANGED <<tracing, scene, fault, probe>>

\* finish(): an observation that ended otherwise is captured too, if threads are left.
FinishFault ==
    /\ Finishing("fault")
    /\ IF scene.stop # NoFault
       THEN \E t \in Threads, work \in Work : Capture("observation-ended", t, work)
       ELSE fault' = [fault EXCEPT !.timer = FALSE]
    /\ session' = "done" /\ UNCHANGED <<tracing, scene, probe>>

FaultNext ==
    \/ \E t \in Threads, work \in Work :
          \/ \E vulkan \in BOOLEAN : CheckFails(t, work, vulkan)
          \/ \E reason \in {"fatal-signal", "other-signal"} : Signalled(t, work, reason)
    \/ \E t \in Threads, kind \in {"bind", "parameters"}, context \in Contexts : GraphicsEvent(t, kind, context)
    \/ FaultTimeout \/ Stopped \/ FaultUeExits \/ FinishFault

--------------------------------------------------------------------------------
(* vulkan_fault_snapshot.py, over the report.                              *)

\* The trace is the last of the events, in their order, and counts the others.
TraceAccounts ==
    /\ Len(fault.kept) <= MaxKept /\ fault.traced = Len(fault.kept) + fault.dropped
    /\ \A i \in 1 .. Len(fault.kept) : fault.kept[i].sequence = fault.dropped + i

AcceptsFault ==
    /\ fault.taken.reason \in {"vulkan-check", "fatal-signal"}
    /\ fault.sampled = "fault_thread"
    /\ TraceAccounts

\* Whether the stack has the binding of a uniform buffer of the graphics, or a compute
\* call with the compiler of the driver above it.
FaultBucket ==
    IF fault.shows \in Contexts THEN "ue-graphics-binding"
    ELSE IF fault.shows = Compiles THEN "nvidia-compute-compiler"
    ELSE "unclassified"

\* The events of the ring of a kind and a context.
KeptOf(kind, context) == {i \in DOMAIN fault.kept : fault.kept[i].kind = kind /\ fault.kept[i].context = context}

\* trace_analysis: the parameters for what the fault thread was binding, the last of which
\* count, and the binds of their context before.
Parameters == {i \in KeptOf("parameters", fault.shows) : fault.kept[i].thread = fault.taken.thread}

\* Mutant of BindsBefore: a bind after the parameters is taken
BindsOfContext(parameter) == KeptOf("bind", parameter.context)

BindsBefore(parameter) ==
    {i \in KeptOf("bind", parameter.context) : fault.kept[i].sequence < parameter.sequence}

LastOf(events) == fault.kept[Max(events)]

Correlated == Parameters # {} /\ BindsBefore(LastOf(Parameters)) # {}

--------------------------------------------------------------------------------
\* "first Vulkan check or fatal signal": an accepted report is of the first one and of the
\* thread that ran into it; its bucket is of what that thread did; and the bind that it
\* correlates with the fault is the one in force when the thread set its parameters.
FaultIsFirst ==
    probe = "fault" /\ Ended /\ AcceptsFault =>
        /\ fault.taken = scene.first
        /\ FaultBucket = "ue-graphics-binding" => scene.first.work \in Contexts
        /\ FaultBucket = "nvidia-compute-compiler" => scene.first.work = Compiles
        /\ Correlated => LastOf(BindsBefore(LastOf(Parameters))).sequence = LastOf(Parameters).after
================================================================================
